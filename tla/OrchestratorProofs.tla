------------------------- MODULE OrchestratorProofs -------------------------
(***************************************************************************)
(* TLAPS proofs about Orchestrator, for every number of runs, dogs, ticks  *)
(* and attempts, and for either wiring of the client.                      *)
(***************************************************************************)
EXTENDS Orchestrator, TLAPS

-----------------------------------------------------------------------------
(* Types.                                                                  *)

(* Emptying the registry and terminating what was in it.                   *)
LEMMA PopAllType ==
  ASSUME TypeOK, PopAllClients
  PROVE  /\ sandbox_clients' \in [Names -> Sandboxes \cup {NoEntry, Creating}]
         /\ claim' \in [Sandboxes -> ClaimState]
BY DEF TypeOK, PopAllClients, ClaimState

(* A creator moves to another point of its task.                           *)
LEMMA PcType ==
  ASSUME TypeOK, NEW t \in Creators, NEW pc \in CreatorPC
  PROVE  At(t, pc) \in [Creators -> [at : CreatorPC, attempt : 0 .. MaxAttempts]]
BY DEF TypeOK, At

(* The sandbox a creator waits for or probes is one of its own.            *)
LEMMA CurrentType ==
  ASSUME TypeOK, AttemptsInRange,
         NEW t \in Creators, creator[t].at \in {"creating", "probing"}
  PROVE  Current(t) \in Sandboxes /\ Current(t)[1] = t
<1>1. creator[t].attempt \in 1 .. MaxAttempts
  BY OrchestratorAssumption DEF TypeOK, AttemptsInRange
<1>2. QED
  BY <1>1 DEF Current, Sandbox, Sandboxes

(* The except block of create_sandbox_for_dog.                             *)
LEMMA AttemptFailsType ==
  ASSUME TypeOK, NEW t \in Creators, AttemptFails(t)
  PROVE  /\ sandbox_clients' \in [Names -> Sandboxes \cup {NoEntry, Creating}]
         /\ creator' \in [Creators -> [at : CreatorPC, attempt : 0 .. MaxAttempts]]
BY DEF TypeOK, AttemptFails, At, CreatorPC

(* A turn of the populate loop.                                            *)
LEMMA AddNextDogType ==
  ASSUME TypeOK, NEW r \in Runs, AddNextDog(r)
  PROVE  /\ todo' \in [Runs -> SUBSET Names]
         /\ dogs' \subseteq Names
         /\ sandbox_clients' \in [Names -> Sandboxes \cup {NoEntry, Creating}]
         /\ creator' \in [Creators -> [at : CreatorPC, attempt : 0 .. MaxAttempts]]
         /\ run' \in [Runs -> RunPC]
         /\ tick_count' = tick_count /\ names' = names /\ claim' = claim
<1>1. PICK n \in todo[r] :
        /\ todo' = [todo EXCEPT ![r] = @ \ {n}]
        /\ dogs' = dogs \cup {n}
        /\ \/ /\ sandbox_clients' = [sandbox_clients EXCEPT ![n] = Creating]
              /\ creator' = [creator EXCEPT ![<<r, n>>] = [at |-> "new", attempt |-> 0]]
           \/ UNCHANGED <<sandbox_clients, creator>>
        /\ run' = [run EXCEPT ![r] = "populating"]
        /\ UNCHANGED <<tick_count, names, claim>>
  BY DEF AddNextDog
<1>2. n \in Names
  BY DEF TypeOK
<1>3. [at |-> "new", attempt |-> 0] \in [at : CreatorPC, attempt : 0 .. MaxAttempts]
  BY OrchestratorAssumption DEF CreatorPC
<1>4. <<r, n>> \in Creators
  BY <1>2 DEF Creators
<1>5. todo' \in [Runs -> SUBSET Names] /\ dogs' \subseteq Names
  BY <1>1, <1>2 DEF TypeOK
<1>6. sandbox_clients' \in [Names -> Sandboxes \cup {NoEntry, Creating}]
  BY <1>1, <1>2 DEF TypeOK
<1>7. creator' \in [Creators -> [at : CreatorPC, attempt : 0 .. MaxAttempts]]
  BY <1>1, <1>3, <1>4 DEF TypeOK
<1>8. run' \in [Runs -> RunPC]
  BY <1>1 DEF TypeOK, RunPC
<1>9. QED
  BY <1>1, <1>5, <1>6, <1>7, <1>8

(* Every action keeps the shape of the state.                              *)
LEMMA TypeStep ==
  ASSUME TypeOK, AttemptsInRange, [Next]_vars
  PROVE  TypeOK'
<1> USE OrchestratorAssumption DEF bootVars, simVars, runVars, Serving
<1>1. CASE Import
  BY <1>1 DEF Import, TypeOK
<1>2. CASE Startup
  BY <1>2 DEF Startup, TypeOK
<1>3. CASE Shutdown
  BY <1>3 DEF Shutdown, TypeOK
<1>4. ASSUME NEW r \in Runs, NEW chosen \in NameChoices, StartSimulation(r, chosen)
      PROVE  TypeOK'
  <2>1. chosen \subseteq Names
    BY DEF Names
  <2>2. PopAllClients
    BY <1>4 DEF StartSimulation
  <2>3. QED
    BY <1>4, <2>1, <2>2, PopAllType DEF StartSimulation, TypeOK, RunPC
<1>5. CASE StopSimulation
  BY <1>5 DEF StopSimulation, TypeOK
<1>6. ASSUME NEW r \in Runs, RunBegin(r)
      PROVE  TypeOK'
  <2>1. AddNextDog(r)
    BY <1>6 DEF RunBegin
  <2>2. QED
    BY <1>6, <2>1, AddNextDogType DEF RunBegin, TypeOK
<1>7. ASSUME NEW r \in Runs, Populate(r)
      PROVE  TypeOK'
  <2>1. AddNextDog(r)
    BY <1>7 DEF Populate
  <2>2. QED
    BY <1>7, <2>1, AddNextDogType DEF Populate, TypeOK
<1>8. ASSUME NEW r \in Runs, RunTick(r)
      PROVE  TypeOK'
  BY <1>8 DEF RunTick, TickLoopGoesOn, TypeOK, RunPC
<1>9. ASSUME NEW r \in Runs, LeaveAtOnce(r)
      PROVE  TypeOK'
  <2>1. PopAllClients
    BY <1>9 DEF LeaveAtOnce, Finalise
  <2>2. QED
    BY <1>9, <2>1, PopAllType DEF LeaveAtOnce, Finalise, TypeOK, RunPC
<1>10. ASSUME NEW r \in Runs, CancelMonitor(r)
       PROVE  TypeOK'
  BY <1>10 DEF CancelMonitor, TypeOK, RunPC
<1>11. ASSUME NEW r \in Runs, FinishCancelled(r)
       PROVE  TypeOK'
  <2>1. PopAllClients
    BY <1>11 DEF FinishCancelled, Finalise
  <2>2. QED
    BY <1>11, <2>1, PopAllType DEF FinishCancelled, Finalise, TypeOK, RunPC
<1>12. ASSUME NEW r \in Runs, MonitorReturns(r)
       PROVE  TypeOK'
  BY <1>12 DEF MonitorReturns, TypeOK
<1>13. ASSUME NEW t \in Creators, CreatorStep(t)
       PROVE  TypeOK'
  <2>1. t[2] \in Names /\ creator[t] \in [at : CreatorPC, attempt : 0 .. MaxAttempts]
    BY DEF Creators, TypeOK
  <2>2. CASE Attempt(t)
    <3>1. creator[t].attempt + 1 \in 0 .. MaxAttempts
      BY <2>1, <2>2 DEF Attempt, AttemptsInRange
    <3>2. [at |-> "creating", attempt |-> creator[t].attempt + 1]
            \in [at : CreatorPC, attempt : 0 .. MaxAttempts]
      BY <3>1 DEF CreatorPC
    <3>3. creator' \in [Creators -> [at : CreatorPC, attempt : 0 .. MaxAttempts]]
      BY <2>2, <3>2 DEF Attempt, TypeOK
    <3>4. sandbox_clients' \in [Names -> Sandboxes \cup {NoEntry, Creating}]
      BY <2>1, <2>2 DEF Attempt, TypeOK
    <3>5. claim' \in [Sandboxes -> ClaimState]
      BY <2>2 DEF Attempt, TypeOK, ClaimState
    <3>6. QED
      BY <2>2, <3>3, <3>4, <3>5 DEF Attempt, TypeOK
  <2>3. CASE CreateFails(t)
    BY <2>3, AttemptFailsType DEF CreateFails, TypeOK, ClaimState
  <2>4. CASE CreateReturns(t)
    <3>1. /\ sandbox_clients' \in [Names -> Sandboxes \cup {NoEntry, Creating}]
          /\ creator' \in [Creators -> [at : CreatorPC, attempt : 0 .. MaxAttempts]]
      <4>1. CASE sandbox_clients[t[2]] = Creating
        BY <2>1, <2>4, <4>1, PcType DEF CreateReturns, TypeOK, CreatorPC
      <4>2. CASE sandbox_clients[t[2]] # Creating
        BY <2>4, <4>2, AttemptFailsType DEF CreateReturns
      <4>3. QED
        BY <4>1, <4>2
    <3>2. claim' \in [Sandboxes -> ClaimState]
      BY <2>4 DEF CreateReturns, TypeOK, ClaimState
    <3>3. QED
      BY <2>4, <3>1, <3>2 DEF CreateReturns, TypeOK
  <2>5. CASE ProbeSucceeds(t)
    <3>1. Current(t) \in Sandboxes
      BY <2>1, <2>5, CurrentType DEF ProbeSucceeds
    <3>2. sandbox_clients' \in [Names -> Sandboxes \cup {NoEntry, Creating}]
      BY <2>1, <2>5, <3>1 DEF ProbeSucceeds, TypeOK
    <3>3. creator' \in [Creators -> [at : CreatorPC, attempt : 0 .. MaxAttempts]]
      BY <2>5, PcType DEF ProbeSucceeds, CreatorPC
    <3>4. QED
      BY <2>5, <3>2, <3>3 DEF ProbeSucceeds, TypeOK
  <2>6. CASE ProbeFails(t)
    BY <2>6, AttemptFailsType DEF ProbeFails, TypeOK
  <2>7. QED
    BY <1>13, <2>2, <2>3, <2>4, <2>5, <2>6 DEF CreatorStep
<1>14. ASSUME NEW s \in Sandboxes, Terminate(s)
       PROVE  TypeOK'
  BY <1>14 DEF Terminate, TypeOK, ClaimState
<1>15. CASE UNCHANGED vars
  BY <1>15 DEF vars, TypeOK
<1>16. CASE ResetWarmpool
  BY <1>16 DEF ResetWarmpool, Reset, TypeOK, ClaimState
<1>17. QED
  BY <1>1, <1>2, <1>3, <1>4, <1>5, <1>6, <1>7, <1>8, <1>9, <1>10, <1>11,
     <1>12, <1>13, <1>14, <1>15, <1>16 DEF Next, RunStep

-----------------------------------------------------------------------------
(* What emptying the registry does to the sandboxes in use.                *)

(* A sandbox that a working creator is called after is not registered, so  *)
(* it is not among those terminated.                                       *)
LEMMA PopAllSpares ==
  ASSUME TypeOK, AttemptsInRange, RegisteredByTheDone, PopAllClients,
         NEW t \in Creators, creator[t].at \in {"creating", "probing"}
  PROVE  claim'[Current(t)] = claim[Current(t)]
<1>1. Current(t) \in Sandboxes /\ Current(t)[1] = t
  BY CurrentType
<1>2. Current(t) \notin Registered
  BY <1>1 DEF Registered, RegisteredByTheDone
<1>3. QED
  BY <1>1, <1>2 DEF PopAllClients

(* With an empty registry the invariants of its entries hold.              *)
LEMMA PopAllSafe ==
  ASSUME TypeOK, AttemptsInRange, CreatingIsPending, RegisteredByTheDone,
         InUseIsNotReleased, PopAllClients, UNCHANGED creator
  PROVE  /\ CreatingIsPending' /\ RegisteredByTheDone' /\ InUseIsNotReleased'
         /\ PendingEntryHasACreator'
<1>1. \A n \in Names : sandbox_clients'[n] = NoEntry
  BY DEF PopAllClients
<1>2. Registered' = {}
  BY <1>1, OrchestratorAssumption DEF Registered
<1>3. \A t \in Creators : Current(t)' = Current(t)
  BY DEF Current
<1>4. \A t \in Creators :
        creator'[t].at \in {"creating", "probing"} => claim'[Current(t)'] = claim[Current(t)]
  BY <1>3, PopAllSpares
<1>5. InUseIsNotReleased'
  BY <1>2, <1>4 DEF InUseIsNotReleased
<1>6. CreatingIsPending'
  BY <1>4 DEF CreatingIsPending
<1>7. RegisteredByTheDone' /\ PendingEntryHasACreator'
  BY <1>1, OrchestratorAssumption DEF RegisteredByTheDone, PendingEntryHasACreator
<1>8. QED
  BY <1>5, <1>7, <1>6

-----------------------------------------------------------------------------
(* The populate loop.                                                      *)

(* A turn of it disturbs no creator that exists and no sandbox in use.     *)
LEMMA AddNextDogSafe ==
  ASSUME OrchestratorInv, NEW r \in Runs, run[r] # "none", AddNextDog(r)
  PROVE  /\ AttemptsInRange' /\ CreatingIsPending' /\ CreatorsAreFresh' /\ RegisteredByTheDone'
         /\ InUseIsNotReleased' /\ PendingEntryHasACreator'
<1> USE OrchestratorAssumption
<1>1. PICK n \in todo[r] :
        /\ todo' = [todo EXCEPT ![r] = @ \ {n}]
        /\ \/ /\ sandbox_clients' = [sandbox_clients EXCEPT ![n] = Creating]
              /\ creator' = [creator EXCEPT ![<<r, n>>] = [at |-> "new", attempt |-> 0]]
           \/ UNCHANGED <<sandbox_clients, creator>>
        /\ run' = [run EXCEPT ![r] = "populating"]
        /\ UNCHANGED claim
  BY DEF AddNextDog
<1>2. n \in Names /\ <<r, n>> \in Creators /\ creator[<<r, n>>].at = "none"
  BY DEF OrchestratorInv, TypeOK, Creators, CreatorsAreFresh
<1>3. \A t \in Creators \ {<<r, n>>} : creator'[t] = creator[t]
  BY <1>1, <1>2 DEF OrchestratorInv, TypeOK
<1>4. creator'[<<r, n>>] = creator[<<r, n>>]
        \/ creator'[<<r, n>>] = [at |-> "new", attempt |-> 0]
  BY <1>1, <1>2 DEF OrchestratorInv, TypeOK
<1>5. \A m \in Names : sandbox_clients'[m] \in Sandboxes =>
                         sandbox_clients'[m] = sandbox_clients[m]
  BY <1>1, <1>2 DEF OrchestratorInv, TypeOK
<1>6. AttemptsInRange'
  BY <1>2, <1>3, <1>4 DEF AttemptsInRange, OrchestratorInv
<1>7. CreatingIsPending'
  <2>1. ASSUME NEW t \in Creators, creator'[t].at = "creating"
        PROVE  claim'[Current(t)'] \in {"pending", "wiped"}
    <3>1. creator'[t] = creator[t]
      BY <1>2, <1>3, <1>4, <2>1
    <3>2. QED
      BY <1>1, <2>1, <3>1 DEF OrchestratorInv, CreatingIsPending, Current
  <2>2. QED
    BY <2>1 DEF CreatingIsPending
<1>8. CreatorsAreFresh'
  <2>1. ASSUME NEW q \in Runs, NEW m \in Names, run'[q] = "none" \/ m \in todo'[q]
        PROVE  creator'[<<q, m>>].at = "none"
    <3>1. run[q] = "none" \/ m \in todo[q]
      BY <1>1, <2>1 DEF OrchestratorInv, TypeOK
    <3>2. creator[<<q, m>>].at = "none" /\ <<q, m>> \in Creators
      BY <3>1 DEF OrchestratorInv, CreatorsAreFresh, Creators
    <3>3. <<q, m>> # <<r, n>>
      BY <1>1, <2>1 DEF OrchestratorInv, TypeOK
    <3>4. QED
      BY <1>3, <3>2, <3>3
  <2>2. QED
    BY <2>1 DEF CreatorsAreFresh
<1>9. RegisteredByTheDone'
  <2>1. ASSUME NEW m \in Names, sandbox_clients'[m] \in Sandboxes
        PROVE  creator'[sandbox_clients'[m][1]].at = "done"
    <3>1. sandbox_clients'[m] = sandbox_clients[m]
      BY <1>5, <2>1
    <3>2. creator[sandbox_clients[m][1]].at = "done"
      BY <2>1, <3>1 DEF OrchestratorInv, RegisteredByTheDone
    <3>3. sandbox_clients[m][1] \in Creators \ {<<r, n>>}
      BY <1>2, <2>1, <3>1, <3>2 DEF Sandboxes
    <3>4. QED
      BY <1>3, <3>1, <3>2, <3>3
  <2>2. QED
    BY <2>1 DEF RegisteredByTheDone
<1>10. InUseIsNotReleased'
  <2>1. ASSUME NEW s \in Registered'
        PROVE  claim'[s] \in {"live", "wiped"}
    <3>1. s \in Registered
      BY <1>5, <2>1 DEF Registered
    <3>2. QED
      BY <1>1, <3>1 DEF OrchestratorInv, InUseIsNotReleased
  <2>2. ASSUME NEW t \in Creators, creator'[t].at = "probing"
        PROVE  claim'[Current(t)'] \in {"live", "wiped"}
    <3>1. creator'[t] = creator[t]
      BY <1>2, <1>3, <1>4, <2>2
    <3>2. QED
      BY <1>1, <2>2, <3>1 DEF OrchestratorInv, InUseIsNotReleased, Current
  <2>3. QED
    BY <2>1, <2>2 DEF InUseIsNotReleased
<1>11. PendingEntryHasACreator'
  <2>1. CASE UNCHANGED <<sandbox_clients, creator>>
    BY <2>1 DEF OrchestratorInv, PendingEntryHasACreator
  <2>2. CASE /\ sandbox_clients' = [sandbox_clients EXCEPT ![n] = Creating]
             /\ creator' = [creator EXCEPT ![<<r, n>>] = [at |-> "new", attempt |-> 0]]
    <3>1. ASSUME NEW m \in Names, sandbox_clients'[m] = Creating
          PROVE  \E q \in Runs :
                   creator'[<<q, m>>].at \in {"new", "creating", "probing", "backoff"}
      <4>1. creator'[<<r, n>>].at = "new"
        BY <1>2, <2>2 DEF OrchestratorInv, TypeOK
      <4>2. CASE m = n
        BY <4>1, <4>2
      <4>3. CASE m # n
        <5>1. sandbox_clients[m] = Creating
          BY <2>2, <3>1, <4>3 DEF OrchestratorInv, TypeOK
        <5>2. PICK q \in Runs :
                creator[<<q, m>>].at \in {"new", "creating", "probing", "backoff"}
          BY <5>1 DEF OrchestratorInv, PendingEntryHasACreator
        <5>3. <<q, m>> \in Creators \ {<<r, n>>}
          BY <4>3 DEF Creators
        <5>4. QED
          BY <1>3, <5>2, <5>3
      <4>4. QED
        BY <4>2, <4>3
    <3>2. QED
      BY <3>1 DEF PendingEntryHasACreator
  <2>3. QED
    BY <1>1, <2>1, <2>2
<1>12. QED
  BY <1>6, <1>8, <1>9, <1>10, <1>11, <1>7

-----------------------------------------------------------------------------
(* create_sandbox_for_dog.                                                 *)

(* What a segment of a creator may change: itself, the entry of its dog    *)
(* and the claim of its current sandbox.                                   *)
LEMMA CreatorShape ==
  ASSUME OrchestratorInv, NEW t \in Creators, CreatorStep(t)
  PROVE  /\ \A u \in Creators \ {t} : creator'[u] = creator[u]
         /\ \A m \in Names \ {t[2]} : sandbox_clients'[m] = sandbox_clients[m]
         /\ creator[t].at \in {"new", "creating", "probing", "backoff"}
         /\ creator'[t].at \in {"creating", "probing", "backoff", "done"}
         /\ creator'[t].at = "creating" =>
              creator'[t].attempt >= 1 /\ claim'[Current(t)'] = "pending"
         /\ creator'[t].at = "backoff" => creator'[t].attempt < MaxAttempts
         /\ creator'[t].at = "probing" =>
              /\ creator'[t].attempt = creator[t].attempt
              /\ creator[t].at = "creating"
              /\ claim'[Current(t)] \in {"live", "wiped"}
         /\ \/ /\ sandbox_clients'[t[2]] = sandbox_clients[t[2]]
               /\ creator'[t].at # "done"
            \/ sandbox_clients'[t[2]] = Creating /\ creator'[t].at = "creating"
            \/ sandbox_clients'[t[2]] = NoEntry
            \/ /\ sandbox_clients'[t[2]] = Current(t)
               /\ creator[t].at = "probing"
               /\ creator'[t].at = "done"
               /\ UNCHANGED claim
         /\ \A s \in Sandboxes : s[1] # t => claim'[s] = claim[s]
         /\ UNCHANGED <<is_running, run, todo>>
<1> USE OrchestratorAssumption DEF simVars, runVars
<1>1. t[2] \in Names /\ creator[t] \in [at : CreatorPC, attempt : 0 .. MaxAttempts]
  BY DEF OrchestratorInv, Creators, TypeOK
<1>2. CASE Attempt(t)
  <2>1. creator'[t] = [at |-> "creating", attempt |-> creator[t].attempt + 1]
    BY <1>2 DEF Attempt, OrchestratorInv, TypeOK
  <2>2. creator[t].attempt \in Nat /\ creator[t].attempt + 1 \in 1 .. MaxAttempts
    BY <1>1, <1>2 DEF Attempt, OrchestratorInv, AttemptsInRange
  <2>3. Current(t)' = Sandbox(t, creator[t].attempt + 1) /\ Current(t)' \in Sandboxes
    BY <2>1, <2>2 DEF Current, Sandbox, Sandboxes
  <2>4. Current(t)'[1] = t
    BY <2>3 DEF Sandbox
  <2>5. claim'[Current(t)'] = "pending"
    BY <1>2, <2>3 DEF Attempt, OrchestratorInv, TypeOK
  <2>6. \A s \in Sandboxes : s[1] # t => claim'[s] = claim[s]
    BY <1>2, <2>3, <2>4 DEF Attempt, OrchestratorInv, TypeOK
  <2>7. QED
    BY <1>1, <1>2, <2>1, <2>2, <2>5, <2>6 DEF Attempt, OrchestratorInv, TypeOK
<1>3. ASSUME AttemptFails(t)
      PROVE  /\ \A u \in Creators \ {t} : creator'[u] = creator[u]
             /\ \A m \in Names \ {t[2]} : sandbox_clients'[m] = sandbox_clients[m]
             /\ creator'[t].attempt = creator[t].attempt
             /\ \/ /\ creator'[t].at = "backoff" /\ creator[t].attempt < MaxAttempts
                   /\ sandbox_clients'[t[2]] = sandbox_clients[t[2]]
                \/ /\ creator'[t].at = "done"
                   /\ sandbox_clients'[t[2]] = NoEntry
  BY <1>1, <1>3 DEF AttemptFails, At, OrchestratorInv, TypeOK
<1>4. CASE CreateFails(t)
  <2>1. Current(t)[1] = t
    BY <1>4, CurrentType DEF CreateFails, OrchestratorInv
  <2>2. \A s \in Sandboxes : s[1] # t => claim'[s] = claim[s]
    BY <1>4, <2>1 DEF CreateFails, OrchestratorInv, TypeOK
  <2>3. QED
    BY <1>3, <1>4, <2>2 DEF CreateFails
<1>5. CASE CreateReturns(t)
  <2>1. Current(t) \in Sandboxes /\ Current(t)[1] = t
    BY <1>5, CurrentType DEF CreateReturns, OrchestratorInv
  <2>2. /\ claim'[Current(t)] \in {"live", "wiped"}
        /\ \A s \in Sandboxes : s[1] # t => claim'[s] = claim[s]
    BY <1>5, <2>1 DEF CreateReturns, OrchestratorInv, TypeOK, CreatingIsPending
  <2>3. CASE sandbox_clients[t[2]] = Creating
    BY <1>1, <1>5, <2>2, <2>3 DEF CreateReturns, At, OrchestratorInv, TypeOK
  <2>4. CASE sandbox_clients[t[2]] # Creating
    BY <1>3, <1>5, <2>2, <2>4 DEF CreateReturns
  <2>5. QED
    BY <2>3, <2>4
<1>6. CASE ProbeSucceeds(t)
  BY <1>1, <1>6 DEF ProbeSucceeds, At, OrchestratorInv, TypeOK
<1>7. CASE ProbeFails(t)
  BY <1>3, <1>7 DEF ProbeFails
<1>8. QED
  BY <1>2, <1>4, <1>5, <1>6, <1>7 DEF CreatorStep

(* A segment of a creator keeps every invariant of the creators.           *)
LEMMA CreatorStepSafe ==
  ASSUME OrchestratorInv, NEW t \in Creators, CreatorStep(t)
  PROVE  /\ AttemptsInRange' /\ CreatingIsPending' /\ CreatorsAreFresh' /\ RegisteredByTheDone'
         /\ InUseIsNotReleased' /\ PendingEntryHasACreator'
<1> USE OrchestratorAssumption
<1>1. t[1] \in Runs /\ t[2] \in Names /\ t = <<t[1], t[2]>>
  BY DEF Creators
<1>2. AttemptsInRange'
  BY CreatorShape DEF AttemptsInRange, OrchestratorInv
<1>3. CreatingIsPending'
  <2>1. ASSUME NEW u \in Creators, creator'[u].at = "creating"
        PROVE  claim'[Current(u)'] \in {"pending", "wiped"}
    <3>1. CASE u = t
      BY <2>1, <3>1, CreatorShape
    <3>2. CASE u # t
      <4>1. creator'[u] = creator[u] /\ Current(u)' = Current(u)
        BY <3>2, CreatorShape DEF Current
      <4>2. /\ claim[Current(u)] \in {"pending", "wiped"}
            /\ Current(u) \in Sandboxes /\ Current(u)[1] = u
        BY <2>1, <4>1, CurrentType DEF OrchestratorInv, CreatingIsPending
      <4>3. QED
        BY <3>2, <4>1, <4>2, CreatorShape
    <3>3. QED
      BY <3>1, <3>2
  <2>2. QED
    BY <2>1 DEF CreatingIsPending
<1>4. CreatorsAreFresh'
  <2>1. ASSUME NEW r \in Runs, NEW n \in Names, run'[r] = "none" \/ n \in todo'[r]
        PROVE  creator'[<<r, n>>].at = "none"
    <3>1. creator[<<r, n>>].at = "none" /\ <<r, n>> \in Creators
      BY <2>1, CreatorShape DEF OrchestratorInv, CreatorsAreFresh, Creators
    <3>2. <<r, n>> # t
      BY <3>1, CreatorShape
    <3>3. QED
      BY <3>1, <3>2, CreatorShape
  <2>2. QED
    BY <2>1 DEF CreatorsAreFresh
<1>5. \/ Current(t) \in Sandboxes /\ Current(t)[1] = t
      \/ creator[t].at \notin {"creating", "probing"}
  BY CurrentType DEF OrchestratorInv
<1>6. ASSUME NEW m \in Names, sandbox_clients'[m] \in Sandboxes
      PROVE  /\ creator'[sandbox_clients'[m][1]].at = "done"
             /\ claim'[sandbox_clients'[m]] \in {"live", "wiped"}
  <2>1. CASE sandbox_clients'[m] = sandbox_clients[m]
    <3>1. creator[sandbox_clients[m][1]].at = "done" /\ sandbox_clients[m] \in Registered
      BY <1>6, <2>1 DEF OrchestratorInv, RegisteredByTheDone, Registered
    <3>2. sandbox_clients[m][1] \in Creators \ {t}
      BY <1>6, <2>1, <3>1, CreatorShape DEF Sandboxes
    <3>3. claim[sandbox_clients[m]] \in {"live", "wiped"}
      BY <3>1 DEF OrchestratorInv, InUseIsNotReleased
    <3>4. creator'[sandbox_clients[m][1]] = creator[sandbox_clients[m][1]]
      BY <3>2, CreatorShape
    <3>5. claim'[sandbox_clients[m]] = claim[sandbox_clients[m]]
      BY <1>6, <2>1, <3>2, CreatorShape
    <3>6. QED
      BY <2>1, <3>1, <3>3, <3>4, <3>5
  <2>2. CASE sandbox_clients'[m] # sandbox_clients[m]
    <3>1. /\ m = t[2] /\ sandbox_clients'[m] = Current(t)
          /\ creator[t].at = "probing" /\ creator'[t].at = "done"
      BY <1>6, <2>2, CreatorShape
    <3>2. UNCHANGED claim
      BY <2>2, <3>1, CreatorShape, OrchestratorAssumption, <1>6
    <3>3. QED
      BY <1>5, <3>1, <3>2 DEF OrchestratorInv, InUseIsNotReleased
  <2>3. QED
    BY <2>1, <2>2
<1>7. RegisteredByTheDone'
  BY <1>6 DEF RegisteredByTheDone
<1>8. InUseIsNotReleased'
  <2>1. ASSUME NEW s \in Registered'
        PROVE  claim'[s] \in {"live", "wiped"}
    BY <1>6, <2>1 DEF Registered
  <2>2. ASSUME NEW u \in Creators, creator'[u].at = "probing"
        PROVE  claim'[Current(u)'] \in {"live", "wiped"}
    <3>1. CASE u = t
      BY <2>2, <3>1, CreatorShape DEF Current
    <3>2. CASE u # t
      <4>1. creator'[u] = creator[u] /\ Current(u)' = Current(u)
        BY <3>2, CreatorShape DEF Current
      <4>2. /\ claim[Current(u)] \in {"live", "wiped"}
            /\ Current(u) \in Sandboxes /\ Current(u)[1] = u
        BY <2>2, <4>1, CurrentType DEF OrchestratorInv, InUseIsNotReleased
      <4>3. QED
        BY <3>2, <4>1, <4>2, CreatorShape
    <3>3. QED
      BY <3>1, <3>2
  <2>3. QED
    BY <2>1, <2>2 DEF InUseIsNotReleased
<1>9. PendingEntryHasACreator'
  <2>1. ASSUME NEW m \in Names, sandbox_clients'[m] = Creating
        PROVE  \E q \in Runs :
                 creator'[<<q, m>>].at \in {"new", "creating", "probing", "backoff"}
    <3>1. CASE m = t[2] /\ creator'[t].at # "done"
      BY <1>1, <3>1, CreatorShape
    <3>2. CASE m = t[2] /\ creator'[t].at = "done"
      <4>1. sandbox_clients'[m] = NoEntry \/ sandbox_clients'[m] \in Sandboxes
        BY <1>5, <3>2, CreatorShape
      <4>2. QED
        BY <2>1, <4>1
    <3>3. CASE m # t[2]
      <4>1. sandbox_clients[m] = Creating
        BY <2>1, <3>3, CreatorShape
      <4>2. PICK q \in Runs :
              creator[<<q, m>>].at \in {"new", "creating", "probing", "backoff"}
        BY <4>1 DEF OrchestratorInv, PendingEntryHasACreator
      <4>3. <<q, m>> \in Creators \ {t}
        BY <1>1, <3>3 DEF Creators
      <4>4. QED
        BY <4>2, <4>3, CreatorShape
    <3>4. QED
      BY <3>1, <3>2, <3>3
  <2>2. QED
    BY <2>1 DEF PendingEntryHasACreator
<1>10. QED
  BY <1>2, <1>4, <1>7, <1>8, <1>9, <1>3

-----------------------------------------------------------------------------
(* Every step.                                                             *)

(* Nothing of what the invariants of the creators read has changed.        *)
LEMMA CreatorsUndisturbed ==
  ASSUME OrchestratorInv, UNCHANGED <<sandbox_clients, creator, claim, todo>>,
         \A r \in Runs : run'[r] = "none" => run[r] = "none"
  PROVE  /\ AttemptsInRange' /\ CreatingIsPending' /\ CreatorsAreFresh' /\ RegisteredByTheDone'
         /\ InUseIsNotReleased' /\ PendingEntryHasACreator'
BY DEF OrchestratorInv, AttemptsInRange, CreatingIsPending, CreatorsAreFresh,
       RegisteredByTheDone, InUseIsNotReleased, PendingEntryHasACreator, Registered, Current

(* A run ends: the flag falls and the registry is emptied.                 *)
LEMMA FinaliseSafe ==
  ASSUME OrchestratorInv, NEW r \in Runs, run[r] # "none", Finalise(r)
  PROVE  /\ AttemptsInRange' /\ CreatingIsPending' /\ CreatorsAreFresh' /\ RegisteredByTheDone'
         /\ InUseIsNotReleased' /\ PendingEntryHasACreator' /\ RunningMeansARun'
<1>1. PopAllClients /\ UNCHANGED <<creator, todo>> /\ ~is_running'
  BY DEF Finalise
<1>2. \A q \in Runs : run'[q] = "none" => run[q] = "none"
  BY DEF Finalise, OrchestratorInv, TypeOK
<1>3. AttemptsInRange' /\ CreatorsAreFresh'
  BY <1>1, <1>2 DEF OrchestratorInv, AttemptsInRange, CreatorsAreFresh
<1>4. /\ CreatingIsPending' /\ RegisteredByTheDone' /\ InUseIsNotReleased'
      /\ PendingEntryHasACreator'
  BY <1>1, PopAllSafe DEF OrchestratorInv
<1>5. QED
  BY <1>1, <1>3, <1>4 DEF RunningMeansARun

(* Only claims change, and those in use stay in use or are wiped.          *)
LEMMA ClaimsKept ==
  ASSUME OrchestratorInv, TypeOK',
         UNCHANGED <<is_running, run, todo, sandbox_clients, creator>>,
         \A u \in Sandboxes : claim[u] \in {"pending", "live", "wiped"} =>
                              claim'[u] = claim[u] \/ claim'[u] = "wiped"
  PROVE  OrchestratorInv'
<1>1. \A t \in Creators : creator[t].at \in {"creating", "probing"} =>
                          Current(t) \in Sandboxes /\ Current(t)' = Current(t)
  BY CurrentType DEF OrchestratorInv, Current
<1>2. InUseIsNotReleased' /\ CreatingIsPending'
  BY <1>1 DEF OrchestratorInv, InUseIsNotReleased, CreatingIsPending, Registered
<1>3. QED
  BY <1>2 DEF OrchestratorInv, AttemptsInRange, CreatorsAreFresh,
     RegisteredByTheDone, PendingEntryHasACreator, RunningMeansARun

(* The invariant of the task system is inductive.                          *)
LEMMA OrchestratorStep ==
  ASSUME OrchestratorInv, [Next]_vars
  PROVE  OrchestratorInv'
<1> USE DEF bootVars, simVars, runVars, Serving
<1>1. TypeOK'
  BY TypeStep DEF OrchestratorInv
<1>2. CASE Import \/ Startup \/ Shutdown \/ UNCHANGED vars
  <2>1. UNCHANGED <<is_running, run, sandbox_clients, creator, claim, todo>>
    BY <1>2 DEF Import, Startup, Shutdown, vars
  <2>2. RunningMeansARun'
    BY <2>1 DEF OrchestratorInv, RunningMeansARun
  <2>3. QED
    BY <1>1, <2>1, <2>2, CreatorsUndisturbed DEF OrchestratorInv
<1>3. ASSUME NEW r \in Runs, NEW chosen \in NameChoices, StartSimulation(r, chosen)
      PROVE  OrchestratorInv'
  <2>1. /\ run[r] = "none" /\ PopAllClients /\ ~is_running
        /\ UNCHANGED <<is_running, creator>>
        /\ run' = [run EXCEPT ![r] = "created"]
        /\ todo' = [todo EXCEPT ![r] = chosen]
    BY <1>3 DEF StartSimulation
  <2>2. CreatorsAreFresh'
    <3>1. ASSUME NEW q \in Runs, NEW n \in Names, run'[q] = "none" \/ n \in todo'[q]
          PROVE  creator'[<<q, n>>].at = "none"
      <4>1. run[q] = "none" \/ n \in todo[q]
        BY <2>1, <3>1 DEF OrchestratorInv, TypeOK
      <4>2. QED
        BY <2>1, <4>1 DEF OrchestratorInv, CreatorsAreFresh
    <3>2. QED
      BY <3>1 DEF CreatorsAreFresh
  <2>3. AttemptsInRange' /\ RunningMeansARun'
    BY <2>1 DEF OrchestratorInv, AttemptsInRange, RunningMeansARun
  <2>4. /\ CreatingIsPending' /\ RegisteredByTheDone' /\ InUseIsNotReleased'
        /\ PendingEntryHasACreator'
    BY <2>1, PopAllSafe DEF OrchestratorInv
  <2>5. QED
    BY <1>1, <2>2, <2>3, <2>4 DEF OrchestratorInv
<1>4. CASE StopSimulation
  <2>1. UNCHANGED <<run, sandbox_clients, creator, claim, todo>> /\ ~is_running'
    BY <1>4 DEF StopSimulation
  <2>2. RunningMeansARun'
    BY <2>1 DEF RunningMeansARun
  <2>3. QED
    BY <1>1, <2>1, <2>2, CreatorsUndisturbed DEF OrchestratorInv
<1>5. ASSUME NEW r \in Runs, RunBegin(r) \/ Populate(r)
      PROVE  OrchestratorInv'
  <2>1. run[r] # "none" /\ AddNextDog(r)
    BY <1>5 DEF RunBegin, Populate
  <2>2. run'[r] = "populating"
    BY <2>1 DEF AddNextDog, OrchestratorInv, TypeOK
  <2>3. RunningMeansARun'
    BY <2>2 DEF RunningMeansARun
  <2>4. QED
    BY <1>1, <2>1, <2>3, AddNextDogSafe DEF OrchestratorInv
<1>6. ASSUME NEW r \in Runs, RunTick(r) \/ CancelMonitor(r)
      PROVE  OrchestratorInv'
  <2>1. /\ UNCHANGED <<sandbox_clients, creator, claim, todo>>
        /\ \/ run' = [run EXCEPT ![r] = "ticking"]
           \/ run' = [run EXCEPT ![r] = "cancelling"]
    BY <1>6 DEF RunTick, CancelMonitor
  <2>2. \A q \in Runs : run'[q] = "none" => run[q] = "none"
    BY <2>1 DEF OrchestratorInv, TypeOK
  <2>3. run'[r] \in {"ticking", "cancelling"}
    BY <2>1 DEF OrchestratorInv, TypeOK
  <2>4. RunningMeansARun'
    BY <2>3 DEF RunningMeansARun
  <2>5. QED
    BY <1>1, <2>1, <2>2, <2>4, CreatorsUndisturbed DEF OrchestratorInv
<1>7. ASSUME NEW r \in Runs, LeaveAtOnce(r) \/ FinishCancelled(r)
      PROVE  OrchestratorInv'
  <2>1. run[r] # "none" /\ Finalise(r)
    BY <1>7 DEF LeaveAtOnce, FinishCancelled, AtTickLoop
  <2>2. QED
    BY <1>1, <2>1, FinaliseSafe DEF OrchestratorInv
<1>8. ASSUME NEW r \in Runs, MonitorReturns(r)
      PROVE  OrchestratorInv'
  <2>1. UNCHANGED <<is_running, run, sandbox_clients, creator, claim, todo>>
    BY <1>8 DEF MonitorReturns
  <2>2. RunningMeansARun'
    BY <2>1 DEF OrchestratorInv, RunningMeansARun
  <2>3. QED
    BY <1>1, <2>1, <2>2, CreatorsUndisturbed DEF OrchestratorInv
<1>9. ASSUME NEW t \in Creators, CreatorStep(t)
      PROVE  OrchestratorInv'
  <2>1. RunningMeansARun'
    BY <1>9, CreatorShape DEF OrchestratorInv, RunningMeansARun
  <2>2. QED
    BY <1>1, <1>9, <2>1, CreatorStepSafe DEF OrchestratorInv
<1>10. ASSUME NEW s \in Sandboxes, Terminate(s)
       PROVE  OrchestratorInv'
  <2>1. /\ UNCHANGED <<is_running, run, todo, sandbox_clients, creator>>
        /\ \A u \in Sandboxes :
             claim[u] \in {"pending", "live", "wiped"} => claim'[u] = claim[u]
    BY <1>10 DEF Terminate, OrchestratorInv, TypeOK
  <2>2. QED
    BY <1>1, <2>1, ClaimsKept
<1>11. CASE ResetWarmpool
  <2>1. /\ UNCHANGED <<is_running, run, todo, sandbox_clients, creator>>
        /\ \A u \in Sandboxes :
             claim[u] \in {"pending", "live", "wiped"} => claim'[u] = "wiped"
    BY <1>11 DEF ResetWarmpool, Reset, OrchestratorInv, TypeOK
  <2>2. QED
    BY <1>1, <2>1, ClaimsKept
<1>12. QED
  BY <1>2, <1>3, <1>4, <1>5, <1>6, <1>7, <1>8, <1>9, <1>10, <1>11 DEF Next, RunStep

(* OrchestratorInv is inductive: for any number of runs that overlap and   *)
(* share names, no creator tries more often than max_retries or starts     *)
(* twice, what it waits for is there or was wiped, what is registered has  *)
(* a creator that is done, and the three properties below hold.            *)
THEOREM OrchestratorInvariant == Spec => []OrchestratorInv
<1>1. Init => OrchestratorInv
  <2>1. ASSUME Init
        PROVE  TypeOK
    <3>1. creator \in [Creators -> [at : CreatorPC, attempt : 0 .. MaxAttempts]]
      <4>1. [at |-> "none", attempt |-> 0] \in [at : CreatorPC, attempt : 0 .. MaxAttempts]
        BY OrchestratorAssumption DEF CreatorPC
      <4>2. QED
        BY <2>1, <4>1 DEF Init
    <3>2. tick_count \in 0 .. NumTicks
      BY <2>1, OrchestratorAssumption DEF Init
    <3>3. /\ sandbox_clients \in [Names -> Sandboxes \cup {NoEntry, Creating}]
          /\ names \in [Runs -> SUBSET Names] /\ todo \in [Runs -> SUBSET Names]
          /\ dogs \subseteq Names
      BY <2>1 DEF Init
    <3>4. /\ run \in [Runs -> RunPC]
          /\ monitor \in [Runs -> {"none", "live", "cancelled", "done"}]
          /\ claim \in [Sandboxes -> ClaimState]
      BY <2>1 DEF Init, RunPC, ClaimState
    <3>5. QED
      BY <2>1, <3>1, <3>2, <3>3, <3>4 DEF Init, TypeOK
  <2>2. ASSUME Init
        PROVE  /\ AttemptsInRange /\ CreatingIsPending /\ CreatorsAreFresh /\ RegisteredByTheDone
               /\ InUseIsNotReleased /\ RunningMeansARun /\ PendingEntryHasACreator
    BY <2>2, OrchestratorAssumption
       DEF Init, AttemptsInRange, CreatingIsPending, CreatorsAreFresh, RegisteredByTheDone, Creators,
           InUseIsNotReleased, RunningMeansARun, PendingEntryHasACreator, Registered
  <2>3. QED
    BY <2>1, <2>2 DEF OrchestratorInv
<1>2. QED
  BY <1>1, OrchestratorStep, PTL DEF Spec

-----------------------------------------------------------------------------
(* Theorems.                                                               *)

(* What the registry hands out, and what a creator probes, has a live      *)
(* claim, however many runs overlap and whenever they end.                 *)
THEOREM NoSandboxIsUsedAfterItsRelease == Spec => []InUseIsNotReleased
<1>1. OrchestratorInv => InUseIsNotReleased
  BY DEF OrchestratorInv
<1>2. QED
  BY <1>1, OrchestratorInvariant, PTL

(* When the running flag is up there is a run that will take it down.      *)
THEOREM TheFlagHasARun == Spec => []RunningMeansARun
<1>1. OrchestratorInv => RunningMeansARun
  BY DEF OrchestratorInv
<1>2. QED
  BY <1>1, OrchestratorInvariant, PTL

(* A dog that is shown as being created is being created.                  *)
THEOREM CreatingIsNotStale == Spec => []PendingEntryHasACreator
<1>1. OrchestratorInv => PendingEntryHasACreator
  BY DEF OrchestratorInv
<1>2. QED
  BY <1>1, OrchestratorInvariant, PTL

=============================================================================
