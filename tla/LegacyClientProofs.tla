------------------------- MODULE LegacyClientProofs -------------------------
(***************************************************************************)
(* TLAPS proofs about LegacyClient, for every number of entries, triggers  *)
(* and faults, for both clients and all modes.                             *)
(***************************************************************************)
EXTENDS LegacyClient, TLAPS

-----------------------------------------------------------------------------
(* The ways out of the client.                                             *)

(* What can be given up is a thing with a name.                            *)
LEMMA ThingsAreNamed ==
  /\ Own \subseteq Things
  /\ \A c \in Claims : <<"claim", c>> \in Things
  /\ \A t \in Triggers : <<"trigger", t>> \in Things
BY DEF Own, Things

(* Own names the claim and the tunnel the client still has.                *)
LEMMA OwnIsNamed ==
  /\ claim_name \in Claims => <<"claim", claim_name>> \in Own
  /\ port_forward_process \in Tunnels => <<"tunnel", port_forward_process>> \in Own
BY DEF Own, Things

(* __exit__ is begun: the triggers of the list are before it.              *)
LEMMA ExitSafe ==
  ASSUME LegacyInv, at \in (Entering \ {"posting"}) \cup Inside \cup Exiting,
         NEW next \in {"leave", "raise"}, Exit(next), UNCHANGED excused,
         UNCHANGED <<config, claim_name, sandbox_name, base_url, port_forward_process,
                     created_manual_triggers, world>>,
         snapshot_crd_installed' \in BOOLEAN, faults' \in 0 .. MaxFaults
  PROVE  LegacyInv'
<1> USE DEF LegacyInv, Exit, config, world, Entering, Inside, Exiting
<1>1. TypeOK'
  BY DEF TypeOK
<1>2. ClaimIsNamed' /\ OnlyOwnClaim' /\ OnlyOwnTunnel'
  BY DEF ClaimIsNamed, OnlyOwnClaim, OnlyOwnTunnel
<1>3. OnlyListedTriggers'
  BY DEF OnlyListedTriggers, Unlisted
<1>4. QED
  BY <1>1, <1>2, <1>3

(* The thread is out without an exit, or in the middle of one, and all it  *)
(* still answered for is given up.                                         *)
LEMMA GivenUpSafe ==
  ASSUME LegacyInv, at \in (Entering \ {"posting"}) \cup Exiting,
         at' = "outside", UNCHANGED then, todo' \subseteq created_manual_triggers,
         excused' \subseteq Things, excused \cup Own \subseteq excused',
         at = "triggers" => {"trigger"} \X todo \subseteq excused',
         UNCHANGED <<config, claim_name, sandbox_name, base_url, port_forward_process,
                     created_manual_triggers, world>>,
         snapshot_crd_installed' \in BOOLEAN, faults' \in 0 .. MaxFaults
  PROVE  LegacyInv'
<1> USE DEF LegacyInv, config, world, Entering, Inside, Exiting
<1>1. TypeOK'
  BY DEF TypeOK
<1>2. ClaimIsNamed'
  BY DEF ClaimIsNamed
<1>3. ASSUME NEW c \in Claims, claims[c] \in OnCluster
      PROVE  <<"claim", c>> \in excused'
  BY <1>3, OwnIsNamed DEF OnlyOwnClaim
<1>4. ASSUME NEW p \in alive
      PROVE  <<"tunnel", p>> \in excused'
  BY <1>4, OwnIsNamed DEF OnlyOwnTunnel, TypeOK
<1>5. ASSUME NEW t \in Triggers, triggers[t] = "made"
      PROVE  <<"trigger", t>> \in excused'
  <2>1. CASE at = "triggers" /\ t \in todo
    BY <2>1
  <2>2. CASE ~(at = "triggers" /\ t \in todo)
    BY <1>5, <2>2 DEF OnlyListedTriggers, Unlisted
  <2>3. QED
    BY <2>1, <2>2
<1>6. OnlyOwnClaim' /\ OnlyOwnTunnel' /\ OnlyListedTriggers'
  BY <1>3, <1>4, <1>5 DEF OnlyOwnClaim, OnlyOwnTunnel, OnlyListedTriggers
<1>7. QED
  BY <1>1, <1>2, <1>6

(* An exception leaves __enter__: the subclass exits, the plain client     *)
(* gives up what it has.                                                   *)
LEMMA RaiseSafe ==
  ASSUME LegacyInv, at \in Entering \ {"posting"}, Raise,
         UNCHANGED <<config, claim_name, sandbox_name, base_url, port_forward_process,
                     created_manual_triggers, world>>,
         snapshot_crd_installed' \in BOOLEAN, faults' \in 0 .. MaxFaults
  PROVE  LegacyInv'
<1>1. CASE kind = "snapshot"
  BY <1>1, ExitSafe DEF Raise
<1>2. CASE kind # "snapshot"
  <2>1. /\ at' = "outside" /\ UNCHANGED <<then, todo>>
        /\ excused' = excused \cup Own
    BY <1>2 DEF Raise, Forsake
  <2>2. at # "triggers" /\ todo \subseteq created_manual_triggers /\ excused \subseteq Things
    BY DEF Entering, LegacyInv, TypeOK
  <2>3. QED
    BY <2>1, <2>2, ThingsAreNamed, GivenUpSafe
<1>3. QED
  BY <1>1, <1>2

-----------------------------------------------------------------------------
(* Every action keeps the invariant.                                       *)

(* The thread goes on in __enter__ or comes back from a snapshot, and only *)
(* the fields of the client may change.                                    *)
LEMMA StepInside ==
  ASSUME LegacyInv,
         \/ Enter \/ ResolveSandboxName \/ GatewayReached \/ TunnelReached \/ SnapshotEnds
  PROVE  LegacyInv'
<1> USE DEF LegacyInv, At, Goto, config, fields, world, Entering, Inside
<1>1. CASE Enter
  BY <1>1, LegacyClientAssumption
  DEF Enter, TypeOK, ClaimIsNamed, OnlyOwnClaim, OnlyOwnTunnel, OnlyListedTriggers, Unlisted
<1>2. CASE ResolveSandboxName
  <2>1. CASE Raise
    BY <1>2, <2>1, RaiseSafe DEF ResolveSandboxName, TypeOK
  <2>2. CASE Goto("waiting")
    BY <1>2, <2>2
    DEF ResolveSandboxName, TypeOK, ClaimIsNamed, OnlyOwnClaim, OnlyOwnTunnel,
        OnlyListedTriggers, Unlisted
  <2>3. QED
    BY <1>2, <2>1, <2>2 DEF ResolveSandboxName
<1>3. CASE GatewayReached \/ TunnelReached
  BY <1>3
  DEF GatewayReached, TunnelReached, Reached, TypeOK, ClaimIsNamed, OnlyOwnClaim,
      OnlyOwnTunnel, OnlyListedTriggers, Unlisted
<1>4. CASE SnapshotEnds
  BY <1>4
  DEF SnapshotEnds, TypeOK, ClaimIsNamed, OnlyOwnClaim, OnlyOwnTunnel,
      OnlyListedTriggers, Unlisted
<1>5. QED
  BY <1>1, <1>2, <1>3, <1>4

(* The claim is posted.                                                    *)
LEMMA PostStep ==
  ASSUME LegacyInv, Posted \/ PostFails
  PROVE  LegacyInv'
<1> USE LegacyClientAssumption DEF LegacyInv, At, Goto, config, Entering, Inside
<1>1. claim_name' = claim_name + 1 /\ claim_name' \in Claims
  BY DEF Posted, PostFails, CreateClaim, TypeOK, ClaimIsNamed, Claims, None
<1>2. /\ claims' \in [Claims -> {"none", "deleted"} \cup OnCluster]
      /\ \A c \in Claims : c # claim_name' => claims'[c] = claims[c]
  BY <1>1 DEF Posted, PostFails, TypeOK, OnCluster
<1>3. \A c \in Claims : claims[c] \in OnCluster => <<"claim", c>> \in excused
  BY DEF Posted, PostFails, CreateClaim, OnlyOwnClaim
<1>4. \A p \in alive : <<"tunnel", p>> \in excused
  BY DEF Posted, PostFails, CreateClaim, OnlyOwnTunnel
<1>5. \A t \in Triggers : triggers[t] = "made" => <<"trigger", t>> \in excused
  BY DEF Posted, PostFails, CreateClaim, OnlyListedTriggers, Unlisted
<1>6. /\ excused \subseteq excused' /\ excused' \subseteq Things
      /\ at' = "outside" => <<"claim", claim_name'>> \in excused'
  BY <1>1, ThingsAreNamed DEF Posted, PostFails, CreateClaim, Exit, Forsake, TypeOK
<1>7. TypeOK'
  <2>1. CASE Posted
    BY <1>1, <1>2, <2>1 DEF Posted, CreateClaim, TypeOK
  <2>2. CASE PostFails
    <3>1. /\ at' \in {"triggers", "outside"} /\ then' \in {"leave", "raise"}
          /\ todo' \subseteq created_manual_triggers
      BY <2>2 DEF PostFails, Exit, TypeOK
    <3>2. faults' \in 0 .. MaxFaults
      BY <2>2 DEF PostFails, Fault, TypeOK
    <3>3. QED
      BY <1>1, <1>2, <1>6, <2>2, <3>1, <3>2 DEF PostFails, CreateClaim, TypeOK, Exiting
  <2>3. QED
    BY <2>1, <2>2
<1>8. at' \in {"resolving", "triggers", "outside"}
  BY DEF Posted, PostFails, Exit
<1>9. ClaimIsNamed'
  BY <1>1, <1>8 DEF ClaimIsNamed, Claims, None
<1>10. OnlyOwnClaim'
  BY <1>2, <1>3, <1>6, <1>8 DEF OnlyOwnClaim
<1>11. OnlyOwnTunnel' /\ OnlyListedTriggers'
  BY <1>4, <1>5, <1>6 DEF Posted, PostFails, CreateClaim, OnlyOwnTunnel, OnlyListedTriggers
<1>12. QED
  BY <1>7, <1>9, <1>10, <1>11

(* The sandbox is ready, and perhaps a tunnel is started.                  *)
LEMMA ReadyStep ==
  ASSUME LegacyInv, SandboxIsReady
  PROVE  LegacyInv'
<1> USE DEF LegacyInv, At, Goto, config, Entering, Inside
<1>1. claim_name \in Claims /\ claims[claim_name] = "ready" /\ sandbox_name' = claim_name
  BY DEF SandboxIsReady, TypeOK, ClaimIsNamed
<1>2. \A p \in alive : <<"tunnel", p>> \in excused
  BY DEF SandboxIsReady, OnlyOwnTunnel
<1>3. /\ at' \in {"inside", "gateway", "tunnel"}
      /\ at' = "inside" => base_url # "none"
      /\ \/ UNCHANGED <<alive, port_forward_process>>
         \/ port_forward_process' = claim_name /\ alive' = alive \cup {claim_name}
      /\ at' # "tunnel" => UNCHANGED alive
      /\ UNCHANGED <<then, todo, excused>>
  BY DEF SandboxIsReady, Strategy
<1>4. TypeOK'
  BY <1>1, <1>3 DEF SandboxIsReady, TypeOK, Claims, Tunnels
<1>5. ClaimIsNamed'
  BY <1>1, <1>3 DEF SandboxIsReady, ClaimIsNamed, TypeOK, Claims, None
<1>6. OnlyOwnClaim'
  BY <1>3 DEF SandboxIsReady, OnlyOwnClaim
<1>7. OnlyOwnTunnel'
  BY <1>2, <1>3 DEF OnlyOwnTunnel
<1>8. OnlyListedTriggers'
  BY <1>3 DEF SandboxIsReady, OnlyListedTriggers, Unlisted
<1>9. QED
  BY <1>4, <1>5, <1>6, <1>7, <1>8

(* A trigger is posted; one whose answer is lost is given up.              *)
LEMMA SnapshotStep ==
  ASSUME LegacyInv, NEW t \in Triggers, Snapshot(t)
  PROVE  LegacyInv'
<1> USE DEF LegacyInv, At, Goto, Fault, config, Entering, Inside
<1>1. /\ at = "inside" /\ at' \in Inside /\ triggers[t] = "none"
      /\ triggers' \in {triggers, [triggers EXCEPT ![t] = "made"]}
      /\ created_manual_triggers \subseteq created_manual_triggers'
      /\ created_manual_triggers' \subseteq created_manual_triggers \cup {t}
      /\ excused \subseteq excused' /\ excused' \subseteq excused \cup {<<"trigger", t>>}
      /\ triggers' # triggers => t \in created_manual_triggers' \/ <<"trigger", t>> \in excused'
  BY DEF Snapshot, Forsake
<1>2. TypeOK'
  BY <1>1, ThingsAreNamed, LegacyClientAssumption DEF Snapshot, TypeOK
<1>3. ClaimIsNamed' /\ OnlyOwnClaim' /\ OnlyOwnTunnel'
  BY <1>1 DEF Snapshot, ClaimIsNamed, OnlyOwnClaim, OnlyOwnTunnel
<1>4. ASSUME NEW u \in Triggers, triggers'[u] = "made", Unlisted(u)'
      PROVE  <<"trigger", u>> \in excused'
  <2>1. u \notin created_manual_triggers'
    BY <1>1, <1>4 DEF Unlisted
  <2>2. CASE u = t
    <3>1. triggers' # triggers
      BY <1>1, <1>4, <2>2
    <3>2. QED
      BY <1>1, <2>1, <2>2, <3>1
  <2>3. CASE u # t
    <3>1. triggers[u] = "made" /\ Unlisted(u)
      BY <1>1, <1>4, <2>1, <2>3 DEF Unlisted, TypeOK
    <3>2. QED
      BY <1>1, <3>1 DEF OnlyListedTriggers
  <2>4. QED
    BY <2>2, <2>3
<1>5. OnlyListedTriggers'
  BY <1>4 DEF OnlyListedTriggers
<1>6. QED
  BY <1>2, <1>3, <1>5

(* __exit__ deletes a trigger, or logs that it could not.                  *)
LEMMA DeleteTriggerStep ==
  ASSUME LegacyInv, NEW t \in Triggers, DeleteTrigger(t)
  PROVE  LegacyInv'
<1> USE DEF LegacyInv, At, Fault, Forsake, DeleteTrigger, config, fields, Inside
<1>1. TypeOK'
  BY ThingsAreNamed, LegacyClientAssumption DEF TypeOK
<1>2. ClaimIsNamed' /\ OnlyOwnClaim' /\ OnlyOwnTunnel'
  BY DEF ClaimIsNamed, OnlyOwnClaim, OnlyOwnTunnel
<1>3. OnlyListedTriggers'
  BY DEF OnlyListedTriggers, Unlisted, TypeOK
<1>4. QED
  BY <1>1, <1>2, <1>3

(* SandboxClient.__exit__ stops the tunnel and deletes the claim, or gives *)
(* up what it lost.                                                        *)
LEMMA SuperExitStep ==
  ASSUME LegacyInv, SuperExit
  PROVE  LegacyInv'
<1> USE DEF LegacyInv, At, SuperExit, config, fields, Inside, Entering
<1>0. PICK lost \in SUBSET Own :
        /\ IF lost = {} THEN UNCHANGED faults ELSE Fault
        /\ Forsake(lost)
        /\ alive' = IF <<"tunnel", port_forward_process>> \in lost
                    THEN alive ELSE alive \ {port_forward_process}
        /\ claims' = [c \in Claims |->
                       IF /\ c = claim_name /\ <<"claim", c>> \notin lost
                          /\ claims[c] \in OnCluster
                       THEN "deleted" ELSE claims[c]]
  OBVIOUS
<1>1. /\ at' \in {"triggers", "outside"} /\ then' \in {"leave", "raise"}
      /\ todo' \subseteq created_manual_triggers
  BY DEF Exited, Exit, TypeOK
<1>2. \A c \in Claims : claims'[c] \in OnCluster => <<"claim", c>> \in excused'
  BY <1>0 DEF OnlyOwnClaim, OnCluster, Forsake, TypeOK
<1>3. \A p \in alive' : p \in alive /\ <<"tunnel", p>> \in excused'
  BY <1>0 DEF OnlyOwnTunnel, Forsake
<1>4. \A t \in Triggers : triggers'[t] = "made" => <<"trigger", t>> \in excused'
  BY <1>0 DEF OnlyListedTriggers, Unlisted, Forsake
<1>5. excused' \subseteq Things /\ faults' \in 0 .. MaxFaults
  BY <1>0, ThingsAreNamed, LegacyClientAssumption DEF Forsake, Fault, TypeOK, Own
<1>6. claims' \in [Claims -> {"none", "deleted"} \cup OnCluster]
  BY <1>0 DEF TypeOK
<1>7. TypeOK'
  BY <1>1, <1>3, <1>5, <1>6 DEF TypeOK
<1>8. ClaimIsNamed'
  BY <1>1 DEF ClaimIsNamed
<1>9. OnlyOwnClaim' /\ OnlyOwnTunnel' /\ OnlyListedTriggers'
  BY <1>2, <1>3, <1>4 DEF OnlyOwnClaim, OnlyOwnTunnel, OnlyListedTriggers
<1>10. QED
  BY <1>7, <1>8, <1>9

(* An exception or an interrupt that leaves __exit__ or __enter__.         *)
LEMMA EscapeStep ==
  ASSUME LegacyInv, DeletionRaises \/ Interrupt
  PROVE  LegacyInv'
<1> USE DEF At, config, fields, Entering, Exiting
<1>1. /\ at \in (Entering \ {"posting"}) \cup Exiting /\ faults' \in 0 .. MaxFaults
      /\ UNCHANGED <<config, fields, world>>
  BY LegacyClientAssumption DEF DeletionRaises, Interrupt, Fault, LegacyInv, TypeOK
<1>2. excused \cup Own \cup ({"trigger"} \X todo) \subseteq Things
  BY ThingsAreNamed DEF LegacyInv, TypeOK, Things
<1>3. snapshot_crd_installed \in BOOLEAN
  BY DEF LegacyInv, TypeOK
<1>4. CASE Interrupt \/ (DeletionRaises /\ ~ExitAgain)
  <2>1. /\ at' = "outside" /\ todo' = {} /\ UNCHANGED then
        /\ excused' = excused \cup Own \cup ({"trigger"} \X todo)
    BY <1>4 DEF Interrupt, DeletionRaises, Forsake
  <2>2. QED
    BY <1>1, <1>2, <1>3, <2>1, GivenUpSafe
<1>5. CASE DeletionRaises /\ ExitAgain
  BY <1>1, <1>3, <1>5, ExitSafe DEF DeletionRaises
<1>6. QED
  BY <1>4, <1>5

(* Every action, those left included.                                     *)
LEMMA LegacyStep ==
  ASSUME LegacyInv, [Next]_vars
  PROVE  LegacyInv'
<1> USE DEF At, config, fields, world
<1>1. snapshot_crd_installed \in BOOLEAN /\ faults \in 0 .. MaxFaults
  BY DEF LegacyInv, TypeOK
<1>2. Fault => faults' \in 0 .. MaxFaults
  BY <1>1, LegacyClientAssumption DEF Fault
<1>3. CASE CheckSnapshotCrd
  <2>1. CASE Raise
    BY <1>1, <1>3, <2>1, RaiseSafe DEF CheckSnapshotCrd, Entering
  <2>2. CASE Goto("posting")
    BY <1>3, <2>2
    DEF CheckSnapshotCrd, Goto, LegacyInv, TypeOK, ClaimIsNamed, OnlyOwnClaim, OnlyOwnTunnel,
        OnlyListedTriggers, Unlisted, Entering, Inside
  <2>3. QED
    BY <1>3, <2>1, <2>2 DEF CheckSnapshotCrd
<1>4. CASE SandboxNotReady \/ TunnelTimesOut \/ Leave
  BY <1>1, <1>4, ExitSafe
  DEF SandboxNotReady, TunnelTimesOut, Leave, ExitAndRaise, Entering, Inside
<1>5. CASE WatchFails \/ GatewayTimesOut \/ TunnelCrashed
  BY <1>1, <1>2, <1>5, RaiseSafe DEF WatchFails, GatewayTimesOut, TunnelCrashed, Entering
<1>6. ASSUME NEW c \in Claims, ClaimAdvances(c)
      PROVE  LegacyInv'
  BY <1>6
  DEF ClaimAdvances, LegacyInv, TypeOK, ClaimIsNamed, OnlyOwnClaim, OnlyOwnTunnel,
      OnlyListedTriggers, Unlisted, OnCluster
<1>7. ASSUME NEW p \in alive, TunnelDies(p)
      PROVE  LegacyInv'
  BY <1>7
  DEF TunnelDies, LegacyInv, TypeOK, ClaimIsNamed, OnlyOwnClaim, OnlyOwnTunnel,
      OnlyListedTriggers, Unlisted
<1>8. CASE UNCHANGED vars
  BY <1>8
  DEF vars, LegacyInv, TypeOK, ClaimIsNamed, OnlyOwnClaim, OnlyOwnTunnel,
      OnlyListedTriggers, Unlisted
<1>9. QED
  BY <1>3, <1>4, <1>5, <1>6, <1>7, <1>8, StepInside, PostStep, ReadyStep, SnapshotStep,
     DeleteTriggerStep, SuperExitStep, EscapeStep
  DEF Next

(* A fresh client has made nothing.                                        *)
LEMMA LegacyInit == Init => LegacyInv
<1> SUFFICES ASSUME Init
             PROVE  LegacyInv
  OBVIOUS
<1>1. TypeOK
  <2>1. faults \in 0 .. MaxFaults
    BY LegacyClientAssumption DEF Init
  <2>2. base_url \in {"none", "given", "gateway", "tunnel"}
    BY DEF Init
  <2>3. QED
    BY <2>1, <2>2 DEF Init, TypeOK, Inside
<1>2. ClaimIsNamed
  BY DEF Init, ClaimIsNamed, Inside
<1>3. OnlyOwnClaim /\ OnlyOwnTunnel /\ OnlyListedTriggers
  BY DEF Init, OnlyOwnClaim, OnlyOwnTunnel, OnlyListedTriggers, OnCluster
<1>4. QED
  BY <1>1, <1>2, <1>3 DEF LegacyInv

-----------------------------------------------------------------------------
(* Every state is well typed; inside the block the sandbox is that of the  *)
(* claim of this entry, the claim was posted and there is a base URL       *)
(* (the nested sandbox_client.py and podsnapshot_client.py).               *)
THEOREM LegacyTypeOK == Spec => []TypeOK
<1>1. LegacyInv => TypeOK
  BY DEF LegacyInv
<1>2. QED
  BY <1>1, LegacyInit, LegacyStep, PTL DEF Spec

(* Outside the client nothing it made is left that the code did not give   *)
(* up: however many entries failed, wherever and in whatever order.        *)
THEOREM LegacyLeavesNothing == Spec => []NothingIsLeft
<1>1. LegacyInv => NothingIsLeft
  BY DEF LegacyInv, NothingIsLeft, OnlyOwnClaim, OnlyOwnTunnel, OnlyListedTriggers, Unlisted
<1>2. QED
  BY <1>1, LegacyInit, LegacyStep, PTL DEF Spec
=============================================================================
