---------------------------- MODULE Orchestrator ----------------------------
(***************************************************************************)
(* The asyncio tasks of the orchestrator: the start and stop endpoints,    *)
(* one run_simulation task per accepted start with its sandbox monitor,    *)
(* one create_sandbox_for_dog task per dog, one terminate task per sandbox *)
(* given back, and the objects they all share: sim, sandbox_clients and    *)
(* the claims on the cluster.                                              *)
(*                                                                         *)
(* An action is what a task does from one await to the next; tasks are     *)
(* interleaved only there.  A broadcast or a sleep that ends a segment is  *)
(* the await itself and has no state of its own.                           *)
(***************************************************************************)
EXTENDS Integers, FiniteSets

CONSTANTS
  NumRuns,        \* how many start requests are accepted (a bound)
  NameChoices,    \* the sets of names generate_unique_dog_names may draw
  NumTicks,       \* config.num_ticks
  MaxAttempts,    \* max_retries of create_sandbox_for_dog
  SdkHasClient,   \* does the import of k8s_agent_sandbox.client succeed?
  LateBinding,    \* does simulation_manager look the client up when used?
  NoEntry,        \* sandbox_clients has no such key
  Creating        \* ... or holds the dict {"status": "Creating"}

Runs == 1 .. NumRuns
Names == UNION NameChoices
Creators == Runs \X Names

(* The sandbox of an attempt is called after the task and the attempt.     *)
Sandboxes == Creators \X (1 .. MaxAttempts)
Sandbox(t, attempt) == <<t, attempt>>

ASSUME OrchestratorAssumption ==
  /\ NumRuns \in Nat /\ NumTicks \in Nat
  /\ MaxAttempts \in Nat \ {0}
  /\ \A chosen \in NameChoices :
       chosen \subseteq Nat /\ chosen # {} /\ IsFiniteSet(chosen)
  /\ SdkHasClient \in BOOLEAN /\ LateBinding \in BOOLEAN
  /\ NoEntry # Creating
  /\ NoEntry \notin Sandboxes /\ Creating \notin Sandboxes

VARIABLES
  boot,             \* the server process: importing, starting, serving, closed
  global_client,    \* is sandbox_manager.global_sandbox_client set?
  imported_client,  \* is the name simulation_manager imported from it set?
  is_running,       \* sim.is_running
  dogs,             \* the keys of sim.dogs
  tick_count,       \* sim.tick_count
  sandbox_clients,  \* the registry: name -> NoEntry, Creating or a sandbox
  run,              \* where each run_simulation task is
  names,            \* the names it was given
  todo,             \* the names it has not added yet
  monitor,          \* its monitor_sandboxes task
  creator,          \* create_sandbox_for_dog tasks: where, and which attempt
  claim             \* the sandbox claims on the cluster

simVars == <<is_running, dogs, tick_count>>
bootVars == <<boot, global_client, imported_client>>
runVars == <<run, names, todo, monitor>>
vars == <<bootVars, simVars, sandbox_clients, runVars, creator, claim>>

RunPC == {"none", "created", "populating", "ticking", "cancelling", "done"}
CreatorPC == {"none", "new", "creating", "probing", "backoff", "done"}
ClaimState == {"none", "pending", "live", "wiped", "deleting", "deleted", "left"}

TypeOK ==
  /\ boot \in {"importing", "starting", "serving", "closed"}
  /\ global_client \in BOOLEAN /\ imported_client \in BOOLEAN
  /\ is_running \in BOOLEAN
  /\ dogs \subseteq Names
  /\ tick_count \in 0 .. NumTicks
  /\ sandbox_clients \in [Names -> Sandboxes \cup {NoEntry, Creating}]
  /\ run \in [Runs -> RunPC]
  /\ names \in [Runs -> SUBSET Names]
  /\ todo \in [Runs -> SUBSET Names]
  /\ monitor \in [Runs -> {"none", "live", "cancelled", "done"}]
  /\ creator \in [Creators -> [at : CreatorPC, attempt : 0 .. MaxAttempts]]
  /\ claim \in [Sandboxes -> ClaimState]

Init ==
  /\ boot = "importing"
  /\ global_client = FALSE
  /\ imported_client = FALSE
  /\ is_running = FALSE
  /\ dogs = {}
  /\ tick_count = 0
  /\ sandbox_clients = [n \in Names |-> NoEntry]
  /\ run = [r \in Runs |-> "none"]
  /\ names = [r \in Runs |-> {}]
  /\ todo = [r \in Runs |-> {}]
  /\ monitor = [r \in Runs |-> "none"]
  /\ creator = [t \in Creators |-> [at |-> "none", attempt |-> 0]]
  /\ claim = [s \in Sandboxes |-> "none"]

-----------------------------------------------------------------------------
(* The process.                                                            *)

(* Loading simulation_manager binds its own name global_sandbox_client to  *)
(* the value sandbox_manager's has at that moment.                         *)
Import ==
  /\ boot = "importing"
  /\ boot' = "starting"
  /\ imported_client' = global_client
  /\ UNCHANGED <<global_client, simVars, sandbox_clients, runVars, creator, claim>>

(* lifespan, before the yield: outside local mode, with the SDK at hand,   *)
(* the client is made and stored in sandbox_manager.                       *)
Startup ==
  /\ boot = "starting"
  /\ boot' = "serving"
  /\ global_client' = SdkHasClient
  /\ UNCHANGED <<imported_client, simVars, sandbox_clients, runVars, creator, claim>>

(* lifespan, after the yield: the client is closed, which deletes nothing, *)
(* and the process ends with its tasks.  The terminate tasks their         *)
(* cancellation may still create do not outlive the closing event loop.    *)
Shutdown ==
  /\ boot = "serving"
  /\ boot' = "closed"
  /\ UNCHANGED <<global_client, imported_client, simVars, sandbox_clients,
                 runVars, creator, claim>>

Serving == boot = "serving" /\ UNCHANGED bootVars

(* What `if global_sandbox_client` sees in run_simulation.                 *)
ClientSeen == IF LateBinding THEN global_client ELSE imported_client

-----------------------------------------------------------------------------
(* The endpoints and what they share with the end of a run.                *)

Registered == {sandbox_clients[n] : n \in Names} \cap Sandboxes

(* Mutant: the sandboxes are terminated but stay in the registry.          *)
TerminateAllClients ==
  /\ UNCHANGED sandbox_clients
  /\ claim' = [s \in Sandboxes |->
                 IF s \in Registered THEN "deleting" ELSE claim[s]]

(* Mutant: the entries are popped and their sandboxes forgotten.           *)
ForgetAllClients ==
  /\ sandbox_clients' = [n \in Names |-> NoEntry]
  /\ UNCHANGED claim

(* Every entry is popped, and every sandbox among them given a terminate   *)
(* task.                                                                   *)
PopAllClients ==
  /\ sandbox_clients' = [n \in Names |-> NoEntry]
  /\ claim' = [s \in Sandboxes |->
                 IF s \in Registered THEN "deleting" ELSE claim[s]]

(* The start endpoint, when it does not answer 409.  The flag it tests is  *)
(* set later, by the task it creates.                                      *)
StartSimulation(r, chosen) ==
  /\ Serving
  /\ run[r] = "none" /\ \A q \in Runs : q < r => run[q] # "none"
  /\ ~is_running
  /\ PopAllClients
  /\ dogs' = {}
  /\ tick_count' = 0
  /\ run' = [run EXCEPT ![r] = "created"]
  /\ names' = [names EXCEPT ![r] = chosen]
  /\ todo' = [todo EXCEPT ![r] = chosen]
  /\ UNCHANGED <<is_running, monitor, creator>>

StopSimulation ==
  /\ Serving
  /\ is_running
  /\ is_running' = FALSE
  /\ UNCHANGED <<dogs, tick_count, sandbox_clients, runVars, creator, claim>>

(* reset_warmpool deletes every claim of the namespace behind the back of  *)
(* the registry, the creators and the terminate tasks; the deletions       *)
(* contain no await.                                                       *)
Reset(c) ==
  CASE c \in {"pending", "live"} -> "wiped"
    [] c \in {"deleting", "left"} -> "deleted"
    [] OTHER -> c

ResetWarmpool ==
  /\ Serving
  /\ ~is_running
  /\ claim' = [s \in Sandboxes |-> Reset(claim[s])]
  /\ UNCHANGED <<simVars, sandbox_clients, runVars, creator>>

-----------------------------------------------------------------------------
(* run_simulation.                                                         *)

(* One turn of the populate loop, for the next name in the sorted list.    *)
AddNextDog(r) ==
  \E n \in todo[r] :
    /\ \A m \in todo[r] : n <= m
    /\ todo' = [todo EXCEPT ![r] = @ \ {n}]
    /\ dogs' = dogs \cup {n}
    /\ IF ClientSeen
       THEN /\ sandbox_clients' = [sandbox_clients EXCEPT ![n] = Creating]
            /\ creator' = [creator EXCEPT ![<<r, n>>] = [at |-> "new", attempt |-> 0]]
       ELSE UNCHANGED <<sandbox_clients, creator>>
    /\ run' = [run EXCEPT ![r] = "populating"]
    /\ UNCHANGED <<tick_count, names, claim>>

(* The task's first segment: flag, monitor task, first dog.                *)
RunBegin(r) ==
  /\ Serving
  /\ run[r] = "created"
  /\ is_running' = TRUE
  /\ monitor' = [monitor EXCEPT ![r] = "live"]
  /\ AddNextDog(r)

Populate(r) ==
  /\ Serving
  /\ run[r] = "populating"
  /\ is_running
  /\ todo[r] # {}
  /\ AddNextDog(r)
  /\ UNCHANGED <<is_running, monitor>>

(* The tick loop's condition is next: after the last dog, after a break    *)
(* out of the populate loop, or after a tick.                              *)
AtTickLoop(r) ==
  \/ run[r] = "ticking"
  \/ run[r] = "populating" /\ (todo[r] = {} \/ ~is_running)

TickLoopGoesOn == is_running /\ tick_count < NumTicks

(* A tick as seen from here; SimulationLoop has what it does to the dogs.  *)
RunTick(r) ==
  /\ Serving
  /\ AtTickLoop(r)
  /\ TickLoopGoesOn
  /\ tick_count' = tick_count + 1
  /\ run' = [run EXCEPT ![r] = "ticking"]
  /\ UNCHANGED <<is_running, dogs, sandbox_clients, names, todo, monitor,
                 creator, claim>>

(* Mutant: the flag is left to the stop endpoint.                          *)
FinaliseKeepsFlag(r) ==
  /\ UNCHANGED is_running
  /\ PopAllClients
  /\ run' = [run EXCEPT ![r] = "done"]
  /\ UNCHANGED <<dogs, tick_count, names, todo, creator>>

(* The end of the finally block: the flag is cleared and the registry      *)
(* emptied, whoever they belong to by then.                                *)
Finalise(r) ==
  /\ is_running' = FALSE
  /\ PopAllClients
  /\ run' = [run EXCEPT ![r] = "done"]
  /\ UNCHANGED <<dogs, tick_count, names, todo, creator>>

(* The loop is left and the monitor has ended: no await before the end.    *)
LeaveAtOnce(r) ==
  /\ Serving
  /\ AtTickLoop(r)
  /\ ~TickLoopGoesOn
  /\ monitor[r] = "done"
  /\ Finalise(r)
  /\ UNCHANGED monitor

(* The loop is left, the monitor is cancelled and awaited.                 *)
CancelMonitor(r) ==
  /\ Serving
  /\ AtTickLoop(r)
  /\ ~TickLoopGoesOn
  /\ monitor[r] # "done"
  /\ monitor' = [monitor EXCEPT ![r] = "cancelled"]
  /\ run' = [run EXCEPT ![r] = "cancelling"]
  /\ UNCHANGED <<simVars, sandbox_clients, names, todo, creator, claim>>

(* What the monitor waits for: every dog of the pack is bound.             *)
AllBound(r) ==
  /\ \A n \in dogs : sandbox_clients[n] \in Sandboxes
  /\ Cardinality(dogs) = Cardinality(names[r])

(* Mutant: the monitor is awaited and not cancelled.                       *)
FinishUncancelled(r) ==
  /\ Serving
  /\ run[r] = "cancelling"
  /\ ~is_running \/ AllBound(r)
  /\ monitor' = [monitor EXCEPT ![r] = "done"]
  /\ Finalise(r)

FinishCancelled(r) ==
  /\ Serving
  /\ run[r] = "cancelling"
  /\ monitor' = [monitor EXCEPT ![r] = "done"]
  /\ Finalise(r)

(* monitor_sandboxes returns when the flag is down or every dog is bound.  *)
MonitorReturns(r) ==
  /\ Serving
  /\ monitor[r] = "live"
  /\ ~is_running \/ AllBound(r)
  /\ monitor' = [monitor EXCEPT ![r] = "done"]
  /\ UNCHANGED <<simVars, sandbox_clients, run, names, todo, creator, claim>>

-----------------------------------------------------------------------------
(* create_sandbox_for_dog, for the dog t[2] of the run t[1].               *)

At(t, pc) == [creator EXCEPT ![t].at = pc]
Current(t) == Sandbox(t, creator[t].attempt)

(* An attempt writes the dict, whatever is there, and asks the SDK.        *)
Attempt(t) ==
  /\ Serving
  /\ creator[t].at \in {"new", "backoff"}
  /\ sandbox_clients' = [sandbox_clients EXCEPT ![t[2]] = Creating]
  /\ creator' = [creator EXCEPT ![t] = [at |-> "creating", attempt |-> @.attempt + 1]]
  /\ claim' = [claim EXCEPT ![Sandbox(t, creator[t].attempt + 1)] = "pending"]
  /\ UNCHANGED <<simVars, runVars>>

(* Mutant: one attempt too many.                                           *)
AttemptFailsOneMore(t) ==
  IF creator[t].attempt <= MaxAttempts
  THEN creator' = At(t, "backoff") /\ UNCHANGED sandbox_clients
  ELSE /\ creator' = At(t, "done")
       /\ sandbox_clients' = [sandbox_clients EXCEPT ![t[2]] = NoEntry]

(* Mutant: the dict of a dog that is given up stays.                       *)
AttemptFailsKeepsEntry(t) ==
  /\ creator' = At(t, IF creator[t].attempt < MaxAttempts THEN "backoff" ELSE "done")
  /\ UNCHANGED sandbox_clients

(* The except block: back off, or drop the entry after the last attempt.   *)
AttemptFails(t) ==
  IF creator[t].attempt < MaxAttempts
  THEN creator' = At(t, "backoff") /\ UNCHANGED sandbox_clients
  ELSE /\ creator' = At(t, "done")
       /\ sandbox_clients' = [sandbox_clients EXCEPT ![t[2]] = NoEntry]

(* create_sandbox raises; the SDK has deleted the claim it made, or has    *)
(* only logged that it could not.                                          *)
CreateFails(t) ==
  /\ Serving
  /\ creator[t].at = "creating"
  /\ AttemptFails(t)
  /\ \E fate \in {"deleted", "left"} : claim' = [claim EXCEPT ![Current(t)] = fate]
  /\ UNCHANGED <<simVars, runVars>>

(* create_sandbox returns.  The entry must still be the dict: a missing    *)
(* key or a sandbox in its place raises, and the new sandbox is forgotten. *)
CreateReturns(t) ==
  /\ Serving
  /\ creator[t].at = "creating"
  /\ claim' = [claim EXCEPT ![Current(t)] = IF @ = "pending" THEN "live" ELSE @]
  /\ IF sandbox_clients[t[2]] = Creating
     THEN creator' = At(t, "probing") /\ UNCHANGED sandbox_clients
     ELSE AttemptFails(t)
  /\ UNCHANGED <<simVars, runVars>>

(* A probe answers: the sandbox is registered, whatever became of the run. *)
ProbeSucceeds(t) ==
  /\ Serving
  /\ creator[t].at = "probing"
  /\ sandbox_clients' = [sandbox_clients EXCEPT ![t[2]] = Current(t)]
  /\ creator' = At(t, "done")
  /\ UNCHANGED <<simVars, runVars, claim>>

(* Five probes fail: the attempt raises and its sandbox is forgotten.      *)
ProbeFails(t) ==
  /\ Serving
  /\ creator[t].at = "probing"
  /\ AttemptFails(t)
  /\ UNCHANGED <<simVars, runVars, claim>>

(* A terminate task ends: it has deleted its claim, or found it gone, or   *)
(* it raises before or in the deletion (the connector cannot be closed, the*)
(* API answers anything but 404).  Nobody awaits it and its entry is       *)
(* popped: the claim it could not delete is left on the cluster.           *)
Terminate(s) ==
  /\ Serving
  /\ claim[s] = "deleting"
  /\ \E fate \in {"deleted", "left"} : claim' = [claim EXCEPT ![s] = fate]
  /\ UNCHANGED <<simVars, sandbox_clients, runVars, creator>>

-----------------------------------------------------------------------------
RunStep(r) ==
  \/ RunBegin(r)
  \/ Populate(r)
  \/ RunTick(r)
  \/ LeaveAtOnce(r)
  \/ CancelMonitor(r)
  \/ FinishCancelled(r)

CreatorStep(t) ==
  \/ Attempt(t)
  \/ CreateFails(t)
  \/ CreateReturns(t)
  \/ ProbeSucceeds(t)
  \/ ProbeFails(t)

Next ==
  \/ Import
  \/ Startup
  \/ Shutdown
  \/ \E r \in Runs, chosen \in NameChoices : StartSimulation(r, chosen)
  \/ StopSimulation
  \/ ResetWarmpool
  \/ \E r \in Runs : RunStep(r) \/ MonitorReturns(r)
  \/ \E t \in Creators : CreatorStep(t)
  \/ \E s \in Sandboxes : Terminate(s)

Spec == Init /\ [][Next]_vars

(* The event loop runs every task that is ready; the requests and the end  *)
(* of the process come when they like.                                     *)
Fairness ==
  /\ WF_vars(Import) /\ WF_vars(Startup)
  /\ \A r \in Runs : WF_vars(RunStep(r)) /\ WF_vars(MonitorReturns(r))
  /\ \A t \in Creators : WF_vars(CreatorStep(t))
  /\ \A s \in Sandboxes : WF_vars(Terminate(s))

FairSpec == Spec /\ Fairness

-----------------------------------------------------------------------------
(* Properties.                                                             *)

Active(r) == run[r] \in {"created", "populating", "ticking", "cancelling"}

(* Nobody holds a sandbox that has been given back: what the registry      *)
(* hands to speak_and_update and to the pause patches, and what a creator  *)
(* still probes, has a claim that nobody terminates, although runs overlap,*)
(* end in one another's middle and empty the registry under the creators   *)
(* (endpoints.py 41-44, simulation_manager.py 198-201).  Only the operator *)
(* takes a claim away from its user, by resetting the warmpool.            *)
InUseIsNotReleased ==
  /\ \A s \in Registered : claim[s] \in {"live", "wiped"}
  /\ \A t \in Creators :
       creator[t].at = "probing" => claim[Current(t)] \in {"live", "wiped"}

(* The flag never outlives the runs: when it is up some run_simulation     *)
(* task is there to take it down, so the start endpoint cannot answer 409  *)
(* for ever (endpoints.py 40, simulation_manager.py 96 and 196).           *)
RunningMeansARun ==
  is_running => \E r \in Runs : run[r] \in {"populating", "ticking", "cancelling"}

(* A dog shown as "Creating" has a task that is still creating: an entry   *)
(* left behind would keep its monitor broadcasting and the dog without     *)
(* sandbox for the whole run (sandbox_manager.py 46-81).                   *)
PendingEntryHasACreator ==
  \A n \in Names :
    sandbox_clients[n] = Creating =>
      \E r \in Runs : creator[<<r, n>>].at \in {"new", "creating", "probing", "backoff"}

(* Every accepted start comes to its end, monitor included, whatever the   *)
(* other runs and the creators do (simulation_manager.py 99-110, 134-203). *)
EveryRunEnds ==
  \A r \in Runs :
    Active(r) ~> (run[r] = "done" /\ monitor[r] = "done") \/ boot = "closed"

(* A registered sandbox is given back: once another run is on, or while    *)
(* its own still is, its terminate task runs and ends, also when it was    *)
(* registered after the registry had been emptied (the next start releases *)
(* it), when another run's end has emptied the registry, or when the       *)
(* warmpool was reset (endpoints.py 41-44, simulation_manager.py 198-201). *)
(* Two things the code lets happen are excused: the terminate task itself  *)
(* fails, and nobody learns of it ("left"); and another run with a dog of  *)
(* the same name writes over the entry.                                    *)
Shared(s) == \E q \in Runs \ {s[1][1]} : s[1][2] \in names[q]

RegisteredIsReleased ==
  \A s \in Sandboxes :
    (s \in Registered /\ <>(\E r \in Runs : Active(r)))
      ~> \/ claim[s] \in {"deleted", "left"}
         \/ Shared(s)
         \/ boot = "closed"

(* The inductive form of InUseIsNotReleased.  A sandbox is registered by   *)
(* the last step of the creator it is called after, so a creator that      *)
(* still works has nothing in the registry; and no creator exists before   *)
(* its dog is added, so none is ever started twice.                        *)
CreatorsAreFresh ==
  \A r \in Runs : \A n \in Names :
    run[r] = "none" \/ n \in todo[r] => creator[<<r, n>>].at = "none"

RegisteredByTheDone ==
  \A n \in Names :
    sandbox_clients[n] \in Sandboxes => creator[sandbox_clients[n][1]].at = "done"

(* A creator that is about to try has a try left, and one that waits for   *)
(* the SDK or probes has made one.                                         *)
AttemptsInRange ==
  \A t \in Creators :
    /\ creator[t].at \in {"new", "backoff"} => creator[t].attempt < MaxAttempts
    /\ creator[t].at \in {"creating", "probing"} => creator[t].attempt >= 1

(* The claim a creator waits for is there, or was wiped.                   *)
CreatingIsPending ==
  \A t \in Creators :
    creator[t].at = "creating" => claim[Current(t)] \in {"pending", "wiped"}

OrchestratorInv ==
  /\ TypeOK
  /\ AttemptsInRange
  /\ CreatingIsPending
  /\ CreatorsAreFresh
  /\ RegisteredByTheDone
  /\ InUseIsNotReleased
  /\ RunningMeansARun
  /\ PendingEntryHasACreator

(* What README.md 14-18 says: the agents are spawned through SandboxClaims *)
(* and each one runs in a sandbox.                                         *)
EveryDogIsGivenASandbox ==
  \A r \in Runs : \A n \in names[r] \ todo[r] : creator[<<r, n>>].at # "none"

=============================================================================
