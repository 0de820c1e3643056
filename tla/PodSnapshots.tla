---------------------------- MODULE PodSnapshots ----------------------------
(***************************************************************************)
(* One SandboxWithSnapshotSupport handle: its SnapshotEngine, suspend and  *)
(* resume, and the controllers of the cluster that work meanwhile.         *)
(*                                                                         *)
(* The handle is used by one thread.  An action is one request to the API  *)
(* with what the code does until the next one.  A request that fails may   *)
(* have been carried out.  Names, labels and wording are left out: a pod   *)
(* is its UID, a trigger and the snapshots are numbered in the order of    *)
(* their creation timestamps.                                              *)
(***************************************************************************)
EXTENDS Naturals, FiniteSets

CONSTANTS
  MaxPods,       \* bound: pods the sandbox has had
  MaxTriggers,   \* bound: create requests, so also snapshots
  MaxCalls,      \* bound: calls of the user
  MaxFaults,     \* bound: requests that fail although the API is up; interrupts
  MaxRetries,    \* max_retries of delete_manual_triggers
  SavedIsReady   \* is a snapshot ready when its trigger is complete?

ASSUME PodSnapshotsAssumption ==
  /\ {MaxPods, MaxTriggers, MaxCalls, MaxRetries} \subseteq Nat \ {0}
  /\ MaxFaults \in Nat
  /\ SavedIsReady \in BOOLEAN

Triggers == 1 .. MaxTriggers
Snapshots == 1 .. MaxTriggers

VARIABLES
  replicas,    \* spec.replicas of the Sandbox
  pods,        \* the UID of the newest pod
  pod,         \* the phase of that pod; the ones before it are gone
  restored,    \* the snapshot that pod was restored from, 0 when none
  snapshot,    \* the PodSnapshots
  trigger,     \* the PodSnapshotManualTriggers, and what each has made
  claim,       \* does the SandboxClaim exist?
  remembered,  \* created_manual_triggers
  named,       \* has get_pod_name cached the name?
  op,          \* the call under way, or the last one with its result
  saved,       \* observer: the snapshot of the last suspend that succeeded
  calls, faults

cluster == <<replicas, pods, pod, restored, snapshot, trigger, claim>>
bounds == <<calls, faults>>
vars == <<cluster, remembered, named, op, saved, bounds>>

Kinds == {"create", "suspend", "resume", "delete", "delete_all", "clean", "terminate"}

Steps == {"naming", "triggering", "watching", "checking", "reading_uid",
          "scaling_down", "terminating", "listing", "scaling_up", "starting",
          "verifying", "deleting", "confirming", "untriggering", "unclaiming"}

(* save: snapshot_before_suspend.                                          *)
(* uid: the pod suspend waits for.  latest: the snapshot resume            *)
(* expects; scaled: whether it found the sandbox suspended.  todo, gone:   *)
(* the snapshots a deletion has before it and has confirmed, of those it   *)
(* chose.  left, kept, round: the triggers to delete in this attempt, and  *)
(* the ones for the next.                                                  *)
OpRecord ==
  [kind : Kinds \cup {"none"}, at : Steps \cup {"returned", "raised"},
   ok : BOOLEAN, save : BOOLEAN, uid : 0 .. MaxPods,
   trigger : 0 .. MaxTriggers, latest : 0 .. MaxTriggers, scaled : BOOLEAN,
   todo : SUBSET Snapshots, chosen : SUBSET Snapshots,
   gone : SUBSET Snapshots, left : SUBSET Triggers, kept : SUBSET Triggers,
   round : 0 .. MaxRetries]

TypeOK ==
  /\ replicas \in {0, 1}
  /\ pods \in 1 .. MaxPods
  /\ pod \in {"absent", "starting", "ready", "stopping"}
  /\ restored \in 0 .. MaxTriggers
  /\ snapshot \in [Snapshots -> {"none", "saving", "ready", "removing", "removed"}]
  /\ trigger \in [Triggers -> [state : {"none", "created", "complete", "failed", "deleted"},
                               made : 0 .. MaxTriggers, told : BOOLEAN]]
  /\ claim \in BOOLEAN
  /\ remembered \subseteq Triggers
  /\ named \in BOOLEAN
  /\ op \in OpRecord
  /\ saved \in 0 .. MaxTriggers
  /\ calls \in 0 .. MaxCalls
  /\ faults \in 0 .. MaxFaults

Nothing ==
  [kind |-> "none", at |-> "returned", ok |-> TRUE, save |-> FALSE,
   uid |-> 0, trigger |-> 0, latest |-> 0, scaled |-> FALSE,
   todo |-> {}, chosen |-> {}, gone |-> {}, left |-> {}, kept |-> {},
   round |-> 0]

(* A sandbox that has just become ready, and its handle.                   *)
Init ==
  /\ replicas = 1
  /\ pods = 1
  /\ pod = "ready"
  /\ restored = 0
  /\ snapshot = [s \in Snapshots |-> "none"]
  /\ trigger = [t \in Triggers |-> [state |-> "none", made |-> 0, told |-> FALSE]]
  /\ claim = TRUE
  /\ remembered = {}
  /\ named = FALSE
  /\ op = Nothing
  /\ saved = 0
  /\ calls = 0
  /\ faults = 0

-----------------------------------------------------------------------------
At(step) == op.at = step
To(step) == op' = [op EXCEPT !.at = step]
Return(ok) == op' = [op EXCEPT !.at = "returned", !.ok = ok]
Raise == op' = [op EXCEPT !.at = "raised", !.ok = FALSE]

Fault == faults < MaxFaults /\ faults' = faults + 1
Healthy == UNCHANGED faults

Newest(S) == IF S = {} THEN 0 ELSE CHOOSE s \in S : \A u \in S : u <= s

(* What the API lists, and which of it has the condition Ready.            *)
Listed == {s \in Snapshots : snapshot[s] \in {"saving", "ready", "removing"}}
ListedReady == {s \in Listed : snapshot[s] # "saving"}

(* The next of a row of numbers to be used.                                *)
Unused(row, fresh(_)) == {n \in row : fresh(n) /\ \A m \in 1 .. n - 1 : ~fresh(m)}
UnusedTrigger == Unused(Triggers, LAMBDA t : trigger[t].state = "none")
UnusedSnapshot == Unused(Snapshots, LAMBDA s : snapshot[s] = "none")

Quiet == op.at \in {"returned", "raised"}
Terminated == op.kind = "terminate" /\ At("returned")

(* A call of the user; after terminate has returned the engine is None.    *)
Begin(call) ==
  /\ Quiet /\ ~Terminated
  /\ calls < MaxCalls
  /\ calls' = calls + 1
  /\ op' = call
  /\ UNCHANGED <<cluster, remembered, named, saved, faults>>

Call(kind, step) == [Nothing EXCEPT !.kind = kind, !.at = step]

(* get_pod_name asks the API until it has the name.                        *)
Name(step) == IF named THEN step ELSE "naming"

AfterNaming ==
  IF op.kind \in {"resume", "delete_all"} THEN "listing"
  ELSE IF op.kind = "suspend" /\ ~op.save THEN "reading_uid" ELSE "triggering"

(* Nothing guards that request, except in resume.                          *)
GetPodName ==
  /\ At("naming")
  /\ \/ Healthy /\ named' = TRUE /\ To(AfterNaming)
     \/ Fault /\ UNCHANGED named
        /\ IF op.kind = "resume" THEN Return(FALSE) ELSE Raise
  /\ UNCHANGED <<cluster, remembered, saved, calls>>

-----------------------------------------------------------------------------
(* SnapshotEngine.create, also as the first part of suspend.               *)

Create ==
  UnusedTrigger # {} /\ Begin(Call("create", Name("triggering")))

(* The condition Triggered is True, with the reason Complete.              *)
Completed(t) == trigger[t].state = "complete"

CreateReturns(ok) ==
  IF op.kind = "suspend" /\ ok THEN To("reading_uid") ELSE Return(ok)

TriggerCreated ==
  /\ At("triggering") /\ Healthy
  /\ \E t \in UnusedTrigger :
       /\ trigger' = [trigger EXCEPT ![t].state = "created", ![t].told = TRUE]
       /\ remembered' = remembered \cup {t}
       /\ op' = [op EXCEPT !.at = "watching", !.trigger = t]
  /\ UNCHANGED <<replicas, pods, pod, restored, snapshot, claim, named, saved, calls>>

TriggerRefused ==
  /\ At("triggering") /\ Fault
  /\ \/ UNCHANGED trigger
     \/ \E t \in UnusedTrigger : trigger' = [trigger EXCEPT ![t].state = "created"]
  /\ CreateReturns(FALSE)
  /\ UNCHANGED <<replicas, pods, pod, restored, snapshot, claim, remembered, named, saved, calls>>

(* The watch sees the trigger complete; or it sees it failed, breaks off,  *)
(* or its time is over.                                                    *)
SnapshotCompleted ==
  /\ At("watching")
  /\ Completed(op.trigger)
  /\ CreateReturns(TRUE)
  /\ UNCHANGED <<cluster, remembered, named, saved, bounds>>

SnapshotNotCompleted ==
  /\ At("watching")
  /\ ~Completed(op.trigger)
  /\ CreateReturns(FALSE)
  /\ UNCHANGED <<cluster, remembered, named, saved, bounds>>

-----------------------------------------------------------------------------
(* suspend.                                                                *)

Suspend(save) ==
  /\ save => UnusedTrigger # {}
  /\ Begin([Call("suspend", "checking") EXCEPT !.save = save])

SuspendChecked(suspended) ==
  IF suspended THEN Return(TRUE)
  ELSE To(IF op.save THEN Name("triggering") ELSE Name("reading_uid"))

ResumeChecked(suspended) ==
  IF suspended THEN op' = [op EXCEPT !.at = Name("listing"), !.scaled = TRUE]
  ELSE Return(TRUE)

Checked(suspended) ==
  IF op.kind = "suspend" THEN SuspendChecked(suspended) ELSE ResumeChecked(suspended)

(* Only spec.replicas decides, and an error means no.                      *)
IsSuspended ==
  /\ At("checking")
  /\ \/ Healthy /\ Checked(replicas = 0)
     \/ Fault /\ Checked(FALSE)
  /\ UNCHANGED <<cluster, remembered, named, saved, calls>>

(* A pod that cannot be read has no UID, as one that is not there.         *)
ReadUid ==
  /\ At("reading_uid")
  /\ \/ Healthy /\ op' = [op EXCEPT !.at = "scaling_down",
                                    !.uid = IF pod = "absent" THEN 0 ELSE pods]
     \/ Fault /\ To("scaling_down")
  /\ UNCHANGED <<cluster, remembered, named, saved, calls>>

(* A patch of spec.replicas that fails may have been carried out.          *)
SetReplicas(step, n, next) ==
  /\ At(step)
  /\ \/ Healthy /\ replicas' = n /\ To(next)
     \/ Fault /\ replicas' \in {replicas, n} /\ Return(FALSE)
  /\ UNCHANGED <<pods, pod, restored, snapshot, trigger, claim, remembered, named, saved, calls>>

ScaleDown == SetReplicas("scaling_down", 0, "terminating")

(* Mutant: a pod that is on its way out counts as terminated.              *)
PodGoneOrStopping == pod \in {"absent", "stopping"} \/ pods # op.uid

(* wait_for_pod_termination: not found, or another UID under the name.     *)
PodGone == pod = "absent" \/ pods # op.uid

PodTerminated ==
  /\ At("terminating")
  /\ PodGone
  /\ Return(TRUE)
  /\ saved' = IF op.save THEN trigger[op.trigger].made ELSE saved
  /\ UNCHANGED <<cluster, remembered, named, bounds>>

(* The deadline of a wait, or of the confirmation of a deletion.           *)
WaitTimesOut ==
  /\ op.at \in {"terminating", "starting"}
  /\ Return(FALSE)
  /\ UNCHANGED <<cluster, remembered, named, saved, bounds>>

-----------------------------------------------------------------------------
(* resume.                                                                 *)

Resume == Begin(Call("resume", "checking"))

(* Mutant: the snapshots are sorted the other way round.                   *)
OldestUid == IF ListedReady = {} THEN 0
             ELSE CHOOSE s \in ListedReady : \A u \in ListedReady : s <= u

(* The first of the list, which is sorted newest first.                    *)
LatestUid == Newest(ListedReady)

ListFails == Fault /\ Return(FALSE)

GetLatestSnapshot ==
  /\ At("listing") /\ op.kind = "resume"
  /\ \/ Healthy /\ op' = [op EXCEPT !.at = "scaling_up", !.latest = LatestUid]
     \/ ListFails
  /\ UNCHANGED <<cluster, remembered, named, saved, calls>>

ScaleUp == SetReplicas("scaling_up", 1, "starting")

(* wait_for_pod_ready: ready, and without deletion timestamp.              *)
PodIsReady == pod = "ready"

PodReady ==
  /\ At("starting")
  /\ PodIsReady
  /\ IF op.latest = 0 THEN Return(TRUE) ELSE To("verifying")
  /\ UNCHANGED <<cluster, remembered, named, saved, bounds>>

(* check_pod_restored_from_snapshot, on whatever pod has the name now.     *)
RestoredFrom(s) == pod \in {"ready", "stopping"} /\ restored = s

CheckRestored ==
  /\ At("verifying")
  /\ \/ Healthy /\ Return(RestoredFrom(op.latest))
     \/ Fault /\ Return(FALSE)
  /\ UNCHANGED <<cluster, remembered, named, saved, calls>>

-----------------------------------------------------------------------------
(* Deletion of snapshots, one after the other.  The user names what is or  *)
(* was there.                                                              *)

Delete(s) ==
  /\ snapshot[s] # "none"
  /\ Begin([Call("delete", "deleting") EXCEPT !.todo = {s}, !.chosen = {s}])

DeleteAll == Begin(Call("delete_all", Name("listing")))

(* All the snapshots of the pod, or the ones with given labels.            *)
ChooseSnapshots ==
  /\ At("listing") /\ op.kind = "delete_all"
  /\ \/ Healthy /\ \E chosen \in SUBSET Listed :
          op' = [op EXCEPT !.at = "deleting", !.todo = chosen, !.chosen = chosen]
     \/ ListFails
  /\ UNCHANGED <<cluster, remembered, named, saved, calls>>

Current == Newest(op.todo)
Rest == op.todo \ {Current}

(* What has no finalizer, or is not there yet, goes at once.               *)
Removing(s) ==
  snapshot' \in {[snapshot EXCEPT ![s] = "removed"]}
                \cup {f \in {[snapshot EXCEPT ![s] = "removing"]} : snapshot[s] = "ready"}

(* The next one, after a success or an error.                              *)
NextSnapshot(ok) ==
  op' = [op EXCEPT !.at = "deleting", !.todo = Rest, !.ok = @ /\ ok]

DeleteSnapshot ==
  /\ At("deleting") /\ op.todo # {}
  /\ \/ Healthy /\ Current \in Listed
        /\ To("confirming")
        /\ IF snapshot[Current] = "removing" THEN UNCHANGED snapshot ELSE Removing(Current)
     \/ Healthy /\ Current \notin Listed
        /\ NextSnapshot(TRUE) /\ UNCHANGED snapshot
     \/ Fault /\ NextSnapshot(FALSE)
        /\ \/ UNCHANGED snapshot
           \/ snapshot[Current] \in {"saving", "ready"} /\ Removing(Current)
  /\ UNCHANGED <<replicas, pods, pod, restored, trigger, claim, remembered, named, saved, calls>>

DeletionConfirmed ==
  /\ At("confirming")
  /\ Current \notin Listed
  /\ op' = [op EXCEPT !.at = "deleting", !.todo = Rest, !.gone = @ \cup {Current}]
  /\ UNCHANGED <<cluster, remembered, named, saved, bounds>>

(* Mutant: a deletion that is not confirmed in time is no error.           *)
UnconfirmedIsFine ==
  /\ At("confirming")
  /\ \/ Healthy /\ Current \in Listed
     \/ Fault
  /\ NextSnapshot(TRUE)
  /\ UNCHANGED <<cluster, remembered, named, saved, calls>>

(* The time is over, or the look or the watch fails.                       *)
DeletionUnconfirmed ==
  /\ At("confirming")
  /\ \/ Healthy /\ Current \in Listed
     \/ Fault
  /\ NextSnapshot(FALSE)
  /\ UNCHANGED <<cluster, remembered, named, saved, calls>>

DeletionEnds ==
  /\ At("deleting") /\ op.todo = {}
  /\ Return(op.ok)
  /\ UNCHANGED <<cluster, remembered, named, saved, bounds>>

-----------------------------------------------------------------------------
(* delete_manual_triggers and terminate.                                   *)

Untrigger(kind) ==
  Begin([Call(kind, "untriggering") EXCEPT !.left = remembered, !.round = 1])
Clean == Untrigger("clean")
Terminate == Untrigger("terminate")

(* A trigger that is not found is deleted too.                             *)
DeleteTrigger ==
  /\ At("untriggering")
  /\ \E t \in op.left :
       \/ /\ Healthy
          /\ trigger' = [trigger EXCEPT ![t].state = "deleted"]
          /\ op' = [op EXCEPT !.left = @ \ {t}]
       \/ /\ Fault
          /\ trigger' \in {trigger, [trigger EXCEPT ![t].state = "deleted"]}
          /\ op' = [op EXCEPT !.left = @ \ {t}, !.kept = @ \cup {t}]
  /\ UNCHANGED <<replicas, pods, pod, restored, snapshot, claim, remembered, named, saved, calls>>

(* Mutant: one attempt too many.                                           *)
RetryOnceMore ==
  /\ At("untriggering") /\ op.left = {}
  /\ op.kept # {} /\ op.round <= MaxRetries
  /\ op' = [op EXCEPT !.left = op.kept, !.kept = {}, !.round = @ + 1]
  /\ UNCHANGED <<cluster, remembered, named, saved, bounds>>

RetryTriggers ==
  /\ At("untriggering") /\ op.left = {}
  /\ op.kept # {} /\ op.round < MaxRetries
  /\ op' = [op EXCEPT !.left = op.kept, !.kept = {}, !.round = @ + 1]
  /\ UNCHANGED <<cluster, remembered, named, saved, bounds>>

(* Mutant: the list is emptied, whatever could not be deleted.             *)
ForgetTriggers ==
  /\ At("untriggering") /\ op.left = {}
  /\ op.kept = {} \/ op.round = MaxRetries
  /\ remembered' = {}
  /\ IF op.kind = "terminate" THEN To("unclaiming") ELSE Return(TRUE)
  /\ UNCHANGED <<cluster, named, saved, bounds>>

(* What could not be deleted stays in the list, and terminate goes on.     *)
TriggersDone ==
  /\ At("untriggering") /\ op.left = {}
  /\ op.kept = {} \/ op.round = MaxRetries
  /\ remembered' = op.kept
  /\ IF op.kind = "terminate" THEN To("unclaiming") ELSE Return(TRUE)
  /\ UNCHANGED <<cluster, named, saved, bounds>>

(* Mutant: the claim is not deleted in a finally.                          *)
InterruptLeavesTheClaim ==
  /\ At("untriggering") /\ Fault
  /\ Raise
  /\ UNCHANGED <<cluster, remembered, named, saved, calls>>

(* Only an interrupt leaves the loop, and the list stays as it is; one in  *)
(* the middle of a request is a failed request and this.  terminate goes   *)
(* on to the claim in a finally, and raises the interrupt in the end.      *)
TriggersInterrupted ==
  /\ At("untriggering") /\ Fault
  /\ IF op.kind = "terminate"
     THEN op' = [op EXCEPT !.at = "unclaiming", !.ok = FALSE]
     ELSE Raise
  /\ UNCHANGED <<cluster, remembered, named, saved, calls>>

(* The engine of the handle is gone when the claim is, pending interrupt or*)
(* not; a request that fails raises before.                                *)
DeleteClaim ==
  /\ At("unclaiming")
  /\ \/ Healthy /\ claim' = FALSE /\ Return(op.ok)
     \/ Fault /\ claim' \in {claim, FALSE} /\ Raise
  /\ UNCHANGED <<replicas, pods, pod, restored, snapshot, trigger, remembered, named, saved, calls>>

-----------------------------------------------------------------------------
(* The cluster: the Sandbox, the kubelet and the snapshot controller.      *)

Client == <<remembered, named, op, saved, bounds>>

PodCreated ==
  /\ claim /\ replicas = 1 /\ pod = "absent" /\ pods < MaxPods
  /\ pods' = pods + 1
  /\ pod' = "starting"
  /\ restored' = Newest({s \in Snapshots : snapshot[s] = "ready"})
  /\ UNCHANGED <<replicas, snapshot, trigger, claim, Client>>

PodMoves(from, to) ==
  /\ pod \in from
  /\ pod' = to
  /\ UNCHANGED <<replicas, pods, restored, snapshot, trigger, claim, Client>>

PodStarts == PodMoves({"starting"}, "ready")
PodStops == ~(claim /\ replicas = 1) /\ PodMoves({"starting", "ready"}, "stopping")
PodEnds == PodMoves({"stopping"}, "absent")
PodEvicted == pods < MaxPods /\ PodMoves({"starting", "ready"}, "absent")

TriggerProcessed(t) ==
  /\ trigger[t].state = "created"
  /\ \/ /\ pod = "ready"
        /\ \E s \in UnusedSnapshot :
             /\ trigger' = [trigger EXCEPT ![t].state = "complete", ![t].made = s]
             /\ snapshot' = [snapshot EXCEPT ![s] = IF SavedIsReady THEN "ready" ELSE "saving"]
     \/ /\ trigger' = [trigger EXCEPT ![t].state = "failed"]
        /\ UNCHANGED snapshot
  /\ UNCHANGED <<replicas, pods, pod, restored, claim, Client>>

SnapshotMoves(s, from, to) ==
  /\ snapshot[s] = from
  /\ snapshot' = [snapshot EXCEPT ![s] = to]
  /\ UNCHANGED <<replicas, pods, pod, restored, trigger, claim, Client>>

-----------------------------------------------------------------------------
Start ==
  \/ Create \/ Suspend(TRUE) \/ Suspend(FALSE) \/ Resume
  \/ \E s \in Snapshots : Delete(s)
  \/ DeleteAll \/ Clean \/ Terminate

Proceed ==
  \/ GetPodName \/ TriggerCreated \/ TriggerRefused
  \/ SnapshotCompleted \/ SnapshotNotCompleted
  \/ IsSuspended \/ ReadUid \/ ScaleDown \/ PodTerminated \/ WaitTimesOut
  \/ GetLatestSnapshot \/ ScaleUp \/ PodReady \/ CheckRestored
  \/ ChooseSnapshots \/ DeleteSnapshot \/ DeletionConfirmed
  \/ DeletionUnconfirmed \/ DeletionEnds
  \/ DeleteTrigger \/ RetryTriggers \/ TriggersDone
  \/ TriggersInterrupted \/ DeleteClaim

Controllers ==
  \/ PodCreated \/ PodStarts \/ PodStops \/ PodEnds \/ PodEvicted
  \/ \E t \in Triggers : TriggerProcessed(t)
  \/ \E s \in Snapshots :
       SnapshotMoves(s, "saving", "ready") \/ SnapshotMoves(s, "removing", "removed")

Next == Start \/ Proceed \/ Controllers

Spec == Init /\ [][Next]_vars

(* Requests are answered and waits have deadlines: a call goes on.  No     *)
(* fairness is asked of the controllers.                                   *)
FairSpec == Spec /\ WF_vars(Proceed)

-----------------------------------------------------------------------------
(* Properties.                                                             *)

Succeeded(kind) == op.kind = kind /\ At("returned") /\ op.ok

(* A suspend that reports success after it read the UID of the pod has     *)
(* waited until that pod was gone, also when another pod has taken its     *)
(* name (sandbox_with_snapshot_support.py 177-206, utils.py 272-294).      *)
SuspendedPodIsGone ==
  Succeeded("suspend") /\ op.uid # 0 => pod = "absent" \/ pods # op.uid

(* A resume that scaled up and reports success has verified a snapshot     *)
(* that is not older than the one the last successful suspend took, unless *)
(* that one is being deleted: no saved work is lost behind a success       *)
(* (sandbox_with_snapshot_support.py 134-141, 236-283).                    *)
ResumeIsUpToDate ==
  Succeeded("resume") /\ op.scaled /\ saved # 0 /\ snapshot[saved] = "ready" =>
    op.latest >= saved

(* A deletion that reports success leaves none of the snapshots it chose,  *)
(* and what it reports as deleted is gone even when others are not         *)
(* (snapshot_engine.py 430-500).                                           *)
DeletionIsConfirmed ==
  op.kind \in {"delete", "delete_all"} =>
    /\ op.gone \cap Listed = {}
    /\ At("returned") /\ op.ok => op.chosen \cap Listed = {}

(* Every trigger on the cluster whose creation was answered is in the list *)
(* of what is still to be cleaned up (snapshot_engine.py 136, 213-258).    *)
TriggersAreRemembered ==
  \A t \in Triggers :
    trigger[t].told /\ trigger[t].state # "deleted" => t \in remembered

(* terminate reaches the request that deletes the claim whatever happens to*)
(* the triggers before it: their rounds fail, or it is interrupted between *)
(* them (support 303-312, engine 213-258).                                 *)
TerminateReachesTheClaim ==
  op.kind = "terminate" /\ At("untriggering") ~> At("unclaiming")

-----------------------------------------------------------------------------
(* Why they hold: the inductive invariant.                                 *)

(* Where a call may be, and what it has there.                             *)
PlaceOfCall ==
  \/ Quiet
  \/ op.kind = "create" /\ op.at \in {"naming", "triggering", "watching"}
  \/ /\ op.kind = "suspend"
     /\ op.at \in {"checking", "naming", "triggering", "watching", "reading_uid",
                   "scaling_down", "terminating"}
  \/ /\ op.kind = "resume"
     /\ op.at \in {"checking", "naming", "listing", "scaling_up", "starting", "verifying"}
  \/ op.kind = "delete" /\ op.at \in {"deleting", "confirming"}
  \/ op.kind = "delete_all" /\ op.at \in {"naming", "listing", "deleting", "confirming"}
  \/ op.kind = "clean" /\ At("untriggering")
  \/ op.kind = "terminate" /\ op.at \in {"untriggering", "unclaiming"}

HasUid ==
  /\ op.uid <= pods
  /\ op.at \in {"checking", "naming", "triggering", "watching", "reading_uid"} => op.uid = 0

HasTrigger ==
  /\ At("watching") => op.trigger \in Triggers
  /\ op.save /\ op.at \in {"reading_uid", "scaling_down", "terminating"} =>
       op.trigger \in Triggers

(* What a trigger has made stays a snapshot, or is removed for good.       *)
MadeIsThere ==
  /\ \A t \in Triggers : trigger[t].made # 0 => snapshot[trigger[t].made] # "none"
  /\ saved # 0 => snapshot[saved] # "none"

(* A deletion works off what it chose, of the snapshots that were made.    *)
DeletesTheChosen ==
  op.kind \in {"delete", "delete_all"} =>
    /\ op.todo \subseteq op.chosen
    /\ \A s \in op.chosen : snapshot[s] # "none"
    /\ \A s \in op.gone : snapshot[s] = "removed"
    /\ op.ok => \A s \in op.chosen \ op.todo : snapshot[s] = "removed"
    /\ Quiet /\ op.ok => op.todo = {}
    /\ At("confirming") => op.todo # {}

(* An attempt at the triggers has the rest of them before it, or kept.     *)
TriggersToGo ==
  At("untriggering") =>
    \A t \in Triggers :
      trigger[t].told /\ trigger[t].state # "deleted" => t \in op.left \cup op.kept

(* Where a snapshot is ready at once, what resume has listed is not older  *)
(* than what is saved and ready.                                           *)
ListedIsUpToDate ==
  /\ At("checking") => ~op.scaled
  /\ SavedIsReady =>
       /\ \A s \in Snapshots : snapshot[s] # "saving"
       /\ op.kind = "resume" /\ op.at \in {"scaling_up", "starting", "verifying"} =>
            (saved # 0 /\ snapshot[saved] = "ready" => op.latest >= saved)
       /\ ResumeIsUpToDate

PodSnapshotsInv ==
  /\ TypeOK /\ PlaceOfCall /\ HasUid /\ HasTrigger /\ MadeIsThere
  /\ DeletesTheChosen /\ TriggersToGo /\ ListedIsUpToDate
  /\ SuspendedPodIsGone /\ TriggersAreRemembered

=============================================================================
