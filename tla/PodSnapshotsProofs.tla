-------------------------- MODULE PodSnapshotsProofs --------------------------
(***************************************************************************)
(* TLAPS proofs about PodSnapshots, for any number of pods, triggers,      *)
(* calls, faults and retries.                                              *)
(***************************************************************************)
EXTENDS PodSnapshots, FiniteSetTheorems, TLAPS

-----------------------------------------------------------------------------
(* The operators.                                                          *)

(* Of a non-empty set of snapshots or triggers one is the newest: the sets *)
(* of the numbers above each of them are well-founded by inclusion.        *)
LEMMA NewestExists ==
  ASSUME NEW N \in Nat, NEW S, S \subseteq 1 .. N, S # {}
  PROVE  \E s \in S : \A u \in S : u <= s
<1> DEFINE Above(s) == s + 1 .. N
           R == StrictSubsetOrdering(1 .. N)
           T == {Above(s) : s \in S}
<1>1. IsWellFoundedOn(R, FiniteSubsetsOf(1 .. N))
  BY FS_StrictSubsetOrderingWellFounded
<1>2. T \subseteq FiniteSubsetsOf(1 .. N) /\ T # {}
  <2>1. IsFiniteSet(1 .. N)
    BY FS_Interval
  <2>2. \A s \in S : Above(s) \in SUBSET (1 .. N)
    OBVIOUS
  <2>3. FiniteSubsetsOf(1 .. N) = SUBSET (1 .. N)
    BY <2>1, FS_FiniteSubsetsOfFinite
  <2>4. QED
    BY <2>2, <2>3
<1>3. PICK x \in T : \A y \in T : ~(<<y, x>> \in R)
  <2> HIDE DEF R, T
  <2>1. QED
    BY <1>1, <1>2, WFMin
<1>4. PICK s \in S : x = Above(s)
  OBVIOUS
<1>5. ASSUME NEW u \in S PROVE u <= s
  <2>1. ~(<<Above(u), Above(s)>> \in R)
    BY <1>3, <1>4
  <2>2. ASSUME s < u PROVE FALSE
    <3>1. Above(u) \subseteq Above(s) /\ Above(u) # Above(s)
      <4>1. u \in Above(s) /\ u \notin Above(u)
        BY <2>2
      <4>2. Above(u) \subseteq Above(s)
        BY <2>2
      <4>3. QED
        BY <4>1, <4>2
    <3>2. Above(u) \in SUBSET (1 .. N) /\ Above(s) \in SUBSET (1 .. N)
      OBVIOUS
    <3>3. <<Above(u), Above(s)>> \in R
      <4> HIDE DEF Above
      <4>1. QED
        BY <3>1, <3>2 DEF StrictSubsetOrdering
    <3>4. QED
      BY <2>1, <3>3
  <2>3. QED
    BY <2>2
<1>6. QED
  BY <1>5

(* Newest is that one.                                                     *)
LEMMA NewestIsNewest ==
  ASSUME NEW N \in Nat, NEW S, S \subseteq 1 .. N
  PROVE  /\ Newest(S) \in 0 .. N
         /\ S # {} => Newest(S) \in S /\ \A u \in S : u <= Newest(S)
<1>1. CASE S = {}
  BY <1>1 DEF Newest
<1>2. CASE S # {}
  <2>1. \E s \in S : \A u \in S : u <= s
    BY <1>2, NewestExists
  <2>2. Newest(S) = CHOOSE s \in S : \A u \in S : u <= s
    BY <1>2 DEF Newest
  <2>3. Newest(S) \in S /\ \A u \in S : u <= Newest(S)
    BY <2>1, <2>2
  <2>4. PICK n \in 1 .. N : n = Newest(S)
    BY <2>3
  <2>5. Newest(S) \in 0 .. N
    BY <2>4
  <2>6. QED
    BY <2>3, <2>5
<1>3. QED
  BY <1>1, <1>2

(* What is unused is a trigger, or a snapshot, that is not there.          *)
LEMMA UnusedIsNone ==
  /\ \A t \in UnusedTrigger : t \in Triggers /\ trigger[t].state = "none"
  /\ \A s \in UnusedSnapshot : s \in Snapshots /\ snapshot[s] = "none"
BY DEF UnusedTrigger, UnusedSnapshot, Unused

(* The record of a call, one field changed.                                *)
LEMMA OpShape ==
  ASSUME NEW rec \in OpRecord
  PROVE  /\ \A at \in Steps \cup {"returned", "raised"} : [rec EXCEPT !.at = at] \in OpRecord
         /\ \A ok \in BOOLEAN : [rec EXCEPT !.ok = ok] \in OpRecord
         /\ \A uid \in 0 .. MaxPods : [rec EXCEPT !.uid = uid] \in OpRecord
         /\ \A t \in 0 .. MaxTriggers : /\ [rec EXCEPT !.trigger = t] \in OpRecord
                                        /\ [rec EXCEPT !.latest = t] \in OpRecord
         /\ [rec EXCEPT !.scaled = TRUE] \in OpRecord
         /\ \A S \in SUBSET Snapshots : /\ [rec EXCEPT !.todo = S] \in OpRecord
                                        /\ [rec EXCEPT !.chosen = S] \in OpRecord
                                        /\ [rec EXCEPT !.gone = S] \in OpRecord
         /\ \A S \in SUBSET Triggers : /\ [rec EXCEPT !.left = S] \in OpRecord
                                       /\ [rec EXCEPT !.kept = S] \in OpRecord
         /\ \A n \in 0 .. MaxRetries : [rec EXCEPT !.round = n] \in OpRecord
BY DEF OpRecord

-----------------------------------------------------------------------------
(* The controllers of the cluster.                                         *)

(* A pod changes, and nothing else: one that is gone has no successor of   *)
(* its UID.                                                                *)
LEMMA PodStep ==
  ASSUME PodSnapshotsInv,
         PodCreated \/ PodStarts \/ PodStops \/ PodEnds \/ PodEvicted
  PROVE  PodSnapshotsInv'
<1> USE PodSnapshotsAssumption
    DEF PodSnapshotsInv, PodCreated, PodStarts, PodStops, PodEnds, PodEvicted, PodMoves, Client,
        bounds, At
<1>1. TypeOK'
  <2>1. Newest({s \in Snapshots : snapshot[s] = "ready"}) \in 0 .. MaxTriggers
    BY NewestIsNewest DEF Snapshots
  <2>2. QED
    BY <2>1 DEF TypeOK
<1>2. op \in OpRecord /\ op.uid \in Nat /\ pods \in Nat /\ pods' \in Nat
  BY <1>1 DEF TypeOK, OpRecord
<1>3. pods <= pods' /\ (pods' # pods => pod = "absent" /\ pods' = pods + 1)
  BY <1>2
<1>4. HasUid'
  BY <1>2, <1>3 DEF HasUid
<1>5. SuspendedPodIsGone'
  BY <1>2, <1>3 DEF SuspendedPodIsGone, Succeeded, HasUid
<1>6. /\ PlaceOfCall' /\ HasTrigger' /\ MadeIsThere' /\ DeletesTheChosen'
      /\ TriggersToGo' /\ TriggersAreRemembered'
  BY DEF PlaceOfCall, HasTrigger, MadeIsThere, DeletesTheChosen, TriggersToGo,
         TriggersAreRemembered, Quiet
<1>7. ListedIsUpToDate'
  BY DEF ListedIsUpToDate, ResumeIsUpToDate, Succeeded
<1>8. QED
  BY <1>1, <1>4, <1>5, <1>6, <1>7

(* A trigger is processed: perhaps it makes a snapshot, a new one.         *)
LEMMA TriggerProcessedStep ==
  ASSUME PodSnapshotsInv, NEW t \in Triggers, TriggerProcessed(t)
  PROVE  PodSnapshotsInv'
<1> DEFINE States == {"none", "saving", "ready", "removing", "removed"}
           Records == [state : {"none", "created", "complete", "failed", "deleted"},
                       made : 0 .. MaxTriggers, told : BOOLEAN]
<1>1. /\ trigger \in [Triggers -> Records] /\ trigger[t] \in Records
      /\ snapshot \in [Snapshots -> States] /\ op \in OpRecord
      /\ \A u \in 0 .. MaxTriggers : u # 0 => u \in Snapshots
  BY DEF PodSnapshotsInv, TypeOK, Snapshots
<1>2. PICK state \in {"complete", "failed"}, made \in 0 .. MaxTriggers :
        /\ trigger' = [trigger EXCEPT ![t] = [trigger[t] EXCEPT !.state = state, !.made = made]]
        /\ made = trigger[t].made \/ (made \in Snapshots /\ snapshot'[made] # "none")
  <2>1. ASSUME NEW s \in UnusedSnapshot,
               trigger' = [trigger EXCEPT ![t].state = "complete", ![t].made = s],
               snapshot' = [snapshot EXCEPT ![s] = IF SavedIsReady THEN "ready" ELSE "saving"]
        PROVE  /\ trigger' = [trigger EXCEPT ![t] =
                                [trigger[t] EXCEPT !.state = "complete", !.made = s]]
               /\ s \in Snapshots /\ s \in 0 .. MaxTriggers /\ snapshot'[s] # "none"
    <3>1. trigger' = [trigger EXCEPT ![t] = [trigger[t] EXCEPT !.state = "complete", !.made = s]]
      BY <1>1, <2>1
    <3>2. s \in Snapshots
      BY <2>1, UnusedIsNone
    <3>3. s \in 0 .. MaxTriggers
      BY <3>2, PodSnapshotsAssumption DEF Snapshots
    <3>4. snapshot'[s] # "none"
      BY <1>1, <2>1, <3>2
    <3>5. QED
      BY <3>1, <3>2, <3>3, <3>4
  <2>2. ASSUME trigger' = [trigger EXCEPT ![t].state = "failed"]
        PROVE  /\ trigger' = [trigger EXCEPT ![t] = [trigger[t] EXCEPT !.state = "failed",
                                                                       !.made = trigger[t].made]]
               /\ trigger[t].made \in 0 .. MaxTriggers
    BY <1>1, <2>2
  <2>3. QED
    BY <2>1, <2>2 DEF TriggerProcessed
<1>3. PICK rec \in Records : /\ rec = [trigger[t] EXCEPT !.state = state, !.made = made]
                             /\ rec.state = state /\ rec.made = made /\ rec.told = trigger[t].told
  <2>1. /\ [trigger[t] EXCEPT !.state = state, !.made = made] \in Records
        /\ [trigger[t] EXCEPT !.state = state, !.made = made].state = state
        /\ [trigger[t] EXCEPT !.state = state, !.made = made].made = made
        /\ [trigger[t] EXCEPT !.state = state, !.made = made].told = trigger[t].told
    BY <1>1
  <2>2. QED
    BY <2>1
<1>4. /\ trigger' \in [Triggers -> Records] /\ trigger'[t] = rec
      /\ \A u \in Triggers : u # t => trigger'[u] = trigger[u]
  BY <1>1, <1>2, <1>3
<1>5. \A s \in Snapshots : snapshot'[s] # snapshot[s] =>
        /\ snapshot[s] = "none" /\ snapshot'[s] \in {"ready", "saving"}
        /\ SavedIsReady => snapshot'[s] = "ready"
  BY <1>1, UnusedIsNone DEF TriggerProcessed
<1>6. snapshot' \in [Snapshots -> States]
  BY <1>1, UnusedIsNone DEF TriggerProcessed
<1>7. UNCHANGED <<replicas, pods, pod, restored, claim, remembered, named, op, saved, calls, faults>>
  BY DEF TriggerProcessed, Client, bounds
<1> USE <1>7 DEF PodSnapshotsInv, At
<1>8. TypeOK'
  BY <1>4, <1>6 DEF TypeOK
<1>9. MadeIsThere'
  BY <1>1, <1>2, <1>3, <1>4, <1>5 DEF MadeIsThere, TypeOK
<1>10. DeletesTheChosen'
  BY <1>1, <1>5 DEF DeletesTheChosen, OpRecord, Quiet
<1>11. TriggersToGo' /\ TriggersAreRemembered'
  <2>1. trigger[t].state # "deleted"
    BY DEF TriggerProcessed
  <2>2. QED
    BY <1>3, <1>4, <2>1 DEF TriggersToGo, TriggersAreRemembered
<1>12. ListedIsUpToDate'
  BY <1>1, <1>5 DEF ListedIsUpToDate, ResumeIsUpToDate, Succeeded, MadeIsThere, TypeOK
<1>13. PlaceOfCall' /\ HasUid' /\ HasTrigger' /\ SuspendedPodIsGone'
  BY DEF PlaceOfCall, HasUid, HasTrigger, SuspendedPodIsGone, Succeeded, Quiet
<1>14. QED
  BY <1>8, <1>9, <1>10, <1>11, <1>12, <1>13

(* A snapshot gets ready, or what removed it is done.                      *)
LEMMA SnapshotMovesStep ==
  ASSUME PodSnapshotsInv, NEW s \in Snapshots,
         SnapshotMoves(s, "saving", "ready") \/ SnapshotMoves(s, "removing", "removed")
  PROVE  PodSnapshotsInv'
<1> USE PodSnapshotsAssumption DEF PodSnapshotsInv, SnapshotMoves, Client, bounds, At
<1>1. /\ snapshot' \in [Snapshots -> {"none", "saving", "ready", "removing", "removed"}]
      /\ \A u \in Snapshots : snapshot'[u] # snapshot[u] =>
           /\ snapshot[u] # "none" /\ snapshot[u] # "removed"
           /\ snapshot'[u] # "none" /\ snapshot'[u] # "saving"
           /\ snapshot'[u] = "ready" => snapshot[u] = "saving"
  BY DEF TypeOK
<1>2. TypeOK'
  BY <1>1 DEF TypeOK
<1>3. op \in OpRecord /\ \A u \in 0 .. MaxTriggers : u # 0 => u \in Snapshots
  BY DEF TypeOK, Snapshots
<1>4. MadeIsThere'
  BY <1>1, <1>3 DEF MadeIsThere, TypeOK
<1>5. DeletesTheChosen'
  BY <1>1, <1>3 DEF DeletesTheChosen, OpRecord, Quiet
<1>6. ListedIsUpToDate'
  BY <1>1, <1>3 DEF ListedIsUpToDate, ResumeIsUpToDate, Succeeded, TypeOK
<1>7. /\ PlaceOfCall' /\ HasUid' /\ HasTrigger' /\ SuspendedPodIsGone'
      /\ TriggersToGo' /\ TriggersAreRemembered'
  BY DEF PlaceOfCall, HasUid, HasTrigger, SuspendedPodIsGone, Succeeded, Quiet, TriggersToGo,
         TriggersAreRemembered
<1>8. QED
  BY <1>2, <1>4, <1>5, <1>6, <1>7

-----------------------------------------------------------------------------
(* The call that is under way.                                             *)

(* What a step of a call changes beside op where snapshots and triggers    *)
(* stay as they are.                                                       *)
Aside ==
  /\ UNCHANGED <<pods, pod, restored, snapshot, trigger>>
  /\ replicas' \in {0, 1} /\ claim' \in BOOLEAN /\ named' \in BOOLEAN
  /\ calls' \in 0 .. MaxCalls /\ faults' \in 0 .. MaxFaults

(* What op keeps in a step that goes on, returns or raises.                *)
Keeps ==
  /\ op' \in OpRecord
  /\ op'.kind = op.kind /\ op'.save = op.save /\ op'.uid = op.uid /\ op'.trigger = op.trigger
  /\ op'.latest = op.latest /\ op'.scaled = op.scaled
  /\ op'.todo = op.todo /\ op'.chosen = op.chosen /\ op'.gone = op.gone
  /\ op'.left = op.left /\ op'.kept = op.kept

(* The three ways a step of a call goes on.                                *)
LEMMA Goes ==
  ASSUME op \in OpRecord
  PROVE  /\ \A step \in Steps : To(step) => Keeps /\ op'.at = step /\ op'.ok = op.ok
         /\ \A ok \in BOOLEAN : Return(ok) => Keeps /\ op'.at = "returned" /\ op'.ok = ok
         /\ Raise => Keeps /\ op'.at = "raised" /\ op'.ok = FALSE
<1>1. \A step \in Steps : To(step) => Keeps /\ op'.at = step /\ op'.ok = op.ok
  BY DEF To, Keeps, OpRecord
<1>2. \A ok \in BOOLEAN : Return(ok) => Keeps /\ op'.at = "returned" /\ op'.ok = ok
  BY DEF Return, Keeps, OpRecord
<1>3. Raise => Keeps /\ op'.at = "raised" /\ op'.ok = FALSE
  BY DEF Raise, Keeps, OpRecord
<1>4. QED
  BY <1>1, <1>2, <1>3

(* A call ends: with success only where it has what it promises.           *)
LEMMA Ends ==
  ASSUME PodSnapshotsInv, Aside, Keeps, op'.at \in {"returned", "raised"},
         saved' = saved, remembered' \subseteq Triggers, TriggersAreRemembered',
         op'.ok => /\ op.kind = "suspend" /\ op.uid # 0 => PodGone
                   /\ op.kind \in {"delete", "delete_all"} => op.ok /\ op.todo = {}
                   /\ op.kind = "resume" => op.at \in {"starting", "verifying"} \/ ~op.scaled
  PROVE  PodSnapshotsInv'
<1> USE DEF PodSnapshotsInv, Aside, At
<1>1. TypeOK'
  BY DEF TypeOK, Keeps
<1>2. op \in OpRecord /\ op.uid \in Nat /\ pods \in Nat
  BY DEF TypeOK, OpRecord
<1>3. PlaceOfCall' /\ HasUid' /\ HasTrigger' /\ MadeIsThere' /\ TriggersToGo'
  BY DEF PlaceOfCall, Quiet, HasUid, Keeps, HasTrigger, MadeIsThere, TriggersToGo
<1>4. DeletesTheChosen'
  BY DEF DeletesTheChosen, Keeps, Quiet
<1>5. SuspendedPodIsGone'
  BY DEF SuspendedPodIsGone, Succeeded, Keeps, PodGone
<1>6. ListedIsUpToDate'
  BY DEF ListedIsUpToDate, ResumeIsUpToDate, Succeeded, Keeps
<1>7. QED
  BY <1>1, <1>3, <1>4, <1>5, <1>6

(* A call goes on, with what the next step needs.                          *)
LEMMA GoesOn ==
  ASSUME PodSnapshotsInv, Aside, Keeps, op'.ok => op.ok, PlaceOfCall',
         op'.at \notin {"returned", "raised", "untriggering", "checking"},
         op'.at \in {"naming", "triggering", "watching", "reading_uid"} => op.uid = 0,
         HasTrigger', op'.at = "confirming" => op.todo # {},
         op'.at \in {"scaling_up", "starting", "verifying"} =>
           op.at \in {"scaling_up", "starting", "verifying"},
         saved' = saved, remembered' \subseteq Triggers, TriggersAreRemembered'
  PROVE  PodSnapshotsInv'
<1> USE DEF PodSnapshotsInv, Aside, At
<1>1. TypeOK'
  BY DEF TypeOK, Keeps
<1>2. op \in OpRecord /\ op.uid \in Nat /\ pods \in Nat
  BY DEF TypeOK, OpRecord
<1>3. HasUid' /\ MadeIsThere' /\ TriggersToGo'
  BY DEF HasUid, Keeps, MadeIsThere, TriggersToGo
<1>4. DeletesTheChosen'
  BY DEF DeletesTheChosen, Keeps, Quiet
<1>5. SuspendedPodIsGone'
  BY DEF SuspendedPodIsGone, Succeeded
<1>6. ListedIsUpToDate'
  BY DEF ListedIsUpToDate, ResumeIsUpToDate, Succeeded, Keeps
<1>7. QED
  BY <1>1, <1>3, <1>4, <1>5, <1>6

(* Time, faults and the name are counted and cached; the rest is as it was.*)
LEMMA AsideOf ==
  ASSUME TypeOK, UNCHANGED cluster, named' = named \/ named' = TRUE,
         UNCHANGED calls, Fault \/ UNCHANGED faults
  PROVE  Aside
<1>1. faults' \in 0 .. MaxFaults
  BY PodSnapshotsAssumption DEF TypeOK, Fault
<1>2. named' \in BOOLEAN /\ claim' \in BOOLEAN
  BY Zenon DEF TypeOK, cluster
<1>3. QED
  BY <1>1, <1>2 DEF TypeOK, Aside, cluster

(* A step that leaves triggers and list alone keeps them remembered.       *)
LEMMA StaysRemembered ==
  ASSUME PodSnapshotsInv, UNCHANGED <<remembered, trigger>>
  PROVE  remembered' \subseteq Triggers /\ TriggersAreRemembered'
BY DEF PodSnapshotsInv, TypeOK, TriggersAreRemembered

(* A step that only looks, and returns or goes on.                         *)
LEMMA LooksStep ==
  ASSUME PodSnapshotsInv,
         GetPodName \/ SnapshotCompleted \/ SnapshotNotCompleted \/ WaitTimesOut
         \/ PodReady \/ CheckRestored \/ DeletionEnds
  PROVE  PodSnapshotsInv'
<1> USE DEF At
<1>1. /\ TypeOK /\ op \in OpRecord /\ op.ok \in BOOLEAN /\ RestoredFrom(op.latest) \in BOOLEAN
      /\ UNCHANGED <<remembered, trigger, saved>>
  BY DEF PodSnapshotsInv, TypeOK, OpRecord, RestoredFrom, GetPodName, SnapshotCompleted,
         SnapshotNotCompleted, WaitTimesOut, PodReady, CheckRestored, DeletionEnds, cluster
<1>2. Aside
  BY <1>1, AsideOf
     DEF GetPodName, SnapshotCompleted, SnapshotNotCompleted, WaitTimesOut, PodReady,
         CheckRestored, DeletionEnds, Healthy, bounds
<1>3. remembered' \subseteq Triggers /\ TriggersAreRemembered'
  BY <1>1, StaysRemembered
<1>4. CASE GetPodName
  <2>1. CASE To(AfterNaming)
    <3>1. /\ AfterNaming \in Steps /\ PlaceOfCall /\ op.kind \in {"create", "suspend", "resume", "delete_all"}
          /\ op.uid = 0
      BY <1>4 DEF GetPodName, AfterNaming, PodSnapshotsInv, PlaceOfCall, Quiet, Steps, HasUid
    <3>2. Keeps /\ op'.at = AfterNaming /\ op'.ok = op.ok
      BY <1>1, <2>1, <3>1, Goes
    <3>3. PlaceOfCall'
      BY <3>1, <3>2, <1>4 DEF AfterNaming, PlaceOfCall, Keeps, GetPodName, Quiet
    <3>4. HasTrigger'
      BY <3>1, <3>2 DEF AfterNaming, HasTrigger, Keeps
    <3>5. QED
      BY <1>1, <1>2, <1>3, <3>1, <3>2, <3>3, <3>4, GoesOn DEF AfterNaming
  <2>2. CASE Return(FALSE) \/ Raise
    BY <1>1, <1>2, <1>3, <2>2, Goes, Ends
  <2>3. QED
    BY <1>4, <2>1, <2>2 DEF GetPodName
<1>5. CASE SnapshotCompleted
  <2>1. PlaceOfCall /\ op.at = "watching" /\ "reading_uid" \in Steps /\ op.uid = 0
    BY <1>5 DEF SnapshotCompleted, PodSnapshotsInv, HasUid, Steps
  <2>2. CASE op.kind = "suspend"
    <3>1. Keeps /\ op'.at = "reading_uid" /\ op'.ok = op.ok
      BY <1>1, <1>5, <2>1, <2>2, Goes DEF SnapshotCompleted, CreateReturns
    <3>2. PlaceOfCall' /\ HasTrigger'
      BY <2>1, <2>2, <3>1 DEF PlaceOfCall, HasTrigger, Keeps, PodSnapshotsInv
    <3>3. QED
      BY <1>1, <1>2, <1>3, <2>1, <3>1, <3>2, GoesOn
  <2>3. CASE op.kind # "suspend"
    <3>1. op.kind = "create" /\ Return(TRUE)
      BY <1>5, <2>1, <2>3 DEF PlaceOfCall, Quiet, SnapshotCompleted, CreateReturns
    <3>2. QED
      BY <1>1, <1>2, <1>3, <3>1, Goes, Ends
  <2>4. QED
    BY <2>2, <2>3
<1>6. CASE SnapshotNotCompleted \/ WaitTimesOut
  <2>1. Return(FALSE)
    BY <1>6 DEF SnapshotNotCompleted, WaitTimesOut, CreateReturns
  <2>2. QED
    BY <1>1, <1>2, <1>3, <2>1, Goes, Ends
<1>7. CASE PodReady
  <2>1. op.kind = "resume" /\ op.at = "starting" /\ "verifying" \in Steps
    BY <1>7 DEF PodReady, PodSnapshotsInv, PlaceOfCall, Quiet, Steps
  <2>2. CASE Return(TRUE)
    BY <1>1, <1>2, <1>3, <2>1, <2>2, Goes, Ends
  <2>3. CASE To("verifying")
    <3>1. Keeps /\ op'.at = "verifying" /\ op'.ok = op.ok
      BY <1>1, <2>1, <2>3, Goes
    <3>2. PlaceOfCall' /\ HasTrigger'
      BY <2>1, <3>1 DEF PlaceOfCall, HasTrigger, Keeps
    <3>3. QED
      BY <1>1, <1>2, <1>3, <2>1, <3>1, <3>2, GoesOn
  <2>4. QED
    BY <1>7, <2>2, <2>3 DEF PodReady
<1>8. CASE CheckRestored
  <2>1. op.kind = "resume" /\ op.at = "verifying"
    BY <1>8 DEF CheckRestored, PodSnapshotsInv, PlaceOfCall, Quiet
  <2>2. PICK ok \in BOOLEAN : Return(ok)
    BY <1>1, <1>8 DEF CheckRestored
  <2>3. QED
    BY <1>1, <1>2, <1>3, <2>1, <2>2, Goes, Ends
<1>9. CASE DeletionEnds
  <2>1. op.kind \in {"delete", "delete_all"} /\ op.todo = {} /\ Return(op.ok)
    BY <1>9 DEF DeletionEnds, PodSnapshotsInv, PlaceOfCall, Quiet
  <2>2. QED
    BY <1>1, <1>2, <1>3, <2>1, Goes, Ends
<1>10. QED
  BY <1>4, <1>5, <1>6, <1>7, <1>8, <1>9

(* spec.replicas and the claim change beside op, and what is remembered.   *)
LEMMA ScaleStep ==
  ASSUME PodSnapshotsInv, ScaleDown \/ ScaleUp \/ DeleteClaim
  PROVE  PodSnapshotsInv'
<1> USE DEF At
<1>1. /\ TypeOK /\ op \in OpRecord /\ UNCHANGED <<remembered, trigger, saved>>
      /\ {"terminating", "starting"} \subseteq Steps
  BY DEF PodSnapshotsInv, TypeOK, ScaleDown, ScaleUp, SetReplicas, DeleteClaim, Steps
<1>2. Aside
  <2>1. faults' \in 0 .. MaxFaults
    <3>1. Fault \/ Healthy
      BY DEF ScaleDown, ScaleUp, SetReplicas, DeleteClaim
    <3>2. QED
      BY <1>1, <3>1, PodSnapshotsAssumption DEF TypeOK, Fault, Healthy
  <2>2. named' \in BOOLEAN /\ claim' \in BOOLEAN
    BY <1>1, Zenon DEF TypeOK, ScaleDown, ScaleUp, SetReplicas, DeleteClaim
  <2>3. /\ UNCHANGED <<pods, pod, restored, snapshot, trigger, calls>> /\ replicas' \in {0, 1}
    BY <1>1 DEF TypeOK, ScaleDown, ScaleUp, SetReplicas, DeleteClaim
  <2>4. QED
    BY <1>1, <2>1, <2>2, <2>3 DEF TypeOK, Aside
<1>3. remembered' \subseteq Triggers /\ TriggersAreRemembered'
  BY <1>1, StaysRemembered
<1>4. CASE Return(FALSE) \/ Raise
  BY <1>1, <1>2, <1>3, <1>4, Goes, Ends
<1>5. ASSUME At("scaling_down"), To("terminating")
      PROVE  PodSnapshotsInv'
  <2>1. Keeps /\ op'.at = "terminating" /\ op'.ok = op.ok
    BY <1>1, <1>5, Goes
  <2>2. PlaceOfCall' /\ HasTrigger'
    BY <1>5, <2>1 DEF PodSnapshotsInv, PlaceOfCall, HasTrigger, Keeps, Quiet
  <2>3. QED
    BY <1>1, <1>2, <1>3, <2>1, <2>2, GoesOn
<1>6. ASSUME At("scaling_up"), To("starting")
      PROVE  PodSnapshotsInv'
  <2>1. Keeps /\ op'.at = "starting" /\ op'.ok = op.ok
    BY <1>1, <1>6, Goes
  <2>2. PlaceOfCall' /\ HasTrigger'
    BY <1>6, <2>1 DEF PodSnapshotsInv, PlaceOfCall, HasTrigger, Keeps, Quiet
  <2>3. QED
    BY <1>1, <1>2, <1>3, <1>6, <2>1, <2>2, GoesOn
<1>7. CASE DeleteClaim /\ Return(op.ok)
  <2>1. op.kind = "terminate"
    BY <1>7 DEF DeleteClaim, PodSnapshotsInv, PlaceOfCall, Quiet
  <2>2. Keeps /\ op'.at = "returned"
    BY <1>1, <1>7, Goes DEF OpRecord
  <2>3. QED
    BY <1>1, <1>2, <1>3, <2>1, <2>2, Ends
<1>8. QED
  BY <1>4, <1>5, <1>6, <1>7 DEF ScaleDown, ScaleUp, SetReplicas, DeleteClaim

(* Only spec.replicas is looked at, and the call goes on or is done.       *)
LEMMA IsSuspendedStep ==
  ASSUME PodSnapshotsInv, IsSuspended
  PROVE  PodSnapshotsInv'
<1> USE DEF At
<1>1. /\ TypeOK /\ op \in OpRecord /\ UNCHANGED <<remembered, trigger, saved>>
      /\ op.kind \in {"suspend", "resume"} /\ op.at = "checking" /\ op.uid = 0
      /\ {"naming", "triggering", "reading_uid", "listing"} \subseteq Steps
  BY DEF PodSnapshotsInv, TypeOK, IsSuspended, cluster, PlaceOfCall, HasUid, Steps, Quiet
<1>2. Aside
  BY <1>1, AsideOf DEF IsSuspended, Healthy
<1>3. remembered' \subseteq Triggers /\ TriggersAreRemembered'
  BY <1>1, StaysRemembered
<1>4. PICK yes \in BOOLEAN : Checked(yes)
  BY DEF IsSuspended
<1>5. CASE op.kind = "suspend"
  <2>1. CASE yes
    BY <1>1, <1>2, <1>3, <1>4, <1>5, <2>1, Goes, Ends DEF Checked, SuspendChecked
  <2>2. CASE ~yes
    <3>1. PICK step \in {"naming", "triggering", "reading_uid"} :
            To(step) /\ (op.save => step # "reading_uid")
      BY <1>4, <1>5, <2>2 DEF Checked, SuspendChecked, Name
    <3>2. Keeps /\ op'.at = step /\ op'.ok = op.ok
      BY <1>1, <3>1, Goes
    <3>3. PlaceOfCall' /\ HasTrigger'
      BY <1>5, <3>1, <3>2 DEF PlaceOfCall, HasTrigger, Keeps, Quiet
    <3>4. QED
      BY <1>1, <1>2, <1>3, <3>2, <3>3, GoesOn
  <2>3. QED
    BY <2>1, <2>2
<1>6. CASE op.kind = "resume"
  <2>1. CASE yes
    <3>1. PICK step \in {"naming", "listing"} :
            op' = [op EXCEPT !.at = step, !.scaled = TRUE]
      BY <1>1, <1>4, <1>6, <2>1 DEF Checked, ResumeChecked, Name
    <3>2. /\ op' \in OpRecord /\ op'.kind = "resume" /\ op'.at = step /\ op'.uid = 0
          /\ op'.save = op.save /\ op'.todo = op.todo /\ op'.ok = op.ok
      <4>1. [op EXCEPT !.at = step] \in OpRecord
        BY <1>1, OpShape
      <4>2. op' = [[op EXCEPT !.at = step] EXCEPT !.scaled = TRUE]
        BY <1>1, <3>1 DEF OpRecord
      <4>3. op' \in OpRecord
        BY <4>1, <4>2, OpShape
      <4>4. QED
        BY <1>1, <1>6, <3>1, <4>3 DEF OpRecord
    <3> USE <1>1, <1>2, <1>3, <3>2 DEF PodSnapshotsInv, Aside
    <3>3. TypeOK'
      BY DEF TypeOK
    <3>4. /\ PlaceOfCall' /\ HasUid' /\ HasTrigger' /\ MadeIsThere' /\ DeletesTheChosen'
          /\ TriggersToGo' /\ SuspendedPodIsGone'
      BY DEF PlaceOfCall, Quiet, HasUid, HasTrigger, MadeIsThere, DeletesTheChosen,
             TriggersToGo, SuspendedPodIsGone, Succeeded, TypeOK
    <3>5. ListedIsUpToDate'
      BY DEF ListedIsUpToDate, ResumeIsUpToDate, Succeeded
    <3>6. QED
      BY <3>3, <3>4, <3>5
  <2>2. CASE ~yes
    <3>1. Return(TRUE)
      BY <1>1, <1>4, <1>6, <2>2 DEF Checked, ResumeChecked
    <3>2. ~op.scaled
      BY <1>1 DEF PodSnapshotsInv, ListedIsUpToDate
    <3>3. QED
      BY <1>1, <1>2, <1>3, <1>6, <3>1, <3>2, Goes, Ends
  <2>3. QED
    BY <2>1, <2>2
<1>7. QED
  BY <1>1, <1>5, <1>6

-----------------------------------------------------------------------------
(* Steps that change more of the record.                                   *)

(* The UID of the pod is read before the replicas are set to zero.         *)
LEMMA ReadUidStep ==
  ASSUME PodSnapshotsInv, ReadUid
  PROVE  PodSnapshotsInv'
<1> USE DEF At
<1>1. /\ TypeOK /\ op \in OpRecord /\ UNCHANGED <<remembered, trigger, saved>>
      /\ op.kind = "suspend" /\ op.at = "reading_uid" /\ op.uid = 0
      /\ pods \in 1 .. MaxPods /\ MaxPods \in Nat
  BY PodSnapshotsAssumption
     DEF PodSnapshotsInv, TypeOK, ReadUid, cluster, PlaceOfCall, HasUid, Quiet
<1>2. Aside
  BY <1>1, AsideOf DEF ReadUid, Healthy
<1>3. "scaling_down" \in Steps
  BY DEF Steps
<1>4. /\ op' \in OpRecord /\ op'.kind = "suspend" /\ op'.at = "scaling_down"
      /\ op'.uid \in 0 .. MaxPods /\ op'.uid <= pods
      /\ op'.save = op.save /\ op'.trigger = op.trigger
  <2>1. ASSUME NEW uid \in {0, pods}, op' = [op EXCEPT !.at = "scaling_down", !.uid = uid]
        PROVE  /\ op' \in OpRecord /\ op'.kind = "suspend" /\ op'.at = "scaling_down"
               /\ op'.uid = uid /\ op'.save = op.save /\ op'.trigger = op.trigger
    <3>1. uid \in 0 .. MaxPods
      BY <1>1
    <3>2. [op EXCEPT !.at = "scaling_down"] \in OpRecord
      BY <1>1, <1>3, OpShape
    <3>3. op' = [[op EXCEPT !.at = "scaling_down"] EXCEPT !.uid = uid]
      BY <2>1
    <3>4. op' \in OpRecord
      BY <3>1, <3>2, <3>3, OpShape
    <3>5. QED
      BY <1>1, <2>1, <3>4 DEF OpRecord
  <2>2. CASE To("scaling_down")
    <3>1. Keeps /\ op'.at = "scaling_down"
      BY <1>1, <1>3, <2>2, Goes
    <3>2. QED
      BY <1>1, <3>1 DEF Keeps
  <2>3. CASE op' = [op EXCEPT !.at = "scaling_down", !.uid = IF pod = "absent" THEN 0 ELSE pods]
    <3>1. PICK uid \in {0, pods} : uid = IF pod = "absent" THEN 0 ELSE pods
      OBVIOUS
    <3>2. op' = [op EXCEPT !.at = "scaling_down", !.uid = uid]
      BY <2>3, <3>1
    <3>3. /\ op' \in OpRecord /\ op'.kind = "suspend" /\ op'.at = "scaling_down"
          /\ op'.uid = uid /\ op'.save = op.save /\ op'.trigger = op.trigger
      BY <2>1, <3>2
    <3>4. QED
      BY <1>1, <3>3
  <2>4. QED
    BY <2>2, <2>3 DEF ReadUid
<1>5. remembered' \subseteq Triggers /\ TriggersAreRemembered'
  BY <1>1, StaysRemembered
<1> USE <1>1, <1>2, <1>3, <1>4, <1>5 DEF PodSnapshotsInv, Aside
<1>6. TypeOK'
  BY DEF TypeOK
<1>7. /\ PlaceOfCall' /\ HasUid' /\ HasTrigger' /\ MadeIsThere' /\ DeletesTheChosen'
      /\ TriggersToGo' /\ SuspendedPodIsGone'
  BY DEF PlaceOfCall, Quiet, HasUid, HasTrigger, MadeIsThere, DeletesTheChosen,
         TriggersToGo, SuspendedPodIsGone, Succeeded
<1>8. ListedIsUpToDate'
  BY DEF ListedIsUpToDate, ResumeIsUpToDate, Succeeded
<1>9. QED
  BY <1>6, <1>7, <1>8

(* suspend succeeds when its pod is gone, and what it saved is there.      *)
LEMMA PodTerminatedStep ==
  ASSUME PodSnapshotsInv, PodTerminated
  PROVE  PodSnapshotsInv'
<1> USE DEF At
<1>1. /\ TypeOK /\ op \in OpRecord /\ UNCHANGED <<cluster, remembered, named, bounds>>
      /\ op.kind = "suspend" /\ op.at = "terminating" /\ PodGone
  BY DEF PodSnapshotsInv, TypeOK, PodTerminated, PlaceOfCall, Quiet
<1>2. Keeps /\ op'.at = "returned" /\ op'.ok = TRUE
  BY <1>1, Goes DEF PodTerminated
<1>3. saved' \in 0 .. MaxTriggers /\ (saved' # 0 => snapshot[saved'] # "none")
  <2>1. CASE op.save
    <3>1. op.trigger \in Triggers
      BY <1>1, <2>1 DEF PodSnapshotsInv, HasTrigger
    <3>2. saved' = trigger[op.trigger].made
      BY <2>1 DEF PodTerminated
    <3>3. QED
      BY <1>1, <3>1, <3>2 DEF PodSnapshotsInv, TypeOK, MadeIsThere
  <2>2. CASE ~op.save
    BY <1>1, <2>2 DEF PodSnapshotsInv, TypeOK, MadeIsThere, PodTerminated
  <2>3. QED
    BY <2>1, <2>2
<1>4. remembered' \subseteq Triggers /\ TriggersAreRemembered'
  BY <1>1, StaysRemembered DEF cluster
<1> USE <1>1, <1>2, <1>3, <1>4 DEF PodSnapshotsInv, cluster, bounds, Keeps
<1>5. TypeOK'
  BY DEF TypeOK
<1>6. /\ PlaceOfCall' /\ HasUid' /\ HasTrigger' /\ MadeIsThere' /\ DeletesTheChosen'
      /\ TriggersToGo' /\ SuspendedPodIsGone'
  BY DEF PlaceOfCall, Quiet, HasUid, HasTrigger, MadeIsThere, DeletesTheChosen,
         TriggersToGo, SuspendedPodIsGone, Succeeded, PodGone
<1>7. ListedIsUpToDate'
  BY DEF ListedIsUpToDate, ResumeIsUpToDate, Succeeded
<1>8. QED
  BY <1>5, <1>6, <1>7

(* resume expects the newest snapshot that is ready.                       *)
LEMMA GetLatestSnapshotStep ==
  ASSUME PodSnapshotsInv, GetLatestSnapshot
  PROVE  PodSnapshotsInv'
<1> USE DEF At
<1>1. /\ TypeOK /\ op \in OpRecord /\ UNCHANGED <<remembered, trigger, saved>>
      /\ op.kind = "resume" /\ op.at = "listing" /\ "scaling_up" \in Steps
  BY DEF PodSnapshotsInv, TypeOK, GetLatestSnapshot, cluster, Steps
<1>2. Aside
  BY <1>1, AsideOf DEF GetLatestSnapshot, Healthy, ListFails
<1>3. remembered' \subseteq Triggers /\ TriggersAreRemembered'
  BY <1>1, StaysRemembered
<1>4. /\ LatestUid \in 0 .. MaxTriggers
      /\ \A s \in Snapshots : snapshot[s] = "ready" => LatestUid >= s
  <2>1. ListedReady \subseteq 1 .. MaxTriggers /\ MaxTriggers \in Nat
    BY PodSnapshotsAssumption DEF ListedReady, Listed, Snapshots
  <2>2. /\ LatestUid \in 0 .. MaxTriggers
        /\ ListedReady # {} => \A u \in ListedReady : u <= LatestUid
    BY <2>1, NewestIsNewest DEF LatestUid
  <2>3. ASSUME NEW s \in Snapshots, snapshot[s] = "ready"
        PROVE  LatestUid >= s
    <3>1. s \in ListedReady
      BY <2>3 DEF ListedReady, Listed
    <3>2. s <= LatestUid /\ s \in Nat
      BY <2>1, <2>2, <3>1
    <3>3. QED
      BY <2>1, <2>2, <3>2
  <2>4. QED
    BY <2>2, <2>3
<1>5. CASE Return(FALSE)
  BY <1>1, <1>2, <1>3, <1>5, Goes, Ends
<1>6. CASE op' = [op EXCEPT !.at = "scaling_up", !.latest = LatestUid]
  <2>1. /\ op' \in OpRecord /\ op'.kind = "resume" /\ op'.at = "scaling_up" /\ op'.uid = op.uid
        /\ op'.latest = LatestUid
    BY <1>1, <1>4, <1>6 DEF OpRecord
  <2> USE <1>1, <1>2, <1>3, <1>4, <2>1 DEF PodSnapshotsInv, Aside
  <2>2. TypeOK'
    BY DEF TypeOK
  <2>3. /\ PlaceOfCall' /\ HasUid' /\ HasTrigger' /\ MadeIsThere' /\ DeletesTheChosen'
        /\ TriggersToGo' /\ SuspendedPodIsGone'
    BY DEF PlaceOfCall, Quiet, HasUid, HasTrigger, MadeIsThere, DeletesTheChosen,
           TriggersToGo, SuspendedPodIsGone, Succeeded
  <2>4. ListedIsUpToDate'
    <3>1. saved # 0 => saved \in Snapshots
      BY DEF TypeOK, Snapshots
    <3>2. QED
      BY <3>1 DEF ListedIsUpToDate, ResumeIsUpToDate, Succeeded
  <2>5. QED
    BY <2>2, <2>3, <2>4
<1>7. QED
  BY <1>5, <1>6 DEF GetLatestSnapshot, ListFails

-----------------------------------------------------------------------------
(* Deletion of snapshots.                                                  *)

(* The one in turn is one of those that are left.                          *)
LEMMA CurrentIsLeft ==
  ASSUME op \in OpRecord, op.todo # {}
  PROVE  Current \in op.todo /\ Current \in Snapshots /\ Rest \in SUBSET Snapshots
<1>1. op.todo \subseteq 1 .. MaxTriggers /\ MaxTriggers \in Nat
  BY PodSnapshotsAssumption DEF OpRecord, Snapshots
<1>2. Current \in op.todo
  BY <1>1, NewestIsNewest DEF Current
<1>3. QED
  BY <1>1, <1>2 DEF Rest, Snapshots

(* A deletion chooses what is there now, or one it was told.               *)
LEMMA ChooseSnapshotsStep ==
  ASSUME PodSnapshotsInv, ChooseSnapshots
  PROVE  PodSnapshotsInv'
<1> USE DEF At
<1>1. /\ TypeOK /\ op \in OpRecord /\ UNCHANGED <<remembered, trigger, saved>>
      /\ op.kind = "delete_all" /\ op.at = "listing" /\ "deleting" \in Steps
  BY DEF PodSnapshotsInv, TypeOK, ChooseSnapshots, cluster, Steps
<1>2. Aside
  BY <1>1, AsideOf DEF ChooseSnapshots, Healthy, ListFails
<1>3. remembered' \subseteq Triggers /\ TriggersAreRemembered'
  BY <1>1, StaysRemembered
<1>4. CASE Return(FALSE)
  BY <1>1, <1>2, <1>3, <1>4, Goes, Ends
<1>5. ASSUME NEW chosen \in SUBSET Listed,
             op' = [op EXCEPT !.at = "deleting", !.todo = chosen, !.chosen = chosen]
      PROVE  PodSnapshotsInv'
  <2>1. chosen \in SUBSET Snapshots /\ \A s \in chosen : snapshot[s] # "none"
    BY DEF Listed
  <2>2. /\ op' \in OpRecord /\ op'.kind = "delete_all" /\ op'.at = "deleting" /\ op'.uid = op.uid
        /\ op'.todo = chosen /\ op'.chosen = chosen /\ op'.gone = op.gone
    BY <1>1, <1>5, <2>1 DEF OpRecord
  <2> USE <1>1, <1>2, <1>3, <2>1, <2>2 DEF PodSnapshotsInv, Aside
  <2>3. TypeOK'
    BY DEF TypeOK
  <2>4. DeletesTheChosen'
    BY DEF DeletesTheChosen, Quiet
  <2>5. /\ PlaceOfCall' /\ HasUid' /\ HasTrigger' /\ MadeIsThere'
        /\ TriggersToGo' /\ SuspendedPodIsGone' /\ ListedIsUpToDate'
    BY DEF PlaceOfCall, Quiet, HasUid, HasTrigger, MadeIsThere, TriggersToGo,
           SuspendedPodIsGone, Succeeded, ListedIsUpToDate, ResumeIsUpToDate
  <2>6. QED
    BY <2>3, <2>4, <2>5
<1>6. QED
  BY <1>4, <1>5 DEF ChooseSnapshots, ListFails

(* A turn of the deletion ends: the snapshot is gone, or it was an error.  *)
LEMMA TurnEnds ==
  ASSUME PodSnapshotsInv, op.kind \in {"delete", "delete_all"}, op.at \in {"deleting", "confirming"},
         op.todo # {},
         UNCHANGED <<replicas, pods, pod, restored, trigger, claim, remembered, named, saved, calls>>,
         faults' \in 0 .. MaxFaults,
         snapshot' \in [Snapshots -> {"none", "saving", "ready", "removing", "removed"}],
         \A s \in Snapshots : /\ snapshot[s] # "none" => snapshot'[s] # "none"
                              /\ snapshot[s] = "removed" => snapshot'[s] = "removed"
                              /\ snapshot'[s] = "ready" => snapshot[s] = "ready"
                              /\ snapshot'[s] = "saving" => snapshot[s] = "saving",
         op' \in OpRecord, op'.kind = op.kind, op'.at = "deleting", op'.uid = op.uid,
         op'.chosen = op.chosen, op'.todo = Rest,
         op'.gone \subseteq op.gone \cup {Current},
         Current \in op'.gone => snapshot'[Current] = "removed",
         op'.ok => op.ok /\ snapshot'[Current] = "removed"
  PROVE  PodSnapshotsInv'
<1> USE DEF At, PodSnapshotsInv
<1>1. /\ op \in OpRecord /\ saved \in 0 .. MaxTriggers
      /\ \A u \in 0 .. MaxTriggers : u # 0 => u \in Snapshots
      /\ op.chosen \in SUBSET Snapshots /\ op.gone \in SUBSET Snapshots
  BY DEF TypeOK, Snapshots, OpRecord
<1>2. Current \in op.todo /\ Current \in Snapshots /\ op.todo \subseteq op.chosen
  BY <1>1, CurrentIsLeft DEF DeletesTheChosen
<1>3. TypeOK'
  BY DEF TypeOK
<1>4. DeletesTheChosen'
  <2>1. op'.todo \subseteq op'.chosen /\ \A s \in op'.chosen : snapshot'[s] # "none"
    BY <1>1, <1>2 DEF DeletesTheChosen, Rest
  <2>2. \A s \in op'.gone : snapshot'[s] = "removed"
    <3>1. ASSUME NEW s \in op.gone PROVE snapshot'[s] = "removed"
      BY <1>1 DEF DeletesTheChosen
    <3>2. QED
      BY <3>1
  <2>3. op'.ok => \A s \in op'.chosen \ op'.todo : snapshot'[s] = "removed"
    BY <1>1, <1>2 DEF DeletesTheChosen, Rest
  <2>4. QED
    BY <2>1, <2>2, <2>3 DEF DeletesTheChosen, Quiet
<1>5. MadeIsThere'
  BY <1>1, <1>3 DEF MadeIsThere, TypeOK
<1>6. ListedIsUpToDate'
  BY <1>1 DEF ListedIsUpToDate, ResumeIsUpToDate, Succeeded
<1>7. /\ PlaceOfCall' /\ HasUid' /\ HasTrigger' /\ TriggersToGo' /\ SuspendedPodIsGone'
      /\ TriggersAreRemembered'
  BY DEF PlaceOfCall, Quiet, HasUid, HasTrigger, TriggersToGo, SuspendedPodIsGone, Succeeded,
         TriggersAreRemembered
<1>8. QED
  BY <1>3, <1>4, <1>5, <1>6, <1>7

(* The number of faults stays within its bound.                            *)
LEMMA FaultsAreCounted ==
  ASSUME TypeOK, Healthy \/ Fault
  PROVE  faults' \in 0 .. MaxFaults
BY PodSnapshotsAssumption DEF TypeOK, Healthy, Fault

(* A deletion goes on with the rest, and fails if one of them failed.      *)
LEMMA NextSnapshotShape ==
  ASSUME op \in OpRecord, op.todo # {}, NEW ok \in BOOLEAN, NextSnapshot(ok)
  PROVE  /\ op' \in OpRecord /\ op'.kind = op.kind /\ op'.at = "deleting" /\ op'.uid = op.uid
         /\ op'.chosen = op.chosen /\ op'.todo = Rest /\ op'.gone = op.gone
         /\ op'.ok => op.ok /\ ok
<1>1. PICK b \in BOOLEAN : b = (op.ok /\ ok)
  OBVIOUS
<1>2. op' = [op EXCEPT !.at = "deleting", !.todo = Rest, !.ok = b]
  BY <1>1 DEF NextSnapshot
<1>3. "deleting" \in Steps /\ Rest \in SUBSET Snapshots
  BY CurrentIsLeft DEF Steps
<1>4. /\ op' \in OpRecord /\ op'.kind = op.kind /\ op'.at = "deleting" /\ op'.uid = op.uid
      /\ op'.chosen = op.chosen /\ op'.todo = Rest /\ op'.gone = op.gone
      /\ op'.ok = b
  BY <1>2, <1>3 DEF OpRecord
<1>5. QED
  BY <1>1, <1>4

(* The deletion is seen, or it is not.                                     *)
LEMMA DeletionSeenStep ==
  ASSUME PodSnapshotsInv, DeletionConfirmed \/ DeletionUnconfirmed
  PROVE  PodSnapshotsInv'
<1> USE DEF At
<1>1. /\ TypeOK /\ op \in OpRecord /\ op.kind \in {"delete", "delete_all"} /\ op.at = "confirming"
      /\ op.todo # {} /\ "deleting" \in Steps
      /\ snapshot \in [Snapshots -> {"none", "saving", "ready", "removing", "removed"}]
  BY DEF PodSnapshotsInv, TypeOK, DeletionConfirmed, DeletionUnconfirmed, PlaceOfCall, Quiet,
         DeletesTheChosen, Steps
<1>2. Current \in op.todo /\ Current \in Snapshots /\ Rest \in SUBSET Snapshots
  BY <1>1, CurrentIsLeft
<1>3. /\ UNCHANGED <<replicas, pods, pod, restored, trigger, claim, remembered, named, saved, calls>>
      /\ UNCHANGED snapshot /\ (Healthy \/ Fault)
  BY DEF DeletionConfirmed, DeletionUnconfirmed, cluster, bounds, Healthy
<1>4. faults' \in 0 .. MaxFaults
  BY <1>1, <1>3, FaultsAreCounted
<1>5. CASE DeletionConfirmed
  <2>1. snapshot[Current] = "removed"
    <3>1. snapshot[Current] # "none"
      BY <1>1, <1>2 DEF PodSnapshotsInv, DeletesTheChosen
    <3>2. Current \notin Listed
      BY <1>5 DEF DeletionConfirmed
    <3>3. QED
      BY <1>1, <1>2, <3>1, <3>2 DEF Listed
  <2>2. /\ op' \in OpRecord /\ op'.kind = op.kind /\ op'.at = "deleting" /\ op'.uid = op.uid
        /\ op'.chosen = op.chosen /\ op'.todo = Rest /\ op'.gone = op.gone \cup {Current}
        /\ op'.ok = op.ok
    <3>1. op.gone \cup {Current} \in SUBSET Snapshots
      BY <1>1, <1>2 DEF OpRecord
    <3>2. op' = [op EXCEPT !.at = "deleting", !.todo = Rest, !.gone = op.gone \cup {Current}]
      BY <1>5 DEF DeletionConfirmed
    <3>3. QED
      BY <1>1, <1>2, <3>1, <3>2 DEF OpRecord
  <2>3. QED
    BY <1>1, <1>3, <1>4, <2>1, <2>2, TurnEnds
<1>6. CASE DeletionUnconfirmed
  <2>1. NextSnapshot(FALSE)
    BY <1>6 DEF DeletionUnconfirmed
  <2>2. /\ op' \in OpRecord /\ op'.kind = op.kind /\ op'.at = "deleting" /\ op'.uid = op.uid
        /\ op'.chosen = op.chosen /\ op'.todo = Rest /\ op'.gone = op.gone /\ ~op'.ok
    BY <1>1, <2>1, NextSnapshotShape
  <2>3. Current \in op'.gone => snapshot'[Current] = "removed"
    BY <1>1, <1>3, <2>2 DEF PodSnapshotsInv, DeletesTheChosen
  <2>4. QED
    BY <1>1, <1>3, <1>4, <2>2, <2>3, TurnEnds
<1>7. QED
  BY <1>5, <1>6

(* The API is asked to remove the one in turn.                             *)
LEMMA DeleteSnapshotStep ==
  ASSUME PodSnapshotsInv, DeleteSnapshot
  PROVE  PodSnapshotsInv'
<1> USE DEF At
<1>1. /\ TypeOK /\ op \in OpRecord /\ op.kind \in {"delete", "delete_all"} /\ op.at = "deleting"
      /\ op.todo # {} /\ "confirming" \in Steps
      /\ snapshot \in [Snapshots -> {"none", "saving", "ready", "removing", "removed"}]
      /\ saved \in 0 .. MaxTriggers
      /\ \A u \in 0 .. MaxTriggers : u # 0 => u \in Snapshots
  BY DEF PodSnapshotsInv, TypeOK, DeleteSnapshot, PlaceOfCall, Quiet, Steps, Snapshots
<1>2. Current \in op.todo /\ Current \in Snapshots
  BY <1>1, CurrentIsLeft
<1>3. /\ UNCHANGED <<replicas, pods, pod, restored, trigger, claim, remembered, named, saved, calls>>
      /\ Healthy \/ Fault
  BY DEF DeleteSnapshot
<1>4. faults' \in 0 .. MaxFaults
  BY <1>1, <1>3, FaultsAreCounted
<1>5. snapshot[Current] # "none"
  BY <1>1, <1>2 DEF PodSnapshotsInv, DeletesTheChosen
<1>6. /\ snapshot' \in [Snapshots -> {"none", "saving", "ready", "removing", "removed"}]
      /\ \A s \in Snapshots : /\ snapshot[s] # "none" => snapshot'[s] # "none"
                              /\ snapshot[s] = "removed" => snapshot'[s] = "removed"
                              /\ snapshot'[s] = "ready" => snapshot[s] = "ready"
                              /\ snapshot'[s] = "saving" => snapshot[s] = "saving"
  <2>1. UNCHANGED snapshot \/ (Removing(Current) /\ snapshot[Current] \in {"saving", "ready"})
    BY <1>1, <1>2 DEF DeleteSnapshot, Listed
  <2>2. QED
    BY <1>1, <1>2, <2>1 DEF Removing
<1>7. CASE To("confirming")
  <2>1. Keeps /\ op'.at = "confirming" /\ op'.ok = op.ok
    BY <1>1, <1>7, Goes
  <2> USE <1>1, <1>3, <1>4, <1>6, <2>1 DEF PodSnapshotsInv, Keeps
  <2>2. TypeOK'
    BY DEF TypeOK
  <2>3. DeletesTheChosen'
    <3>1. op.chosen \in SUBSET Snapshots /\ op.gone \in SUBSET Snapshots
      BY DEF OpRecord
    <3>2. QED
      BY <3>1 DEF DeletesTheChosen, Quiet
  <2>4. MadeIsThere'
    BY <2>2 DEF MadeIsThere, TypeOK
  <2>5. ListedIsUpToDate'
    BY DEF ListedIsUpToDate, ResumeIsUpToDate, Succeeded
  <2>6. /\ PlaceOfCall' /\ HasUid' /\ HasTrigger' /\ TriggersToGo' /\ SuspendedPodIsGone'
        /\ TriggersAreRemembered'
    BY DEF PlaceOfCall, Quiet, HasUid, HasTrigger, TriggersToGo, SuspendedPodIsGone, Succeeded,
           TriggersAreRemembered
  <2>7. QED
    BY <2>2, <2>3, <2>4, <2>5, <2>6
<1>8. ASSUME NEW ok \in BOOLEAN, NextSnapshot(ok), ok => Current \notin Listed /\ UNCHANGED snapshot
      PROVE  PodSnapshotsInv'
  <2>1. /\ op' \in OpRecord /\ op'.kind = op.kind /\ op'.at = "deleting" /\ op'.uid = op.uid
        /\ op'.chosen = op.chosen /\ op'.todo = Rest /\ op'.gone = op.gone
        /\ op'.ok => op.ok /\ ok
    BY <1>1, <1>8, NextSnapshotShape
  <2>2. ok => snapshot'[Current] = "removed"
    BY <1>1, <1>2, <1>5, <1>8 DEF Listed
  <2>3. Current \in op'.gone => snapshot'[Current] = "removed"
    BY <1>1, <1>2, <1>6, <2>1 DEF PodSnapshotsInv, DeletesTheChosen
  <2>4. op'.ok => op.ok /\ snapshot'[Current] = "removed"
    BY <2>1, <2>2
  <2>5. QED
    BY <1>1, <1>3, <1>4, <1>6, <2>1, <2>3, <2>4, TurnEnds
<1>9. QED
  BY <1>7, <1>8 DEF DeleteSnapshot

-----------------------------------------------------------------------------
(* The triggers.                                                           *)

(* A trigger is created, perhaps without an answer.                        *)
LEMMA TriggeringStep ==
  ASSUME PodSnapshotsInv, TriggerCreated \/ TriggerRefused
  PROVE  PodSnapshotsInv'
<1> USE DEF At
<1> DEFINE Records == [state : {"none", "created", "complete", "failed", "deleted"},
                       made : 0 .. MaxTriggers, told : BOOLEAN]
<1>1. /\ TypeOK /\ op \in OpRecord /\ op.kind \in {"create", "suspend"} /\ op.at = "triggering"
      /\ op.uid = 0 /\ "watching" \in Steps
      /\ trigger \in [Triggers -> Records] /\ remembered \subseteq Triggers
      /\ UNCHANGED <<replicas, pods, pod, restored, snapshot, claim, named, saved, calls>>
      /\ Healthy \/ Fault
  BY DEF PodSnapshotsInv, TypeOK, TriggerCreated, TriggerRefused, PlaceOfCall, Quiet, HasUid, Steps
<1>2. faults' \in 0 .. MaxFaults
  BY <1>1, FaultsAreCounted
<1>3. ASSUME NEW t \in UnusedTrigger, NEW told \in BOOLEAN,
             trigger' = [trigger EXCEPT ![t] = [trigger[t] EXCEPT !.state = "created", !.told = told]],
             remembered' = remembered \cup {t} \/ (remembered' = remembered /\ told = trigger[t].told)
      PROVE  /\ trigger' \in [Triggers -> Records] /\ remembered' \subseteq Triggers
             /\ TriggersAreRemembered'
             /\ \A u \in Triggers : trigger'[u].made = trigger[u].made
  <2>1. t \in Triggers /\ trigger[t].state = "none" /\ trigger[t] \in Records
    BY <1>1, UnusedIsNone
  <2>2. PICK rec \in Records : /\ rec = [trigger[t] EXCEPT !.state = "created", !.told = told]
                               /\ rec.told = told /\ rec.made = trigger[t].made
    <3>1. /\ [trigger[t] EXCEPT !.state = "created", !.told = told] \in Records
          /\ [trigger[t] EXCEPT !.state = "created", !.told = told].told = told
          /\ [trigger[t] EXCEPT !.state = "created", !.told = told].made = trigger[t].made
      BY <2>1
    <3>2. QED
      BY <3>1
  <2>3. /\ trigger' \in [Triggers -> Records] /\ trigger'[t] = rec
        /\ \A u \in Triggers : u # t => trigger'[u] = trigger[u]
    BY <1>1, <1>3, <2>1, <2>2
  <2>4. TriggersAreRemembered'
    BY <1>1, <1>3, <2>1, <2>2, <2>3 DEF PodSnapshotsInv, TriggersAreRemembered
  <2>5. QED
    BY <1>1, <1>3, <2>1, <2>2, <2>3, <2>4
<1>4. /\ trigger' \in [Triggers -> Records] /\ remembered' \subseteq Triggers
      /\ TriggersAreRemembered'
      /\ \A u \in Triggers : trigger'[u].made = trigger[u].made
  <2>1. CASE TriggerCreated
    <3>1. PICK t \in UnusedTrigger :
            /\ trigger' = [trigger EXCEPT ![t].state = "created", ![t].told = TRUE]
            /\ remembered' = remembered \cup {t}
      BY <2>1 DEF TriggerCreated
    <3>2. trigger' = [trigger EXCEPT ![t] = [trigger[t] EXCEPT !.state = "created", !.told = TRUE]]
      BY <1>1, <3>1, UnusedIsNone
    <3>3. QED
      BY <1>3, <3>1, <3>2
  <2>2. CASE UNCHANGED <<trigger, remembered>>
    BY <1>1, <2>2, StaysRemembered
  <2>3. CASE TriggerRefused /\ trigger' # trigger
    <3>1. PICK t \in UnusedTrigger : trigger' = [trigger EXCEPT ![t].state = "created"]
      BY <2>3 DEF TriggerRefused
    <3>2. /\ trigger' = [trigger EXCEPT ![t] =
                           [trigger[t] EXCEPT !.state = "created", !.told = trigger[t].told]]
          /\ trigger[t].told \in BOOLEAN
      <4>1. trigger[t] \in Records
        BY <1>1, UnusedIsNone
      <4>2. [trigger[t] EXCEPT !.state = "created", !.told = trigger[t].told]
              = [trigger[t] EXCEPT !.state = "created"]
        BY <4>1
      <4>3. QED
        BY <1>1, <3>1, <4>1, <4>2
    <3>3. remembered' = remembered
      BY <2>3 DEF TriggerRefused
    <3>4. QED
      BY <1>3, <3>2, <3>3
  <2>4. QED
    BY <2>1, <2>2, <2>3 DEF TriggerRefused
<1> USE <1>1, <1>2, <1>4 DEF PodSnapshotsInv
<1>5. saved # 0 => snapshot[saved] # "none"
  BY DEF MadeIsThere
<1>6. MadeIsThere'
  BY DEF MadeIsThere
<1>7. CASE TriggerCreated
  <2>1. PICK t \in UnusedTrigger : op' = [op EXCEPT !.at = "watching", !.trigger = t]
    BY <1>7 DEF TriggerCreated
  <2>2. t \in Triggers /\ t \in 0 .. MaxTriggers
    BY UnusedIsNone, PodSnapshotsAssumption DEF Triggers
  <2>3. /\ op' \in OpRecord /\ op'.kind = op.kind /\ op'.at = "watching" /\ op'.uid = 0
        /\ op'.trigger = t
    BY <2>1, <2>2 DEF OpRecord
  <2>4. TypeOK'
    BY <2>3 DEF TypeOK
  <2>5. /\ PlaceOfCall' /\ HasUid' /\ HasTrigger' /\ DeletesTheChosen' /\ TriggersToGo'
        /\ SuspendedPodIsGone' /\ ListedIsUpToDate'
    BY <2>2, <2>3 DEF PlaceOfCall, Quiet, HasUid, HasTrigger, DeletesTheChosen, TriggersToGo,
           SuspendedPodIsGone, Succeeded, ListedIsUpToDate, ResumeIsUpToDate
  <2>6. QED
    BY <1>6, <2>4, <2>5
<1>8. CASE TriggerRefused
  <2>1. Keeps /\ op'.at = "returned" /\ op'.ok = FALSE
    <3>1. Return(FALSE)
      BY <1>8 DEF TriggerRefused, CreateReturns
    <3>2. QED
      BY <3>1, Goes
  <2>2. TypeOK'
    BY <2>1 DEF TypeOK, Keeps
  <2>3. /\ PlaceOfCall' /\ HasUid' /\ HasTrigger' /\ DeletesTheChosen' /\ TriggersToGo'
        /\ SuspendedPodIsGone' /\ ListedIsUpToDate'
    BY <2>1 DEF Keeps, PlaceOfCall, Quiet, HasUid, HasTrigger, DeletesTheChosen, TriggersToGo,
           SuspendedPodIsGone, Succeeded, ListedIsUpToDate, ResumeIsUpToDate
  <2>4. QED
    BY <1>6, <2>2, <2>3
<1>9. QED
  BY <1>7, <1>8

(* One trigger is deleted, or kept for the next attempt.                   *)
LEMMA DeleteTriggerStep ==
  ASSUME PodSnapshotsInv, DeleteTrigger
  PROVE  PodSnapshotsInv'
<1> USE DEF At
<1> DEFINE Records == [state : {"none", "created", "complete", "failed", "deleted"},
                       made : 0 .. MaxTriggers, told : BOOLEAN]
<1>1. /\ TypeOK /\ op \in OpRecord /\ op.kind \in {"clean", "terminate"} /\ op.at = "untriggering"
      /\ trigger \in [Triggers -> Records] /\ op.left \subseteq Triggers /\ op.kept \subseteq Triggers
      /\ UNCHANGED <<replicas, pods, pod, restored, snapshot, claim, remembered, named, saved, calls>>
      /\ Healthy \/ Fault
  BY DEF PodSnapshotsInv, TypeOK, DeleteTrigger, PlaceOfCall, Quiet, OpRecord
<1>2. faults' \in 0 .. MaxFaults
  BY <1>1, FaultsAreCounted
<1>3. PICK t \in op.left :
        /\ trigger' \in {trigger, [trigger EXCEPT ![t].state = "deleted"]}
        /\ \/ /\ trigger' = [trigger EXCEPT ![t].state = "deleted"]
              /\ op' = [op EXCEPT !.left = @ \ {t}]
           \/ op' = [op EXCEPT !.left = @ \ {t}, !.kept = @ \cup {t}]
  BY DEF DeleteTrigger
<1>4. t \in Triggers /\ trigger[t] \in Records
  BY <1>1
<1>5. /\ trigger' \in [Triggers -> Records]
      /\ \A u \in Triggers : /\ trigger'[u].made = trigger[u].made
                             /\ trigger'[u].told = trigger[u].told
                             /\ trigger'[u].state \in {trigger[u].state, "deleted"}
      /\ trigger' = [trigger EXCEPT ![t].state = "deleted"] => trigger'[t].state = "deleted"
  <2>1. PICK rec \in Records : /\ rec = [trigger[t] EXCEPT !.state = "deleted"]
                               /\ rec.state = "deleted" /\ rec.made = trigger[t].made
                               /\ rec.told = trigger[t].told
    <3>1. /\ [trigger[t] EXCEPT !.state = "deleted"] \in Records
          /\ [trigger[t] EXCEPT !.state = "deleted"].state = "deleted"
          /\ [trigger[t] EXCEPT !.state = "deleted"].made = trigger[t].made
          /\ [trigger[t] EXCEPT !.state = "deleted"].told = trigger[t].told
      BY <1>4
    <3>2. QED
      BY <3>1
  <2>2. trigger' = trigger \/ trigger' = [trigger EXCEPT ![t] = rec]
    <3>1. [trigger EXCEPT ![t].state = "deleted"] = [trigger EXCEPT ![t] = rec]
      BY <1>1, <1>4, <2>1
    <3>2. QED
      BY <1>3, <3>1
  <2>3. trigger' = [trigger EXCEPT ![t].state = "deleted"] => trigger' = [trigger EXCEPT ![t] = rec]
    BY <1>1, <1>4, <2>1
  <2>4. QED
    BY <1>1, <1>4, <2>1, <2>2, <2>3
<1>6. /\ op' \in OpRecord /\ op'.kind = op.kind /\ op'.at = "untriggering" /\ op'.uid = op.uid
      /\ op'.left = op.left \ {t} /\ op.kept \subseteq op'.kept
      /\ t \in op'.kept \/ trigger'[t].state = "deleted"
  <2>1. CASE op' = [op EXCEPT !.left = @ \ {t}] /\ trigger' = [trigger EXCEPT ![t].state = "deleted"]
    <3>1. op.left \ {t} \in SUBSET Triggers
      BY <1>1
    <3>2. trigger'[t].state = "deleted"
      BY <1>5, <2>1
    <3>3. QED
      BY <1>1, <2>1, <3>1, <3>2 DEF OpRecord
  <2>2. CASE op' = [op EXCEPT !.left = @ \ {t}, !.kept = @ \cup {t}]
    <3>1. op.left \ {t} \in SUBSET Triggers /\ op.kept \cup {t} \in SUBSET Triggers
      BY <1>1
    <3>2. QED
      BY <1>1, <2>2, <3>1 DEF OpRecord
  <2>3. QED
    BY <1>3, <2>1, <2>2
<1> USE <1>1, <1>2, <1>5, <1>6 DEF PodSnapshotsInv
<1>7. TypeOK'
  BY DEF TypeOK
<1>8. TriggersToGo' /\ TriggersAreRemembered'
  BY DEF TriggersToGo, TriggersAreRemembered
<1>9. MadeIsThere'
  BY DEF MadeIsThere
<1>10. /\ PlaceOfCall' /\ HasUid' /\ HasTrigger' /\ DeletesTheChosen'
       /\ SuspendedPodIsGone' /\ ListedIsUpToDate'
  BY DEF PlaceOfCall, Quiet, HasUid, HasTrigger, DeletesTheChosen, SuspendedPodIsGone, Succeeded,
         ListedIsUpToDate, ResumeIsUpToDate
<1>11. QED
  BY <1>7, <1>8, <1>9, <1>10

(* The triggers whose deletion failed are tried once more.                 *)
LEMMA RetryTriggersStep ==
  ASSUME PodSnapshotsInv, RetryTriggers
  PROVE  PodSnapshotsInv'
<1> USE DEF At
<1>1. /\ op \in OpRecord /\ op.kind \in {"clean", "terminate"} /\ op.at = "untriggering"
      /\ op.left = {} /\ op.kept \in SUBSET Triggers
      /\ op.round \in 0 .. MaxRetries /\ op.round < MaxRetries /\ MaxRetries \in Nat
      /\ UNCHANGED <<cluster, remembered, named, saved, bounds>>
  BY PodSnapshotsAssumption
     DEF PodSnapshotsInv, TypeOK, RetryTriggers, PlaceOfCall, Quiet, OpRecord
<1>2. op' = [op EXCEPT !.left = op.kept, !.kept = {}, !.round = op.round + 1]
  BY DEF RetryTriggers
<1>3. /\ op' \in OpRecord /\ op'.kind = op.kind /\ op'.at = "untriggering" /\ op'.uid = op.uid
      /\ op'.left = op.kept
  <2>1. op.round + 1 \in 0 .. MaxRetries
    BY <1>1
  <2>2. QED
    BY <1>1, <1>2, <2>1 DEF OpRecord
<1> USE <1>1, <1>3 DEF PodSnapshotsInv, cluster, bounds
<1>4. TypeOK'
  BY DEF TypeOK
<1>5. /\ PlaceOfCall' /\ HasUid' /\ HasTrigger' /\ DeletesTheChosen' /\ MadeIsThere'
      /\ SuspendedPodIsGone' /\ ListedIsUpToDate' /\ TriggersToGo' /\ TriggersAreRemembered'
  BY DEF PlaceOfCall, Quiet, HasUid, HasTrigger, DeletesTheChosen, MadeIsThere,
         SuspendedPodIsGone, Succeeded, ListedIsUpToDate, ResumeIsUpToDate,
         TriggersToGo, TriggersAreRemembered
<1>6. QED
  BY <1>4, <1>5

(* What could not be deleted stays remembered.                             *)
LEMMA TriggersDoneStep ==
  ASSUME PodSnapshotsInv, TriggersDone
  PROVE  PodSnapshotsInv'
<1> USE DEF At
<1>1. /\ TypeOK /\ op \in OpRecord /\ op.kind \in {"clean", "terminate"} /\ op.at = "untriggering"
      /\ op.left = {} /\ op.kept \in SUBSET Triggers /\ "unclaiming" \in Steps
      /\ UNCHANGED <<cluster, named, saved, bounds>> /\ remembered' = op.kept
  BY DEF PodSnapshotsInv, TypeOK, TriggersDone, PlaceOfCall, Quiet, OpRecord, Steps
<1>2. remembered' \subseteq Triggers /\ TriggersAreRemembered'
  BY <1>1 DEF PodSnapshotsInv, TriggersToGo, TriggersAreRemembered, cluster
<1>3. Aside
  BY <1>1, AsideOf DEF bounds
<1>4. CASE op.kind = "terminate"
  <2>1. Keeps /\ op'.at = "unclaiming" /\ op'.ok = op.ok
    BY <1>1, <1>4, Goes DEF TriggersDone
  <2>2. PlaceOfCall' /\ HasTrigger'
    BY <1>4, <2>1 DEF PlaceOfCall, HasTrigger, Keeps
  <2>3. QED
    BY <1>1, <1>2, <1>3, <2>1, <2>2, GoesOn
<1>5. CASE op.kind = "clean"
  <2>1. Return(TRUE)
    BY <1>5 DEF TriggersDone
  <2>2. QED
    BY <1>1, <1>2, <1>3, <1>5, <2>1, Goes, Ends
<1>6. QED
  BY <1>1, <1>4, <1>5

(* An interrupt among the triggers leaves the list, and terminate goes on. *)
LEMMA TriggersInterruptedStep ==
  ASSUME PodSnapshotsInv, TriggersInterrupted
  PROVE  PodSnapshotsInv'
<1> USE DEF At
<1>1. /\ TypeOK /\ op \in OpRecord /\ op.kind \in {"clean", "terminate"} /\ op.at = "untriggering"
      /\ "unclaiming" \in Steps /\ UNCHANGED <<cluster, remembered, named, saved, calls>> /\ Fault
  BY DEF PodSnapshotsInv, TypeOK, TriggersInterrupted, PlaceOfCall, Quiet, Steps
<1>2. Aside
  BY <1>1, AsideOf
<1>3. remembered' \subseteq Triggers /\ TriggersAreRemembered'
  BY <1>1, StaysRemembered DEF cluster
<1>4. CASE op.kind = "terminate"
  <2>1. Keeps /\ op'.at = "unclaiming" /\ op'.ok = FALSE
    <3>1. op' = [op EXCEPT !.at = "unclaiming", !.ok = FALSE]
      BY <1>4 DEF TriggersInterrupted
    <3>2. QED
      BY <1>1, <3>1 DEF Keeps, OpRecord
  <2>2. PlaceOfCall' /\ HasTrigger'
    BY <1>4, <2>1 DEF PlaceOfCall, HasTrigger, Keeps
  <2>3. QED
    BY <1>1, <1>2, <1>3, <2>1, <2>2, GoesOn
<1>5. CASE op.kind = "clean"
  <2>1. Raise
    BY <1>5 DEF TriggersInterrupted
  <2>2. QED
    BY <1>1, <1>2, <1>3, <2>1, Goes, Ends
<1>6. QED
  BY <1>1, <1>4, <1>5

-----------------------------------------------------------------------------
(* The user begins a call.                                                 *)

(* A call of the handle begins.                                            *)
LEMMA BeginStep ==
  ASSUME PodSnapshotsInv, NEW rec \in OpRecord, Begin(rec),
         rec.uid = 0, ~rec.scaled, rec.gone = {}, rec.todo = rec.chosen,
         \A s \in rec.chosen : snapshot[s] # "none",
         \/ rec.kind = "create" /\ rec.at \in {"naming", "triggering"}
         \/ rec.kind \in {"suspend", "resume"} /\ rec.at = "checking"
         \/ rec.kind = "delete" /\ rec.at = "deleting"
         \/ rec.kind = "delete_all" /\ rec.at \in {"naming", "listing"}
         \/ rec.kind \in {"clean", "terminate"} /\ rec.at = "untriggering" /\ rec.left = remembered
  PROVE  PodSnapshotsInv'
<1> USE DEF At, PodSnapshotsInv
<1>1. /\ op' = rec /\ UNCHANGED <<cluster, remembered, named, saved, faults>>
      /\ calls' \in 0 .. MaxCalls
  BY PodSnapshotsAssumption DEF Begin, TypeOK
<1>2. TypeOK'
  BY <1>1 DEF TypeOK, cluster
<1>3. DeletesTheChosen'
  BY <1>1 DEF DeletesTheChosen, Quiet, cluster
<1>4. TriggersToGo' /\ TriggersAreRemembered'
  BY <1>1 DEF TriggersToGo, TriggersAreRemembered, cluster
<1>5. /\ PlaceOfCall' /\ HasUid' /\ HasTrigger' /\ MadeIsThere' /\ SuspendedPodIsGone'
      /\ ListedIsUpToDate'
  BY <1>1 DEF PlaceOfCall, HasUid, HasTrigger, MadeIsThere, SuspendedPodIsGone, Succeeded,
              ListedIsUpToDate, ResumeIsUpToDate, cluster, TypeOK
<1>6. QED
  BY <1>2, <1>3, <1>4, <1>5

(* A call that begins has nothing before it.                               *)
LEMMA CallShape ==
  ASSUME NEW kind \in Kinds, NEW step \in Steps
  PROVE  Call(kind, step) \in OpRecord
<1>1. 0 \in 0 .. MaxPods /\ 0 \in 0 .. MaxTriggers /\ 0 \in 0 .. MaxRetries
  BY PodSnapshotsAssumption
<1>2. Nothing \in OpRecord
  BY <1>1 DEF Nothing, OpRecord
<1>3. QED
  BY <1>2 DEF Call, OpRecord

(* Any of the calls begins.                                                *)
LEMMA StartStep ==
  ASSUME PodSnapshotsInv, Start
  PROVE  PodSnapshotsInv'
<1>1. /\ {"naming", "triggering", "checking", "deleting", "listing", "untriggering"} \subseteq Steps
      /\ {"create", "suspend", "resume", "delete", "delete_all", "clean", "terminate"} \subseteq Kinds
      /\ remembered \in SUBSET Triggers
  BY DEF Steps, Kinds, PodSnapshotsInv, TypeOK
<1>2. ASSUME NEW kind \in Kinds, NEW step \in Steps, Begin(Call(kind, step)),
             \/ kind = "create" /\ step \in {"naming", "triggering"}
             \/ kind = "resume" /\ step = "checking"
             \/ kind = "delete_all" /\ step \in {"naming", "listing"}
      PROVE  PodSnapshotsInv'
  <2>1. PICK rec \in OpRecord :
          /\ rec = Call(kind, step)
          /\ rec.kind = kind /\ rec.at = step /\ rec.uid = 0 /\ rec.scaled = FALSE
          /\ rec.gone = {} /\ rec.todo = {} /\ rec.chosen = {}
    <3>1. Call(kind, step) \in OpRecord
      BY CallShape
    <3>2. QED
      BY <3>1 DEF Call, Nothing
  <2>2. Begin(rec)
    BY <1>2, <2>1
  <2>3. QED
    BY <1>2, <2>1, <2>2, BeginStep
<1>3. ASSUME NEW save \in BOOLEAN, Suspend(save)
      PROVE  PodSnapshotsInv'
  <2>0. "suspend" \in Kinds /\ "checking" \in Steps
    BY <1>1
  <2>1. PICK c \in OpRecord :
          /\ c = Call("suspend", "checking")
          /\ c.kind = "suspend" /\ c.at = "checking" /\ c.uid = 0 /\ c.scaled = FALSE
          /\ c.gone = {} /\ c.todo = {} /\ c.chosen = {}
    <3>1. Call("suspend", "checking") \in OpRecord
      BY <2>0, CallShape
    <3>2. QED
      BY <3>1 DEF Call, Nothing
  <2>2. PICK rec \in OpRecord :
          /\ rec = [c EXCEPT !.save = save]
          /\ rec.kind = "suspend" /\ rec.at = "checking" /\ rec.uid = 0 /\ rec.scaled = FALSE
          /\ rec.gone = {} /\ rec.todo = {} /\ rec.chosen = {}
    <3>1. [c EXCEPT !.save = save] \in OpRecord
      BY DEF OpRecord
    <3>2. QED
      BY <2>1, <3>1 DEF OpRecord
  <2>3. Begin(rec)
    BY <1>3, <2>1, <2>2 DEF Suspend
  <2>4. QED
    BY <2>2, <2>3, BeginStep
<1>4. ASSUME NEW s \in Snapshots, Delete(s)
      PROVE  PodSnapshotsInv'
  <2>0. "delete" \in Kinds /\ "deleting" \in Steps
    BY <1>1
  <2>1. PICK c \in OpRecord :
          /\ c = Call("delete", "deleting")
          /\ c.kind = "delete" /\ c.at = "deleting" /\ c.uid = 0 /\ c.scaled = FALSE
          /\ c.gone = {} /\ c.todo = {} /\ c.chosen = {}
    <3>1. Call("delete", "deleting") \in OpRecord
      BY <2>0, CallShape
    <3>2. QED
      BY <3>1 DEF Call, Nothing
  <2>2. PICK rec \in OpRecord :
          /\ rec = [c EXCEPT !.todo = {s}, !.chosen = {s}]
          /\ rec.kind = "delete" /\ rec.at = "deleting" /\ rec.uid = 0 /\ rec.scaled = FALSE
          /\ rec.gone = {} /\ rec.todo = {s} /\ rec.chosen = {s}
    <3>1. {s} \in SUBSET Snapshots
      OBVIOUS
    <3>2. [c EXCEPT !.todo = {s}, !.chosen = {s}] \in OpRecord
      BY <3>1 DEF OpRecord
    <3>3. QED
      BY <2>1, <3>2 DEF OpRecord
  <2>3. Begin(rec) /\ snapshot[s] # "none"
    BY <1>4, <2>1, <2>2 DEF Delete
  <2>4. QED
    BY <2>2, <2>3, BeginStep
<1>5. ASSUME NEW kind \in {"clean", "terminate"}, Untrigger(kind)
      PROVE  PodSnapshotsInv'
  <2>0. kind \in Kinds /\ "untriggering" \in Steps
    BY <1>1
  <2>1. PICK c \in OpRecord :
          /\ c = Call(kind, "untriggering")
          /\ c.kind = kind /\ c.at = "untriggering" /\ c.uid = 0 /\ c.scaled = FALSE
          /\ c.gone = {} /\ c.todo = {} /\ c.chosen = {}
    <3>1. Call(kind, "untriggering") \in OpRecord
      BY <2>0, CallShape
    <3>2. QED
      BY <3>1 DEF Call, Nothing
  <2>2. PICK rec \in OpRecord :
          /\ rec = [c EXCEPT !.left = remembered, !.round = 1]
          /\ rec.kind = kind /\ rec.at = "untriggering" /\ rec.uid = 0 /\ rec.scaled = FALSE
          /\ rec.gone = {} /\ rec.todo = {} /\ rec.chosen = {} /\ rec.left = remembered
    <3>1. 1 \in 0 .. MaxRetries
      BY PodSnapshotsAssumption
    <3>2. [c EXCEPT !.left = remembered, !.round = 1] \in OpRecord
      BY <1>1, <3>1 DEF OpRecord
    <3>3. QED
      BY <2>1, <3>2 DEF OpRecord
  <2>3. Begin(rec)
    BY <1>5, <2>1, <2>2 DEF Untrigger
  <2>4. QED
    BY <1>5, <2>2, <2>3, BeginStep
<1>6. CASE Create
  <2>1. Name("triggering") \in {"naming", "triggering"}
    BY DEF Name
  <2>2. QED
    BY <1>1, <1>2, <1>6, <2>1 DEF Create
<1>7. CASE DeleteAll
  <2>1. Name("listing") \in {"naming", "listing"}
    BY DEF Name
  <2>2. QED
    BY <1>1, <1>2, <1>7, <2>1 DEF DeleteAll
<1>8. CASE Resume
  BY <1>1, <1>2, <1>8 DEF Resume
<1>9. CASE Clean \/ Terminate
  BY <1>5, <1>9 DEF Clean, Terminate
<1>10. QED
  BY <1>3, <1>4, <1>6, <1>7, <1>8, <1>9 DEF Start

-----------------------------------------------------------------------------
(* The invariant holds.                                                    *)

(* It holds in the beginning.                                              *)
LEMMA PodSnapshotsInit == Init => PodSnapshotsInv
<1> SUFFICES ASSUME Init PROVE PodSnapshotsInv
  OBVIOUS
<1>1. TypeOK
  <2>1. 0 \in 0 .. MaxPods /\ 0 \in 0 .. MaxTriggers /\ 0 \in 0 .. MaxRetries
        /\ 1 \in 1 .. MaxPods /\ 0 \in 0 .. MaxCalls /\ 0 \in 0 .. MaxFaults
    BY PodSnapshotsAssumption
  <2>2. Nothing \in OpRecord
    BY <2>1 DEF Nothing, OpRecord
  <2>3. [state |-> "none", made |-> 0, told |-> FALSE]
          \in [state : {"none", "created", "complete", "failed", "deleted"},
               made : 0 .. MaxTriggers, told : BOOLEAN]
    BY <2>1
  <2>4. QED
    BY <2>1, <2>2, <2>3 DEF Init, TypeOK
<1>2. QED
  BY <1>1 DEF Init, PodSnapshotsInv, PlaceOfCall, Quiet, HasUid, HasTrigger, MadeIsThere,
              DeletesTheChosen, TriggersToGo, ListedIsUpToDate, ResumeIsUpToDate, Succeeded,
              SuspendedPodIsGone, TriggersAreRemembered, Nothing, At

(* Every step keeps it.                                                    *)
LEMMA PodSnapshotsStep ==
  ASSUME PodSnapshotsInv, [Next]_vars
  PROVE  PodSnapshotsInv'
<1>1. CASE Start
  BY <1>1, StartStep
<1>2. CASE Proceed
  BY <1>2, LooksStep, ScaleStep, IsSuspendedStep, ReadUidStep, PodTerminatedStep,
     GetLatestSnapshotStep, ChooseSnapshotsStep, DeletionSeenStep, DeleteSnapshotStep,
     TriggeringStep, DeleteTriggerStep, RetryTriggersStep, TriggersDoneStep,
     TriggersInterruptedStep DEF Proceed
<1>3. CASE Controllers
  BY <1>3, PodStep, TriggerProcessedStep, SnapshotMovesStep DEF Controllers
<1>4. CASE UNCHANGED vars
  BY <1>4 DEF vars, cluster, bounds, PodSnapshotsInv, TypeOK, PlaceOfCall, Quiet, HasUid,
              HasTrigger, MadeIsThere, DeletesTheChosen, TriggersToGo, ListedIsUpToDate,
              ResumeIsUpToDate, Succeeded, SuspendedPodIsGone, TriggersAreRemembered, At
<1>5. QED
  BY <1>1, <1>2, <1>3, <1>4 DEF Next

(* PodSnapshotsInv is inductive.                                           *)
LEMMA PodSnapshotsInvariant == Spec => []PodSnapshotsInv
BY PodSnapshotsInit, PodSnapshotsStep, PTL DEF Spec

(* The types, for any bounds.                                              *)
THEOREM PodSnapshotsTypeOK == Spec => []TypeOK
<1>1. PodSnapshotsInv => TypeOK
  BY DEF PodSnapshotsInv
<1>2. QED
  BY <1>1, PodSnapshotsInvariant, PTL

(* A suspend that reports success has seen its pod gone: the UID it read   *)
(* is one the sandbox has had, and none of these comes back.               *)
THEOREM SuspendLeavesNoPod == Spec => []SuspendedPodIsGone
<1>1. PodSnapshotsInv => SuspendedPodIsGone
  BY DEF PodSnapshotsInv
<1>2. QED
  BY <1>1, PodSnapshotsInvariant, PTL

(* Whatever fails in an attempt, a trigger whose creation was answered is  *)
(* deleted or still on the list.                                           *)
THEOREM TriggersStayRemembered == Spec => []TriggersAreRemembered
<1>1. PodSnapshotsInv => TriggersAreRemembered
  BY DEF PodSnapshotsInv
<1>2. QED
  BY <1>1, PodSnapshotsInvariant, PTL

(* What a deletion reports as deleted is gone, for any number of snapshots *)
(* and whichever of them fail: a removed snapshot never comes back.        *)
THEOREM DeletionsAreConfirmed == Spec => []DeletionIsConfirmed
<1>1. PodSnapshotsInv => DeletionIsConfirmed
  <2>1. PodSnapshotsInv => op.chosen \in SUBSET Snapshots /\ op.gone \in SUBSET Snapshots
    BY DEF PodSnapshotsInv, TypeOK, OpRecord
  <2>2. QED
    BY <2>1 DEF PodSnapshotsInv, DeletesTheChosen, DeletionIsConfirmed, Listed, Quiet, At
<1>2. QED
  BY <1>1, PodSnapshotsInvariant, PTL

(* Where a snapshot is ready when its trigger is complete, a resume that   *)
(* reports success has verified one that is not older than what the last   *)
(* suspend saved.  The hypothesis is needed: a snapshot that gets ready    *)
(* after resume has listed them is passed over.                            *)
THEOREM ResumesAreUpToDate == SavedIsReady => (Spec => []ResumeIsUpToDate)
<1> SUFFICES ASSUME SavedIsReady PROVE Spec => []ResumeIsUpToDate
  OBVIOUS
<1>1. PodSnapshotsInv => ResumeIsUpToDate
  BY DEF PodSnapshotsInv, ListedIsUpToDate
<1>2. QED
  BY <1>1, PodSnapshotsInvariant, PTL

=============================================================================
