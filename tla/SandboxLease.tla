---------------------------- MODULE SandboxLease ----------------------------
(***************************************************************************)
(* What a client registry promises about the sandboxes of its program,     *)
(* whatever its calls do in between.  A claim is absent, pending while its *)
(* creation goes on, leased while the registry answers for it, loose when  *)
(* it is on the cluster and nobody does, or ended, for good.  A claim gets *)
(* loose only after a request or an interrupt harmed its creation or its   *)
(* deletion.                                                               *)
(*                                                                         *)
(* SyncRegistry and SandboxRegistry are shown to implement it.             *)
(***************************************************************************)
CONSTANT Claims

VARIABLES
  lease,       \* the life of every claim
  harmed       \* claims whose creation or deletion was not carried through

vars == <<lease, harmed>>

(* Foreign claims are on the cluster before the program starts.            *)
Init ==
  /\ lease \in [Claims -> {"absent", "loose"}]
  /\ harmed = {}

Becomes(c, from, to) == lease[c] \in from /\ lease' = [lease EXCEPT ![c] = to]

Make(c) == Becomes(c, {"absent"}, "pending")
Grant(c) == Becomes(c, {"pending", "loose"}, "leased")
End(c) == Becomes(c, {"pending", "leased", "loose"}, "ended")

(* One listing may drop several entries.                                   *)
Lose(cs) ==
  /\ cs \subseteq harmed'
  /\ \A c \in cs : lease[c] \in {"absent", "pending", "leased"}
  /\ lease' = [c \in Claims |-> IF c \in cs THEN "loose" ELSE lease[c]]

Next ==
  /\ harmed \subseteq harmed'
  /\ \/ \E c \in Claims : Make(c) \/ Grant(c) \/ End(c)
     \/ \E cs \in SUBSET Claims : Lose(cs)
     \/ UNCHANGED lease

Spec == Init /\ [][Next]_vars

=============================================================================
