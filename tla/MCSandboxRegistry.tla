------------------------- MODULE MCSandboxRegistry --------------------------
(***************************************************************************)
(* The instances of SandboxRegistry that TLC checks.                       *)
(***************************************************************************)
EXTENDS SandboxRegistry, TLC

AllOps == Operations
InContext == Operations \ {"close"}

(* Calls differ in nothing but their names.                                *)
Symmetry == Permutations(Calls)

-----------------------------------------------------------------------------
(* States to go on from: two sandboxes made, or one creation refused.      *)
CONSTANTS Made, Refused

Past(made, refused) ==
  /\ claim = [c \in Claims |-> IF c \in made THEN "ready" ELSE "none"]
  /\ handle = [k \in Calls |-> IF k \in made THEN "open" ELSE "none"]
  /\ registry = [c \in Claims |-> IF c \in made THEN c ELSE None]
  /\ lock = None
  /\ call = [k \in Calls |->
       [op |-> IF k \in made \cup refused THEN "create" ELSE "none",
        at |-> IF k \in made THEN "done" ELSE IF k \in refused THEN "raised" ELSE "none",
        claim |-> IF k \in made \cup refused THEN k ELSE None,
        seen |-> None, todo |-> {}, unclosed |-> {}, cut |-> FALSE,
        failed |-> FALSE]]

PastSpec ==
  /\ Past(Made, {}) \/ Past({}, Refused)
  /\ [][Next]_vars
  /\ Fairness

=============================================================================
