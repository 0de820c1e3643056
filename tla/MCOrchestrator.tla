--------------------------- MODULE MCOrchestrator ---------------------------
(***************************************************************************)
(* The instances of Orchestrator that TLC checks.                          *)
(***************************************************************************)
EXTENDS Orchestrator

(* Names are numbers, in the order of the sorted list.                     *)
TwoDogs == {{1, 2}}
OneDog == {{1}}

(* One dog a run, which two runs may or may not share.                     *)
OneDogEach == {{1}, {2}}

=============================================================================
