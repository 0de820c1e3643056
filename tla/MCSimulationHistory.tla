------------------------ MODULE MCSimulationHistory ------------------------
(***************************************************************************)
(* The instances of SimulationHistory that TLC checks.                     *)
(***************************************************************************)
EXTENDS SimulationHistory

(* The corners of the ranges DogNeeds draws from (energy in [40, 80],      *)
(* hunger in [20, 50], boredom in [30, 60]) and a point inside.            *)
CornerNeeds ==
  [energy  : {Units(40), Units(80)},
   hunger  : {Units(20), Units(50)},
   boredom : {Units(30), Units(60)}]
  \cup {[energy |-> Units(61) + 1, hunger |-> Units(35) + 1, boredom |-> Units(45) + 1]}

(* One point of those ranges: every dog starts alike and the state it is   *)
(* created in tells them apart.                                            *)
OneNeeds ==
  {[energy |-> Units(78) + 1, hunger |-> Units(48), boredom |-> Units(52) + 1]}

Needs == CornerNeeds \cup OneNeeds

(* A dog alone starts anywhere and lives for NumTicks; a pack starts alike *)
(* and is followed for PackTicks.                                          *)
PackTicks == 16
PackIsShort ==
  count > 1 =>
    /\ tick_count <= PackTicks
    /\ tick_count = 0 => \A d \in DOMAIN dogs : dogs[d].needs \in OneNeeds

=============================================================================
