----------------------------- MODULE DogEngine -----------------------------
(***************************************************************************)
(* The pure part of the simulation engine: how a dog's needs drift in one  *)
(* tick, which states it may enter next, and how playing dogs are paired.  *)
(*                                                                         *)
(* A need is a float in [0, 100] that is only ever changed by an integer   *)
(* and compared with integers.  It is kept in half units: 2k stands for    *)
(* exactly k and 2k+1 for any value strictly between k and k+1.  Adding an *)
(* integer keeps the fraction, so every threshold and both ends of the     *)
(* clamp are decided exactly as on the float.                              *)
(***************************************************************************)
EXTENDS Integers, FiniteSets

DogState == {"sleeping", "eating", "playing"}

(* A value of k whole units, and a lawful need. *)
Units(k) == 2 * k
NeedRange == 0 .. Units(100)

DogNeeds == [energy : NeedRange, hunger : NeedRange, boredom : NeedRange]

NEED_DELTAS ==
  [sleeping |-> [energy |->  8, hunger |->   2, boredom |->  1],
   eating   |-> [energy |-> -1, hunger |-> -10, boredom |->  2],
   playing  |-> [energy |-> -5, hunger |->   3, boredom |-> -8]]

(* Mutant: clamp forgets the lower end.                                    *)
ClampAboveOnly(v) == IF v > Units(100) THEN Units(100) ELSE v

Clamp(v) == IF v < 0 THEN 0 ELSE IF v > Units(100) THEN Units(100) ELSE v

(* The needs after one tick spent in a state. *)
UpdateNeeds(needs, state) ==
  LET delta == NEED_DELTAS[state]
  IN  [energy  |-> Clamp(needs.energy  + Units(delta.energy)),
       hunger  |-> Clamp(needs.hunger  + Units(delta.hunger)),
       boredom |-> Clamp(needs.boredom + Units(delta.boredom))]

(* rng.choices over (eating, playing, sleeping) with the weights hunger,   *)
(* boredom and 50: any choice of positive weight may be drawn.             *)
WeightedChoices(needs) ==
  {"sleeping"} \cup {s \in {"eating"} : needs.hunger > 0}
               \cup {s \in {"playing"} : needs.boredom > 0}

(* Where a sleeping dog may go.  The engine never passes an invitation, so *)
(* the branch that needs one is taken only when invited is TRUE.           *)
FromSleeping(needs, invited) ==
  IF needs.energy < Units(90) THEN {"sleeping"}
  ELSE IF needs.hunger > Units(70) THEN {"eating"}
  ELSE IF needs.boredom > Units(60) /\ invited THEN {"playing"}
  ELSE IF needs.hunger > Units(50) \/ needs.boredom > Units(40)
       THEN WeightedChoices(needs)
  ELSE {"sleeping"}

(* Mutant: a dog that eats is never satisfied.                             *)
FromEatingInsatiable(needs) ==
  IF needs.hunger >= 0 THEN {"eating"} ELSE {"sleeping"}

FromEating(needs) ==
  IF needs.hunger >= Units(20) THEN {"eating"}
  ELSE IF needs.energy >= Units(30) /\ needs.boredom > Units(50)
       THEN {"playing"}
  ELSE {"sleeping"}

(* Mutant: playing dogs do not tire.                                       *)
FromPlayingTireless(needs) ==
  IF needs.hunger > Units(80) THEN {"eating"} ELSE {"playing"}

FromPlaying(needs) ==
  IF needs.energy < Units(30) THEN {"sleeping"}
  ELSE IF needs.hunger > Units(80) THEN {"eating"}
  ELSE {"playing"}

(* evaluate_transition: the states the dog may enter, given its needs      *)
(* after this tick's update.                                               *)
EvaluateTransition(state, needs, invited) ==
  CASE state = "sleeping" -> FromSleeping(needs, invited)
    [] state = "eating"   -> FromEating(needs)
    [] state = "playing"  -> FromPlaying(needs)

-----------------------------------------------------------------------------
(* Matching.  Dogs are numbered in the order of the dict that holds them,  *)
(* and a dog is called by its number; 0 is Python's None.                  *)

NoPartner == 0

(* The place of a dog, counted from 1, in the list of the playing dogs.    *)
Rank(playing, d) == Cardinality({x \in playing : x <= d})

(* Mutant: the pairs start at the second place.                            *)
IsPairFromSecond(playing, d, e) ==
  /\ Rank(playing, d) % 2 = 0
  /\ Rank(playing, e) = Rank(playing, d) + 1

(* First come, first served: places 1 and 2 are a pair, 3 and 4, ...       *)
IsPair(playing, d, e) ==
  /\ Rank(playing, d) % 2 = 1
  /\ Rank(playing, e) = Rank(playing, d) + 1

Mates(playing, d, e) == IsPair(playing, d, e) \/ IsPair(playing, e, d)

(* The partner match_play_partners gives d, NoPartner when it is the odd   *)
(* one out.                                                                *)
PartnerOf(playing, d) ==
  IF \E e \in playing : Mates(playing, d, e)
  THEN CHOOSE e \in playing : Mates(playing, d, e)
  ELSE NoPartner

=============================================================================
