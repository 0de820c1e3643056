--------------------------- MODULE SimulationLoop ---------------------------
(***************************************************************************)
(* One simulation: the dogs run_simulation adds to the SimulationLoop and  *)
(* the ticks it then takes.  A tick is one turn of the asyncio event loop: *)
(* SimulationLoop.step and the choice of the dogs that speak contain no    *)
(* await.  The sandboxes of the dogs and the tasks around the run are in   *)
(* Orchestrator.                                                           *)
(***************************************************************************)
EXTENDS DogEngine, Sequences

CONSTANTS
  MaxDogs,          \* the largest count a start request carries
  NumTicks,         \* config.num_ticks
  SpeakBatchSize,   \* config.speak_batch_size
  InitNeeds         \* the needs a dog may be created with

ASSUME SimulationAssumption ==
  /\ MaxDogs \in Nat \ {0}
  /\ NumTicks \in Nat
  /\ SpeakBatchSize \in Nat \ {0}
  /\ InitNeeds \subseteq DogNeeds

VARIABLES
  count,        \* how many dogs the request asked for
  dogs,         \* sim.dogs, in insertion order, which is the order of names
  tick_count,
  is_running,
  speaking      \* the dogs for which the last tick created a speak task

vars == <<count, dogs, tick_count, is_running, speaking>>

DogProfile ==
  [state : DogState, needs : DogNeeds, play_partner : 0 .. MaxDogs,
   ticks_in_state : Nat]

TypeOK ==
  /\ count \in 1 .. MaxDogs
  /\ dogs \in Seq(DogProfile)
  /\ Len(dogs) <= count
  /\ tick_count \in 0 .. NumTicks
  /\ is_running \in BOOLEAN
  /\ speaking \subseteq 1 .. count

-----------------------------------------------------------------------------
Init ==
  /\ count \in 1 .. MaxDogs
  /\ dogs = <<>>
  /\ tick_count = 0
  /\ is_running = TRUE
  /\ speaking = {}

(* A turn of the populate loop: a dog in a random state, without partner.  *)
AddDog(state, needs) ==
  /\ is_running
  /\ Len(dogs) < count
  /\ dogs' = Append(dogs, [state |-> state, needs |-> needs,
                           play_partner |-> NoPartner, ticks_in_state |-> 0])
  /\ UNCHANGED <<count, tick_count, is_running, speaking>>

(* Mutant: the window is a slice and does not wrap around.                 *)
SpeakBatchSliced(tick, n) ==
  IF tick % 2 # 0 THEN {}
  ELSE LET cycle == (tick - 1) \div 2
           start == (cycle * SpeakBatchSize) % n
       IN  {d \in 1 .. n : start < d /\ d <= start + SpeakBatchSize}

(* The dogs of this tick's speak batch: every second tick a window of      *)
(* SpeakBatchSize dogs that moves on by its own length, wrapping around.   *)
SpeakBatch(tick, n) ==
  IF tick % 2 # 0 THEN {}
  ELSE LET cycle == (tick - 1) \div 2
           start == (cycle * SpeakBatchSize) % n
           size  == IF SpeakBatchSize < n THEN SpeakBatchSize ELSE n
       IN  {((start + i) % n) + 1 : i \in 0 .. size - 1}

(* Mutant: a dog that stops playing keeps its partner.                     *)
MovedWithPartner(dog, next) ==
  [state |-> next,
   needs |-> UpdateNeeds(dog.needs, dog.state),
   play_partner |-> dog.play_partner,
   ticks_in_state |-> IF next # dog.state THEN 0 ELSE dog.ticks_in_state + 1]

(* A dog after phases 1 to 3 of step, when the FSM has chosen next.        *)
Moved(dog, next) ==
  LET left == next # dog.state
  IN  [state |-> next,
       needs |-> UpdateNeeds(dog.needs, dog.state),
       play_partner |-> IF left /\ next # "playing" THEN NoPartner
                        ELSE dog.play_partner,
       ticks_in_state |-> IF left THEN 0 ELSE dog.ticks_in_state + 1]

(* Phase 4: the playing dogs are matched anew, the others left alone.      *)
Matched(profiles) ==
  LET playing == {d \in DOMAIN profiles : profiles[d].state = "playing"}
  IN  [d \in DOMAIN profiles |->
         IF d \in playing
         THEN [profiles[d] EXCEPT !.play_partner = PartnerOf(playing, d)]
         ELSE profiles[d]]

(* The states dog d may be in when this tick has been evaluated.           *)
NextStates(dog) ==
  EvaluateTransition(dog.state, UpdateNeeds(dog.needs, dog.state), FALSE)

(* A turn of the tick loop: step, then the tasks that speak.               *)
Tick(next) ==
  /\ is_running
  /\ Len(dogs) = count
  /\ tick_count < NumTicks
  /\ \A d \in 1 .. count : next[d] \in NextStates(dogs[d])
  /\ dogs' = Matched([d \in 1 .. count |-> Moved(dogs[d], next[d])])
  /\ tick_count' = tick_count + 1
  /\ speaking' = SpeakBatch(tick_count', count)
  /\ UNCHANGED <<count, is_running>>

(* The tick loop ends by itself and run_simulation clears the flag.        *)
Finish ==
  /\ is_running
  /\ Len(dogs) = count
  /\ tick_count = NumTicks
  /\ is_running' = FALSE
  /\ UNCHANGED <<count, dogs, tick_count, speaking>>

(* The stop endpoint clears the flag that both loops read.                 *)
Stop ==
  /\ is_running
  /\ is_running' = FALSE
  /\ UNCHANGED <<count, dogs, tick_count, speaking>>

Step == \E next \in [1 .. count -> DogState] : Tick(next)

Next ==
  \/ \E state \in DogState, needs \in InitNeeds : AddDog(state, needs)
  \/ Step
  \/ Finish
  \/ Stop

Spec == Init /\ [][Next]_vars

-----------------------------------------------------------------------------
(* Properties.                                                             *)

(* Play pairs are symmetric: the partner of a dog is another dog, both     *)
(* play, and each is the other's partner.  Dogs leave PLAYING one by one   *)
(* and everybody is matched anew in the same tick, so a partner kept from  *)
(* an earlier tick would be seen here (simulation.py 39-58).               *)
PlayPairsSymmetric ==
  \A d \in DOMAIN dogs :
    LET e == dogs[d].play_partner
    IN  e # NoPartner => /\ e \in DOMAIN dogs \ {d}
                         /\ dogs[d].state = "playing"
                         /\ dogs[e].state = "playing"
                         /\ dogs[e].play_partner = d

Playing == {d \in DOMAIN dogs : dogs[d].state = "playing"}

(* Matching leaves over nobody it could pair: after a tick only the last   *)
(* of the playing dogs may be without partner, and only when their number  *)
(* is odd (matching.py 1-15).                                              *)
OnlyTheLastIsUnmatched ==
  tick_count > 0 =>
    \A d \in Playing :
      dogs[d].play_partner = NoPartner => \A e \in Playing : e <= d

(* How long a dog can stay in one state: the drift of the needs forces it  *)
(* out whatever rng draws (needs.py 3-7 against the thresholds of fsm.py). *)
MaxStay == [sleeping |-> 35, eating |-> 8, playing |-> 14]

NobodyIsStuck ==
  \A d \in DOMAIN dogs : dogs[d].ticks_in_state <= MaxStay[dogs[d].state]

(* The inductive form of the three: every dog is in place before the first *)
(* tick, and in every state the need that ends it has drifted towards its  *)
(* threshold since the dog entered.                                        *)
Populated == tick_count > 0 => Len(dogs) = count

Drifted(dog) ==
  LET t == dog.ticks_in_state
  IN  /\ t <= MaxStay[dog.state]
      /\ dog.state = "sleeping" =>
           /\ dog.needs.hunger >= Units(2) * t
           /\ dog.needs.energy >= Units(90) \/ dog.needs.energy >= Units(8) * t
      /\ dog.state = "eating" => dog.needs.hunger <= Units(100) - Units(10) * t
      /\ dog.state = "playing" => dog.needs.energy <= Units(100) - Units(5) * t

SimulationInv ==
  /\ TypeOK
  /\ Populated
  /\ PlayPairsSymmetric
  /\ OnlyTheLastIsUnmatched
  /\ \A d \in DOMAIN dogs : Drifted(dogs[d])

=============================================================================
