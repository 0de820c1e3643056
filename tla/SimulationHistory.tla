------------------------- MODULE SimulationHistory -------------------------
(***************************************************************************)
(* SimulationLoop with two observers that the code does not keep: the      *)
(* states each dog has been in, and for how many ticks it has been silent. *)
(***************************************************************************)
EXTENDS SimulationLoop

VARIABLES
  visited,   \* the states each dog was in at the end of some tick
  silent     \* the ticks since each dog was last in a speak batch

historyVars == <<vars, visited, silent>>

HistoryInit ==
  /\ Init
  /\ visited = [d \in 1 .. count |-> {}]
  /\ silent = [d \in 1 .. count |-> 0]

(* The observers look at the end of every tick and at nothing else.        *)
Observe ==
  IF tick_count' = tick_count THEN UNCHANGED <<visited, silent>>
  ELSE /\ visited' = [d \in 1 .. count |-> visited[d] \cup {dogs'[d].state}]
       /\ silent' = [d \in 1 .. count |->
                       IF d \in speaking' THEN 0 ELSE silent[d] + 1]

HistoryNext == Next /\ Observe

HistorySpec == HistoryInit /\ [][HistoryNext]_historyVars

-----------------------------------------------------------------------------
(* Every dog spends time in each of the three states, whatever rng draws   *)
(* and whatever it starts with: what plans/Plan.md 1459-1470 tests with    *)
(* one seed and 200 ticks (fsm.py 13-39 with the drift of needs.py 3-7).   *)
EveryStateVisited ==
  tick_count = NumTicks => \A d \in 1 .. count : visited[d] = DogState

(* The rotation of the speak batches leaves nobody out: every dog speaks   *)
(* once in every ceil(count / batch) batches, a batch every second tick    *)
(* (simulation_manager.py 160-179).                                        *)
NobodyIsLeftOut ==
  LET batches == (count + SpeakBatchSize - 1) \div SpeakBatchSize
  IN  \A d \in 1 .. count : silent[d] < 2 * batches

-----------------------------------------------------------------------------
(* Why they hold: what the window and the needs of a dog make inductive.   *)

HistoryTypeOK ==
  /\ visited \in [1 .. count -> SUBSET DogState]
  /\ silent \in [1 .. count -> Nat]

(* How far a dog is from the next window, and how many it has missed: each *)
(* of them brought the window nearer by its length.                        *)
Ahead(d) == (d - 1 - (tick_count \div 2) * SpeakBatchSize) % count
Missed(d) == silent[d] \div 2

WindowsComeNearer ==
  \A d \in 1 .. count :
    /\ silent[d] % 2 = tick_count % 2
    /\ Missed(d) * SpeakBatchSize + Ahead(d) < count

(* A dog that has not slept for t ticks tires, one that has not eaten gets *)
(* hungry, one that has not played gets bored, until it cannot go on.      *)
HasNotSlept(dog, t) ==
  /\ dog.state # "sleeping"
  /\ dog.needs.energy <= Units(101 - t)
  /\ dog.state = "playing" => dog.needs.energy >= Units(30)
  /\ dog.state = "eating" => t - dog.ticks_in_state <= 71

HasNotEaten(dog, t) ==
  /\ dog.state # "eating"
  /\ dog.needs.hunger = Units(100) \/ dog.needs.hunger >= Units(2) * (t - 1)
  /\ dog.state = "playing" => dog.needs.hunger <= Units(80)
  /\ dog.state = "sleeping" =>
       /\ t - dog.ticks_in_state <= 42
       /\ t <= 36 \/ dog.ticks_in_state <= 11

HasNotPlayed(dog, t) ==
  /\ dog.state # "playing"
  /\ dog.needs.boredom = Units(100) \/ dog.needs.boredom >= Units(t - 1)
  /\ dog.state = "sleeping" => t - dog.ticks_in_state <= 51
  /\ dog.state = "eating" =>
       /\ t - dog.ticks_in_state <= 87
       /\ \/ t - dog.ticks_in_state <= 1
          \/ dog.needs.energy >= Units(90 - dog.ticks_in_state)

NeedsDrive ==
  IF tick_count = 0 THEN \A d \in DOMAIN dogs : dogs[d].ticks_in_state = 0
  ELSE \A d \in 1 .. count :
         /\ "sleeping" \notin visited[d] => HasNotSlept(dogs[d], tick_count)
         /\ "eating" \notin visited[d] => HasNotEaten(dogs[d], tick_count)
         /\ "playing" \notin visited[d] => HasNotPlayed(dogs[d], tick_count)

HistoryInv == SimulationInv /\ HistoryTypeOK /\ WindowsComeNearer /\ NeedsDrive

=============================================================================
