------------------------ MODULE SimulationLoopProofs ------------------------
(***************************************************************************)
(* TLAPS proofs about SimulationLoop, for every number of dogs, every      *)
(* length of run, every batch size and every set of initial needs, and     *)
(* about the history of a run that SimulationHistory observes.             *)
(***************************************************************************)
EXTENDS SimulationHistory, FiniteSetTheorems, SequenceTheorems,
        WellFoundedInduction, TLAPS

-----------------------------------------------------------------------------
(* Needs.                                                                  *)

(* The clamp brings every integer into the lawful range (dog.py 25-28).    *)
LEMMA ClampType == \A v \in Int : Clamp(v) \in NeedRange
BY DEF Clamp, NeedRange, Units

(* One tick of drift keeps the needs lawful (needs.py 9-17).               *)
LEMMA UpdateNeedsType ==
  ASSUME NEW needs \in DogNeeds, NEW state \in DogState
  PROVE  UpdateNeeds(needs, state) \in DogNeeds
<1>1. /\ needs.energy \in Int /\ needs.hunger \in Int /\ needs.boredom \in Int
  BY DEF DogNeeds, NeedRange, Units
<1>2. /\ NEED_DELTAS[state].energy \in Int
      /\ NEED_DELTAS[state].hunger \in Int
      /\ NEED_DELTAS[state].boredom \in Int
  BY DEF NEED_DELTAS, DogState
<1>3. \A a, b \in Int : Clamp(a + Units(b)) \in NeedRange
  BY ClampType DEF Units
<1>4. QED
  BY <1>1, <1>2, <1>3 DEF UpdateNeeds, DogNeeds

(* The FSM only ever answers with a state of the dog (fsm.py 4-41).        *)
LEMMA EvaluateTransitionType ==
  ASSUME NEW state \in DogState, NEW needs \in DogNeeds, NEW invited \in BOOLEAN
  PROVE  EvaluateTransition(state, needs, invited) \subseteq DogState
<1>1. FromSleeping(needs, invited) \subseteq DogState
  BY DEF FromSleeping, WeightedChoices, DogState
<1>2. FromEating(needs) \subseteq DogState
  BY DEF FromEating, DogState
<1>3. FromPlaying(needs) \subseteq DogState
  BY DEF FromPlaying, DogState
<1>4. QED
  BY <1>1, <1>2, <1>3 DEF EvaluateTransition, DogState

-----------------------------------------------------------------------------
(* Matching.                                                               *)

(* The places of playing dogs are numbers, and grow strictly along the     *)
(* order of the dict.                                                      *)
LEMMA RankType ==
  ASSUME NEW n \in Nat, NEW P \in SUBSET (1 .. n), NEW d \in 1 .. n
  PROVE  /\ IsFiniteSet({x \in P : x <= d})
         /\ Rank(P, d) \in Nat
<1>1. IsFiniteSet(1 .. n)
  BY FS_Interval
<1>2. {x \in P : x <= d} \in SUBSET (1 .. n)
  OBVIOUS
<1>3. IsFiniteSet({x \in P : x <= d})
  BY <1>1, <1>2, FS_Subset
<1>4. QED
  BY <1>3, FS_CardinalityType DEF Rank

(* Of two dogs who play the later one has the greater rank.                *)
LEMMA RankGrows ==
  ASSUME NEW n \in Nat, NEW P \in SUBSET (1 .. n),
         NEW d \in P, NEW e \in P, d < e
  PROVE  Rank(P, d) < Rank(P, e)
<1> DEFINE D == {x \in P : x <= d}
           E == {x \in P : x <= e}
<1>1. /\ IsFiniteSet(D) /\ IsFiniteSet(E)
      /\ Rank(P, d) \in Nat /\ Rank(P, e) \in Nat
  BY RankType
<1>2. D \in SUBSET E /\ D # E
  <2> d \in Int /\ e \in Int /\ P \subseteq Int
    OBVIOUS
  <2>1. \A x \in P : x <= d => x <= e
    OBVIOUS
  <2>2. e \in E /\ e \notin D
    OBVIOUS
  <2>3. QED
    BY <2>1, <2>2
<1>3. Cardinality(D) <= Cardinality(E) /\ Cardinality(D) # Cardinality(E)
  BY <1>1, <1>2, FS_Subset
<1>4. QED
  BY <1>1, <1>3 DEF Rank

(* Hence a place is held by one dog.                                       *)
LEMMA RankInjective ==
  ASSUME NEW n \in Nat, NEW P \in SUBSET (1 .. n),
         NEW d \in P, NEW e \in P, Rank(P, d) = Rank(P, e)
  PROVE  d = e
<1>1. d \in 1 .. n /\ e \in 1 .. n
  OBVIOUS
<1>2. Rank(P, d) \in Nat
  BY <1>1, RankType
<1>3. d < e => Rank(P, d) < Rank(P, e)
  BY RankGrows
<1>4. e < d => Rank(P, e) < Rank(P, d)
  BY RankGrows
<1>5. QED
  BY <1>1, <1>2, <1>3, <1>4

(* Every set of numbers that is not empty has a least element.             *)
LEMMA LeastElement ==
  ASSUME NEW T \in SUBSET Nat, T # {}
  PROVE  \E m \in T : \A y \in T : m <= y
<1>1. \E m \in T : \A y \in T : ~(<<y, m>> \in OpToRel(<, Nat))
  BY NatLessThanWellFounded, WFMin
<1>2. \A x, y \in Nat : <<y, x>> \in OpToRel(<, Nat) <=> y < x
  BY DEF OpToRel
<1>3. PICK m \in T : \A y \in T : ~(<<y, m>> \in OpToRel(<, Nat))
  BY <1>1
<1>4. ASSUME NEW y \in T PROVE m <= y
  <2>1. y \in Nat /\ m \in Nat
    OBVIOUS
  <2>2. ~(y < m)
    BY <1>2, <1>3, <2>1
  <2>3. QED
    BY <2>1, <2>2
<1>5. QED
  BY <1>4

(* The next playing dog has the next place.                                *)
LEMMA RankOfNext ==
  ASSUME NEW n \in Nat, NEW P \in SUBSET (1 .. n),
         NEW d \in P, NEW e \in P, d < e
  PROVE  \E m \in P : Rank(P, m) = Rank(P, d) + 1
<1> DEFINE T == {x \in P : d < x}
<1> P \subseteq Nat /\ d \in Nat /\ d \in 1 .. n
  OBVIOUS
<1>1. PICK m \in T : \A y \in T : m <= y
  <2>1. T \in SUBSET Nat /\ T # {}
    OBVIOUS
  <2>2. QED
    BY <2>1, LeastElement
<1>2. {x \in P : x <= m} = {x \in P : x <= d} \cup {m}
  <2>1. \A x \in P : x <= m <=> x <= d \/ x = m
    BY <1>1
  <2>2. QED
    BY <1>1, <2>1
<1>3. m \notin {x \in P : x <= d}
  BY <1>1
<1>4. IsFiniteSet({x \in P : x <= d})
  BY RankType
<1>5. Rank(P, m) = Rank(P, d) + 1
  BY <1>2, <1>3, <1>4, FS_AddElement DEF Rank
<1>6. QED
  BY <1>5

(* A playing dog holds at least the first place, and if it holds a later   *)
(* one then the place before it is taken.                                  *)
LEMMA RankOfPrevious ==
  ASSUME NEW n \in Nat, NEW P \in SUBSET (1 .. n), NEW d \in P
  PROVE  /\ Rank(P, d) >= 1
         /\ Rank(P, d) # 1 => \E m \in P : Rank(P, d) = Rank(P, m) + 1
<1> P \subseteq Nat /\ d \in Nat /\ d \in 1 .. n /\ P \subseteq 1 .. n
  OBVIOUS
<1> DEFINE D == {x \in P : x <= d}
           T == {x \in P : x < d}
<1>1. IsFiniteSet(D) /\ Rank(P, d) \in Nat
  BY RankType
<1>2. T \subseteq D /\ D = T \cup {d} /\ d \notin T
  <2>1. \A x \in P : x <= d <=> x < d \/ x = d
    OBVIOUS
  <2>2. D = T \cup {d}
    BY <2>1
  <2>3. d \notin T
    OBVIOUS
  <2>4. QED
    BY <2>2, <2>3
<1>3. IsFiniteSet(T) /\ Cardinality(T) \in Nat
  BY <1>1, <1>2, FS_Subset, FS_CardinalityType
<1>4. Rank(P, d) = Cardinality(T) + 1
  BY <1>2, <1>3, FS_AddElement DEF Rank
<1>5. ASSUME Rank(P, d) # 1 PROVE \E m \in P : Rank(P, d) = Rank(P, m) + 1
  <2> DEFINE U == {k \in 0 .. n : n - k \in T}
  <2>1. T # {}
    <3>1. Cardinality(T) # 0
      BY <1>3, <1>4, <1>5
    <3>2. QED
      BY <3>1, FS_EmptySet
  <2>2. PICK t \in T : TRUE
    BY <2>1
  <2>3. n - t \in U
    OBVIOUS
  <2>4. PICK k \in U : \A y \in U : k <= y
    <3>1. U \in SUBSET Nat
      OBVIOUS
    <3>2. U # {}
      BY <2>3
    <3>3. QED
      BY <3>1, <3>2, LeastElement
  <2>5. n - k \in T /\ n - k \in P /\ n - k \in 1 .. n
    OBVIOUS
  <2>6. ASSUME NEW x \in T PROVE x <= n - k
    <3>1. n - x \in U
      OBVIOUS
    <3>2. k <= n - x
      BY <2>4, <3>1
    <3>3. QED
      BY <3>2
  <2>7. \A x \in P : x < d <=> x <= n - k
    BY <2>5, <2>6
  <2>8. T = {x \in P : x <= n - k}
    BY <2>7
  <2>9. Rank(P, d) = Rank(P, n - k) + 1
    BY <1>4, <2>8 DEF Rank
  <2>10. QED
    BY <2>5, <2>9
<1>6. QED
  BY <1>3, <1>4, <1>5

(* A dog has at most one mate.                                             *)
LEMMA MatesUnique ==
  ASSUME NEW n \in Nat, NEW P \in SUBSET (1 .. n),
         NEW d \in P, NEW e \in P, NEW f \in P,
         Mates(P, d, e), Mates(P, d, f)
  PROVE  e = f
<1>1. Rank(P, d) \in Nat /\ Rank(P, e) \in Nat /\ Rank(P, f) \in Nat
  <2>1. d \in 1 .. n /\ e \in 1 .. n /\ f \in 1 .. n
    OBVIOUS
  <2>2. QED
    BY <2>1, RankType
<1>2. Rank(P, e) = Rank(P, f)
  BY <1>1 DEF Mates, IsPair
<1>3. QED
  BY <1>2, RankInjective

(* match_play_partners (matching.py 1-15): a dog that gets a partner gets  *)
(* another playing dog, which gets it in return.                           *)
LEMMA PartnerOfIsMutual ==
  ASSUME NEW n \in Nat, NEW P \in SUBSET (1 .. n), NEW d \in P,
         PartnerOf(P, d) # NoPartner
  PROVE  /\ PartnerOf(P, d) \in P \ {d}
         /\ PartnerOf(P, PartnerOf(P, d)) = d
<1> DEFINE e == PartnerOf(P, d)
<1>1. e \in P /\ Mates(P, d, e)
  BY DEF PartnerOf
<1>2. Mates(P, e, d)
  BY <1>1 DEF Mates
<1>3. e # d
  <2>1. Rank(P, d) \in Nat
    <3>1. d \in 1 .. n
      OBVIOUS
    <3>2. QED
      BY <3>1, RankType
  <2>2. QED
    BY <1>1, <2>1 DEF Mates, IsPair
<1>4. PartnerOf(P, e) \in P /\ Mates(P, e, PartnerOf(P, e))
  BY <1>1, <1>2 DEF PartnerOf
<1>5. PartnerOf(P, e) = d
  BY <1>1, <1>2, <1>4, MatesUnique
<1>6. QED
  BY <1>1, <1>3, <1>5

(* ... and a dog that gets none is the last of the playing dogs.           *)
LEMMA UnmatchedIsLast ==
  ASSUME NEW n \in Nat, NEW P \in SUBSET (1 .. n),
         NEW d \in P, NEW e \in P, PartnerOf(P, d) = NoPartner
  PROVE  e <= d
<1>1. d \in 1 .. n /\ e \in 1 .. n
  OBVIOUS
<1>2. ~ \E m \in P : Mates(P, d, m)
  <2>1. NoPartner \notin P
    BY DEF NoPartner
  <2>2. QED
    BY <2>1 DEF PartnerOf
<1>3. Rank(P, d) \in Nat /\ \A m \in P : Rank(P, m) \in Nat
  BY RankType
<1>4. CASE Rank(P, d) % 2 = 1
  <2>1. ASSUME d < e PROVE FALSE
    <3>1. PICK m \in P : Rank(P, m) = Rank(P, d) + 1
      BY <2>1, RankOfNext
    <3>2. QED
      BY <1>2, <1>4, <3>1 DEF Mates, IsPair
  <2>2. QED
    BY <1>1, <2>1
<1>5. CASE Rank(P, d) % 2 # 1
  <2>1. PICK m \in P : Rank(P, d) = Rank(P, m) + 1
    <3>1. Rank(P, d) # 1
      BY <1>5
    <3>2. QED
      BY <3>1, RankOfPrevious
  <2>2. Rank(P, m) % 2 = 1
    BY <1>3, <1>5, <2>1
  <2>3. QED
    BY <1>2, <2>1, <2>2 DEF Mates, IsPair
<1>6. QED
  BY <1>4, <1>5

-----------------------------------------------------------------------------
(* The steps of the simulation.                                            *)

(* What is left of one turn of the tick loop once Matched and Moved are    *)
(* expanded: every field of every dog after it.                            *)
LEMMA TickShape ==
  ASSUME TypeOK, NEW next \in [1 .. count -> DogState], Tick(next)
  PROVE  LET P == {d \in 1 .. count : next[d] = "playing"}
         IN  /\ dogs' \in Seq(DogProfile)
             /\ Len(dogs') = count
             /\ DOMAIN dogs = 1 .. count /\ DOMAIN dogs' = 1 .. count
             /\ \A d \in 1 .. count :
                  /\ dogs[d] \in DogProfile
                  /\ next[d] \in NextStates(dogs[d])
                  /\ dogs'[d].state = next[d]
                  /\ dogs'[d].needs = UpdateNeeds(dogs[d].needs, dogs[d].state)
                  /\ dogs'[d].ticks_in_state =
                       IF next[d] # dogs[d].state THEN 0
                       ELSE dogs[d].ticks_in_state + 1
                  /\ dogs'[d].play_partner =
                       IF d \in P THEN PartnerOf(P, d)
                       ELSE IF next[d] # dogs[d].state THEN NoPartner
                       ELSE dogs[d].play_partner
<1> DEFINE P == {d \in 1 .. count : next[d] = "playing"}
           M == [d \in 1 .. count |-> Moved(dogs[d], next[d])]
<1>1. /\ Len(dogs) = count /\ count \in Nat /\ count <= MaxDogs /\ MaxDogs \in Nat
      /\ dogs' = Matched(M)
      /\ \A d \in 1 .. count : next[d] \in NextStates(dogs[d])
  BY SimulationAssumption DEF Tick, TypeOK
<1>2. dogs \in [1 .. count -> DogProfile]
  BY <1>1, LenProperties DEF TypeOK
<1>3. ASSUME NEW d \in 1 .. count
      PROVE  /\ dogs[d] \in DogProfile
             /\ next[d] \in DogState
             /\ dogs[d].state \in DogState /\ dogs[d].needs \in DogNeeds
             /\ dogs[d].play_partner \in 0 .. MaxDogs
             /\ dogs[d].ticks_in_state \in Nat
  BY <1>2 DEF DogProfile
<1>4. ASSUME NEW d \in 1 .. count
      PROVE  /\ M[d].state = next[d]
             /\ M[d].needs = UpdateNeeds(dogs[d].needs, dogs[d].state)
             /\ M[d].play_partner = IF next[d] # dogs[d].state /\ next[d] # "playing"
                                    THEN NoPartner ELSE dogs[d].play_partner
             /\ M[d].ticks_in_state = IF next[d] # dogs[d].state THEN 0
                                      ELSE dogs[d].ticks_in_state + 1
             /\ M[d] \in DogProfile
  <2>1. M[d] = Moved(dogs[d], next[d])
    OBVIOUS
  <2>2. UpdateNeeds(dogs[d].needs, dogs[d].state) \in DogNeeds
    BY <1>3, UpdateNeedsType
  <2>3. QED
    BY <1>1, <1>3, <2>1, <2>2 DEF Moved, DogProfile, NoPartner
<1>5. {d \in DOMAIN M : M[d].state = "playing"} = P
  BY <1>4
<1>6. dogs' = [d \in 1 .. count |->
                 IF d \in P THEN [M[d] EXCEPT !.play_partner = PartnerOf(P, d)]
                 ELSE M[d]]
  BY <1>1, <1>5 DEF Matched
<1>7. ASSUME NEW d \in P PROVE PartnerOf(P, d) \in 0 .. MaxDogs
  <2>1. PartnerOf(P, d) # NoPartner => PartnerOf(P, d) \in P
    BY <1>1, PartnerOfIsMutual
  <2>2. QED
    BY <1>1, <2>1 DEF NoPartner
<1>8. ASSUME NEW d \in 1 .. count
      PROVE  /\ dogs'[d] \in DogProfile
             /\ dogs'[d].state = next[d]
             /\ dogs'[d].needs = UpdateNeeds(dogs[d].needs, dogs[d].state)
             /\ dogs'[d].ticks_in_state = IF next[d] # dogs[d].state THEN 0
                                          ELSE dogs[d].ticks_in_state + 1
             /\ dogs'[d].play_partner =
                  IF d \in P THEN PartnerOf(P, d)
                  ELSE IF next[d] # dogs[d].state THEN NoPartner
                  ELSE dogs[d].play_partner
  <2>1. CASE d \in P
    <3>1. dogs'[d] = [M[d] EXCEPT !.play_partner = PartnerOf(P, d)]
      BY <1>6, <2>1
    <3>2. QED
      BY <1>4, <1>7, <2>1, <3>1 DEF DogProfile
  <2>2. CASE d \notin P
    <3>1. dogs'[d] = M[d] /\ next[d] # "playing"
      BY <1>6, <2>2
    <3>2. QED
      BY <1>4, <2>2, <3>1
  <2>3. QED
    BY <2>1, <2>2
<1>9. dogs' \in [1 .. count -> DogProfile]
  BY <1>6, <1>8
<1>10. dogs' \in Seq(DogProfile) /\ Len(dogs') = count
  <2>1. dogs' \in Seq(DogProfile)
    BY <1>1, <1>9, SeqDef
  <2>2. QED
    BY <1>1, <1>9, <2>1, LenProperties
<1>11. QED
  BY <1>1, <1>2, <1>3, <1>8, <1>9, <1>10

(* Every action keeps the shape of the state.                              *)
LEMMA TypeStep ==
  ASSUME TypeOK, [Next]_vars
  PROVE  TypeOK'
<1>1. ASSUME NEW state \in DogState, NEW needs \in InitNeeds, AddDog(state, needs)
      PROVE  TypeOK'
  <2> DEFINE dog == [state |-> state, needs |-> needs,
                     play_partner |-> NoPartner, ticks_in_state |-> 0]
  <2>1. dog \in DogProfile
    BY SimulationAssumption DEF DogProfile, NoPartner
  <2>2. dogs' = Append(dogs, dog) /\ Len(dogs) < count
    BY <1>1 DEF AddDog
  <2>3. dogs' \in Seq(DogProfile) /\ Len(dogs') = Len(dogs) + 1 /\ Len(dogs) \in Nat
    BY <2>1, <2>2, AppendProperties, LenProperties DEF TypeOK
  <2>4. QED
    BY <1>1, <2>2, <2>3 DEF AddDog, TypeOK
<1>2. ASSUME NEW next \in [1 .. count -> DogState], Tick(next)
      PROVE  TypeOK'
  <2>1. dogs' \in Seq(DogProfile) /\ Len(dogs') = count
    BY <1>2, TickShape
  <2>2. count \in Nat /\ count >= 1 /\ tick_count' = tick_count + 1
        /\ tick_count < NumTicks /\ tick_count \in Nat /\ NumTicks \in Nat
    BY <1>2, SimulationAssumption DEF Tick, TypeOK
  <2>3. \A a \in Int : (a % count) + 1 \in 1 .. count
    BY <2>2
  <2>4. SpeakBatch(tick_count', count) \subseteq 1 .. count
    <3>1. ((tick_count' - 1) \div 2) \in Int
      BY <2>2
    <3>2. ((((tick_count' - 1) \div 2) * SpeakBatchSize) % count) \in Int
      BY <2>2, <3>1, SimulationAssumption
    <3>3. QED
      BY <2>2, <2>3, <3>2, SimulationAssumption DEF SpeakBatch
  <2>5. QED
    BY <1>2, <2>1, <2>2, <2>4 DEF Tick, TypeOK
<1>3. CASE Finish
  BY <1>3 DEF Finish, TypeOK
<1>4. CASE Stop
  BY <1>4 DEF Stop, TypeOK
<1>5. CASE UNCHANGED vars
  BY <1>5 DEF vars, TypeOK
<1>6. QED
  BY <1>1, <1>2, <1>3, <1>4, <1>5 DEF Next, Step

(* The state always has its type.                                          *)
THEOREM SimulationTypeOK == Spec => []TypeOK
<1>1. Init => TypeOK
  BY SimulationAssumption, EmptySeq DEF Init, TypeOK
<1>2. TypeOK /\ [Next]_vars => TypeOK'
  BY TypeStep
<1>3. QED
  BY <1>1, <1>2, PTL DEF Spec

-----------------------------------------------------------------------------
(* The invariant.                                                          *)

(* One tick keeps the drift of a dog within what its state allows.         *)
LEMMA DriftStep ==
  ASSUME NEW dog, NEW after, NEW next,
         dog.state \in DogState, dog.needs \in DogNeeds,
         dog.ticks_in_state \in Nat,
         Drifted(dog),
         next \in NextStates(dog),
         after.state = next,
         after.needs = UpdateNeeds(dog.needs, dog.state),
         after.ticks_in_state = IF next # dog.state THEN 0
                                ELSE dog.ticks_in_state + 1
  PROVE  Drifted(after)
<1> DEFINE needs == UpdateNeeds(dog.needs, dog.state)
           t == dog.ticks_in_state
<1>1. needs \in DogNeeds
  BY UpdateNeedsType
<1>2. next \in EvaluateTransition(dog.state, needs, FALSE)
  BY DEF NextStates
<1>3. next \in DogState
  BY <1>1, <1>2, EvaluateTransitionType
<1>4. /\ needs.energy \in 0 .. 200 /\ needs.hunger \in 0 .. 200
      /\ dog.needs.energy \in 0 .. 200 /\ dog.needs.hunger \in 0 .. 200
  BY <1>1 DEF DogNeeds, NeedRange, Units
<1>5. CASE next # dog.state
  <2>1. after.ticks_in_state = 0 /\ after.state \in DogState /\ after.needs = needs
    BY <1>3, <1>5
  <2>2. /\ after.needs.hunger >= 0 /\ after.needs.hunger <= 200
        /\ after.needs.energy >= 0 /\ after.needs.energy <= 200
    BY <1>4, <2>1
  <2>3. 0 <= MaxStay[after.state]
    BY <2>1 DEF MaxStay, DogState
  <2>4. Units(2) * 0 = 0 /\ Units(8) * 0 = 0 /\ Units(10) * 0 = 0
        /\ Units(5) * 0 = 0 /\ Units(100) = 200
    BY DEF Units
  <2>5. QED
    BY <2>1, <2>2, <2>3, <2>4 DEF Drifted
<1>6. CASE next = dog.state /\ dog.state = "sleeping"
  <2>1. /\ needs.energy = Clamp(dog.needs.energy + 16)
        /\ needs.hunger = Clamp(dog.needs.hunger + 4)
    BY <1>6 DEF UpdateNeeds, NEED_DELTAS, Units
  <2>2. needs.energy < 180 \/ needs.hunger <= 140
    BY <1>2, <1>4, <1>6 DEF EvaluateTransition, FromSleeping, Units
  <2>3. /\ t <= 35
        /\ dog.needs.hunger >= 4 * t
        /\ dog.needs.energy >= 180 \/ dog.needs.energy >= 16 * t
    BY <1>6 DEF Drifted, MaxStay, Units
  <2>4. /\ needs.hunger >= 4 * (t + 1)
        /\ needs.energy >= 180 \/ needs.energy >= 16 * (t + 1)
    <3>1. \A h \in 0 .. 200 : h >= 4 * t => Clamp(h + 4) >= 4 * (t + 1)
      BY <2>3 DEF Clamp, Units
    <3>2. \A e \in 0 .. 200 :
            e >= 180 \/ e >= 16 * t =>
              Clamp(e + 16) >= 180 \/ Clamp(e + 16) >= 16 * (t + 1)
      BY DEF Clamp, Units
    <3>3. QED
      BY <1>4, <2>1, <2>3, <3>1, <3>2
  <2>5. t + 1 <= 35
    BY <1>4, <2>2, <2>4
  <2>6. QED
    BY <1>6, <2>4, <2>5 DEF Drifted, MaxStay, Units
<1>7. CASE next = dog.state /\ dog.state = "eating"
  <2>1. needs.hunger = Clamp(dog.needs.hunger - 20)
    BY <1>4, <1>7 DEF UpdateNeeds, NEED_DELTAS, Units
  <2>2. needs.hunger >= 40
    BY <1>2, <1>4, <1>7 DEF EvaluateTransition, FromEating, Units
  <2>3. dog.needs.hunger <= 200 - 20 * t
    BY <1>7 DEF Drifted, Units
  <2>4. needs.hunger <= 200 - 20 * (t + 1) /\ t + 1 <= 8
    BY <1>4, <2>1, <2>2, <2>3 DEF Clamp, Units
  <2>5. QED
    BY <1>7, <2>4 DEF Drifted, MaxStay, Units
<1>8. CASE next = dog.state /\ dog.state = "playing"
  <2>1. needs.energy = Clamp(dog.needs.energy - 10)
    BY <1>4, <1>8 DEF UpdateNeeds, NEED_DELTAS, Units
  <2>2. needs.energy >= 60
    BY <1>2, <1>4, <1>8 DEF EvaluateTransition, FromPlaying, Units
  <2>3. dog.needs.energy <= 200 - 10 * t
    BY <1>8 DEF Drifted, Units
  <2>4. needs.energy <= 200 - 10 * (t + 1) /\ t + 1 <= 14
    BY <1>4, <2>1, <2>2, <2>3 DEF Clamp, Units
  <2>5. QED
    BY <1>8, <2>4 DEF Drifted, MaxStay, Units
<1>9. QED
  BY <1>5, <1>6, <1>7, <1>8 DEF DogState

(* A tick re-establishes the invariant about the dogs.                     *)
LEMMA TickStep ==
  ASSUME SimulationInv, NEW next \in [1 .. count -> DogState], Tick(next)
  PROVE  /\ Populated'
         /\ PlayPairsSymmetric'
         /\ OnlyTheLastIsUnmatched'
         /\ \A d \in DOMAIN dogs' : Drifted(dogs'[d])
<1> DEFINE P == {d \in 1 .. count : next[d] = "playing"}
<1>1. /\ TypeOK /\ PlayPairsSymmetric
      /\ count \in Nat /\ count' = count
      /\ P \in SUBSET (1 .. count)
  BY DEF SimulationInv, TypeOK, Tick
<1>2. /\ Len(dogs') = count
      /\ DOMAIN dogs = 1 .. count /\ DOMAIN dogs' = 1 .. count
      /\ \A d \in 1 .. count :
           /\ dogs[d] \in DogProfile
           /\ next[d] \in NextStates(dogs[d])
           /\ dogs'[d].state = next[d]
           /\ dogs'[d].needs = UpdateNeeds(dogs[d].needs, dogs[d].state)
           /\ dogs'[d].ticks_in_state = IF next[d] # dogs[d].state THEN 0
                                        ELSE dogs[d].ticks_in_state + 1
           /\ dogs'[d].play_partner =
                IF d \in P THEN PartnerOf(P, d)
                ELSE IF next[d] # dogs[d].state THEN NoPartner
                ELSE dogs[d].play_partner
  BY <1>1, TickShape
<1>3. Populated'
  BY <1>1, <1>2 DEF Populated
<1>4. ASSUME NEW d \in 1 .. count, dogs'[d].play_partner # NoPartner
      PROVE  d \in P
  <2>1. dogs[d].play_partner # NoPartner => dogs[d].state = "playing"
    BY <1>1, <1>2 DEF PlayPairsSymmetric
  <2>2. QED
    BY <1>2, <1>4, <2>1
<1>5. ASSUME NEW d \in 1 .. count, dogs'[d].play_partner # NoPartner
      PROVE  LET e == dogs'[d].play_partner
             IN  /\ e \in (1 .. count) \ {d}
                 /\ dogs'[d].state = "playing" /\ dogs'[e].state = "playing"
                 /\ dogs'[e].play_partner = d
  <2> DEFINE e == dogs'[d].play_partner
  <2>1. d \in P
    BY <1>4, <1>5
  <2>2. e = PartnerOf(P, d)
    BY <1>2, <2>1
  <2>3. e \in P \ {d} /\ PartnerOf(P, e) = d
    <3>1. PartnerOf(P, d) # NoPartner
      BY <1>5, <2>2
    <3>2. /\ PartnerOf(P, d) \in P \ {d}
          /\ PartnerOf(P, PartnerOf(P, d)) = d
      <4> HIDE DEF P
      <4> QED
        BY <1>1, <2>1, <3>1, PartnerOfIsMutual
    <3>3. QED
      BY <2>2, <3>2
  <2>4. QED
    BY <1>2, <2>1, <2>3
<1>6. PlayPairsSymmetric'
  BY <1>2, <1>5 DEF PlayPairsSymmetric
<1>7. OnlyTheLastIsUnmatched'
  <2>1. Playing' = P
    BY <1>2 DEF Playing
  <2>2. ASSUME NEW d \in P, NEW e \in P, dogs'[d].play_partner = NoPartner
        PROVE  e <= d
    <3>1. PartnerOf(P, d) = NoPartner
      BY <1>2, <2>2
    <3>2. QED
      BY <1>1, <2>2, <3>1, UnmatchedIsLast
  <2>3. QED
    BY <2>1, <2>2 DEF OnlyTheLastIsUnmatched
<1>8. ASSUME NEW d \in 1 .. count PROVE Drifted(dogs'[d])
  <2>1. /\ dogs[d].state \in DogState /\ dogs[d].needs \in DogNeeds
        /\ dogs[d].ticks_in_state \in Nat
    BY <1>2 DEF DogProfile
  <2>2. Drifted(dogs[d])
    BY <1>2 DEF SimulationInv
  <2>3. QED
    BY <1>2, <2>1, <2>2, DriftStep
<1>9. QED
  BY <1>2, <1>3, <1>6, <1>7, <1>8

(* So does adding a dog, which happens before the first tick only.         *)
LEMMA AddDogStep ==
  ASSUME SimulationInv, NEW state \in DogState, NEW needs \in InitNeeds,
         AddDog(state, needs)
  PROVE  /\ Populated'
         /\ PlayPairsSymmetric'
         /\ OnlyTheLastIsUnmatched'
         /\ \A d \in DOMAIN dogs' : Drifted(dogs'[d])
<1> DEFINE dog == [state |-> state, needs |-> needs,
                   play_partner |-> NoPartner, ticks_in_state |-> 0]
           n == Len(dogs)
<1>1. /\ TypeOK /\ Populated /\ PlayPairsSymmetric
      /\ \A d \in DOMAIN dogs : Drifted(dogs[d])
      /\ dogs' = Append(dogs, dog) /\ n < count /\ tick_count' = tick_count
  BY DEF SimulationInv, AddDog
<1>2. dog \in DogProfile /\ dogs \in Seq(DogProfile)
  BY <1>1, SimulationAssumption DEF DogProfile, NoPartner, TypeOK
<1>3. /\ n \in Nat /\ DOMAIN dogs = 1 .. n /\ DOMAIN dogs' = 1 .. (n + 1)
      /\ \A d \in 1 .. n : dogs'[d] = dogs[d]
      /\ dogs'[n + 1] = dog
  BY <1>1, <1>2, AppendProperties, LenProperties
<1>4. tick_count = 0 /\ tick_count' = 0
  <2>1. tick_count \in Nat /\ count \in Nat
    BY <1>1, SimulationAssumption DEF TypeOK
  <2>2. n < count /\ n \in Nat
    BY <1>1, <1>3
  <2>3. tick_count > 0 => n = count
    BY <1>1 DEF Populated
  <2>4. ~(tick_count > 0)
    BY <2>1, <2>2, <2>3
  <2>5. QED
    BY <1>1, <2>1, <2>4
<1>5. Populated' /\ OnlyTheLastIsUnmatched'
  BY <1>4 DEF Populated, OnlyTheLastIsUnmatched
<1>6. ASSUME NEW d \in 1 .. (n + 1), dogs'[d].play_partner # NoPartner
      PROVE  LET e == dogs'[d].play_partner
             IN  /\ e \in (1 .. (n + 1)) \ {d}
                 /\ dogs'[d].state = "playing" /\ dogs'[e].state = "playing"
                 /\ dogs'[e].play_partner = d
  <2>1. d \in 1 .. n
    BY <1>3, <1>6
  <2>2. QED
    BY <1>1, <1>3, <1>6, <2>1 DEF PlayPairsSymmetric
<1>7. PlayPairsSymmetric'
  BY <1>3, <1>6 DEF PlayPairsSymmetric
<1>8. Drifted(dog)
  <2>1. needs.energy \in 0 .. 200 /\ needs.hunger \in 0 .. 200
    BY SimulationAssumption DEF DogNeeds, NeedRange, Units
  <2>2. QED
    BY <2>1 DEF Drifted, MaxStay, DogState, Units
<1>9. \A d \in DOMAIN dogs' : Drifted(dogs'[d])
  BY <1>1, <1>3, <1>8
<1>10. QED
  BY <1>5, <1>7, <1>9

(* The inductive invariant of the simulation.                              *)
LEMMA SimulationInvariant == Spec => []SimulationInv
<1>1. Init => SimulationInv
  <2> SUFFICES ASSUME Init PROVE SimulationInv
    OBVIOUS
  <2>1. TypeOK
    BY SimulationAssumption, EmptySeq DEF Init, TypeOK
  <2>2. DOMAIN dogs = {} /\ tick_count = 0
    BY DEF Init
  <2>3. QED
    BY <2>1, <2>2 DEF SimulationInv, Populated, PlayPairsSymmetric,
                      OnlyTheLastIsUnmatched
<1>2. SimulationInv /\ [Next]_vars => SimulationInv'
  <2> SUFFICES ASSUME SimulationInv, [Next]_vars PROVE SimulationInv'
    OBVIOUS
  <2>1. TypeOK'
    BY TypeStep DEF SimulationInv
  <2>2. ASSUME NEW state \in DogState, NEW needs \in InitNeeds, AddDog(state, needs)
        PROVE  SimulationInv'
    BY <2>1, <2>2, AddDogStep DEF SimulationInv
  <2>3. ASSUME NEW next \in [1 .. count -> DogState], Tick(next)
        PROVE  SimulationInv'
    BY <2>1, <2>3, TickStep DEF SimulationInv
  <2>4. CASE Finish \/ Stop \/ UNCHANGED vars
    <3>1. UNCHANGED <<count, dogs, tick_count>>
      BY <2>4 DEF Finish, Stop, vars
    <3>2. QED
      BY <2>1, <3>1 DEF SimulationInv, Populated, PlayPairsSymmetric,
                        OnlyTheLastIsUnmatched, Playing
  <2>5. QED
    BY <2>2, <2>3, <2>4 DEF Next, Step
<1>3. QED
  BY <1>1, <1>2, PTL DEF Spec

(* Play pairs are symmetric in every state of every simulation.            *)
THEOREM PairsAreSymmetric == Spec => []PlayPairsSymmetric
<1>1. SimulationInv => PlayPairsSymmetric
  BY DEF SimulationInv
<1>2. QED
  BY <1>1, SimulationInvariant, PTL

(* No two dogs that play are ever both without a partner.                  *)
THEOREM AtMostOneIsUnmatched == Spec => []OnlyTheLastIsUnmatched
<1>1. SimulationInv => OnlyTheLastIsUnmatched
  BY DEF SimulationInv
<1>2. QED
  BY <1>1, SimulationInvariant, PTL

(* No dog ever stays in one state longer than the drift of its needs       *)
(* allows, whatever its first needs are and whatever rng draws.            *)
THEOREM EveryStayIsBounded == Spec => []NobodyIsStuck
<1>1. SimulationInv => NobodyIsStuck
  BY DEF SimulationInv, NobodyIsStuck, Drifted
<1>2. QED
  BY <1>1, SimulationInvariant, PTL

-----------------------------------------------------------------------------
(* Remainders.                                                             *)

(* Quotient and remainder.                                                 *)
LEMMA DivMod ==
  ASSUME NEW n \in Nat \ {0}, NEW a \in Int
  PROVE  /\ a % n \in 0 .. n - 1 /\ a \div n \in Int
         /\ a = n * (a \div n) + (a % n)
OBVIOUS

(* A multiple of n between -n and n is zero.                               *)
LEMMA SmallMultiple ==
  ASSUME NEW n \in Nat \ {0}, NEW q \in Int, -n < n * q, n * q < n
  PROVE  q = 0
<1>1. CASE q >= 1
  <2>1. n * (q - 1) >= 0
    BY <1>1
  <2>2. n * q = n * (q - 1) + n
    OBVIOUS
  <2>3. QED
    BY <2>1, <2>2
<1>2. CASE q <= -1
  <2>1. n * (-q - 1) >= 0
    BY <1>2
  <2>2. n * q = - (n * (-q - 1)) - n
    OBVIOUS
  <2>3. QED
    BY <2>1, <2>2
<1>3. QED
  BY <1>1, <1>2

(* A remainder is determined by its range.                                 *)
LEMMA ModUnique ==
  ASSUME NEW n \in Nat \ {0}, NEW q \in Int, NEW r \in 0 .. n - 1
  PROVE  (n * q + r) % n = r
<1> DEFINE a == n * q + r
<1>1. a % n \in 0 .. n - 1 /\ a \div n \in Int /\ a = n * (a \div n) + (a % n)
  BY DivMod
<1>2. n * (a \div n - q) = r - (a % n)
  BY <1>1
<1>3. a \div n - q = 0
  BY <1>1, <1>2, SmallMultiple
<1>4. QED
  BY <1>1, <1>2, <1>3

(* A number below n is its own remainder.                                  *)
LEMMA SmallIsItsRemainder ==
  ASSUME NEW n \in Nat \ {0}, NEW r \in 0 .. n - 1
  PROVE  r % n = r
<1>1. r % n \in 0 .. n - 1 /\ r \div n \in Int /\ r = n * (r \div n) + (r % n)
  BY DivMod
<1>2. r \div n = 0
  BY <1>1, SmallMultiple
<1>3. QED
  BY <1>1, <1>2

(* The remainder of a difference is that of the difference of remainders.  *)
LEMMA ModDifference ==
  ASSUME NEW n \in Nat \ {0}, NEW a \in Int, NEW b \in Int
  PROVE  /\ (a - b) % n = ((a % n) - b) % n
         /\ (a - b) % n = (a - (b % n)) % n
<1> DEFINE p == a \div n
           r == a % n
           q == b \div n
           s == b % n
           k == (a - b) \div n
           m == (a - b) % n
<1>1. r \in 0 .. n - 1 /\ p \in Int /\ a = n * p + r
  BY DivMod
<1>2. s \in 0 .. n - 1 /\ q \in Int /\ b = n * q + s
  BY DivMod
<1>3. m \in 0 .. n - 1 /\ k \in Int /\ a - b = n * k + m
  <2>1. a - b \in Int
    OBVIOUS
  <2> HIDE DEF p, r, q, s
  <2>2. QED
    BY <2>1, DivMod
<1> HIDE DEF p, r, q, s, k, m
<1>4. r - b = n * (k - p) + m /\ a - s = n * (k + q) + m
  BY <1>1, <1>2, <1>3
<1>5. (n * (k - p) + m) % n = m /\ (n * (k + q) + m) % n = m
  <2>1. k - p \in Int /\ k + q \in Int
    BY <1>1, <1>2, <1>3
  <2>2. QED
    BY <1>3, <2>1, ModUnique
<1>6. (r - b) % n = m /\ (a - s) % n = m
  BY <1>4, <1>5, Zenon
<1>7. QED
  BY <1>6, Zenon DEF r, s, m

-----------------------------------------------------------------------------
(* The windows.                                                            *)

(* A dog is in the window when it is less than its length ahead of it.     *)
LEMMA InTheWindow ==
  ASSUME NEW n \in Nat \ {0}, NEW t \in Nat, t % 2 = 1, NEW d \in 1 .. n,
         (d - 1 - (t \div 2) * SpeakBatchSize) % n < SpeakBatchSize
  PROVE  d \in SpeakBatch(t + 1, n)
<1> DEFINE j == t \div 2
           x == j * SpeakBatchSize
           start == x % n
           i == (d - 1 - x) % n
           size == IF SpeakBatchSize < n THEN SpeakBatchSize ELSE n
<1>1. /\ j \in Int /\ (t + 1) % 2 = 0 /\ ((t + 1) - 1) \div 2 = j
      /\ SpeakBatchSize \in Nat \ {0}
  BY SimulationAssumption
<1>2. x \in Int /\ start \in 0 .. n - 1 /\ i \in 0 .. n - 1 /\ i < SpeakBatchSize
  BY <1>1, DivMod
<1>3. i \in 0 .. size - 1
  BY <1>1, <1>2
<1>4. i = (d - 1 - start) % n
  <2>1. d - 1 \in Int
    OBVIOUS
  <2>2. (d - 1 - x) % n = (d - 1 - (x % n)) % n
    BY <1>2, <2>1, ModDifference
  <2>3. QED
    BY <2>2, Zenon
<1>5. (start + i) % n = d - 1
  <2> DEFINE q == (d - 1 - start) \div n
  <2>1. q \in Int /\ d - 1 - start = n * q + i
    <3>1. d - 1 - start \in Int
      BY <1>2
    <3>2. q \in Int /\ d - 1 - start = n * q + ((d - 1 - start) % n)
      BY <3>1, DivMod
    <3>3. QED
      BY <1>4, <3>2
  <2> HIDE DEF q, i, start
  <2>2. start + i = n * (-q) + (d - 1) /\ d - 1 \in 0 .. n - 1
    BY <1>2, <2>1
  <2>3. QED
    BY <2>1, <2>2, ModUnique
<1>6. d = ((start + i) % n) + 1
  BY <1>5
<1>7. SpeakBatch(t + 1, n) = {((start + y) % n) + 1 : y \in 0 .. size - 1}
  BY <1>1 DEF SpeakBatch
<1>8. QED
  BY <1>3, <1>6, <1>7

(* Half of a number and half of the next one.                              *)
LEMMA HalfOf ==
  ASSUME NEW t \in Nat
  PROVE  /\ t \div 2 \in Nat /\ t = 2 * (t \div 2) + (t % 2) /\ t % 2 \in {0, 1}
         /\ t % 2 = 0 => (t + 1) \div 2 = t \div 2 /\ (t + 1) % 2 = 1
         /\ t % 2 = 1 => (t + 1) \div 2 = (t \div 2) + 1 /\ (t + 1) % 2 = 0
OBVIOUS

(* A window that misses a dog brings the next one nearer to it.            *)
LEMMA WindowStep ==
  ASSUME TypeOK, HistoryTypeOK, WindowsComeNearer,
         NEW next \in [1 .. count -> DogState], Tick(next), Observe
  PROVE  WindowsComeNearer'
<1>1. /\ count \in Nat \ {0} /\ count' = count /\ SpeakBatchSize \in Nat \ {0}
      /\ tick_count \in Nat /\ tick_count' = tick_count + 1
      /\ speaking' = SpeakBatch(tick_count + 1, count)
      /\ silent \in [1 .. count -> Nat]
  BY SimulationAssumption DEF TypeOK, HistoryTypeOK, Tick
<1>2. \A d \in 1 .. count : silent'[d] = IF d \in speaking' THEN 0 ELSE silent[d] + 1
  BY <1>1 DEF Observe
<1> SUFFICES ASSUME NEW d \in 1 .. count
             PROVE  /\ silent'[d] % 2 = (tick_count + 1) % 2
                    /\ (silent'[d] \div 2) * SpeakBatchSize
                         + ((d - 1 - ((tick_count + 1) \div 2) * SpeakBatchSize) % count) < count
  BY <1>1 DEF WindowsComeNearer, Missed, Ahead
<1> DEFINE n == count
           B == SpeakBatchSize
           j == tick_count \div 2
           m == silent[d] \div 2
           a == (d - 1 - j * B) % n
<1>3. /\ silent[d] \in Nat /\ silent[d] % 2 = tick_count % 2
      /\ m * B + a < n
  BY <1>1 DEF WindowsComeNearer, Missed, Ahead
<1>4. j \in Nat /\ m \in Nat /\ j * B \in Int /\ d - 1 - j * B \in Int /\ a \in 0 .. n - 1
  <2>1. j \in Nat /\ m \in Nat
    BY <1>1, <1>3, HalfOf
  <2>2. j * B \in Int /\ d - 1 - j * B \in Int
    BY <1>1, <2>1
  <2> HIDE DEF j, m
  <2>3. QED
    BY <1>1, <2>1, <2>2, DivMod
<1>5. CASE tick_count % 2 = 0
  <2>1. speaking' = {}
    <3>1. (tick_count + 1) % 2 # 0
      BY <1>1, <1>5, HalfOf
    <3>2. QED
      BY <1>1, <3>1 DEF SpeakBatch
  <2>2. silent'[d] = silent[d] + 1
    BY <1>2, <2>1
  <2>3. /\ (silent[d] + 1) \div 2 = m /\ (silent[d] + 1) % 2 = 1
        /\ (tick_count + 1) \div 2 = j /\ (tick_count + 1) % 2 = 1
    BY <1>1, <1>3, <1>5, HalfOf
  <2> HIDE DEF j, m, a
  <2>4. QED
    BY <1>3, <2>2, <2>3 DEF a
<1>6. CASE tick_count % 2 = 1
  <2>1. (tick_count + 1) \div 2 = j + 1 /\ (tick_count + 1) % 2 = 0
    BY <1>1, <1>6, HalfOf
  <2>2. (d - 1 - (j + 1) * B) % n = (a - B) % n
    <3>1. d - 1 - (j + 1) * B = (d - 1 - j * B) - B
      BY <1>1, <1>4
    <3>2. ((d - 1 - j * B) - B) % n = (a - B) % n
      <4>1. \A x, b \in Int : (x - b) % n = ((x % n) - b) % n
        BY <1>1, ModDifference
      <4>2. d - 1 - j * B \in Int /\ B \in Int
        BY <1>1, <1>4
      <4>3. QED
        BY <4>1, <4>2, Zenon
    <3>3. QED
      BY <3>1, <3>2, Zenon
  <2>3. CASE d \in speaking'
    <3>1. silent'[d] = 0 /\ 0 % 2 = 0 /\ 0 \div 2 = 0
      BY <1>2, <2>3
    <3>2. (a - B) % n \in 0 .. n - 1
      <4>1. a - B \in Int
        BY <1>1, <1>4
      <4> HIDE DEF a
      <4>2. QED
        BY <1>1, <4>1, DivMod
    <3> HIDE DEF j, a
    <3>3. QED
      BY <1>1, <2>1, <2>2, <3>1, <3>2
  <2>4. CASE d \notin speaking'
    <3>1. silent'[d] = silent[d] + 1
      BY <1>2, <2>4
    <3>2. (silent[d] + 1) \div 2 = m + 1 /\ (silent[d] + 1) % 2 = 0
      BY <1>3, <1>6, HalfOf
    <3>3. a >= B
      <4>1. ~(a < B)
        BY <1>1, <1>6, <2>4, InTheWindow
      <4> HIDE DEF a
      <4>2. QED
        BY <1>1, <1>4, <4>1
    <3>4. (a - B) % n = a - B
      <4> HIDE DEF a
      <4>1. a - B \in 0 .. n - 1
        BY <1>1, <1>4, <3>3
      <4>2. \A r \in 0 .. n - 1 : r % n = r
        BY <1>1, SmallIsItsRemainder
      <4>3. QED
        BY <4>1, <4>2, Zenon
    <3> HIDE DEF j, a, m
    <3>5. (m + 1) * B + (a - B) = m * B + a
      BY <1>1, <1>4
    <3>6. QED
      BY <1>1, <1>3, <2>1, <2>2, <3>1, <3>2, <3>4, <3>5
  <2>5. QED
    BY <2>3, <2>4
<1>7. QED
  BY <1>1, <1>5, <1>6, HalfOf

(* What a dog may have missed when the next window may reach it last.      *)
LEMMA SilenceIsBounded ==
  ASSUME TypeOK, HistoryTypeOK, WindowsComeNearer
  PROVE  NobodyIsLeftOut
<1> DEFINE n == count
           B == SpeakBatchSize
           batches == (n + B - 1) \div B
<1>1. n \in Nat \ {0} /\ B \in Nat \ {0} /\ n + B - 1 \in Int /\ tick_count \in Nat
  BY SimulationAssumption DEF TypeOK
<1>2. batches \in Int /\ B * batches >= n
  <2>1. /\ (n + B - 1) % B \in 0 .. B - 1 /\ batches \in Int
        /\ n + B - 1 = B * batches + ((n + B - 1) % B)
    BY <1>1, DivMod
  <2> HIDE DEF batches
  <2>2. QED
    BY <1>1, <2>1
<1> HIDE DEF batches
<1>3. ASSUME NEW d \in 1 .. n
      PROVE  silent[d] < 2 * batches
  <2> DEFINE m == silent[d] \div 2
             a == (d - 1 - (tick_count \div 2) * B) % n
  <2>1. silent[d] \in Nat /\ m * B + a < n
    BY <1>3 DEF HistoryTypeOK, WindowsComeNearer, Missed, Ahead
  <2>2. m \in Nat /\ silent[d] <= 2 * m + 1
    BY <2>1, HalfOf
  <2>3. a >= 0
    <3>1. tick_count \div 2 \in Nat
      BY <1>1, HalfOf
    <3>2. (tick_count \div 2) * B \in Int
      BY <1>1, <3>1
    <3>3. d - 1 - (tick_count \div 2) * B \in Int
      BY <3>2
    <3>4. QED
      BY <1>1, <3>3, DivMod
  <2>4. a \in Int
    <3>1. tick_count \div 2 \in Nat
      BY <1>1, HalfOf
    <3>2. (tick_count \div 2) * B \in Int
      BY <1>1, <3>1
    <3>3. d - 1 - (tick_count \div 2) * B \in Int
      BY <3>2
    <3>4. QED
      BY <1>1, <3>3, DivMod
  <2> HIDE DEF m, a
  <2>5. m < batches
    <3>1. B * (batches - m) > 0
      BY <1>1, <1>2, <2>1, <2>2, <2>3, <2>4
    <3>2. ASSUME batches - m <= 0 PROVE FALSE
      <4>1. B * (m - batches) >= 0
        BY <1>1, <1>2, <2>2, <3>2
      <4>2. QED
        BY <1>1, <1>2, <2>2, <3>1, <4>1
    <3>3. QED
      BY <1>2, <2>2, <3>2
  <2>6. QED
    BY <1>2, <2>1, <2>2, <2>5
<1>4. QED
  BY <1>3 DEF NobodyIsLeftOut, batches

-----------------------------------------------------------------------------
(* The needs.                                                              *)

(* One tick of one dog, in half units.                                     *)
LEMMA DogTick ==
  ASSUME NEW dog, NEW after, NEW next,
         dog.state \in DogState, dog.needs \in DogNeeds,
         next \in NextStates(dog),
         after.state = next,
         after.needs = UpdateNeeds(dog.needs, dog.state)
  PROVE  LET e == dog.needs.energy
             h == dog.needs.hunger
             b == dog.needs.boredom
         IN  /\ e \in 0 .. 200 /\ h \in 0 .. 200 /\ b \in 0 .. 200
             /\ after.needs.energy \in 0 .. 200
             /\ after.needs.hunger \in 0 .. 200
             /\ after.needs.boredom \in 0 .. 200
             /\ dog.state = "sleeping" =>
                  /\ after.needs.energy = Clamp(e + 16)
                  /\ after.needs.hunger = Clamp(h + 4)
                  /\ after.needs.boredom = Clamp(b + 2)
                  /\ next = "sleeping" =>
                       \/ after.needs.energy < 180
                       \/ after.needs.hunger <= 140
                  /\ next = "eating" => after.needs.energy >= 180
                  /\ next = "playing" => after.needs.energy >= 180 /\ after.needs.hunger <= 140
             /\ dog.state = "eating" =>
                  /\ after.needs.energy = Clamp(e - 2)
                  /\ after.needs.hunger = Clamp(h - 20)
                  /\ after.needs.boredom = Clamp(b + 4)
                  /\ next = "sleeping" =>
                       after.needs.energy < 60 \/ after.needs.boredom <= 100
                  /\ next = "eating" => after.needs.hunger >= 40
                  /\ next = "playing" => after.needs.energy >= 60 /\ after.needs.hunger < 40
             /\ dog.state = "playing" =>
                  /\ after.needs.energy = Clamp(e - 10)
                  /\ after.needs.hunger = Clamp(h + 6)
                  /\ after.needs.boredom = Clamp(b - 16)
                  /\ next = "sleeping" => after.needs.energy < 60
                  /\ next = "eating" => after.needs.energy >= 60
                  /\ next = "playing" => after.needs.energy >= 60 /\ after.needs.hunger <= 160
<1> DEFINE needs == UpdateNeeds(dog.needs, dog.state)
<1>1. needs \in DogNeeds
  BY UpdateNeedsType
<1>2. next \in EvaluateTransition(dog.state, needs, FALSE) /\ after.needs = needs
  BY DEF NextStates
<1>3. /\ needs.energy \in 0 .. 200 /\ needs.hunger \in 0 .. 200
      /\ needs.boredom \in 0 .. 200
      /\ dog.needs.energy \in 0 .. 200 /\ dog.needs.hunger \in 0 .. 200
      /\ dog.needs.boredom \in 0 .. 200
  BY <1>1 DEF DogNeeds, NeedRange, Units
<1>4. CASE dog.state = "sleeping"
  <2>1. /\ needs.energy = Clamp(dog.needs.energy + 16)
        /\ needs.hunger = Clamp(dog.needs.hunger + 4)
        /\ needs.boredom = Clamp(dog.needs.boredom + 2)
    BY <1>4 DEF UpdateNeeds, NEED_DELTAS, Units
  <2>2. next \in FromSleeping(needs, FALSE)
    BY <1>2, <1>4 DEF EvaluateTransition
  <2> HIDE DEF needs
  <2>3. /\ next = "sleeping" => needs.energy < 180 \/ needs.hunger <= 140
        /\ next = "eating" => needs.energy >= 180
        /\ next = "playing" => needs.energy >= 180 /\ needs.hunger <= 140
    BY <1>3, <2>2 DEF FromSleeping, WeightedChoices, Units
  <2>4. QED
    BY <1>2, <1>3, <1>4, <2>1, <2>3
<1>5. CASE dog.state = "eating"
  <2>1. /\ needs.energy = Clamp(dog.needs.energy - 2)
        /\ needs.hunger = Clamp(dog.needs.hunger - 20)
        /\ needs.boredom = Clamp(dog.needs.boredom + 4)
    BY <1>3, <1>5 DEF UpdateNeeds, NEED_DELTAS, Units
  <2>2. next \in FromEating(needs)
    BY <1>2, <1>5 DEF EvaluateTransition
  <2> HIDE DEF needs
  <2>3. /\ next = "sleeping" => needs.energy < 60 \/ needs.boredom <= 100
        /\ next = "eating" => needs.hunger >= 40
        /\ next = "playing" => needs.energy >= 60 /\ needs.hunger < 40
    BY <1>3, <2>2 DEF FromEating, Units
  <2>4. QED
    BY <1>2, <1>3, <1>5, <2>1, <2>3
<1>6. CASE dog.state = "playing"
  <2>1. /\ needs.energy = Clamp(dog.needs.energy - 10)
        /\ needs.hunger = Clamp(dog.needs.hunger + 6)
        /\ needs.boredom = Clamp(dog.needs.boredom - 16)
    BY <1>3, <1>6 DEF UpdateNeeds, NEED_DELTAS, Units
  <2>2. next \in FromPlaying(needs)
    BY <1>2, <1>6 DEF EvaluateTransition
  <2> HIDE DEF needs
  <2>3. /\ next = "sleeping" => needs.energy < 60
        /\ next = "eating" => needs.energy >= 60
        /\ next = "playing" => needs.energy >= 60 /\ needs.hunger <= 160
    BY <1>3, <2>2 DEF FromPlaying, Units
  <2>4. QED
    BY <1>2, <1>3, <1>6, <2>1, <2>3
<1>7. QED
  BY <1>4, <1>5, <1>6 DEF DogState

(* A dog that goes on without sleep tires.                                 *)
LEMMA NoSleepStep ==
  ASSUME NEW dog, NEW after, NEW next, NEW t \in Nat,
         dog.state \in DogState, dog.needs \in DogNeeds,
         dog.ticks_in_state \in Nat,
         Drifted(dog), Drifted(after),
         next \in NextStates(dog),
         after.state = next,
         after.needs = UpdateNeeds(dog.needs, dog.state),
         after.ticks_in_state = IF next # dog.state THEN 0
                                ELSE dog.ticks_in_state + 1,
         IF t = 0 THEN dog.ticks_in_state = 0 ELSE HasNotSlept(dog, t),
         next # "sleeping"
  PROVE  HasNotSlept(after, t + 1)
<1> DEFINE e == dog.needs.energy
           h == dog.needs.hunger
           b == dog.needs.boredom
           k == dog.ticks_in_state
           e2 == after.needs.energy
           h2 == after.needs.hunger
           b2 == after.needs.boredom
           k2 == after.ticks_in_state
<1>1. /\ e \in 0 .. 200 /\ e2 \in 0 .. 200 /\ k \in Nat
      /\ dog.state = "eating" =>
           e2 = Clamp(e - 2) /\ (next = "playing" => e2 >= 60)
      /\ dog.state = "playing" =>
           e2 = Clamp(e - 10) /\ e2 >= 60
      /\ dog.state = "sleeping" => e2 >= 180
  <2>1. next \in DogState
    <3>1. UpdateNeeds(dog.needs, dog.state) \in DogNeeds
      BY UpdateNeedsType
    <3>2. QED
      BY <3>1, EvaluateTransitionType DEF NextStates
  <2>2. QED
    BY <2>1, DogTick DEF DogState
<1>2. dog.state = "eating" => k <= 8
  BY DEF Drifted, MaxStay
<1>3. k2 = IF next # dog.state THEN 0 ELSE k + 1
  OBVIOUS
<1>4. next \in {"eating", "playing"}
  <2>1. UpdateNeeds(dog.needs, dog.state) \in DogNeeds
    BY UpdateNeedsType
  <2>2. QED
    BY <2>1, EvaluateTransitionType DEF NextStates, DogState
<1>5. CASE t = 0
  <2>1. k = 0
    BY <1>5
  <2> HIDE DEF e, e2, k, k2
  <2>2. QED
    BY <1>1, <1>3, <1>4, <1>5, <2>1 DEF HasNotSlept, Units, DogState, e2, k2
<1>6. CASE t # 0
  <2>1. /\ dog.state \in {"eating", "playing"}
        /\ e <= 2 * (101 - t)
        /\ dog.state = "playing" => e >= 60
        /\ dog.state = "eating" => t - k <= 71
    BY <1>6 DEF HasNotSlept, Units, DogState
  <2>2. t <= 79
    BY <1>1, <1>2, <2>1
  <2>3. e2 <= 2 * (101 - (t + 1))
    BY <1>1, <2>1, <2>2 DEF Clamp, Units
  <2>4. next = "playing" => e2 >= 60
    BY <1>1, <2>1
  <2>5. next = "eating" => (t + 1) - k2 <= 71
    <3>1. CASE dog.state = "eating"
      BY <1>1, <1>3, <2>1, <3>1
    <3>2. CASE dog.state = "playing" /\ next = "eating"
      <4>1. k2 = 0
        BY <1>3, <3>2
      <4>2. QED
        BY <1>1, <2>3, <3>2, <4>1
    <3>3. QED
      BY <2>1, <3>1, <3>2
  <2>6. QED
    BY <1>4, <2>3, <2>4, <2>5 DEF HasNotSlept, Units
<1>7. QED
  BY <1>5, <1>6

(* One that goes on without food gets hungry.                              *)
LEMMA NoFoodStep ==
  ASSUME NEW dog, NEW after, NEW next, NEW t \in Nat,
         dog.state \in DogState, dog.needs \in DogNeeds,
         dog.ticks_in_state \in Nat,
         Drifted(dog), Drifted(after),
         next \in NextStates(dog),
         after.state = next,
         after.needs = UpdateNeeds(dog.needs, dog.state),
         after.ticks_in_state = IF next # dog.state THEN 0
                                ELSE dog.ticks_in_state + 1,
         IF t = 0 THEN dog.ticks_in_state = 0 ELSE HasNotEaten(dog, t),
         next # "eating"
  PROVE  HasNotEaten(after, t + 1)
<1> DEFINE e == dog.needs.energy
           h == dog.needs.hunger
           b == dog.needs.boredom
           k == dog.ticks_in_state
           e2 == after.needs.energy
           h2 == after.needs.hunger
           b2 == after.needs.boredom
           k2 == after.ticks_in_state
<1>1. /\ e2 \in 0 .. 200 /\ h \in 0 .. 200 /\ h2 \in 0 .. 200 /\ k \in Nat
      /\ dog.state = "sleeping" =>
           /\ h2 = Clamp(h + 4)
           /\ next = "sleeping" => e2 < 180 \/ h2 <= 140
           /\ next = "playing" => h2 <= 140
      /\ dog.state = "eating" => (next = "playing" => h2 < 40)
      /\ dog.state = "playing" =>
           h2 = Clamp(h + 6) /\ (next = "playing" => h2 <= 160)
  BY DogTick
<1>2. next \in DogState
  <2>1. UpdateNeeds(dog.needs, dog.state) \in DogNeeds
    BY UpdateNeedsType
  <2>2. QED
    BY <2>1, EvaluateTransitionType DEF NextStates
<1>3. k2 = IF next # dog.state THEN 0 ELSE k + 1
  OBVIOUS
<1>4. next = "sleeping" => e2 >= 180 \/ e2 >= 16 * k2
  BY DEF Drifted, Units
<1>5. CASE t = 0
  <2>1. k = 0 /\ h2 >= 0
    BY <1>1, <1>5
  <2>2. next = "playing" => h2 <= 160
    BY <1>1 DEF DogState
  <2> HIDE DEF h2, k, k2
  <2>3. QED
    BY <1>1, <1>2, <1>3, <1>5, <2>1, <2>2 DEF HasNotEaten, Units, DogState, h2, k2
<1>6. CASE t # 0
  <2>1. /\ dog.state \in {"sleeping", "playing"}
        /\ h = 200 \/ h >= 4 * (t - 1)
        /\ dog.state = "playing" => h <= 160
        /\ dog.state = "sleeping" => t - k <= 42 /\ (t <= 36 \/ k <= 11)
    BY <1>6 DEF HasNotEaten, Units, DogState
  <2>2. h2 = 200 \/ h2 >= 4 * t
    BY <1>1, <2>1 DEF Clamp, Units
  <2>3. next = "playing" => h2 <= 160
    BY <1>1, <2>1
  <2>4. CASE next = "sleeping" /\ dog.state = "sleeping"
    <3>1. k2 = k + 1
      BY <1>3, <2>4
    <3>2. t + 1 <= 36 \/ k2 <= 11
      BY <1>1, <1>4, <2>2, <2>4, <3>1
    <3>3. QED
      BY <1>1, <2>1, <2>2, <2>3, <2>4, <3>1, <3>2 DEF HasNotEaten, Units
  <2>5. CASE next = "sleeping" /\ dog.state = "playing"
    <3>1. k2 = 0
      BY <1>3, <2>5
    <3>2. t + 1 <= 42
      BY <1>1, <2>1, <2>5
    <3>3. QED
      BY <1>1, <2>2, <2>3, <2>5, <3>1, <3>2 DEF HasNotEaten, Units
  <2>6. CASE next = "playing"
    BY <2>2, <2>3, <2>6 DEF HasNotEaten, Units
  <2>7. QED
    BY <1>2, <2>1, <2>4, <2>5, <2>6 DEF DogState
<1>7. QED
  BY <1>5, <1>6

(* And one that goes on without play gets bored.                           *)
LEMMA NoPlayStep ==
  ASSUME NEW dog, NEW after, NEW next, NEW t \in Nat,
         dog.state \in DogState, dog.needs \in DogNeeds,
         dog.ticks_in_state \in Nat,
         Drifted(dog), Drifted(after),
         next \in NextStates(dog),
         after.state = next,
         after.needs = UpdateNeeds(dog.needs, dog.state),
         after.ticks_in_state = IF next # dog.state THEN 0
                                ELSE dog.ticks_in_state + 1,
         IF t = 0 THEN dog.ticks_in_state = 0 ELSE HasNotPlayed(dog, t),
         next # "playing"
  PROVE  HasNotPlayed(after, t + 1)
<1> DEFINE e == dog.needs.energy
           h == dog.needs.hunger
           b == dog.needs.boredom
           k == dog.ticks_in_state
           e2 == after.needs.energy
           h2 == after.needs.hunger
           b2 == after.needs.boredom
           k2 == after.ticks_in_state
<1>1. /\ e \in 0 .. 200 /\ e2 \in 0 .. 200 /\ b \in 0 .. 200
      /\ b2 \in 0 .. 200 /\ k \in Nat
      /\ dog.state = "sleeping" =>
           b2 = Clamp(b + 2) /\ (next = "eating" => e2 >= 180)
      /\ dog.state = "eating" =>
           /\ e2 = Clamp(e - 2) /\ b2 = Clamp(b + 4)
           /\ next = "sleeping" => e2 < 60 \/ b2 <= 100
  <2>1. e \in 0 .. 200 /\ e2 \in 0 .. 200 /\ b \in 0 .. 200 /\ b2 \in 0 .. 200
    BY DogTick
  <2>2. dog.state = "sleeping" =>
          b2 = Clamp(b + 2) /\ (next = "eating" => e2 >= 180)
    BY DogTick
  <2>3. dog.state = "eating" =>
          /\ e2 = Clamp(e - 2) /\ b2 = Clamp(b + 4)
          /\ next = "sleeping" => e2 < 60 \/ b2 <= 100
    <3>1. dog.state = "eating" => e2 = Clamp(e - 2) /\ b2 = Clamp(b + 4)
      BY DogTick
    <3>2. dog.state = "eating" /\ next = "sleeping" => e2 < 60 \/ b2 <= 100
      BY DogTick
    <3>3. QED
      BY <3>1, <3>2, Zenon
  <2>4. k \in Nat
    OBVIOUS
  <2>5. QED
    BY <2>1, <2>2, <2>3, <2>4, Zenon
<1>2. next \in DogState
  <2>1. UpdateNeeds(dog.needs, dog.state) \in DogNeeds
    BY UpdateNeedsType
  <2>2. QED
    BY <2>1, EvaluateTransitionType DEF NextStates
<1>3. k2 = IF next # dog.state THEN 0 ELSE k + 1
  OBVIOUS
<1>4. /\ dog.state = "sleeping" => k <= 35
      /\ dog.state = "eating" => k <= 8
  BY DEF Drifted, MaxStay
<1>5. CASE t = 0
  <2>1. k = 0 /\ b2 >= 0 /\ t - k2 <= 1
    BY <1>1, <1>3, <1>5
  <2>2. next = "sleeping" => 1 - k2 <= 51
    BY <1>1, <1>3, <2>1
  <2>3. 1 - k2 <= 1
    BY <1>3, <2>1
  <2> HIDE DEF b2, k, k2
  <2>4. QED
    BY <1>1, <1>2, <1>3, <1>5, <2>1, <2>2, <2>3
       DEF HasNotPlayed, Units, DogState, b2, k2
<1>6. CASE t # 0
  <2>1. /\ dog.state \in {"sleeping", "eating"}
        /\ b = 200 \/ b >= 2 * (t - 1)
        /\ dog.state = "sleeping" => t - k <= 51
        /\ dog.state = "eating" =>
             t - k <= 87 /\ (t - k <= 1 \/ e >= 2 * (90 - k))
    BY <1>6 DEF HasNotPlayed, Units, DogState
  <2>2. b2 = 200 \/ b2 >= 2 * t
    BY <1>1, <2>1 DEF Clamp, Units
  <2>3. CASE next = "sleeping" /\ dog.state = "sleeping"
    <3>1. k2 = k + 1
      BY <1>3, <2>3
    <3>2. QED
      BY <1>1, <2>1, <2>2, <2>3, <3>1 DEF HasNotPlayed, Units
  <2>4. CASE next = "sleeping" /\ dog.state = "eating"
    <3>1. k2 = 0
      BY <1>3, <2>4
    <3>2. CASE b2 <= 100
      <4>1. t + 1 <= 51
        BY <1>1, <2>2, <3>2
      <4>2. QED
        BY <2>2, <2>4, <3>1, <4>1 DEF HasNotPlayed, Units
    <3>3. CASE e2 < 60
      <4>1. e < 62
        BY <1>1, <2>4, <3>3 DEF Clamp, Units
      <4>2. t + 1 <= 51
        BY <1>1, <1>4, <2>1, <2>4, <4>1
      <4>3. QED
        BY <2>2, <2>4, <3>1, <4>2 DEF HasNotPlayed, Units
    <3>4. QED
      BY <1>1, <2>4, <3>2, <3>3
  <2>5. CASE next = "eating" /\ dog.state = "sleeping"
    <3>1. k2 = 0 /\ e2 >= 180
      BY <1>1, <1>3, <2>5
    <3>2. t + 1 <= 87
      BY <1>1, <1>4, <2>1, <2>5
    <3>3. QED
      BY <2>2, <2>5, <3>1, <3>2 DEF HasNotPlayed, Units
  <2>6. CASE next = "eating" /\ dog.state = "eating"
    <3>1. k2 = k + 1
      BY <1>3, <2>6
    <3>2. t - k <= 1 \/ e2 >= 2 * (90 - k2)
      BY <1>1, <1>4, <2>1, <2>6, <3>1 DEF Clamp, Units
    <3>3. QED
      BY <1>1, <2>1, <2>2, <2>6, <3>1, <3>2 DEF HasNotPlayed, Units
  <2>7. QED
    BY <1>2, <2>1, <2>3, <2>4, <2>5, <2>6 DEF DogState
<1>7. QED
  BY <1>5, <1>6

-----------------------------------------------------------------------------
(* The history.                                                            *)

(* A tick as the observers see it.                                         *)
LEMMA TickObserved ==
  ASSUME HistoryInv, NEW next \in [1 .. count -> DogState], Tick(next), Observe
  PROVE  HistoryTypeOK' /\ NeedsDrive'
<1>1. /\ TypeOK /\ HistoryTypeOK /\ NeedsDrive
      /\ count \in Nat /\ count' = count
      /\ tick_count \in Nat /\ tick_count' = tick_count + 1
  BY SimulationAssumption DEF HistoryInv, SimulationInv, TypeOK, Tick
<1>2. /\ DOMAIN dogs = 1 .. count /\ DOMAIN dogs' = 1 .. count
      /\ \A d \in 1 .. count :
           /\ dogs[d] \in DogProfile
           /\ next[d] \in NextStates(dogs[d])
           /\ dogs'[d].state = next[d]
           /\ dogs'[d].needs = UpdateNeeds(dogs[d].needs, dogs[d].state)
           /\ dogs'[d].ticks_in_state = IF next[d] # dogs[d].state THEN 0
                                        ELSE dogs[d].ticks_in_state + 1
  BY <1>1, TickShape
<1>3. /\ visited' = [d \in 1 .. count |-> visited[d] \cup {dogs'[d].state}]
      /\ silent' = [d \in 1 .. count |-> IF d \in speaking' THEN 0 ELSE silent[d] + 1]
  BY <1>1 DEF Observe
<1>4. visited' = [d \in 1 .. count |-> visited[d] \cup {next[d]}]
  BY <1>2, <1>3
<1>5. HistoryTypeOK'
  BY <1>1, <1>3, <1>4 DEF HistoryTypeOK
<1>6. ASSUME NEW d \in 1 .. count
      PROVE  /\ "sleeping" \notin visited'[d] => HasNotSlept(dogs'[d], tick_count + 1)
             /\ "eating" \notin visited'[d] => HasNotEaten(dogs'[d], tick_count + 1)
             /\ "playing" \notin visited'[d] => HasNotPlayed(dogs'[d], tick_count + 1)
  <2>1. /\ dogs[d].state \in DogState /\ dogs[d].needs \in DogNeeds
        /\ dogs[d].ticks_in_state \in Nat
    BY <1>2 DEF DogProfile
  <2>2. Drifted(dogs[d])
    BY <1>2 DEF HistoryInv, SimulationInv
  <2>3. Drifted(dogs'[d])
    BY <1>2, <2>1, <2>2, DriftStep
  <2>4. /\ tick_count = 0 => dogs[d].ticks_in_state = 0
        /\ tick_count # 0 =>
             /\ "sleeping" \notin visited[d] => HasNotSlept(dogs[d], tick_count)
             /\ "eating" \notin visited[d] => HasNotEaten(dogs[d], tick_count)
             /\ "playing" \notin visited[d] => HasNotPlayed(dogs[d], tick_count)
    BY <1>1, <1>2 DEF NeedsDrive
  <2>5. \A s \in DogState :
          s \notin visited'[d] => s \notin visited[d] /\ next[d] # s
    BY <1>4
  <2>6. ASSUME "sleeping" \notin visited'[d]
        PROVE  HasNotSlept(dogs'[d], tick_count + 1)
    <3>1. "sleeping" \notin visited[d] /\ next[d] # "sleeping"
      BY <2>5, <2>6 DEF DogState
    <3>2. IF tick_count = 0 THEN dogs[d].ticks_in_state = 0
          ELSE HasNotSlept(dogs[d], tick_count)
      BY <2>4, <3>1
    <3>3. QED
      BY <1>1, <1>2, <2>1, <2>2, <2>3, <3>1, <3>2, NoSleepStep
  <2>7. ASSUME "eating" \notin visited'[d]
        PROVE  HasNotEaten(dogs'[d], tick_count + 1)
    <3>1. "eating" \notin visited[d] /\ next[d] # "eating"
      BY <2>5, <2>7 DEF DogState
    <3>2. IF tick_count = 0 THEN dogs[d].ticks_in_state = 0
          ELSE HasNotEaten(dogs[d], tick_count)
      BY <2>4, <3>1
    <3>3. QED
      BY <1>1, <1>2, <2>1, <2>2, <2>3, <3>1, <3>2, NoFoodStep
  <2>8. ASSUME "playing" \notin visited'[d]
        PROVE  HasNotPlayed(dogs'[d], tick_count + 1)
    <3>1. "playing" \notin visited[d] /\ next[d] # "playing"
      BY <2>5, <2>8 DEF DogState
    <3>2. IF tick_count = 0 THEN dogs[d].ticks_in_state = 0
          ELSE HasNotPlayed(dogs[d], tick_count)
      BY <2>4, <3>1
    <3>3. QED
      BY <1>1, <1>2, <2>1, <2>2, <2>3, <3>1, <3>2, NoPlayStep
  <2>9. QED
    BY <2>6, <2>7, <2>8
<1>7. NeedsDrive'
  BY <1>1, <1>6 DEF NeedsDrive
<1>8. QED
  BY <1>5, <1>7

(* A dog is added with no tick behind it, before the first tick of all.    *)
LEMMA AddDogObserved ==
  ASSUME SimulationInv, NeedsDrive, NEW state \in DogState,
         NEW needs \in InitNeeds, AddDog(state, needs)
  PROVE  tick_count' = tick_count /\ NeedsDrive'
<1> DEFINE dog == [state |-> state, needs |-> needs,
                   play_partner |-> NoPartner, ticks_in_state |-> 0]
           n == Len(dogs)
<1>1. /\ TypeOK /\ Populated
      /\ dogs' = Append(dogs, dog) /\ n < count /\ tick_count' = tick_count
  BY DEF SimulationInv, AddDog
<1>2. dog \in DogProfile /\ dogs \in Seq(DogProfile)
  BY <1>1, SimulationAssumption DEF DogProfile, NoPartner, TypeOK
<1>3. /\ n \in Nat /\ DOMAIN dogs = 1 .. n /\ DOMAIN dogs' = 1 .. (n + 1)
      /\ \A d \in 1 .. n : dogs'[d] = dogs[d]
      /\ dogs'[n + 1] = dog
  BY <1>1, <1>2, AppendProperties, LenProperties
<1>4. tick_count = 0
  <2>1. tick_count \in Nat /\ count \in Nat
    BY <1>1, SimulationAssumption DEF TypeOK
  <2>2. tick_count > 0 => n = count
    BY <1>1 DEF Populated
  <2> HIDE DEF n
  <2>3. ~(tick_count > 0)
    BY <1>1, <1>3, <2>1, <2>2
  <2>4. QED
    BY <2>1, <2>3
<1>5. \A d \in DOMAIN dogs : dogs[d].ticks_in_state = 0
  BY <1>4 DEF NeedsDrive
<1>6. \A d \in DOMAIN dogs' : dogs'[d].ticks_in_state = 0
  BY <1>3, <1>5
<1>7. QED
  BY <1>1, <1>4, <1>6 DEF NeedsDrive

(* The observers only watch: what holds of every simulation still does.    *)
LEMMA ObservedSimulation == HistorySpec => []SimulationInv
<1>1. HistorySpec => Spec
  <2>1. HistoryInit => Init
    BY DEF HistoryInit
  <2>2. [HistoryNext]_historyVars => [Next]_vars
    BY DEF HistoryNext, historyVars
  <2>3. QED
    BY <2>1, <2>2, PTL DEF HistorySpec, Spec
<1>2. QED
  BY <1>1, SimulationInvariant, PTL

(* The inductive invariant of the observed simulation.                     *)
LEMMA HistoryInvariant == HistorySpec => []HistoryInv
<1>1. HistoryInit => HistoryTypeOK /\ WindowsComeNearer /\ NeedsDrive
  <2> SUFFICES ASSUME HistoryInit
               PROVE  HistoryTypeOK /\ WindowsComeNearer /\ NeedsDrive
    OBVIOUS
  <2>1. /\ count \in Nat \ {0} /\ tick_count = 0 /\ dogs = <<>>
        /\ visited = [d \in 1 .. count |-> {}]
        /\ silent = [d \in 1 .. count |-> 0]
    BY SimulationAssumption DEF HistoryInit, Init
  <2>2. HistoryTypeOK /\ NeedsDrive
    BY <2>1 DEF HistoryTypeOK, NeedsDrive
  <2>3. ASSUME NEW d \in 1 .. count
        PROVE  silent[d] % 2 = tick_count % 2
               /\ Missed(d) * SpeakBatchSize + Ahead(d) < count
    <3>1. tick_count \div 2 = 0 /\ silent[d] \div 2 = 0 /\ silent[d] = 0
      BY <2>1
    <3>2. SpeakBatchSize \in Nat /\ 0 * SpeakBatchSize = 0
      BY SimulationAssumption
    <3>3. Missed(d) * SpeakBatchSize = 0 /\ Ahead(d) = (d - 1) % count
      <4>1. d - 1 - 0 = d - 1
        OBVIOUS
      <4>2. QED
        BY <3>1, <3>2, <4>1, Zenon DEF Missed, Ahead
    <3>4. (d - 1) % count \in 0 .. count - 1
      <4>1. d - 1 \in Int
        OBVIOUS
      <4>2. QED
        BY <2>1, <4>1, DivMod
    <3>5. QED
      BY <2>1, <3>1, <3>3, <3>4
  <2>4. QED
    BY <2>2, <2>3 DEF WindowsComeNearer
<1>2. /\ SimulationInv /\ SimulationInv' /\ HistoryTypeOK /\ WindowsComeNearer
      /\ NeedsDrive /\ [HistoryNext]_historyVars
      => HistoryTypeOK' /\ WindowsComeNearer' /\ NeedsDrive'
  <2> SUFFICES ASSUME SimulationInv, HistoryTypeOK, WindowsComeNearer,
                      NeedsDrive, [HistoryNext]_historyVars
               PROVE  HistoryTypeOK' /\ WindowsComeNearer' /\ NeedsDrive'
    OBVIOUS
  <2>1. TypeOK /\ HistoryInv
    BY DEF SimulationInv, HistoryInv
  <2>2. ASSUME UNCHANGED <<count, tick_count, visited, silent>>
        PROVE  HistoryTypeOK' /\ WindowsComeNearer'
    BY <2>2 DEF HistoryTypeOK, WindowsComeNearer, Missed, Ahead
  <2>3. ASSUME NEW state \in DogState, NEW needs \in InitNeeds,
               AddDog(state, needs), Observe
        PROVE  HistoryTypeOK' /\ WindowsComeNearer' /\ NeedsDrive'
    <3>1. tick_count' = tick_count /\ NeedsDrive'
      BY <2>3, AddDogObserved
    <3>2. UNCHANGED <<count, tick_count, visited, silent>>
      BY <2>3, <3>1 DEF AddDog, Observe
    <3>3. QED
      BY <2>2, <3>1, <3>2
  <2>4. ASSUME NEW next \in [1 .. count -> DogState], Tick(next), Observe
        PROVE  HistoryTypeOK' /\ WindowsComeNearer' /\ NeedsDrive'
    <3>1. HistoryTypeOK' /\ NeedsDrive'
      BY <2>1, <2>4, TickObserved
    <3>2. WindowsComeNearer'
      BY <2>1, <2>4, WindowStep
    <3>3. QED
      BY <3>1, <3>2
  <2>5. CASE ((Finish \/ Stop) /\ Observe) \/ UNCHANGED historyVars
    <3>1. UNCHANGED <<count, dogs, tick_count, visited, silent>>
      BY <2>5 DEF Finish, Stop, Observe, historyVars, vars
    <3>2. NeedsDrive'
      BY <3>1 DEF NeedsDrive, HasNotSlept, HasNotEaten, HasNotPlayed
    <3>3. QED
      BY <2>2, <3>1, <3>2
  <2>6. QED
    BY <2>3, <2>4, <2>5 DEF HistoryNext, Next, Step
<1>3. QED
  BY <1>1, <1>2, ObservedSimulation, PTL DEF HistorySpec, HistoryInv

(* Every dog speaks once in as many batches as the herd fills, whatever    *)
(* the number of dogs and the size of a batch.                             *)
THEOREM NobodyIsEverLeftOut == HistorySpec => []NobodyIsLeftOut
<1>1. HistoryInv => NobodyIsLeftOut
  BY SilenceIsBounded DEF HistoryInv, SimulationInv
<1>2. QED
  BY <1>1, HistoryInvariant, PTL

(* In 96 ticks and more every dog sleeps, eats and plays, whatever its     *)
(* first needs are and whatever rng draws.                                 *)
THEOREM EveryStateIsVisited ==
  NumTicks >= 96 => (HistorySpec => []EveryStateVisited)
<1> SUFFICES ASSUME NumTicks >= 96 PROVE HistorySpec => []EveryStateVisited
  OBVIOUS
<1>1. HistoryInv => EveryStateVisited
  <2> SUFFICES ASSUME HistoryInv, tick_count = NumTicks, NEW d \in 1 .. count
               PROVE  visited[d] = DogState
    BY DEF EveryStateVisited
  <2>1. /\ TypeOK /\ HistoryTypeOK /\ Populated /\ NeedsDrive
        /\ tick_count \in Nat /\ tick_count >= 96
        /\ \A c \in DOMAIN dogs : Drifted(dogs[c])
    BY SimulationAssumption DEF HistoryInv, SimulationInv, TypeOK
  <2>2. dogs[d] \in DogProfile /\ Drifted(dogs[d])
    <3>1. Len(dogs) = count
      BY <2>1 DEF Populated
    <3>2. dogs \in [1 .. count -> DogProfile]
      BY <2>1, <3>1, LenProperties DEF TypeOK
    <3>3. QED
      BY <2>1, <3>2
  <2> DEFINE dog == dogs[d]
  <2>3. /\ dog.state \in DogState /\ dog.ticks_in_state \in Nat
        /\ dog.needs.energy \in 0 .. 200 /\ dog.needs.hunger \in 0 .. 200
        /\ dog.needs.boredom \in 0 .. 200
        /\ dog.state = "sleeping" => dog.ticks_in_state <= 35
        /\ dog.state = "eating" => dog.ticks_in_state <= 8
    BY <2>2 DEF DogProfile, DogNeeds, NeedRange, Units, Drifted, MaxStay
  <2>4. /\ "sleeping" \notin visited[d] => HasNotSlept(dog, tick_count)
        /\ "eating" \notin visited[d] => HasNotEaten(dog, tick_count)
        /\ "playing" \notin visited[d] => HasNotPlayed(dog, tick_count)
    BY <2>1 DEF NeedsDrive
  <2> HIDE DEF dog
  <2>5. ~HasNotSlept(dog, tick_count)
    BY <2>1, <2>3 DEF HasNotSlept, Units, DogState
  <2>6. ~HasNotEaten(dog, tick_count)
    BY <2>1, <2>3 DEF HasNotEaten, Units, DogState
  <2>7. ~HasNotPlayed(dog, tick_count)
    BY <2>1, <2>3 DEF HasNotPlayed, Units, DogState
  <2>8. visited[d] \subseteq DogState
    BY <2>1 DEF HistoryTypeOK
  <2>9. QED
    BY <2>4, <2>5, <2>6, <2>7, <2>8 DEF DogState
<1>2. QED
  BY <1>1, HistoryInvariant, PTL

=============================================================================
