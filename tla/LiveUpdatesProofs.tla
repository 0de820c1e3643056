-------------------------- MODULE LiveUpdatesProofs --------------------------
(***************************************************************************)
(* TLAPS proofs about LiveUpdates, for any number of browsers, whichever   *)
(* of them are flaky, any number of dogs and any length of run.            *)
(***************************************************************************)
EXTENDS LiveUpdates, SequenceTheorems, WellFoundedInduction, TLAPS

-----------------------------------------------------------------------------
(* Lists without repetition.                                               *)

(* Every set of numbers that is not empty has a least element.             *)
LEMMA LeastElement ==
  ASSUME NEW T \in SUBSET Nat, T # {}
  PROVE  \E m \in T : \A y \in T : m <= y
<1>1. \E m \in T : \A y \in T : ~(<<y, m>> \in OpToRel(<, Nat))
  BY NatLessThanWellFounded, WFMin
<1>2. \A x, y \in Nat : <<y, x>> \in OpToRel(<, Nat) <=> y < x
  BY DEF OpToRel
<1>3. PICK m \in T : \A y \in T : ~(<<y, m>> \in OpToRel(<, Nat))
  BY <1>1
<1>4. ASSUME NEW y \in T PROVE m <= y
  <2>1. y \in Nat /\ m \in Nat
    OBVIOUS
  <2>2. ~(y < m)
    BY <1>2, <1>3, <2>1
  <2>3. QED
    BY <2>1, <2>2
<1>5. QED
  BY <1>4

(* What is left of a list, and a list that grows at its end, repeat nobody *)
(* either.                                                                 *)
LEMMA TailKeepsDistinct ==
  ASSUME NEW S, NEW s \in Seq(S), s # <<>>, IsInjective(s)
  PROVE  /\ Tail(s) \in Seq(S) /\ IsInjective(Tail(s)) /\ Head(s) \in S
         /\ Len(Tail(s)) # Len(s)
<1>1. /\ Head(s) \in S
      /\ Tail(s) \in Seq(S)
      /\ Len(Tail(s)) = Len(s)-1
      /\ \A i \in 1 .. Len(Tail(s)) : Tail(s)[i] = s[i+1]
  BY HeadTailProperties
<1>2. Len(s) \in Nat /\ DOMAIN s = 1 .. Len(s) /\ DOMAIN Tail(s) = 1 .. Len(s) - 1
  BY <1>1, LenProperties
<1>3. ASSUME NEW i \in DOMAIN Tail(s), NEW j \in DOMAIN Tail(s), Tail(s)[i] = Tail(s)[j]
      PROVE i = j
  <2>1. i + 1 \in DOMAIN s /\ j + 1 \in DOMAIN s /\ s[i + 1] = s[j + 1]
    BY <1>1, <1>2, <1>3
  <2>2. i + 1 = j + 1
    BY <2>1 DEF IsInjective
  <2>3. QED
    BY <1>2, <2>2
<1>4. IsInjective(Tail(s))
  BY <1>3 DEF IsInjective
<1>5. Len(Tail(s)) # Len(s)
  <2>1. Len(s) \in Nat
    BY <1>2
  <2>2. Len(Tail(s)) = Len(s) - 1
    BY <1>1
  <2>3. \A m \in Nat : m - 1 # m
    OBVIOUS
  <2>4. QED
    BY <2>1, <2>2, <2>3, Zenon
<1>6. QED
  BY <1>1, <1>4, <1>5, Zenon

(* Appending what is not there repeats nothing.                            *)
LEMMA AppendKeepsDistinct ==
  ASSUME NEW S, NEW s \in Seq(S), IsInjective(s), NEW e \in S, e \notin Range(s)
  PROVE  IsInjective(Append(s, e))
<1>1. /\ Len(s) \in Nat /\ DOMAIN s = 1 .. Len(s)
      /\ DOMAIN Append(s, e) = 1 .. (Len(s) + 1)
      /\ \A i \in 1 .. Len(s) : Append(s, e)[i] = s[i]
      /\ Append(s, e)[Len(s) + 1] = e
  BY AppendProperties, LenProperties
<1>2. \A i \in 1 .. Len(s) : s[i] # e
  BY <1>1 DEF Range
<1>3. ASSUME NEW i \in DOMAIN Append(s, e), NEW j \in DOMAIN Append(s, e),
             Append(s, e)[i] = Append(s, e)[j]
      PROVE  i = j
  <2>1. CASE i \in 1 .. Len(s) /\ j \in 1 .. Len(s)
    <3>1. s[i] = s[j]
      BY <1>1, <1>3, <2>1
    <3>2. QED
      BY <1>1, <2>1, <3>1 DEF IsInjective
  <2>2. CASE ~(i \in 1 .. Len(s) /\ j \in 1 .. Len(s))
    BY <1>1, <1>2, <1>3, <2>2
  <2>3. QED
    BY <2>1, <2>2
<1>4. QED
  BY <1>3 DEF IsInjective

(* Appending adds one member and keeps the others.                         *)
LEMMA AppendRange ==
  ASSUME NEW S, NEW s \in Seq(S), NEW e \in S
  PROVE  /\ Append(s, e) \in Seq(S)
         /\ Range(Append(s, e)) \subseteq Range(s) \cup {e}
<1>1. /\ Append(s, e) \in Seq(S)
      /\ Len(s) \in Nat /\ DOMAIN s = 1 .. Len(s)
      /\ DOMAIN Append(s, e) = 1 .. (Len(s) + 1)
      /\ \A i \in 1 .. Len(s) : Append(s, e)[i] = s[i]
      /\ Append(s, e)[Len(s) + 1] = e
  BY AppendProperties, LenProperties
<1>2. ASSUME NEW i \in DOMAIN Append(s, e)
      PROVE  Append(s, e)[i] \in Range(s) \cup {e}
  BY <1>1 DEF Range
<1>3. Range(Append(s, e)) \subseteq Range(s) \cup {e}
  BY <1>2 DEF Range
<1>4. QED
  BY <1>1, <1>3

(* Nor does a list from which a client is dropped.                         *)
LEMMA RemoveKeepsDistinct ==
  ASSUME NEW S, NEW s \in Seq(S), IsInjective(s), NEW e
  PROVE  /\ RemoveFirst(s, e) \in Seq(S) /\ IsInjective(RemoveFirst(s, e))
         /\ Range(RemoveFirst(s, e)) \subseteq Range(s)
<1>1. CASE \E i \in 1 .. Len(s) : s[i] = e
  <2> DEFINE I == {i \in 1 .. Len(s) : s[i] = e}
             k == Min(I)
  <2>1. Len(s) \in Nat /\ DOMAIN s = 1 .. Len(s)
    BY LenProperties
  <2>2. k \in I
    <3>1. I \in SUBSET Nat /\ I # {}
      BY <1>1, <2>1
    <3>2. \E m \in I : \A y \in I : m <= y
      BY <3>1, LeastElement
    <3>3. QED
      BY <3>2 DEF Min
  <2>3. RemoveFirst(s, e) = SubSeq(s, 1, k - 1) \o SubSeq(s, k + 1, Len(s))
    BY <1>1 DEF RemoveFirst, SelectInSeq, RemoveAt
  <2> HIDE DEF k
  <2> DEFINE a == SubSeq(s, 1, k - 1)
             b == SubSeq(s, k + 1, Len(s))
             r == a \o b
  <2>4. k \in 1 .. Len(s)
    BY <2>2
  <2>5. /\ a \in Seq(S) /\ Len(a) = k - 1
        /\ \A i \in 1 .. k - 1 : a[i] = s[i]
    <3>1. k - 1 \in Int /\ k - 1 >= 0 /\ \A i \in 1 .. k - 1 : s[i] \in S
      BY <2>1, <2>4, LenProperties
    <3>2. /\ SubSeq(s, 1, k - 1) \in Seq(S)
          /\ Len(SubSeq(s, 1, k - 1)) = IF 1 <= k - 1 THEN k - 1 - 1 + 1 ELSE 0
          /\ \A i \in 1 .. k - 1 - 1 + 1 : SubSeq(s, 1, k - 1)[i] = s[1 + i - 1]
      BY <3>1, SubSeqProperties
    <3>3. QED
      BY <2>1, <2>4, <3>1, <3>2
  <2>6. /\ b \in Seq(S) /\ Len(b) = Len(s) - k
        /\ \A i \in 1 .. Len(s) - k : b[i] = s[k + i]
    <3>1. k + 1 \in Int /\ Len(s) \in Int /\ \A i \in k + 1 .. Len(s) : s[i] \in S
      BY <2>1, <2>4, LenProperties
    <3>2. /\ b \in Seq(S)
          /\ Len(b) = IF k + 1 <= Len(s) THEN Len(s) - (k + 1) + 1 ELSE 0
          /\ \A i \in 1 .. Len(s) - (k + 1) + 1 : b[i] = s[(k + 1) + i - 1]
      BY <3>1, SubSeqProperties
    <3> HIDE DEF a, b, r, I
    <3>3. \A i \in 1 .. Len(s) - k : (k + 1) + i - 1 = k + i
      BY <2>1, <2>4
    <3>4. Len(s) - (k + 1) + 1 = Len(s) - k /\ (~(k + 1 <= Len(s)) => Len(s) - k = 0)
      <4>1. \A n \in Nat : \A m \in 1 .. n :
              n - (m + 1) + 1 = n - m /\ (~(m + 1 <= n) => n - m = 0)
        OBVIOUS
      <4>2. QED
        BY <2>1, <2>4, <4>1, Zenon
    <3>5. Len(b) = Len(s) - k
      <4>1. Len(b) = IF k + 1 <= Len(s) THEN Len(s) - (k + 1) + 1 ELSE 0
        BY <3>2, Zenon
      <4>2. CASE k + 1 <= Len(s)
        BY <3>4, <4>1, <4>2, Zenon
      <4>3. CASE ~(k + 1 <= Len(s))
        BY <3>4, <4>1, <4>3, Zenon
      <4>4. QED
        BY <4>2, <4>3, Zenon
    <3>6. \A i \in 1 .. Len(s) - k : b[i] = s[k + i]
      BY <3>2, <3>3, <3>4
    <3>7. QED
      BY <3>2, <3>5, <3>6, Zenon
  <2> HIDE DEF a, b
  <2>7. /\ r \in Seq(S) /\ Len(r) = Len(s) - 1 /\ DOMAIN r = 1 .. Len(s) - 1
        /\ \A i \in 1 .. Len(s) - 1 : r[i] = IF i < k THEN s[i] ELSE s[i + 1]
    <3>1. r \in Seq(S) /\ Len(r) = Len(a) + Len(b)
          /\ \A i \in 1 .. Len(a) + Len(b) : r[i] = IF i <= Len(a) THEN a[i] ELSE b[i - Len(a)]
      <4>1. a \in Seq(S) /\ b \in Seq(S)
        BY <2>5, <2>6
      <4>2. QED
        BY <4>1, ConcatProperties
    <3>2. Len(r) = Len(s) - 1 /\ DOMAIN r = 1 .. Len(s) - 1
      <4>1. Len(r) = Len(a) + Len(b) /\ DOMAIN r = 1 .. Len(r)
        BY <3>1, LenProperties
      <4>2. Len(a) + Len(b) = Len(s) - 1
        BY <2>1, <2>4, <2>5, <2>6
      <4>3. QED
        BY <4>1, <4>2, Zenon
    <3>3. ASSUME NEW i \in 1 .. Len(s) - 1
          PROVE  r[i] = IF i < k THEN s[i] ELSE s[i + 1]
      <4>1. r[i] = IF i <= k - 1 THEN a[i] ELSE b[i - (k - 1)]
        BY <2>1, <2>4, <2>5, <2>6, <3>1
      <4>2. i < k => a[i] = s[i]
        BY <2>1, <2>4, <2>5
      <4>3. i >= k => b[i - (k - 1)] = s[i + 1]
        <5> HIDE DEF r
        <5>1. SUFFICES ASSUME i >= k PROVE b[i - (k - 1)] = s[i + 1]
          OBVIOUS
        <5>2. i - (k - 1) \in 1 .. Len(s) - k /\ k + (i - (k - 1)) = i + 1
          BY <2>1, <2>4, <5>1
        <5>3. b[i - (k - 1)] = s[k + (i - (k - 1))]
          BY <2>6, <5>2
        <5>4. QED
          BY <5>2, <5>3
      <4>4. QED
        BY <2>4, <4>1, <4>2, <4>3
    <3>4. QED
      BY <3>1, <3>2, <3>3
  <2>8. RemoveFirst(s, e) = r
    BY <2>3 DEF a, b
  <2> HIDE DEF r
  <2>9. ASSUME NEW i \in DOMAIN r, NEW j \in DOMAIN r, r[i] = r[j] PROVE i = j
    <3> DEFINE p == IF i < k THEN i ELSE i + 1
               q == IF j < k THEN j ELSE j + 1
    <3>1. p \in DOMAIN s /\ q \in DOMAIN s /\ s[p] = s[q]
      BY <2>1, <2>4, <2>7, <2>9
    <3>2. p = q
      BY <3>1 DEF IsInjective
    <3>3. QED
      BY <2>1, <2>4, <2>7, <3>2
  <2>10. IsInjective(r)
    BY <2>9 DEF IsInjective
  <2>11. Range(r) \subseteq Range(s)
    <3>1. ASSUME NEW i \in DOMAIN r PROVE r[i] \in Range(s)
      <4>1. i \in DOMAIN s /\ i + 1 \in DOMAIN s
        BY <2>1, <2>7
      <4>2. s[i] \in Range(s) /\ s[i + 1] \in Range(s)
        BY <4>1 DEF Range
      <4>3. QED
        BY <2>7, <4>2
    <3>2. QED
      BY <3>1 DEF Range
  <2>12. QED
    BY <2>7, <2>8, <2>10, <2>11
<1>2. CASE ~ \E i \in 1 .. Len(s) : s[i] = e
  BY <1>2 DEF RemoveFirst
<1>3. QED
  BY <1>1, <1>2

-----------------------------------------------------------------------------
(* Broadcasts.                                                             *)

(* What is left of a broadcast after a send is shorter, and repeats        *)
(* nobody.                                                                 *)
LEMMA TailIsList ==
  ASSUME NEW s \in Lists, s # <<>>
  PROVE  Tail(s) \in Lists /\ Head(s) \in Clients /\ Tail(s) # s
<1>1. s \in Seq(Clients) /\ IsInjective(s)
  BY DEF Lists
<1>2. /\ Tail(s) \in Seq(Clients) /\ IsInjective(Tail(s)) /\ Head(s) \in Clients
      /\ Len(Tail(s)) # Len(s)
  BY <1>1, TailKeepsDistinct
<1>3. Tail(s) # s
  BY <1>2, Zenon
<1>4. QED
  BY <1>2, <1>3 DEF Lists

(* A client that is not listed may be appended (websocket.py 12).          *)
LEMMA AppendIsList ==
  ASSUME NEW s \in Lists, NEW c \in Clients, c \notin Range(s)
  PROVE  Append(s, c) \in Lists /\ Range(Append(s, c)) \subseteq Range(s) \cup {c}
<1>1. s \in Seq(Clients) /\ IsInjective(s)
  BY DEF Lists
<1>2. IsInjective(Append(s, c))
  BY <1>1, AppendKeepsDistinct
<1>3. Append(s, c) \in Seq(Clients) /\ Range(Append(s, c)) \subseteq Range(s) \cup {c}
  BY <1>1, AppendRange
<1>4. QED
  BY <1>2, <1>3 DEF Lists

(* Dropping a client leaves a list without repetitions, and adds nobody.   *)
LEMMA RemoveIsList ==
  ASSUME NEW s \in Lists, NEW c
  PROVE  RemoveFirst(s, c) \in Lists /\ Range(RemoveFirst(s, c)) \subseteq Range(s)
<1>1. s \in Seq(Clients) /\ IsInjective(s)
  BY DEF Lists
<1>2. /\ RemoveFirst(s, c) \in Seq(Clients) /\ IsInjective(RemoveFirst(s, c))
      /\ Range(RemoveFirst(s, c)) \subseteq Range(s)
  BY <1>1, RemoveKeepsDistinct
<1>3. QED
  BY <1>2 DEF Lists

(* A task without a broadcast tells nobody of the end.                     *)
LEMMA NoCastIsCast == NoCast \in Casts /\ NoCast.over = FALSE
<1>1. <<>> \in Lists
  BY EmptySeq DEF Lists, IsInjective
<1>2. QED
  BY <1>1 DEF Casts, NoCast

(* A broadcast that goes on tells the same.                                *)
LEMMA AfterIsCast ==
  ASSUME NEW c, c.over \in BOOLEAN, NEW rest \in Lists
  PROVE  /\ After(c, rest) \in Casts
         /\ After(c, rest) = NoCast \/ After(c, rest).over = c.over
         /\ After(c, rest) = NoCast \/ After(c, rest).rest = rest
<1>1. CASE rest = <<>>
  BY <1>1, NoCastIsCast DEF After
<1>2. CASE rest # <<>>
  BY <1>2 DEF After, Casts
<1>3. QED
  BY <1>1, <1>2

(* A task that begins a broadcast.                                         *)
LEMMA BroadcastBegins ==
  ASSUME cast \in [Tasks -> Casts], NEW t \in Tasks, NEW pc, NEW clients \in Lists,
         Broadcast(t, pc, clients)
  PROVE  /\ cast' \in [Tasks -> Casts]
         /\ cast'[t] = NoCast \/ cast'[t].over = (pc \in {"ending", "done"})
         /\ \A u \in Tasks \ {t} : cast'[u] = cast[u]
<1> DEFINE c == [over |-> pc \in {"ending", "done"}]
           a == After(c, clients)
<1>1. c.over = (pc \in {"ending", "done"}) /\ c.over \in BOOLEAN
  OBVIOUS
<1>2. a \in Casts /\ (a = NoCast \/ a.over = c.over)
  <2>1. CASE clients = <<>>
    <3>1. a = NoCast
      BY <2>1 DEF After
    <3> HIDE DEF a
    <3>2. QED
      BY <3>1, NoCastIsCast
  <2>2. CASE clients # <<>>
    <3>1. a = [over |-> c.over, rest |-> clients, sent |-> FALSE]
      BY <2>2 DEF After
    <3> HIDE DEF a, c
    <3>2. QED
      BY <1>1, <2>2, <3>1 DEF Casts
  <2>3. QED
    BY <2>1, <2>2
<1>3. cast' = [cast EXCEPT ![t] = a]
  BY DEF Broadcast
<1> HIDE DEF a, c
<1>4. cast' \in [Tasks -> Casts] /\ cast'[t] = a /\ \A u \in Tasks \ {t} : cast'[u] = cast[u]
  BY <1>2, <1>3
<1>5. QED
  BY <1>1, <1>2, <1>4, Zenon

(* A task that goes on with its next client.                               *)
LEMMA BroadcastGoesOn ==
  ASSUME cast \in [Tasks -> Casts], NEW t \in Tasks, cast[t] # NoCast
  PROVE  LET a == After(cast[t], Tail(cast[t].rest))
         IN  /\ cast[t].rest \in Lists /\ cast[t].rest # <<>>
             /\ Head(cast[t].rest) \in Clients
             /\ a \in Casts /\ a # cast[t]
             /\ a = NoCast \/ a.over = cast[t].over
<1> DEFINE a == After(cast[t], Tail(cast[t].rest))
<1>1. cast[t] \in Casts
  OBVIOUS
<1>2. cast[t].over \in BOOLEAN /\ cast[t].rest \in Lists /\ cast[t].rest # <<>>
  BY <1>1 DEF Casts
<1>3. /\ Tail(cast[t].rest) \in Lists /\ Head(cast[t].rest) \in Clients
      /\ Tail(cast[t].rest) # cast[t].rest
  BY <1>2, TailIsList
<1>4. /\ a \in Casts
      /\ a = NoCast \/ a.over = cast[t].over
      /\ a = NoCast \/ a.rest = Tail(cast[t].rest)
  BY <1>2, <1>3, AfterIsCast
<1>5. a # cast[t]
  <2> HIDE DEF a
  <2>1. CASE a = NoCast
    BY <2>1, Zenon
  <2>2. CASE a.rest = Tail(cast[t].rest)
    BY <1>3, <2>2, Zenon
  <2>3. QED
    BY <1>4, <2>1, <2>2, Zenon
<1>6. QED
  BY <1>2, <1>3, <1>4, <1>5, Zenon

-----------------------------------------------------------------------------
(* The invariant.                                                          *)

(* The invariants of the broadcasts while the two tasks of the run stay    *)
(* where they are: a broadcast goes on, ends or, in a greeting, begins.    *)
LEMMA CastsMove ==
  ASSUME LiveInv, UNCHANGED <<run, monitor>>,
         \A t \in Tasks :
           \/ cast'[t] = NoCast
           \/ cast'[t].over = cast[t].over /\ cast[t] # NoCast
           \/ cast'[t].over = Ended /\ t \in Clients
  PROVE  /\ \A t \in Tasks : cast'[t].over => Ended'
         /\ OnlyGreetingsLinger'
<1>1. Ended' = Ended /\ NoCast.over = FALSE
  BY NoCastIsCast DEF Ended
<1>2. /\ "run" \in Tasks /\ "monitor" \in Tasks
      /\ "run" \notin Clients /\ "monitor" \notin Clients
  BY LiveUpdatesAssumption DEF Tasks
<1>3. \A t \in Tasks : cast[t].over => Ended
  BY DEF LiveInv, EndIsToldAfterIt
<1>4. \A t \in Tasks : cast'[t].over => Ended'
  BY <1>1, <1>3
<1>5. /\ monitor # "casting" => cast["monitor"] = NoCast
      /\ Ended => monitor = "done" /\ (cast["run"] = NoCast \/ cast["run"].over)
  BY DEF LiveInv, OnlyGreetingsLinger, CastDone
<1>6. monitor # "casting" => cast'["monitor"] = NoCast
  BY <1>2, <1>5
<1>7. Ended => cast'["run"] = NoCast \/ cast'["run"].over
  BY <1>2, <1>5
<1>8. QED
  BY <1>1, <1>4, <1>5, <1>6, <1>7 DEF OnlyGreetingsLinger, CastDone

(* A send, or a send that raises.                                          *)
LEMMA CastStepInv ==
  ASSUME LiveInv, NEW t \in Tasks, CastStep(t)
  PROVE  LiveInv'
<1>1. /\ UNCHANGED <<run, monitor, is_running, tick_count, dogs, bound, link>>
      /\ cast[t] # NoCast
  BY DEF CastStep, park, SendRaises, Send, CastDone
<1>2. /\ connected_clients \in Lists /\ cast \in [Tasks -> Casts]
      /\ shows \in [Clients -> {"nothing", "run", "end", "back"}]
  BY DEF LiveInv, TypeOK
<1> DEFINE a == After(cast[t], Tail(cast[t].rest))
           c == Head(cast[t].rest)
<1>3. /\ c \in Clients /\ a \in Casts
      /\ a = NoCast \/ a.over = cast[t].over
      /\ cast[t] \in Casts /\ cast[t].rest # <<>>
  BY <1>1, <1>2, BroadcastGoesOn
<1>4. \/ cast' = [cast EXCEPT ![t] = a]
      \/ cast' = [cast EXCEPT ![t].sent = TRUE]
  BY DEF CastStep, SendRaises, Send, SendsNext
<1>5. /\ cast' \in [Tasks -> Casts]
      /\ cast'[t] = NoCast \/ cast'[t].over = cast[t].over
      /\ \A u \in Tasks \ {t} : cast'[u] = cast[u]
  <2>1. CASE cast' = [cast EXCEPT ![t] = a]
    <3> HIDE DEF a
    <3>1. QED
      BY <1>2, <1>3, <2>1
  <2>2. CASE cast' = [cast EXCEPT ![t].sent = TRUE]
    <3>1. [cast[t] EXCEPT !.sent = TRUE] \in Casts
      BY <1>3 DEF Casts
    <3>2. cast' = [cast EXCEPT ![t] = [cast[t] EXCEPT !.sent = TRUE]]
      BY <2>2
    <3>3. [cast[t] EXCEPT !.sent = TRUE].over = cast[t].over
      BY <1>3 DEF Casts
    <3>4. QED
      BY <1>2, <3>1, <3>2, <3>3
  <2>3. QED
    BY <1>4, <2>1, <2>2
<1>6. /\ connected_clients' \in Lists
      /\ Range(connected_clients') \subseteq Range(connected_clients)
  <2>1. \/ connected_clients' = RemoveFirst(connected_clients, c)
        \/ connected_clients' = connected_clients
    BY DEF CastStep, SendRaises, Send
  <2>2. QED
    BY <1>2, <2>1, RemoveIsList
<1>7. /\ shows' \in [Clients -> {"nothing", "run", "end", "back"}]
      /\ \A d \in Clients : shows'[d] \in {"end", "back"} =>
           shows[d] \in {"end", "back"} \/ cast[t].over
  <2>1. CASE SendRaises(t)
    BY <1>2, <2>1 DEF SendRaises
  <2>2. CASE Send(t)
    <3>1. shows' = [shows EXCEPT ![c] = IF cast[t].over THEN "end"
                                        ELSE IF @ \in {"end", "back"} THEN "back"
                                        ELSE "run"]
      BY <2>2 DEF Send
    <3> HIDE DEF c
    <3>2. QED
      BY <1>2, <1>3, <3>1
  <2>3. QED
    BY <2>1, <2>2 DEF CastStep
<1>8. (\A u \in Tasks : cast'[u].over => Ended') /\ OnlyGreetingsLinger'
  <2>1. \A u \in Tasks : \/ cast'[u] = NoCast
                         \/ cast'[u].over = cast[u].over /\ cast[u] # NoCast
    <3>1. \A u \in Tasks : cast[u] = NoCast => u # t
      BY <1>1
    <3>2. QED
      BY <1>1, <1>5, <3>1
  <2>2. QED
    BY <1>1, <2>1, CastsMove
<1>9. EndIsToldAfterIt'
  <2>1. Ended' = Ended
    BY <1>1 DEF Ended
  <2>2. /\ \A d \in Clients : shows[d] \in {"end", "back"} => Ended
        /\ cast[t].over => Ended
    BY DEF LiveInv, EndIsToldAfterIt
  <2>3. QED
    BY <1>7, <1>8, <2>1, <2>2 DEF EndIsToldAfterIt
<1>10. ListedHasConnected'
  BY <1>1, <1>6 DEF LiveInv, ListedHasConnected
<1>11. TypeOK'
  <2>1. TypeOK
    BY DEF LiveInv
  <2>2. QED
    BY <1>1, <1>5, <1>6, <1>7, <2>1 DEF TypeOK
<1>12. QED
  BY <1>1, <1>8, <1>9, <1>10, <1>11 DEF LiveInv, MonitorFollowsRun

(* A client that reads again lets every task go on that waits for it.      *)
LEMMA ReadsInv ==
  ASSUME LiveInv, NEW c \in Clients, Reads(c)
  PROVE  LiveInv'
<1>1. /\ UNCHANGED <<run, monitor, is_running, tick_count, dogs, bound, link,
                     connected_clients, shows>>
      /\ cast' = [t \in Tasks |->
                    IF cast[t].sent /\ Head(cast[t].rest) = c
                    THEN After(cast[t], Tail(cast[t].rest))
                    ELSE cast[t]]
  BY DEF Reads, park, web
<1>2. cast \in [Tasks -> Casts]
  BY DEF LiveInv, TypeOK
<1>3. ASSUME NEW t \in Tasks
      PROVE  /\ cast'[t] \in Casts
             /\ \/ cast'[t] = NoCast
                \/ cast'[t].over = cast[t].over /\ cast[t] # NoCast
  <2>1. CASE cast[t].sent /\ Head(cast[t].rest) = c
    <3> DEFINE a == After(cast[t], Tail(cast[t].rest))
    <3>1. cast'[t] = a
      BY <1>1, <2>1
    <3>2. cast[t] # NoCast
      BY <2>1 DEF NoCast
    <3>3. a \in Casts /\ (a = NoCast \/ a.over = cast[t].over)
      BY <1>2, <3>2, BroadcastGoesOn
    <3> HIDE DEF a
    <3>4. QED
      BY <3>1, <3>2, <3>3, Zenon
  <2>2. CASE ~(cast[t].sent /\ Head(cast[t].rest) = c)
    <3>1. cast'[t] = cast[t]
      BY <1>1, <2>2
    <3>2. QED
      BY <1>2, <3>1
  <2>3. QED
    BY <2>1, <2>2
<1>4. cast' \in [Tasks -> Casts]
  BY <1>1, <1>3
<1>5. (\A t \in Tasks : cast'[t].over => Ended') /\ OnlyGreetingsLinger'
  BY <1>1, <1>3, CastsMove
<1>6. EndIsToldAfterIt' /\ ListedHasConnected'
  BY <1>1, <1>5 DEF LiveInv, EndIsToldAfterIt, ListedHasConnected, Ended
<1>7. TypeOK'
  BY <1>1, <1>4 DEF LiveInv, TypeOK
<1>8. QED
  BY <1>1, <1>5, <1>6, <1>7 DEF LiveInv, MonitorFollowsRun

(* A browser that connects is listed once and greeted.                     *)
LEMMA ConnectInv ==
  ASSUME LiveInv, NEW c \in Clients, Connect(c)
  PROVE  LiveInv'
<1>1. /\ UNCHANGED <<run, monitor, is_running, tick_count, dogs, bound, shows>>
      /\ link[c] = "away" /\ link' = [link EXCEPT ![c] = "open"]
      /\ connected_clients' = Append(connected_clients, c)
      /\ Broadcast(c, run, connected_clients')
  BY DEF Connect, park
<1>2. /\ cast \in [Tasks -> Casts] /\ connected_clients \in Lists
      /\ link \in [Clients -> {"away", "open", "gone", "left"}]
      /\ c \in Tasks
  BY DEF LiveInv, TypeOK, Tasks
<1>3. c \notin Range(connected_clients)
  BY <1>1 DEF LiveInv, ListedHasConnected
<1>4. /\ connected_clients' \in Lists
      /\ Range(connected_clients') \subseteq Range(connected_clients) \cup {c}
  BY <1>1, <1>2, <1>3, AppendIsList
<1>5. /\ cast' \in [Tasks -> Casts]
      /\ cast'[c] = NoCast \/ cast'[c].over = (run \in {"ending", "done"})
      /\ \A u \in Tasks \ {c} : cast'[u] = cast[u]
  BY <1>1, <1>2, <1>4, BroadcastBegins
<1>6. (\A t \in Tasks : cast'[t].over => Ended') /\ OnlyGreetingsLinger'
  <2>1. \A t \in Tasks :
          \/ cast'[t] = NoCast
          \/ cast'[t].over = cast[t].over /\ cast[t] # NoCast
          \/ cast'[t].over = Ended /\ t \in Clients
    BY <1>5 DEF Ended
  <2>2. QED
    BY <1>1, <2>1, CastsMove
<1>7. EndIsToldAfterIt'
  BY <1>1, <1>6 DEF LiveInv, EndIsToldAfterIt, Ended
<1>8. ListedHasConnected'
  <2>1. \A d \in Range(connected_clients) : link[d] # "away"
    BY DEF LiveInv, ListedHasConnected
  <2>2. Range(connected_clients) \subseteq Clients
    BY <1>2, RangeOfSeq DEF Lists
  <2>3. \A d \in Range(connected_clients') : link'[d] # "away"
    BY <1>1, <1>2, <1>4, <2>1, <2>2
  <2>4. QED
    BY <2>3 DEF ListedHasConnected
<1>9. TypeOK'
  BY <1>1, <1>2, <1>4, <1>5 DEF LiveInv, TypeOK
<1>10. QED
  BY <1>1, <1>6, <1>7, <1>8, <1>9 DEF LiveInv, MonitorFollowsRun

(* A browser that has gone, and its endpoint that returns.                 *)
LEMMA LeavingInv ==
  ASSUME LiveInv, NEW c \in Clients, Closes(c) \/ Leave(c)
  PROVE  LiveInv'
<1>1. /\ UNCHANGED <<run, monitor, is_running, tick_count, dogs, bound, cast>>
      /\ \/ link' = [link EXCEPT ![c] = "gone"]
         \/ link' = [link EXCEPT ![c] = "left"]
      /\ \/ connected_clients' = connected_clients
         \/ connected_clients' = RemoveFirst(connected_clients, c)
      /\ shows' = shows \/ shows' = [shows EXCEPT ![c] = "nothing"]
  BY DEF Closes, Leave, park
<1>2. /\ connected_clients \in Lists
      /\ link \in [Clients -> {"away", "open", "gone", "left"}]
      /\ shows \in [Clients -> {"nothing", "run", "end", "back"}]
  BY DEF LiveInv, TypeOK
<1>3. /\ connected_clients' \in Lists
      /\ Range(connected_clients') \subseteq Range(connected_clients)
  BY <1>1, <1>2, RemoveIsList
<1>4. /\ link' \in [Clients -> {"away", "open", "gone", "left"}]
      /\ \A d \in Clients : link[d] # "away" => link'[d] # "away"
      /\ shows' \in [Clients -> {"nothing", "run", "end", "back"}]
      /\ \A d \in Clients : shows'[d] = shows[d] \/ shows'[d] = "nothing"
  BY <1>1, <1>2
<1>5. ListedHasConnected'
  <2>1. Range(connected_clients) \subseteq Clients
    BY <1>2, RangeOfSeq DEF Lists
  <2>2. QED
    BY <1>3, <1>4, <2>1 DEF LiveInv, ListedHasConnected
<1>6. EndIsToldAfterIt'
  BY <1>1, <1>4 DEF LiveInv, EndIsToldAfterIt, Ended
<1>7. OnlyGreetingsLinger'
  BY <1>1 DEF LiveInv, OnlyGreetingsLinger, CastDone, Ended
<1>8. TypeOK'
  BY <1>1, <1>3, <1>4 DEF LiveInv, TypeOK
<1>9. QED
  BY <1>1, <1>5, <1>6, <1>7, <1>8 DEF LiveInv, MonitorFollowsRun

(* What is left to show of a step of the run or of its monitor, which      *)
(* leave the list, the sockets and what they show alone.                   *)
LEMMA RunChanges ==
  ASSUME LiveInv, UNCHANGED web,
         cast' \in [Tasks -> Casts],
         run' \in {"created", "populating", "ticking", "cancelling", "ending", "done"},
         monitor' \in {"none", "waiting", "casting", "cancelled", "done"},
         is_running' \in BOOLEAN, tick_count' \in 0..NumTicks, dogs' \in 0..NumDogs,
         bound' \subseteq Dogs,
         Ended => Ended',
         ~Ended' => \A t \in Tasks : cast'[t] = cast[t] \/ ~cast'[t].over,
         MonitorFollowsRun', OnlyGreetingsLinger'
  PROVE  LiveInv'
<1>1. TypeOK'
  BY DEF LiveInv, TypeOK, web
<1>2. ListedHasConnected'
  BY DEF LiveInv, ListedHasConnected, web
<1>3. EndIsToldAfterIt'
  <2>1. \A t \in Tasks : cast[t].over => Ended
    BY DEF LiveInv, EndIsToldAfterIt
  <2>2. \A t \in Tasks : cast'[t].over => Ended'
    BY <2>1
  <2>3. \A c \in Clients : shows'[c] \in {"end", "back"} => Ended'
    BY DEF LiveInv, EndIsToldAfterIt, web
  <2>4. QED
    BY <2>2, <2>3 DEF EndIsToldAfterIt
<1>4. QED
  BY <1>1, <1>2, <1>3 DEF LiveInv

(* What every step of the run and of its monitor may use.                  *)
LEMMA Parts ==
  ASSUME LiveInv
  PROVE  /\ cast \in [Tasks -> Casts] /\ connected_clients \in Lists
         /\ "run" \in Tasks /\ "monitor" \in Tasks
         /\ <<>> \in Lists /\ NoCast \in Casts /\ NoCast.over = FALSE
         /\ is_running \in BOOLEAN /\ tick_count \in 0..NumTicks
         /\ dogs \in 0..NumDogs /\ bound \subseteq Dogs
         /\ NumTicks \in Nat /\ NumDogs \in Nat
         /\ run \in {"created", "populating", "ticking", "cancelling", "ending", "done"}
         /\ monitor \in {"none", "waiting", "casting", "cancelled", "done"}
         /\ run = "created" => monitor = "none" /\ dogs = 0
         /\ run = "cancelling" => monitor = "cancelled"
         /\ monitor # "casting" => cast["monitor"] = NoCast
         /\ Ended => monitor = "done" /\ (cast["run"] = NoCast \/ cast["run"].over)
<1>1. TypeOK /\ MonitorFollowsRun /\ OnlyGreetingsLinger
  BY DEF LiveInv
<1>2. <<>> \in Lists
  BY EmptySeq DEF Lists, IsInjective
<1>3. QED
  BY <1>1, <1>2, NoCastIsCast, LiveUpdatesAssumption
     DEF TypeOK, MonitorFollowsRun, OnlyGreetingsLinger, CastDone, Tasks

(* A turn of the populate loop, the first included.                        *)
LEMMA AddDogInv ==
  ASSUME LiveInv, RunBegin \/ Populate
  PROVE  LiveInv'
<1>1. /\ run \in {"created", "populating"} /\ run' = "populating"
      /\ dogs' = dogs + 1
      /\ Broadcast("run", "populating", connected_clients)
      /\ \/ monitor' = monitor /\ is_running' = is_running /\ dogs < NumDogs
         \/ monitor' = "waiting" /\ is_running' = TRUE /\ run = "created"
      /\ UNCHANGED <<tick_count, bound>> /\ UNCHANGED web
  BY DEF RunBegin, Populate, AddDog
<1>2. /\ cast \in [Tasks -> Casts] /\ connected_clients \in Lists
      /\ "run" \in Tasks /\ "monitor" \in Tasks
      /\ is_running \in BOOLEAN /\ tick_count \in 0..NumTicks
      /\ dogs \in 0..NumDogs /\ bound \subseteq Dogs
      /\ NumDogs \in Nat \ {0}
      /\ monitor \in {"none", "waiting", "casting", "cancelled", "done"}
      /\ run = "created" => monitor = "none" /\ dogs = 0
      /\ monitor # "casting" => cast["monitor"] = NoCast
      /\ NoCast.over = FALSE
  BY Parts, LiveUpdatesAssumption
<1>3. /\ cast' \in [Tasks -> Casts]
      /\ cast'["run"] = NoCast \/ cast'["run"].over = FALSE
      /\ \A u \in Tasks \ {"run"} : cast'[u] = cast[u]
  <2>1. ("populating" \in {"ending", "done"}) = FALSE
    OBVIOUS
  <2>2. cast'["run"] = NoCast \/ cast'["run"].over = ("populating" \in {"ending", "done"})
    BY <1>1, <1>2, BroadcastBegins, Zenon
  <2>3. /\ cast' \in [Tasks -> Casts]
        /\ \A u \in Tasks \ {"run"} : cast'[u] = cast[u]
    BY <1>1, <1>2, BroadcastBegins
  <2>4. QED
    BY <2>1, <2>2, <2>3
<1>4. ~Ended /\ ~Ended'
  BY <1>1 DEF Ended
<1>5. cast'["monitor"] = cast["monitor"]
  BY <1>2, <1>3
<1>6. OnlyGreetingsLinger' /\ MonitorFollowsRun'
  BY <1>1, <1>2, <1>4, <1>5 DEF OnlyGreetingsLinger, MonitorFollowsRun, CastDone
<1>7. \A t \in Tasks : cast'[t] = cast[t] \/ ~cast'[t].over
  BY <1>2, <1>3
<1>8. dogs' \in 0..NumDogs
  BY <1>1, <1>2
<1>9. /\ run' \in {"created", "populating", "ticking", "cancelling", "ending", "done"}
      /\ monitor' \in {"none", "waiting", "casting", "cancelled", "done"}
      /\ is_running' \in BOOLEAN /\ tick_count' \in 0..NumTicks /\ bound' \subseteq Dogs
  BY <1>1, <1>2
<1>10. QED
  BY <1>1, <1>3, <1>4, <1>6, <1>7, <1>8, <1>9, RunChanges

(* A tick.                                                                 *)
LEMMA TickInv ==
  ASSUME LiveInv, Tick
  PROVE  LiveInv'
<1>1. /\ run \in {"populating", "ticking"} /\ run' = "ticking"
      /\ tick_count' = tick_count + 1 /\ tick_count < NumTicks
      /\ Broadcast("run", "ticking", connected_clients) \/ cast' = cast
      /\ UNCHANGED <<monitor, is_running, dogs, bound>> /\ UNCHANGED web
  BY DEF Tick, AtTickLoop, TickLoopGoesOn
<1>2. /\ cast \in [Tasks -> Casts] /\ connected_clients \in Lists
      /\ "run" \in Tasks /\ "monitor" \in Tasks
      /\ is_running \in BOOLEAN /\ tick_count \in 0..NumTicks
      /\ dogs \in 0..NumDogs /\ bound \subseteq Dogs /\ NumTicks \in Nat
      /\ monitor \in {"none", "waiting", "casting", "cancelled", "done"}
      /\ monitor # "casting" => cast["monitor"] = NoCast
      /\ NoCast.over = FALSE
  BY Parts
<1>3. /\ cast' \in [Tasks -> Casts]
      /\ \A u \in Tasks \ {"run"} : cast'[u] = cast[u]
      /\ \A u \in Tasks : cast'[u] = cast[u] \/ ~cast'[u].over
  <2>1. CASE cast' = cast
    BY <1>2, <2>1
  <2>2. CASE Broadcast("run", "ticking", connected_clients)
    <3>1. ("ticking" \in {"ending", "done"}) = FALSE
      OBVIOUS
    <3>2. cast'["run"] = NoCast \/ cast'["run"].over = ("ticking" \in {"ending", "done"})
      BY <1>2, <2>2, BroadcastBegins, Zenon
    <3>3. /\ cast' \in [Tasks -> Casts]
          /\ \A u \in Tasks \ {"run"} : cast'[u] = cast[u]
      BY <1>2, <2>2, BroadcastBegins
    <3>4. ~cast'["run"].over
      BY <1>2, <3>1, <3>2
    <3>5. QED
      BY <3>3, <3>4
  <2>3. QED
    BY <1>1, <2>1, <2>2
<1>4. ~Ended /\ ~Ended'
  BY <1>1 DEF Ended
<1>5. OnlyGreetingsLinger' /\ MonitorFollowsRun'
  <2>1. cast'["monitor"] = cast["monitor"]
    BY <1>2, <1>3
  <2>2. QED
    BY <1>1, <1>2, <1>4, <2>1 DEF OnlyGreetingsLinger, MonitorFollowsRun, CastDone
<1>6. /\ run' \in {"created", "populating", "ticking", "cancelling", "ending", "done"}
      /\ monitor' \in {"none", "waiting", "casting", "cancelled", "done"}
      /\ is_running' \in BOOLEAN /\ tick_count' \in 0..NumTicks
      /\ dogs' \in 0..NumDogs /\ bound' \subseteq Dogs
  BY <1>1, <1>2
<1>7. QED
  BY <1>1, <1>3, <1>4, <1>5, <1>6, RunChanges

(* The end of the finally block, with its monitor done or cancelled.       *)
LEMMA LeaveInv ==
  ASSUME LiveInv, LeaveAtOnce \/ FinishCancelled
  PROVE  LiveInv'
<1>1. /\ run' = "ending" /\ monitor' = "done"
      /\ monitor = "done" \/ run = "cancelling"
      /\ is_running' = FALSE /\ bound' = {}
      /\ Broadcast("run", "ending", connected_clients)
      /\ UNCHANGED <<tick_count, dogs>> /\ UNCHANGED web
  BY DEF LeaveAtOnce, FinishCancelled, GiveBack
<1>2. /\ cast \in [Tasks -> Casts] /\ connected_clients \in Lists
      /\ "run" \in Tasks /\ "monitor" \in Tasks
      /\ tick_count \in 0..NumTicks /\ dogs \in 0..NumDogs
      /\ run = "cancelling" => monitor = "cancelled"
      /\ monitor # "casting" => cast["monitor"] = NoCast
  BY Parts
<1>3. /\ cast' \in [Tasks -> Casts]
      /\ cast'["run"] = NoCast \/ cast'["run"].over
      /\ \A u \in Tasks \ {"run"} : cast'[u] = cast[u]
  <2>1. ("ending" \in {"ending", "done"}) = TRUE
    OBVIOUS
  <2>2. cast'["run"] = NoCast \/ cast'["run"].over = ("ending" \in {"ending", "done"})
    BY <1>1, <1>2, BroadcastBegins, Zenon
  <2>3. /\ cast' \in [Tasks -> Casts]
        /\ \A u \in Tasks \ {"run"} : cast'[u] = cast[u]
    BY <1>1, <1>2, BroadcastBegins
  <2>4. QED
    BY <2>1, <2>2, <2>3
<1>4. Ended' /\ cast'["monitor"] = NoCast
  BY <1>1, <1>2, <1>3 DEF Ended
<1>5. OnlyGreetingsLinger' /\ MonitorFollowsRun'
  BY <1>1, <1>3, <1>4 DEF OnlyGreetingsLinger, MonitorFollowsRun, CastDone
<1>6. /\ run' \in {"created", "populating", "ticking", "cancelling", "ending", "done"}
      /\ monitor' \in {"none", "waiting", "casting", "cancelled", "done"}
      /\ is_running' \in BOOLEAN /\ tick_count' \in 0..NumTicks
      /\ dogs' \in 0..NumDogs /\ bound' \subseteq Dogs
  BY <1>1, <1>2
<1>7. QED
  BY <1>1, <1>3, <1>4, <1>5, <1>6, RunChanges

(* The monitor is cancelled in the middle of a send perhaps; and the run   *)
(* returns when its last broadcast is out.                                 *)
LEMMA CancelInv ==
  ASSUME LiveInv, CancelMonitor
  PROVE  LiveInv'
<1>1. /\ run \in {"populating", "ticking"} /\ run' = "cancelling"
      /\ monitor' = "cancelled"
      /\ cast' = [cast EXCEPT !["monitor"] = NoCast]
      /\ UNCHANGED <<is_running, tick_count, dogs, bound>> /\ UNCHANGED web
  BY DEF CancelMonitor, AtTickLoop, park
<1>2. /\ cast \in [Tasks -> Casts] /\ NoCast \in Casts /\ NoCast.over = FALSE
      /\ "monitor" \in Tasks
      /\ is_running \in BOOLEAN /\ tick_count \in 0..NumTicks
      /\ dogs \in 0..NumDogs /\ bound \subseteq Dogs
  BY Parts
<1>3. /\ cast' \in [Tasks -> Casts] /\ cast'["monitor"] = NoCast
      /\ \A u \in Tasks : cast'[u] = cast[u] \/ ~cast'[u].over
  BY <1>1, <1>2
<1>4. ~Ended /\ ~Ended'
  BY <1>1 DEF Ended
<1>5. OnlyGreetingsLinger' /\ MonitorFollowsRun'
  BY <1>1, <1>3, <1>4 DEF OnlyGreetingsLinger, MonitorFollowsRun, CastDone
<1>6. /\ run' \in {"created", "populating", "ticking", "cancelling", "ending", "done"}
      /\ monitor' \in {"none", "waiting", "casting", "cancelled", "done"}
      /\ is_running' \in BOOLEAN /\ tick_count' \in 0..NumTicks
      /\ dogs' \in 0..NumDogs /\ bound' \subseteq Dogs
  BY <1>1, <1>2
<1>7. QED
  BY <1>1, <1>3, <1>4, <1>5, <1>6, RunChanges

(* The run returns after its last broadcast: every listed client has been  *)
(* told.                                                                   *)
LEMMA ReturnsInv ==
  ASSUME LiveInv, RunReturns
  PROVE  LiveInv'
<1>1. /\ run = "ending" /\ run' = "done"
      /\ UNCHANGED <<monitor, is_running, tick_count, dogs, bound, cast>>
      /\ UNCHANGED web
  BY DEF RunReturns, park
<1>2. Ended /\ Ended'
  BY <1>1 DEF Ended
<1>3. OnlyGreetingsLinger' /\ MonitorFollowsRun'
  BY <1>1, <1>2 DEF LiveInv, OnlyGreetingsLinger, MonitorFollowsRun, CastDone
<1>4. /\ cast' \in [Tasks -> Casts]
      /\ run' \in {"created", "populating", "ticking", "cancelling", "ending", "done"}
      /\ monitor' \in {"none", "waiting", "casting", "cancelled", "done"}
      /\ is_running' \in BOOLEAN /\ tick_count' \in 0..NumTicks
      /\ dogs' \in 0..NumDogs /\ bound' \subseteq Dogs
  BY <1>1, Parts
<1>5. QED
  BY <1>1, <1>2, <1>3, <1>4, RunChanges

(* The monitor, while the run goes on.                                     *)
LEMMA MonitorInv ==
  ASSUME LiveInv, MonitorStep
  PROVE  LiveInv'
<1>1. /\ UNCHANGED <<run, is_running, tick_count, dogs, bound>> /\ UNCHANGED web
      /\ monitor \in {"waiting", "casting"}
      /\ monitor' \in {"waiting", "casting", "done"}
      /\ \/ monitor' = "casting" /\ monitor = "waiting"
            /\ Broadcast("monitor", run, connected_clients)
         \/ monitor' = "done" /\ monitor = "waiting" /\ cast' = cast
         \/ cast["monitor"] = NoCast /\ cast' = cast
  BY DEF MonitorStep, MonitorCasts, MonitorLooks, park, CastDone
<1>2. /\ cast \in [Tasks -> Casts] /\ connected_clients \in Lists
      /\ "run" \in Tasks /\ "monitor" \in Tasks /\ NoCast.over = FALSE
      /\ is_running \in BOOLEAN /\ tick_count \in 0..NumTicks
      /\ dogs \in 0..NumDogs /\ bound \subseteq Dogs
      /\ run \in {"created", "populating", "ticking", "cancelling", "ending", "done"}
      /\ run = "created" => monitor = "none" /\ dogs = 0
      /\ run = "cancelling" => monitor = "cancelled"
      /\ monitor # "casting" => cast["monitor"] = NoCast
      /\ Ended => monitor = "done"
  BY Parts
<1>3. ~Ended /\ ~Ended' /\ run \notin {"created", "cancelling"}
  BY <1>1, <1>2 DEF Ended
<1>4. /\ cast' \in [Tasks -> Casts]
      /\ \A u \in Tasks : cast'[u] = cast[u] \/ ~cast'[u].over
      /\ monitor' # "casting" => cast'["monitor"] = NoCast
  <2>1. CASE cast' = cast
    BY <1>1, <1>2, <2>1
  <2>2. CASE monitor' = "casting" /\ Broadcast("monitor", run, connected_clients)
    <3>1. (run \in {"ending", "done"}) = FALSE
      BY <1>3 DEF Ended
    <3>2. cast'["monitor"] = NoCast \/ cast'["monitor"].over = (run \in {"ending", "done"})
      BY <1>2, <2>2, BroadcastBegins, Zenon
    <3>3. /\ cast' \in [Tasks -> Casts]
          /\ \A u \in Tasks \ {"monitor"} : cast'[u] = cast[u]
      BY <1>2, <2>2, BroadcastBegins
    <3>4. ~cast'["monitor"].over
      BY <1>2, <3>1, <3>2
    <3>5. QED
      BY <2>2, <3>3, <3>4
  <2>3. QED
    BY <1>1, <2>1, <2>2
<1>5. OnlyGreetingsLinger' /\ MonitorFollowsRun'
  BY <1>1, <1>3, <1>4 DEF OnlyGreetingsLinger, MonitorFollowsRun, CastDone
<1>6. /\ run' \in {"created", "populating", "ticking", "cancelling", "ending", "done"}
      /\ monitor' \in {"none", "waiting", "casting", "cancelled", "done"}
      /\ is_running' \in BOOLEAN /\ tick_count' \in 0..NumTicks
      /\ dogs' \in 0..NumDogs /\ bound' \subseteq Dogs
  BY <1>1, <1>2
<1>7. QED
  BY <1>1, <1>3, <1>4, <1>5, <1>6, RunChanges

(* A stop, and a sandbox that is bound.                                    *)
LEMMA FlagInv ==
  ASSUME LiveInv, StopSimulation \/ \E d \in Dogs : Bind(d)
  PROVE  LiveInv'
<1>1. /\ UNCHANGED <<run, monitor, tick_count, dogs, cast>> /\ UNCHANGED web
      /\ is_running' = is_running \/ is_running' = FALSE
      /\ bound' = bound \/ \E d \in Dogs : bound' = bound \cup {d}
  BY DEF StopSimulation, Bind
<1>2. Ended' = Ended
  BY <1>1 DEF Ended
<1>3. OnlyGreetingsLinger' /\ MonitorFollowsRun'
  BY <1>1, <1>2 DEF LiveInv, OnlyGreetingsLinger, MonitorFollowsRun, CastDone
<1>4. /\ cast' \in [Tasks -> Casts]
      /\ run' \in {"created", "populating", "ticking", "cancelling", "ending", "done"}
      /\ monitor' \in {"none", "waiting", "casting", "cancelled", "done"}
      /\ is_running' \in BOOLEAN /\ tick_count' \in 0..NumTicks
      /\ dogs' \in 0..NumDogs /\ bound' \subseteq Dogs
  BY <1>1, Parts
<1>5. QED
  BY <1>1, <1>2, <1>3, <1>4, RunChanges

-----------------------------------------------------------------------------
(* The theorems.                                                           *)

(* The steps of Next, as the lemmas take them.                             *)
LEMMA StepsOfNext ==
  ASSUME Next
  PROVE  \/ \E t \in Tasks : CastStep(t)
         \/ \E c \in Clients : Reads(c) \/ Connect(c) \/ Closes(c) \/ Leave(c)
         \/ RunBegin \/ Populate \/ Tick
         \/ LeaveAtOnce \/ FinishCancelled \/ CancelMonitor \/ RunReturns
         \/ MonitorStep
         \/ StopSimulation \/ \E d \in Dogs : Bind(d)
BY DEF Next, TaskStep, RunStep

(* LiveInv is inductive.                                                   *)
LEMMA LiveInvariant == Spec => []LiveInv
<1>1. Init => LiveInv
  <2> SUFFICES ASSUME Init PROVE LiveInv
    OBVIOUS
  <2>1. <<>> \in Lists /\ Range(<<>>) = {} /\ NoCast \in Casts /\ NoCast.over = FALSE
    BY NoCastIsCast, EmptySeq DEF Lists, IsInjective, Range
  <2>2. "monitor" \in Tasks /\ NumTicks \in Nat /\ NumDogs \in Nat
    BY LiveUpdatesAssumption DEF Tasks
  <2>3. TypeOK
    <3>1. run = "created" /\ monitor = "none" /\ is_running = FALSE /\ tick_count = 0
          /\ dogs = 0 /\ bound \subseteq Dogs /\ connected_clients \in Lists
      BY <2>1 DEF Init
    <3>2. 0 \in 0..NumTicks /\ 0 \in 0..NumDogs
      BY <2>2
    <3>3. cast \in [Tasks -> Casts]
      BY <2>1 DEF Init
    <3>4. /\ link \in [Clients -> {"away", "open", "gone", "left"}]
          /\ shows \in [Clients -> {"nothing", "run", "end", "back"}]
      BY DEF Init
    <3>5. QED
      BY <3>1, <3>2, <3>3, <3>4 DEF TypeOK
  <2>4. /\ \A t \in Tasks : cast[t] = NoCast
        /\ \A c \in Clients : shows[c] = "nothing"
        /\ run = "created" /\ monitor = "none" /\ dogs = 0 /\ connected_clients = <<>>
    BY DEF Init
  <2>5. ListedHasConnected /\ EndIsToldAfterIt /\ MonitorFollowsRun
    BY <2>1, <2>4 DEF ListedHasConnected, EndIsToldAfterIt, MonitorFollowsRun
  <2>6. OnlyGreetingsLinger
    BY <2>2, <2>4 DEF OnlyGreetingsLinger, CastDone, Ended
  <2>7. QED
    BY <2>3, <2>5, <2>6 DEF LiveInv
<1>2. LiveInv /\ [Next]_vars => LiveInv'
  <2> SUFFICES ASSUME LiveInv, [Next]_vars PROVE LiveInv'
    OBVIOUS
  <2>1. CASE Next
    BY <2>1, StepsOfNext, CastStepInv, ReadsInv, ConnectInv, LeavingInv, AddDogInv,
       TickInv, LeaveInv, CancelInv, ReturnsInv, MonitorInv, FlagInv
  <2>2. CASE UNCHANGED vars
    <3>1. TypeOK'
      BY <2>2 DEF LiveInv, TypeOK, vars, park, web
    <3>2. QED
      BY <2>2, <3>1 DEF LiveInv, ListedHasConnected, EndIsToldAfterIt, MonitorFollowsRun,
                        OnlyGreetingsLinger, CastDone, Ended, vars, park, web
  <2>3. QED
    BY <2>1, <2>2
<1>3. QED
  BY <1>1, <1>2, PTL DEF Spec

(* The list of clients repeats nobody, and the run, its monitor and their  *)
(* broadcasts keep their shape.                                            *)
THEOREM LiveUpdatesTypeOK == Spec => []TypeOK
<1>1. LiveInv => TypeOK
  BY DEF LiveInv
<1>2. QED
  BY <1>1, LiveInvariant, PTL

(* A browser that shows the end is taken back into the run by nobody but a *)
(* greeting.                                                               *)
THEOREM GreetingsTakeBack == Spec => OnlyAGreetingTakesBack
<1>1. LiveInv /\ [Next]_vars =>
        [\A c \in Clients : TakenBack(c) => \E b \in Clients : cast'[b] # cast[b]]_vars
  <2> SUFFICES ASSUME LiveInv, Next, NEW c \in Clients, TakenBack(c)
               PROVE  \E b \in Clients : cast'[b] # cast[b]
    OBVIOUS
  <2>1. /\ cast \in [Tasks -> Casts]
        /\ shows \in [Clients -> {"nothing", "run", "end", "back"}]
        /\ shows[c] = "end" /\ shows'[c] = "back"
    BY DEF LiveInv, TypeOK, TakenBack
  <2>2. PICK t \in Tasks : Send(t)
    <3>1. CASE \E t \in Tasks : CastStep(t)
      BY <2>1, <3>1 DEF CastStep, SendRaises
    <3>2. CASE \E d \in Clients : Reads(d) \/ Connect(d) \/ Closes(d) \/ Leave(d)
      <4>1. shows'[c] = shows[c] \/ shows'[c] = "nothing"
        BY <2>1, <3>2 DEF Reads, Connect, Closes, Leave, web
      <4>2. QED
        BY <2>1, <4>1
    <3>3. CASE UNCHANGED web
      BY <2>1, <3>3 DEF web
    <3>4. QED
      BY <3>1, <3>2, <3>3, StepsOfNext
         DEF RunBegin, Populate, AddDog, Tick, LeaveAtOnce, FinishCancelled,
             CancelMonitor, RunReturns, MonitorStep, MonitorCasts, MonitorLooks,
             StopSimulation, Bind
  <2>3. cast[t] # NoCast /\ ~cast[t].sent
    BY <2>2 DEF Send, CastDone
  <2>4. ~cast[t].over
    <3>1. shows' = [shows EXCEPT ![Head(cast[t].rest)] =
                      IF cast[t].over THEN "end"
                      ELSE IF @ \in {"end", "back"} THEN "back" ELSE "run"]
      BY <2>2 DEF Send
    <3>2. QED
      BY <2>1, <3>1
  <2>5. t \in Clients
    <3>1. Ended
      BY <2>1 DEF LiveInv, EndIsToldAfterIt
    <3>2. /\ cast["monitor"] = NoCast
          /\ cast["run"] = NoCast \/ cast["run"].over
      BY <3>1, Parts
    <3>3. t # "run" /\ t # "monitor"
      BY <2>3, <2>4, <3>2
    <3>4. QED
      BY <3>3 DEF Tasks
  <2>6. cast'[t] # cast[t]
    <3> DEFINE a == After(cast[t], Tail(cast[t].rest))
    <3>1. a # cast[t]
      BY <2>1, <2>3, BroadcastGoesOn
    <3>2. cast' = [cast EXCEPT ![t] = a] \/ cast' = [cast EXCEPT ![t].sent = TRUE]
      BY <2>2 DEF Send, SendsNext
    <3> HIDE DEF a
    <3>3. CASE cast' = [cast EXCEPT ![t] = a]
      BY <2>1, <3>1, <3>3
    <3>4. CASE cast' = [cast EXCEPT ![t].sent = TRUE]
      <4>1. cast[t] \in Casts
        BY <2>1
      <4>2. cast'[t].sent = TRUE
        BY <2>1, <3>4, <4>1 DEF Casts
      <4>3. QED
        BY <2>3, <4>2
    <3>5. QED
      BY <3>2, <3>3, <3>4
  <2>7. QED
    BY <2>5, <2>6
<1>2. QED
  BY <1>1, LiveInvariant, PTL DEF Spec, OnlyAGreetingTakesBack

=============================================================================
