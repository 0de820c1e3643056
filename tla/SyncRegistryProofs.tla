-------------------------- MODULE SyncRegistryProofs --------------------------
(***************************************************************************)
(* TLAPS proofs about SyncRegistry, for every number of calls, faults and  *)
(* interrupts and every set of claims of others.                           *)
(***************************************************************************)
EXTENDS SyncRegistry, TLAPS

-----------------------------------------------------------------------------
(* The streams of the watches.                                             *)

(* A sequence over a set is one over every larger set.                     *)
LEMMA SeqOfMore ==
  ASSUME NEW S, NEW T, S \subseteq T, NEW s \in Seq(S)
  PROVE  s \in Seq(T)
OBVIOUS

(* A list answers with the object's state or with nothing.                 *)
LEMMA ListedTyped ==
  ASSUME NEW S, NEW x \in S
  PROVE  Listed(x) \in Seq(S)
BY DEF Listed

(* What an open watch delivers are states of the object it watches.        *)
LEMMA EventsTyped ==
  ASSUME TypeOK
  PROVE  /\ <<>> \in Seq(ClaimStates) /\ <<>> \in Seq(ClaimStates \cup BoxStates)
         /\ <<>> \in Seq(BoxStates)
         /\ \A c \in Claims :
              /\ Listed(claim[c]) \in Seq(ClaimStates)
              /\ Listed(claim[c]) \in Seq(ClaimStates \cup BoxStates)
              /\ Listed(box[c]) \in Seq(BoxStates)
              /\ Listed(box[c]) \in Seq(ClaimStates \cup BoxStates)
<1>1. ASSUME NEW c \in Claims
      PROVE  Listed(claim[c]) \in Seq(ClaimStates) /\ Listed(box[c]) \in Seq(BoxStates)
  BY ListedTyped DEF TypeOK
<1>2. QED
  BY <1>1, SeqOfMore

-----------------------------------------------------------------------------
(* What the helpers leave of the call.                                     *)

(* No claim is None, and None is nobody's handle.                          *)
LEMMA NoneIsNobody ==
  /\ None \notin Claims /\ None \notin Calls
  /\ \A c \in Claims : c \in Calls \/ c \in Foreign
BY SyncAssumption DEF None, Claims, Calls

(* Nothing is called.                                                      *)
LEMMA NoCallTyped == NoCall \in CallState
BY DEF NoCall, CallState, Operations, PC

(* The call goes on elsewhere and is otherwise as before.                  *)
LEMMA GotoShape ==
  ASSUME TypeOK, call.claim \in Claims, NEW pc \in PC, Goto(pc)
  PROVE  /\ call' \in CallState /\ call' = [call EXCEPT !.at = pc]
         /\ call'.at = pc /\ call'.op = call.op /\ call'.claim = call.claim
         /\ call'.seen = call.seen /\ call'.todo = call.todo
         /\ events' \in Seq(ClaimStates \cup BoxStates)
         /\ pc = "waiting" => events' \in Seq(BoxStates)
         /\ pc = "resolving" => events' \in Seq(ClaimStates)
BY EventsTyped DEF Goto, TypeOK, CallState

(* Where terminate begins is one of its places.                            *)
LEMMA FirstStepTyped ==
  ASSUME NEW h
  PROVE  FirstStep(h) \in PC
BY DEF FirstStep, PC

(* An exception leaves a creation at its cleanup, a reattachment in the    *)
(* terminate of the handle it found, and any other call over.              *)
LEMMA RaiseShape ==
  ASSUME TypeOK, call.claim \in Claims, Raise
  PROVE  /\ call' \in CallState /\ events' \in Seq(ClaimStates \cup BoxStates)
         /\ \/ call.op = "create" /\ call' = [call EXCEPT !.at = "discarding"]
            \/ /\ call.op # "create" /\ call.seen # None
               /\ call' = [call EXCEPT !.at = FirstStep(call.seen)]
            \/ call.op # "create" /\ call' = NoCall
<1>1. CASE call.op = "create"
  <2>1. "discarding" \in PC /\ Goto("discarding")
    BY <1>1 DEF Raise, PC
  <2>2. QED
    BY <1>1, <2>1, GotoShape
<1>2. CASE call.op # "create" /\ call.seen # None
  <2>1. Goto(FirstStep(call.seen)) /\ FirstStep(call.seen) \in PC
    BY <1>2, FirstStepTyped DEF Raise
  <2>2. QED
    BY <1>2, <2>1, GotoShape
<1>3. CASE call.op # "create" /\ call.seen = None
  BY <1>3, EventsTyped, NoCallTyped DEF Raise
<1>4. QED
  BY <1>1, <1>2, <1>3

(* A step of delete_all ends it or takes the next of its entries.          *)
LEMMA LoopShape ==
  ASSUME TypeOK, NEW reg \in [Claims -> Calls \cup {None}], NEW todo \in SUBSET Claims,
         NEW op \in Operations, DeleteNext(reg, todo, op)
  PROVE  /\ call' \in CallState /\ exited' \in BOOLEAN
         /\ \/ todo = {} /\ call' = NoCall
            \/ exited' = exited /\ \E c \in todo :
                 /\ call'.op = op /\ call'.claim = c /\ call'.seen = reg[c]
                 /\ call'.at = FirstStep(reg[c]) /\ call'.todo = todo \ {c}
<1>1. CASE todo = {}
  BY <1>1, NoCallTyped DEF DeleteNext, TypeOK
<1>2. CASE todo # {}
  <2>1. PICK c \in todo :
          call' = [op |-> op, at |-> FirstStep(reg[c]), claim |-> c,
                   seen |-> reg[c], todo |-> todo \ {c}]
    BY <1>2 DEF DeleteNext
  <2>2. c \in Claims /\ reg[c] \in Calls \cup {None} /\ FirstStep(reg[c]) \in PC
    BY FirstStepTyped
  <2>3. QED
    BY <1>2, <2>1, <2>2 DEF DeleteNext, CallState, TypeOK
<1>3. QED
  BY <1>1, <1>2

-----------------------------------------------------------------------------
(* The calls begin.                                                        *)

(* What Begin leaves of the call.                                          *)
LEMMA BeginShape ==
  ASSUME SyncInv, NEW op \in Operations, NEW pc \in PC \ {"waiting"},
         NEW c \in Claims \cup {None}, NEW h \in Calls \cup {None},
         pc = "resolving" => c \in Claims, Begin(op, pc, c, h)
  PROVE  /\ call' \in CallState /\ events' \in Seq(ClaimStates \cup BoxStates)
         /\ call'.op = op /\ call'.at = pc /\ call'.claim = c /\ call'.seen = h
         /\ call'.todo = {} /\ (pc = "resolving" => events' \in Seq(ClaimStates))
         /\ calls' = calls + 1 /\ calls' \in Calls /\ calls' > calls /\ calls \in Nat
         /\ call.at = "idle" /\ ~exited
<1>1. calls' = calls + 1 /\ calls' \in Calls /\ calls' > calls /\ calls \in Nat
  BY SyncAssumption DEF Begin, SyncInv, TypeOK, Calls
<1>2. call' = [op |-> op, at |-> pc, claim |-> c, seen |-> h, todo |-> {}]
  BY DEF Begin
<1>3. events' \in Seq(ClaimStates \cup BoxStates) /\ (pc = "resolving" => events' \in Seq(ClaimStates))
  BY EventsTyped DEF Begin, SyncInv
<1>4. QED
  BY <1>1, <1>2, <1>3 DEF CallState, Begin, At

(* A call that only begins changes nothing; it finds the registry as it is *)
(* (sandbox_client.py 76-133, 138-165, 203-235).                           *)
LEMMA BeginStep ==
  ASSUME SyncInv, NEW op \in Operations, NEW pc \in PC \ {"waiting", "constructing"},
         NEW c \in Claims, NEW h \in Calls \cup {None}, Begin(op, pc, c, h),
         UNCHANGED <<cluster, handle, registry, excused, exited, bounds>>,
         \/ op = "create" /\ pc = "posting" /\ c = calls + 1 /\ h = None
         \/ op = "get" /\ pc = "resolving" /\ claim[c] # "none" /\ h = registry[c]
         \/ op = "delete" /\ pc = FirstStep(h) /\ h = registry[c]
         \/ op = "terminate" /\ pc = FirstStep(h) /\ h # None /\ handle[h].is # "none"
            /\ c = handle[h].of
  PROVE  SyncInv'
<1> USE NoneIsNobody
    DEF SyncInv, At, Creating, InTerminate, Active, Exists, cluster, bounds
<1>1. /\ call' \in CallState /\ events' \in Seq(ClaimStates \cup BoxStates)
      /\ call'.op = op /\ call'.at = pc /\ call'.claim = c /\ call'.seen = h
      /\ call'.todo = {} /\ (pc = "resolving" => events' \in Seq(ClaimStates))
      /\ calls' = calls + 1 /\ calls' \in Calls /\ calls' > calls /\ calls \in Nat
      /\ call.at = "idle" /\ ~exited
  BY BeginShape
<1>2. TypeOK'
  BY <1>1 DEF TypeOK, Calls
<1>3. PlaceOfOp' /\ EntriesAreHandles' /\ SeenIsCurrent'
  <2>1. CASE op \in {"create", "get"}
    <3>1. PlaceOfOp'
      BY <1>1, <2>1 DEF PlaceOfOp
    <3>2. EntriesAreHandles' /\ SeenIsCurrent'
      BY <1>1, <2>1 DEF EntriesAreHandles, SeenIsCurrent, Tracked
    <3>3. QED
      BY <3>1, <3>2
  <2>2. CASE op \in {"delete", "terminate"}
    <3>1. /\ (pc \in {"closing", "deleting"} /\ h # None) \/ pc = "deleting_claim"
          /\ pc = "deleting" => handle[h].is = "closed"
      BY <2>2 DEF FirstStep
    <3>2. pc # "deleting_claim" => handle[h].of = c /\ handle[h].is # "none"
      BY <2>2, <3>1 DEF EntriesAreHandles
    <3>3. PlaceOfOp'
      BY <1>1, <2>2, <3>1 DEF PlaceOfOp
    <3>4. EntriesAreHandles' /\ SeenIsCurrent'
      BY <1>1, <2>2, <3>1, <3>2 DEF EntriesAreHandles, SeenIsCurrent, Tracked
    <3>5. QED
      BY <3>3, <3>4
  <2>3. QED
    BY <2>1, <2>2
<1>4. FreshClaims'
  <2>1. FirstStep(h) \in {"closing", "deleting", "deleting_claim"}
    BY DEF FirstStep
  <2>2. QED
    BY <1>1, <2>1 DEF FreshClaims, TypeOK, Calls
<1>5. OpenIsTracked' /\ AnsweredFor' /\ ClosedIsGivenUp' /\ ExitWorksOff'
  BY <1>1 DEF PlaceOfOp, OpenIsTracked, AnsweredFor, ClosedIsGivenUp, ExitWorksOff, ExitLeavesNoClaim
<1>6. QED
  BY <1>2, <1>3, <1>4, <1>5

(* A creation begins, with the next claim.                                 *)
LEMMA CreateSandboxStep ==
  ASSUME SyncInv, CreateSandbox
  PROVE  SyncInv'
<1>1. calls + 1 \in Claims
  BY SyncAssumption DEF SyncInv, TypeOK, CreateSandbox, Begin, Claims, Calls
<1>2. QED
  BY <1>1, BeginStep DEF CreateSandbox, Operations, PC

(* A getter begins.                                                        *)
LEMMA GetSandboxStep ==
  ASSUME SyncInv, NEW c \in Claims, GetSandbox(c)
  PROVE  SyncInv'
<1>1. registry[c] \in Calls \cup {None}
  BY DEF SyncInv, TypeOK
<1>2. QED
  BY <1>1, BeginStep DEF GetSandbox, Operations, PC

(* A deletion begins.                                                      *)
LEMMA DeleteSandboxStep ==
  ASSUME SyncInv, NEW c \in Claims, DeleteSandbox(c)
  PROVE  SyncInv'
<1>1. registry[c] \in Calls \cup {None} /\ FirstStep(registry[c]) \in PC \ {"waiting", "constructing"}
  BY DEF SyncInv, TypeOK, FirstStep, PC
<1>2. QED
  BY <1>1, BeginStep DEF DeleteSandbox, Operations

(* A handle is terminated by its user.                                     *)
LEMMA TerminateStep ==
  ASSUME SyncInv, NEW h \in Calls, Terminate(h)
  PROVE  SyncInv'
<1>1. handle[h].of \in Claims
  BY DEF SyncInv, EntriesAreHandles, Terminate
<1>2. FirstStep(h) \in PC \ {"waiting", "constructing"} /\ h # None
  BY NoneIsNobody DEF FirstStep, PC
<1>3. QED
  BY <1>1, <1>2, BeginStep DEF Terminate, Operations

(* What is forgotten were closed handles, of claims that are gone or       *)
(* excused (sandbox_client.py 188-201).                                    *)
LEMMA ListActiveStep ==
  ASSUME SyncInv, ListActive
  PROVE  SyncInv'
<1> USE NoneIsNobody
    DEF SyncInv, At, Creating, InTerminate, Active, Exists, cluster, bounds, ListActive
<1>1. /\ call' \in CallState /\ events' \in Seq(ClaimStates \cup BoxStates)
      /\ call'.op = "none" /\ call'.at = "idle" /\ call'.claim = None /\ call'.seen = None
      /\ call'.todo = {} /\ calls' = calls + 1 /\ calls' \in Calls /\ calls \in Nat
      /\ call.at = "idle" /\ ~exited
  BY BeginShape DEF Operations, PC
<1>2. \A c \in Claims :
        /\ registry'[c] \in {registry[c], None}
        /\ registry[c] # None /\ handle[registry[c]].is = "open" => registry'[c] = registry[c]
        /\ registry[c] # None /\ handle[registry[c]].is # "open" => registry'[c] = None
  OBVIOUS
<1>3. TypeOK' /\ PlaceOfOp'
  BY <1>1, <1>2 DEF TypeOK, PlaceOfOp, Calls
<1>4. FreshClaims' /\ EntriesAreHandles' /\ SeenIsCurrent'
  BY <1>1, <1>2 DEF FreshClaims, TypeOK, Calls, Claims, EntriesAreHandles, SeenIsCurrent, Tracked
<1>5. OpenIsTracked' /\ ClosedIsGivenUp' /\ ExitWorksOff'
  BY <1>1, <1>2 DEF OpenIsTracked, ClosedIsGivenUp, ExitWorksOff, ExitLeavesNoClaim,
     EntriesAreHandles, TypeOK
<1>6. AnsweredFor'
  <2>1. ASSUME NEW c \in Calls, registry[c] # None, registry'[c] = None
        PROVE  ~Exists(c) \/ c \in excused
    <3>1. c \in Claims /\ registry[c] \in Calls /\ handle[registry[c]].of = c
      BY <2>1 DEF Claims, TypeOK, EntriesAreHandles
    <3>2. handle[registry[c]].is \in {"closed", "half"}
      BY <1>2, <2>1, <3>1 DEF TypeOK, HandleState, EntriesAreHandles
    <3>3. QED
      BY <1>1, <3>1, <3>2 DEF ClosedIsGivenUp
  <2>2. QED
    BY <1>1, <2>1 DEF AnsweredFor, PlaceOfOp
<1>7. QED
  BY <1>3, <1>4, <1>5, <1>6

(* delete_all and the exit take up what is tracked, which are all claims   *)
(* that exist and are not excused (sandbox_client.py 237-255).             *)
LEMMA LoopBegins ==
  ASSUME SyncInv, NEW op \in {"delete_all", "exit"}, At("idle"), ~exited,
         DeleteNext(registry, Tracked, op), calls' \in 0..MaxCalls, calls' >= calls,
         op = "delete_all" => calls' \in Calls,
         UNCHANGED <<cluster, handle, events, excused, bounds>>
  PROVE  SyncInv'
<1> USE NoneIsNobody
    DEF SyncInv, At, Creating, InTerminate, Active, Exists, cluster, bounds
<1>1. registry' = registry /\ call' \in CallState /\ exited' \in BOOLEAN
  BY LoopShape DEF DeleteNext, TypeOK, Operations, Tracked
<1>2. TypeOK'
  BY <1>1 DEF TypeOK
<1>3. CASE Tracked = {}
  <2>1. call' = NoCall /\ exited' = (op = "exit")
    BY <1>3 DEF DeleteNext
  <2>2. PlaceOfOp' /\ FreshClaims' /\ EntriesAreHandles' /\ SeenIsCurrent'
    BY <1>1, <2>1 DEF PlaceOfOp, FreshClaims, EntriesAreHandles, SeenIsCurrent, NoCall, TypeOK, Calls
  <2>3. OpenIsTracked' /\ AnsweredFor' /\ ClosedIsGivenUp' /\ ExitWorksOff'
    BY <1>1, <1>3, <2>1 DEF PlaceOfOp, OpenIsTracked, AnsweredFor, ClosedIsGivenUp, ExitWorksOff,
       ExitLeavesNoClaim, NoCall, Tracked, Claims
  <2>4. QED
    BY <1>2, <2>2, <2>3
<1>4. CASE Tracked # {}
  <2>1. PICK c \in Tracked :
          /\ call'.op = op /\ call'.at = FirstStep(registry[c]) /\ call'.claim = c
          /\ call'.seen = registry[c] /\ call'.todo = Tracked \ {c} /\ exited' = exited
    BY <1>4 DEF DeleteNext
  <2>2. /\ call'.at \in {"closing", "deleting"} /\ c \in Claims /\ registry[c] # None
        /\ call'.at = "deleting" => handle[registry[c]].is = "closed"
    BY <2>1 DEF FirstStep, Tracked
  <2>3. PlaceOfOp' /\ FreshClaims'
    BY <1>1, <2>1, <2>2 DEF PlaceOfOp, FreshClaims, TypeOK, Calls
  <2>4. EntriesAreHandles' /\ SeenIsCurrent'
    BY <1>1, <2>1, <2>2 DEF EntriesAreHandles, SeenIsCurrent, Tracked
  <2>5. OpenIsTracked' /\ AnsweredFor' /\ ClosedIsGivenUp' /\ ExitWorksOff'
    BY <1>1, <2>1, <2>2 DEF PlaceOfOp, OpenIsTracked, AnsweredFor, ClosedIsGivenUp, ExitWorksOff,
       ExitLeavesNoClaim, Tracked, Claims
  <2>6. QED
    BY <1>2, <2>3, <2>4, <2>5
<1>5. QED
  BY <1>3, <1>4

(* delete_all begins with a copy of the registry.                          *)
LEMMA DeleteAllStep ==
  ASSUME SyncInv, DeleteAll
  PROVE  SyncInv'
<1>1. calls' \in 0..MaxCalls /\ calls' >= calls /\ calls' \in Calls
  BY SyncAssumption DEF DeleteAll, SyncInv, TypeOK, Calls
<1>2. QED
  BY <1>1, LoopBegins DEF DeleteAll

(* The program ends, and its exit hook begins.                             *)
LEMMA ExitStep ==
  ASSUME SyncInv, Exit
  PROVE  SyncInv'
<1>1. calls' \in 0..MaxCalls /\ calls' >= calls
  BY SyncAssumption DEF Exit, SyncInv, TypeOK
<1>2. QED
  BY <1>1, LoopBegins DEF Exit

-----------------------------------------------------------------------------
(* The calls go on, and the watches.                                       *)

(* A creation or a reattachment that only goes to its next place.          *)
LEMMA CallMoves ==
  ASSUME SyncInv, NEW pc \in PC, Goto(pc), UNCHANGED <<cluster, handle, registry, calls>>,
         UNCHANGED <<excused, exited, interrupts>>, faults' \in 0..MaxFaults,
         \/ Creating /\ pc = "discarding"
         \/ Creating /\ At("resolving") /\ pc = "waiting"
         \/ Creating /\ At("waiting") /\ pc = "constructing"
         \/ call.op = "get" /\ At("resolving") /\ pc = "reading"
         \/ /\ call.op = "get" /\ (At("resolving") \/ At("reading"))
            /\ call.seen # None /\ pc = FirstStep(call.seen)
  PROVE  SyncInv'
<1> USE NoneIsNobody
    DEF SyncInv, At, Creating, InTerminate, Active, Exists, cluster
<1>1. call.claim \in Claims /\ call.at # "idle" /\ call.seen \in Calls \cup {None}
  BY DEF PlaceOfOp, TypeOK, CallState
<1>2. /\ call' \in CallState /\ call'.at = pc /\ call'.op = call.op
      /\ call'.claim = call.claim /\ call'.seen = call.seen /\ call'.todo = call.todo
      /\ events' \in Seq(ClaimStates \cup BoxStates)
      /\ pc = "waiting" => events' \in Seq(BoxStates)
  BY <1>1, GotoShape
<1>3. /\ \/ call.op = "create" /\ pc \in {"discarding", "waiting", "constructing"}
         \/ call.op = "get" /\ pc \in {"reading", "closing", "deleting"}
      /\ pc \in {"closing", "deleting"} =>
           /\ call.op = "get" /\ call.seen # None
           /\ pc = "deleting" => handle[call.seen].is = "closed"
  BY DEF FirstStep
<1>4. TypeOK'
  BY <1>2 DEF TypeOK
<1>5. PlaceOfOp' /\ FreshClaims'
  <2>1. PlaceOfOp'
    BY <1>1, <1>2, <1>3 DEF PlaceOfOp
  <2>2. FreshClaims'
    BY <1>1, <1>2, <1>3 DEF FreshClaims
  <2>3. QED
    BY <2>1, <2>2
<1>6. EntriesAreHandles' /\ SeenIsCurrent'
  <2>1. /\ call.op = "get" => call.seen = registry[call.claim]
        /\ call.seen # None /\ call.op = "get" =>
             handle[call.seen].of = call.claim /\ handle[call.seen].is # "none"
    BY <1>1 DEF SeenIsCurrent, EntriesAreHandles, PlaceOfOp
  <2>2. pc = "constructing" => registry[call.claim] = None
    BY <1>3 DEF FreshClaims, FirstStep
  <2>3. EntriesAreHandles'
    BY <1>2 DEF EntriesAreHandles, Tracked
  <2>4. SeenIsCurrent'
    BY <1>1, <1>2, <1>3, <2>1, <2>2 DEF SeenIsCurrent, PlaceOfOp
  <2>5. QED
    BY <2>3, <2>4
<1>7. OpenIsTracked' /\ AnsweredFor' /\ ClosedIsGivenUp' /\ ExitWorksOff'
  BY <1>1, <1>2, <1>3 DEF PlaceOfOp, OpenIsTracked, AnsweredFor, ClosedIsGivenUp, ExitWorksOff,
     ExitLeavesNoClaim
<1>8. QED
  BY <1>4, <1>5, <1>6, <1>7

(* get_sandbox may return or raise at any point before it terminates the   *)
(* handle: it has changed nothing of the claim.                            *)
LEMMA GetEnds ==
  ASSUME SyncInv, call.op = "get", ~InTerminate, call' = NoCall,
         UNCHANGED <<cluster, handle, registry, calls, excused, exited, interrupts>>,
         events' \in Seq(ClaimStates \cup BoxStates), faults' \in 0..MaxFaults
  PROVE  SyncInv'
<1> USE NoneIsNobody, NoCallTyped
    DEF SyncInv, At, Creating, InTerminate, Active, Exists, cluster, NoCall
<1>1. TypeOK' /\ PlaceOfOp' /\ FreshClaims'
  BY DEF TypeOK, PlaceOfOp, FreshClaims
<1>2. EntriesAreHandles' /\ SeenIsCurrent'
  BY DEF EntriesAreHandles, SeenIsCurrent
<1>3. OpenIsTracked' /\ AnsweredFor' /\ ClosedIsGivenUp' /\ ExitWorksOff'
  BY DEF OpenIsTracked, AnsweredFor, ClosedIsGivenUp, ExitWorksOff, ExitLeavesNoClaim
<1>4. QED
  BY <1>1, <1>2, <1>3

(* An exception of a watch or of the read.                                 *)
LEMMA RaiseStep ==
  ASSUME SyncInv, Raise, At("resolving") \/ At("waiting") \/ At("reading"),
         UNCHANGED <<cluster, handle, registry, calls, excused, exited, interrupts>>,
         faults' \in 0..MaxFaults
  PROVE  SyncInv'
<1>1. call.op \in {"create", "get"} /\ call.claim \in Claims /\ call.seen \in Calls \cup {None}
      /\ (At("waiting") => Creating)
  BY DEF SyncInv, PlaceOfOp, At, InTerminate, InLoop, TypeOK, CallState, Operations, Creating
<1>2. CASE call.op = "create"
  BY <1>2, CallMoves DEF Raise, Creating, PC
<1>3. CASE call.op = "get" /\ call.seen # None
  <2>1. FirstStep(call.seen) \in PC /\ Goto(FirstStep(call.seen))
    BY <1>3, FirstStepTyped DEF Raise
  <2>2. At("resolving") \/ At("reading")
    BY <1>1, <1>3 DEF Creating
  <2>3. QED
    BY <1>3, <2>1, <2>2, CallMoves
<1>4. CASE call.op = "get" /\ call.seen = None
  <2>1. call' = NoCall /\ events' \in Seq(ClaimStates \cup BoxStates)
    BY <1>4, EventsTyped DEF Raise, SyncInv
  <2>2. QED
    BY <1>4, <2>1, GetEnds DEF At, InTerminate
<1>5. QED
  BY <1>1, <1>2, <1>3, <1>4

(* The deadline of a watch passes.                                         *)
LEMMA TimesOutStep ==
  ASSUME SyncInv, TimesOut
  PROVE  SyncInv'
BY RaiseStep DEF TimesOut, Watching, bounds, SyncInv, TypeOK

(* A read fails.                                                           *)
LEMMA ReadFailsStep ==
  ASSUME SyncInv, ReadFails
  PROVE  SyncInv'
<1>1. faults' \in 0..MaxFaults
  BY SyncAssumption DEF ReadFails, Fault, Answered, SyncInv, TypeOK
<1>2. QED
  BY <1>1, RaiseStep DEF ReadFails

(* Only the stream of the watch moves.                                     *)
LEMMA StreamMoves ==
  ASSUME SyncInv, UNCHANGED <<cluster, user, bounds>>,
         events' \in Seq(ClaimStates \cup BoxStates),
         At("resolving") => events' \in Seq(ClaimStates),
         At("waiting") => events' \in Seq(BoxStates)
  PROVE  SyncInv'
<1> USE DEF SyncInv, At, Creating, InTerminate, Active, Exists, cluster, user, bounds
<1>1. TypeOK' /\ PlaceOfOp' /\ FreshClaims'
  BY DEF TypeOK, PlaceOfOp, FreshClaims
<1>2. EntriesAreHandles' /\ SeenIsCurrent'
  BY DEF EntriesAreHandles, SeenIsCurrent, Tracked
<1>3. OpenIsTracked' /\ AnsweredFor' /\ ClosedIsGivenUp' /\ ExitWorksOff'
  BY DEF OpenIsTracked, AnsweredFor, ClosedIsGivenUp, ExitWorksOff, ExitLeavesNoClaim
<1>4. QED
  BY <1>1, <1>2, <1>3

(* The stream of a watch ends early, and is opened again.                  *)
LEMMA StreamEndsStep ==
  ASSUME SyncInv, StreamEnds
  PROVE  SyncInv'
<1>1. call.claim \in Claims
  BY DEF StreamEnds, Watching, At, SyncInv, PlaceOfOp
<1>2. QED
  BY <1>1, EventsTyped, StreamMoves DEF StreamEnds, Watching, Watched, At, SyncInv

(* A claim's stream never says ready, a Sandbox's never named.             *)
LEMMA NextEventStep ==
  ASSUME SyncInv, NextEvent
  PROVE  SyncInv'
<1> DEFINE event == Head(events)
<1>1. /\ UNCHANGED <<cluster, handle, registry, calls>> /\ UNCHANGED <<excused, exited, interrupts>>
      /\ faults' = faults /\ faults' \in 0..MaxFaults
  BY DEF NextEvent, bounds, SyncInv, TypeOK
<1>2. call.op \in {"create", "get"} /\ (At("waiting") => Creating)
  BY DEF NextEvent, Watching, SyncInv, PlaceOfOp, At, InTerminate, TypeOK, CallState, Operations,
     Creating
<1>3. /\ At("resolving") => event \in ClaimStates /\ Tail(events) \in Seq(ClaimStates)
      /\ At("waiting") => event \in BoxStates /\ Tail(events) \in Seq(BoxStates)
      /\ Tail(events) \in Seq(ClaimStates \cup BoxStates)
  BY DEF NextEvent, SyncInv, PlaceOfOp, TypeOK
<1>4. At("resolving") \/ At("waiting")
  BY DEF NextEvent, Watching
<1>5. CASE EndsTheWait(event)
  <2>1. Raise
    BY <1>5 DEF NextEvent, EndsTheWait
  <2>2. QED
    BY <1>1, <1>4, <2>1, RaiseStep
<1>6. CASE ~EndsTheWait(event) /\ event = "named"
  <2>1. At("resolving") /\ ~At("waiting")
    BY <1>3, <1>4, <1>6 DEF BoxStates, At
  <2>2. Goto(IF call.op = "create" THEN "waiting" ELSE "reading")
    BY <1>6 DEF NextEvent, EndsTheWait
  <2>3. QED
    BY <1>1, <1>2, <2>1, <2>2, CallMoves DEF Creating, PC
<1>7. CASE ~EndsTheWait(event) /\ event = "ready"
  <2>1. At("waiting")
    BY <1>3, <1>4, <1>7 DEF ClaimStates
  <2>2. Goto("constructing")
    BY <1>7 DEF NextEvent, EndsTheWait
  <2>3. QED
    BY <1>1, <1>2, <2>1, <2>2, CallMoves DEF PC
<1>8. CASE ~EndsTheWait(event) /\ event # "named" /\ event # "ready"
  <2>1. events' = Tail(events) /\ UNCHANGED call
    BY <1>8 DEF NextEvent
  <2>2. QED
    BY <1>1, <1>3, <2>1, StreamMoves DEF cluster, user, bounds, NextEvent
<1>9. QED
  BY <1>5, <1>6, <1>7, <1>8

-----------------------------------------------------------------------------
(* create_sandbox.                                                         *)

(* The claim of a creation is new: nobody has a handle of it.              *)
LEMMA Posted ==
  ASSUME SyncInv, At("posting"), NEW pc \in {"resolving", "discarding"},
         call' = [call EXCEPT !.at = pc], events' \in Seq(ClaimStates),
         \/ claim' = claim /\ pc = "discarding"
         \/ claim' = [claim EXCEPT ![call.claim] = "made"],
         UNCHANGED <<box, handle, registry, calls, excused, exited, interrupts>>,
         faults' \in 0..MaxFaults
  PROVE  SyncInv'
<1> USE NoneIsNobody DEF SyncInv, At, Creating, InTerminate, Active, Exists
<1>1. /\ call.claim \in Claims /\ call.op = "create" /\ call.claim = calls
      /\ claim[call.claim] = "none" /\ registry[call.claim] = None
  BY DEF PlaceOfOp, FreshClaims, TypeOK, CallState, Operations
<1>2. /\ call' \in CallState /\ call'.at = pc /\ call'.op = "create"
      /\ call'.claim = call.claim /\ call'.todo = call.todo
  BY <1>1 DEF TypeOK, CallState, PC
<1>3. \A c \in Claims : claim'[c] = claim[c] \/ (c = call.claim /\ claim'[c] = "made")
  BY <1>1 DEF TypeOK
<1>4. pc = "resolving" => claim'[call.claim] = "made"
  BY <1>1 DEF TypeOK
<1>5. TypeOK'
  <2>1. events' \in Seq(ClaimStates \cup BoxStates)
    BY SeqOfMore
  <2>2. claim' \in [Claims -> ClaimStates]
    BY DEF TypeOK, ClaimStates
  <2>3. QED
    BY <1>2, <2>1, <2>2 DEF TypeOK
<1>6. PlaceOfOp' /\ FreshClaims'
  <2>1. PlaceOfOp'
    BY <1>1, <1>2 DEF PlaceOfOp
  <2>2. FreshClaims'
    BY <1>1, <1>2, <1>3, <1>4 DEF FreshClaims, TypeOK, Calls, Claims
  <2>3. QED
    BY <2>1, <2>2
<1>7. EntriesAreHandles' /\ SeenIsCurrent'
  BY <1>1, <1>2, <1>3 DEF EntriesAreHandles, SeenIsCurrent, Tracked
<1>8. OpenIsTracked' /\ AnsweredFor' /\ ExitWorksOff'
  BY <1>1, <1>2, <1>3 DEF OpenIsTracked, AnsweredFor, ExitWorksOff, ExitLeavesNoClaim, Claims,
     PlaceOfOp
<1>9. ClosedIsGivenUp'
  BY <1>1, <1>2, <1>3 DEF ClosedIsGivenUp, EntriesAreHandles
<1>10. QED
  BY <1>5, <1>6, <1>7, <1>8, <1>9

(* The request that makes the claim is answered.                           *)
LEMMA PostAnsweredStep ==
  ASSUME SyncInv, PostAnswered
  PROVE  SyncInv'
<1>1. events' \in Seq(ClaimStates) /\ faults' \in 0..MaxFaults /\ interrupts' = interrupts
  BY DEF PostAnswered, ClaimStates, bounds, SyncInv, TypeOK
<1>2. QED
  BY <1>1, Posted DEF PostAnswered

(* The request that makes the claim fails, carried out or not.             *)
LEMMA PostFailsStep ==
  ASSUME SyncInv, PostFails
  PROVE  SyncInv'
<1>1. events' = <<>> /\ events' \in Seq(ClaimStates) /\ faults' \in 0..MaxFaults
  BY SyncAssumption DEF PostFails, Goto, Fault, SyncInv, TypeOK
<1>2. call' = [call EXCEPT !.at = "discarding"]
  BY DEF PostFails, Goto
<1>3. QED
  BY <1>1, <1>2, Posted DEF PostFails

-----------------------------------------------------------------------------
(* The end of a call.                                                      *)

(* The claim is gone from the cluster, or it is excused.                   *)
Settled(c) == ~Exists(c) \/ c \in excused

(* A deletion that was carried out or not leaves the others alone.         *)
LEMMA DeletedShape ==
  ASSUME TypeOK, NEW k \in Claims, (UNCHANGED claim) \/ Deleted(k)
  PROVE  /\ claim' \in [Claims -> ClaimStates]
         /\ \A c \in Claims :
              \/ claim'[c] = claim[c]
              \/ c = k /\ claim[c] # "none" /\ claim'[c] = "deleted"
         /\ Deleted(k) => ~Exists(k)'
<1>1. claim \in [Claims -> ClaimStates] /\ "deleted" \in ClaimStates
  BY DEF TypeOK, ClaimStates
<1>2. CASE UNCHANGED claim
  BY <1>1, <1>2 DEF Deleted, Exists
<1>3. CASE Deleted(k)
  BY <1>1, <1>3 DEF Deleted, Exists
<1>4. QED
  BY <1>2, <1>3

(* A handle whose connection is closed stays the handle it was.            *)
LEMMA HandleMarked ==
  ASSUME TypeOK, NEW h \in Calls, NEW x \in {"half", "closed"},
         handle' = [handle EXCEPT ![h].is = x]
  PROVE  /\ handle' \in [Calls -> HandleState] /\ handle'[h].is = x
         /\ \A g \in Calls : /\ handle'[g].of = handle[g].of
                            /\ g # h => handle'[g] = handle[g]
<1>1. handle \in [Calls -> HandleState] /\ handle[h] \in HandleState
  BY DEF TypeOK
<1>2. [handle[h] EXCEPT !.is = x] \in HandleState
  BY <1>1 DEF HandleState
<1>3. handle' = [handle EXCEPT ![h] = [handle[h] EXCEPT !.is = x]]
  OBVIOUS
<1>4. handle' \in [Calls -> HandleState]
  BY <1>1, <1>2, <1>3
<1>5. QED
  BY <1>1, <1>3, <1>4 DEF HandleState

(* A call may end when its claim is settled: what it made and closed is    *)
(* answered for.  The exit ends when all that was before it is excused.    *)
LEMMA CallOver ==
  ASSUME SyncInv, ~At("idle"), NEW k, k = call.claim, call' = NoCall,
         events' \in Seq(ClaimStates \cup BoxStates),
         claim' \in [Claims -> ClaimStates],
         \A c \in Claims :
           \/ claim'[c] = claim[c]
           \/ c = k /\ claim[c] # "none" /\ claim'[c] = "deleted"
           \/ c = k /\ At("posting") /\ claim'[c] = "made",
         excused \subseteq excused', excused' \subseteq Claims,
         call.op # "get" \/ InTerminate => Settled(k)',
         \/ registry' = registry
         \/ registry' = Popped(k) /\ Settled(k)' /\ \A h \in Calls : Active(h) => handle[h].of # k,
         \/ handle' = handle
         \/ At("closing") /\ handle' = [handle EXCEPT ![call.seen].is = "half"],
         exited' \in BOOLEAN, exited' => call.op = "exit" /\ call.todo \subseteq excused',
         UNCHANGED <<box, calls>>, faults' \in 0..MaxFaults, interrupts' \in 0..MaxInterrupts
  PROVE  SyncInv'
<1> USE NoneIsNobody, NoCallTyped
    DEF SyncInv, At, Creating, InTerminate, Active, Exists, Popped, Settled, NoCall
<1>1. /\ call.claim \in Claims /\ ~exited
      /\ At("posting") => Creating /\ k = calls /\ claim[k] = "none" /\ registry[k] = None
  BY DEF PlaceOfOp, FreshClaims, TypeOK, CallState, Operations
<1>2. /\ handle' \in [Calls -> HandleState]
      /\ \A h \in Calls :
           /\ handle'[h].of = handle[h].of
           /\ \/ handle'[h].is = handle[h].is
              \/ At("closing") /\ h = call.seen /\ handle[h].of = k
                 /\ handle[h].is # "none" /\ handle'[h].is = "half"
  <2>1. handle \in [Calls -> HandleState]
    BY DEF TypeOK
  <2>2. CASE handle' = handle
    BY <2>1, <2>2
  <2>3. CASE At("closing") /\ handle' = [handle EXCEPT ![call.seen].is = "half"]
    <3>1. call.seen \in Calls /\ handle[call.seen].of = k /\ handle[call.seen].is # "none"
      BY <2>3 DEF SeenIsCurrent, TypeOK, CallState
    <3>2. /\ handle' \in [Calls -> HandleState] /\ handle'[call.seen].is = "half"
          /\ \A h \in Calls : /\ handle'[h].of = handle[h].of
                             /\ h # call.seen => handle'[h] = handle[h]
      BY <2>3, <3>1, HandleMarked
    <3>3. QED
      BY <2>3, <3>1, <3>2
  <2>4. QED
    BY <2>2, <2>3
<1>3. \A c \in Claims : registry'[c] = registry[c] \/ (c = k /\ Settled(k)' /\ registry'[c] = None)
  BY <1>1 DEF TypeOK
<1>4. TypeOK'
  BY <1>1, <1>2 DEF TypeOK
<1>5. PlaceOfOp' /\ SeenIsCurrent'
  BY DEF PlaceOfOp, SeenIsCurrent
<1>6. FreshClaims' /\ EntriesAreHandles'
  <2>1. FreshClaims'
    BY <1>1, <1>2, <1>3 DEF FreshClaims, PlaceOfOp, TypeOK, Claims, Calls
  <2>2. ASSUME NEW c \in Claims, registry'[c] # None
        PROVE  handle'[registry'[c]].is # "none" /\ handle'[registry'[c]].of = c
    BY <1>2, <1>3, <2>2 DEF EntriesAreHandles, TypeOK
  <2>3. ASSUME NEW h \in Calls, handle'[h].is # "none"
        PROVE  handle'[h].of \in Claims /\ claim'[handle'[h].of] # "none"
    BY <1>1, <1>2, <2>3 DEF EntriesAreHandles
  <2>4. EntriesAreHandles'
    BY <2>2, <2>3 DEF EntriesAreHandles
  <2>5. QED
    BY <2>1, <2>4
<1>7. OpenIsTracked'
  BY <1>1, <1>2 DEF OpenIsTracked, EntriesAreHandles, TypeOK
<1>8. AnsweredFor' /\ ClosedIsGivenUp'
  BY <1>1, <1>2, <1>3 DEF AnsweredFor, ClosedIsGivenUp, EntriesAreHandles, PlaceOfOp, Claims
<1>9. ExitWorksOff'
  BY <1>1, <1>2 DEF ExitWorksOff, ExitLeavesNoClaim, PlaceOfOp, Claims
<1>10. QED
  BY <1>4, <1>5, <1>6, <1>7, <1>8, <1>9

(* _delete_claim, at the end of a creation or of delete_sandbox.           *)
LEMMA DiscardStep ==
  ASSUME SyncInv, Discard \/ DeleteUntracked
  PROVE  SyncInv'
<1> PICK k \in Claims : k = call.claim
  BY DEF Discard, DeleteUntracked, SyncInv, PlaceOfOp, At
<1>1. ~At("idle") /\ ~At("closing") /\ ~exited /\ TypeOK
  BY DEF Discard, DeleteUntracked, SyncInv, PlaceOfOp, At
<1>2. /\ (UNCHANGED claim) \/ Deleted(k)
      /\ UNCHANGED <<box, handle, registry, calls, exited, interrupts>> /\ call' = NoCall
  BY DEF Discard, DeleteUntracked
<1>3. events' \in Seq(ClaimStates \cup BoxStates)
  BY EventsTyped DEF Discard, DeleteUntracked, SyncInv, TypeOK
<1>4. /\ excused \subseteq excused' /\ excused' \subseteq Claims
      /\ k \in excused' \/ Deleted(k)
      /\ faults' \in 0..MaxFaults /\ interrupts' \in 0..MaxInterrupts
  BY <1>1, <1>2, SyncAssumption
  DEF Discard, DeleteUntracked, Excuse, Answered, Fault, TypeOK
<1>5. Settled(k)'
  BY <1>1, <1>2, <1>4, DeletedShape DEF Settled
<1>6. QED
  BY <1>1, <1>2, <1>3, <1>4, <1>5, CallOver, DeletedShape DEF TypeOK

(* The user interrupts the call.                                           *)
LEMMA InterruptStep ==
  ASSUME SyncInv, Interrupt
  PROVE  SyncInv'
<1> PICK k \in Claims : k = call.claim
  BY DEF Interrupt, SyncInv, PlaceOfOp
<1>1. ~At("idle") /\ ~exited /\ TypeOK
  BY DEF Interrupt, SyncInv, PlaceOfOp
<1>2. /\ claim' \in [Claims -> ClaimStates]
      /\ \A c \in Claims :
           \/ claim'[c] = claim[c]
           \/ c = k /\ claim[c] # "none" /\ claim'[c] = "deleted"
           \/ c = k /\ At("posting") /\ claim'[c] = "made"
  <2>1. CASE (UNCHANGED claim) \/ Deleted(k)
    BY <1>1, <2>1, DeletedShape
  <2>2. CASE At("posting") /\ claim' = [claim EXCEPT ![k] = "made"]
    BY <1>1, <2>2 DEF TypeOK, ClaimStates
  <2>3. QED
    BY <2>1, <2>2 DEF Interrupt
<1>3. /\ excused \subseteq excused' /\ excused' \subseteq Claims
      /\ call.op # "get" \/ InTerminate => k \in excused' /\ call.todo \subseteq excused'
  BY <1>1 DEF Interrupt, Excuse, Harms, TypeOK, CallState, InTerminate
<1>4. call.op # "get" \/ InTerminate => Settled(k)'
  BY <1>3 DEF Settled
<1>5. /\ call' = NoCall /\ exited' = (call.op = "exit")
      /\ UNCHANGED <<box, registry, calls>> /\ events' = <<>>
      /\ \/ handle' = handle
         \/ At("closing") /\ handle' = [handle EXCEPT ![call.seen].is = "half"]
  BY DEF Interrupt
<1>6. faults' \in 0..MaxFaults /\ interrupts' \in 0..MaxInterrupts
  BY <1>1, SyncAssumption DEF Interrupt, TypeOK
<1>7. /\ exited' \in BOOLEAN /\ (exited' => call.op = "exit" /\ call.todo \subseteq excused')
      /\ events' \in Seq(ClaimStates \cup BoxStates)
  <2>1. call.op = "exit" => InTerminate
    BY DEF SyncInv, PlaceOfOp
  <2>2. QED
    BY <1>1, <1>3, <1>5, <2>1, EventsTyped
<1>8. QED
  BY <1>1, <1>2, <1>3, <1>4, <1>5, <1>6, <1>7, CallOver

-----------------------------------------------------------------------------
(* terminate.                                                              *)

(* The call or the loop goes on after a terminate that settled its claim.  *)
LEMMA AfterTerminate ==
  ASSUME SyncInv, At("deleting"), NEW k, k = call.claim, NEW reg, Continue(reg),
         reg = registry \/ (reg = Popped(k) /\ call.op # "terminate"),
         (UNCHANGED claim) \/ Deleted(k),
         excused \subseteq excused', excused' \subseteq Claims, Settled(k)',
         UNCHANGED <<box, handle, calls, events, interrupts>>, faults' \in 0..MaxFaults
  PROVE  SyncInv'
<1> USE NoneIsNobody DEF SyncInv, At, Creating, InTerminate, Active, Exists
<1>1. /\ k \in Claims /\ call.at # "idle" /\ call.at # "closing" /\ ~exited /\ TypeOK
      /\ call.seen # None /\ handle[call.seen].of = k /\ handle[call.seen].is = "closed"
      /\ call.op \in {"get", "delete", "delete_all", "exit"} => call.seen = registry[k]
      /\ call.op \in {"get", "delete", "delete_all", "exit", "terminate"}
  BY DEF PlaceOfOp, SeenIsCurrent, TypeOK, CallState, Operations
<1>2. /\ claim' \in [Claims -> ClaimStates]
      /\ \A c \in Claims :
           claim'[c] = claim[c] \/ (c = k /\ claim[c] # "none" /\ claim'[c] = "deleted")
  BY <1>1, DeletedShape
<1>3. reg = Popped(k) /\ call.op # "terminate" => \A h \in Calls : Active(h) => handle[h].of # k
  BY <1>1 DEF OpenIsTracked
<1>4. registry' = reg
  BY DEF Continue, DeleteNext
<1>5. CASE call' = NoCall
  <2>1. exited' \in BOOLEAN /\ (exited' => call.op = "exit" /\ call.todo \subseteq excused')
    BY <1>1, <1>5 DEF Continue, DeleteNext, InLoop, NoCall, TypeOK
  <2>2. /\ events' \in Seq(ClaimStates \cup BoxStates) /\ interrupts' \in 0..MaxInterrupts
    BY DEF TypeOK
  <2>3. QED
    BY <1>1, <1>2, <1>3, <1>4, <1>5, <2>1, <2>2, CallOver
<1>6. CASE call' # NoCall
  <2>1. PICK c \in call.todo :
          /\ call'.op = call.op /\ call'.claim = c /\ call'.seen = reg[c]
          /\ call'.at = FirstStep(reg[c]) /\ call'.todo = call.todo \ {c} /\ exited' = exited
    BY <1>6 DEF Continue, DeleteNext
  <2>2. /\ call' \in CallState /\ call.op \in {"delete_all", "exit"}
        /\ c \in Claims /\ c # k /\ registry[c] # None /\ reg[c] = registry[c]
    <3>1. reg \in [Claims -> Calls \cup {None}] /\ call.todo \in SUBSET Claims
          /\ call.op \in Operations /\ c \in Claims
      BY DEF TypeOK, CallState, Popped
    <3>2. InLoop /\ DeleteNext(reg, call.todo, call.op)
      BY <1>6 DEF Continue
    <3>3. call' \in CallState
      BY <1>1, <3>1, <3>2, LoopShape
    <3>4. c # k /\ registry[c] # None /\ reg[c] = registry[c]
      BY <3>1 DEF EntriesAreHandles, Tracked, Popped, TypeOK
    <3>5. QED
      BY <3>1, <3>2, <3>3, <3>4 DEF InLoop
  <2>3. /\ call'.at \in {"closing", "deleting"}
        /\ call'.at = "deleting" => handle[registry[c]].is = "closed"
    BY <2>1, <2>2 DEF FirstStep
  <2>4. \A d \in Claims : registry'[d] = registry[d] \/ (d = k /\ registry'[d] = None)
    BY <1>1, <1>4 DEF Popped, TypeOK
  <2>5. TypeOK'
    BY <1>1, <1>2, <1>4, <2>1, <2>2 DEF TypeOK, Popped
  <2>6. PlaceOfOp'
    BY <1>1, <2>1, <2>2, <2>3 DEF PlaceOfOp
  <2>7. FreshClaims'
    BY <1>1, <1>2, <2>1, <2>2, <2>3, <2>4 DEF FreshClaims, Claims
  <2>8. EntriesAreHandles'
    BY <1>1, <1>2, <1>4, <2>1, <2>2, <2>4 DEF EntriesAreHandles, Tracked, Popped, TypeOK
  <2>9. SeenIsCurrent'
    BY <1>4, <2>1, <2>2, <2>3 DEF SeenIsCurrent, EntriesAreHandles
  <2>10. OpenIsTracked'
    BY <1>1, <1>3, <1>4, <2>4 DEF OpenIsTracked, EntriesAreHandles
  <2>11. AnsweredFor' /\ ClosedIsGivenUp'
    BY <1>1, <1>2, <2>1, <2>2, <2>3, <2>4 DEF AnsweredFor, ClosedIsGivenUp, EntriesAreHandles,
       Settled, Claims
  <2>12. ExitWorksOff'
    BY <1>1, <1>2, <2>1, <2>2 DEF ExitWorksOff, ExitLeavesNoClaim, Settled, Claims
  <2>13. QED
    BY <2>5, <2>6, <2>7, <2>8, <2>9, <2>10, <2>11, <2>12
<1>7. QED
  BY <1>5, <1>6

(* The deletion of a claim is answered.                                    *)
LEMMA ClaimDeletedStep ==
  ASSUME SyncInv, ClaimDeleted
  PROVE  SyncInv'
<1> PICK k \in Claims : k = call.claim
  BY DEF ClaimDeleted, At, SyncInv, PlaceOfOp
<1>1. /\ At("deleting") /\ Deleted(k) /\ Continue(AfterDeletion(registry))
      /\ UNCHANGED <<box, handle, calls, events, excused, interrupts>> /\ faults' = faults
  BY DEF ClaimDeleted, bounds
<1>2. AfterDeletion(registry) = registry \/
        (AfterDeletion(registry) = Popped(k) /\ call.op # "terminate")
  BY DEF AfterDeletion
<1>3. TypeOK /\ faults' \in 0..MaxFaults /\ excused \subseteq excused' /\ excused' \subseteq Claims
  BY <1>1 DEF SyncInv, TypeOK
<1>4. Settled(k)'
  BY <1>1, <1>3, DeletedShape DEF Settled
<1>5. QED
  BY <1>1, <1>2, <1>3, <1>4, AfterTerminate

(* The deletion of a claim fails, carried out or not.                      *)
LEMMA DeletionFailsStep ==
  ASSUME SyncInv, DeletionFails
  PROVE  SyncInv'
<1> PICK k \in Claims : k = call.claim
  BY DEF DeletionFails, At, SyncInv, PlaceOfOp
<1>1. /\ At("deleting") /\ ((UNCHANGED claim) \/ Deleted(k))
      /\ Continue(registry) /\ UNCHANGED <<box, handle, calls, events, interrupts>>
  BY DEF DeletionFails
<1>2. faults' \in 0..MaxFaults /\ excused \subseteq excused' /\ excused' \subseteq Claims
      /\ Settled(k)'
  BY SyncAssumption DEF DeletionFails, Fault, Excuse, SyncInv, TypeOK, Settled
<1>3. QED
  BY <1>1, <1>2, AfterTerminate

(* The handle in hand is the one of the entry: closing it opens none.      *)
LEMMA CloseConnectionStep ==
  ASSUME SyncInv, CloseConnection
  PROVE  SyncInv'
<1> USE NoneIsNobody
    DEF SyncInv, At, Creating, InTerminate, Active, Exists, cluster, bounds, CloseConnection
<1>1. /\ call.claim \in Claims /\ call.at = "closing" /\ TypeOK
      /\ call.seen \in Calls /\ handle[call.seen].of = call.claim /\ handle[call.seen].is # "none"
      /\ call.op \notin {"create", "none"}
  BY DEF PlaceOfOp, SeenIsCurrent, TypeOK, CallState
<1>2. /\ call' \in CallState /\ call'.at = "deleting" /\ call'.op = call.op
      /\ call'.claim = call.claim /\ call'.seen = call.seen /\ call'.todo = call.todo
      /\ events' \in Seq(ClaimStates \cup BoxStates)
  BY <1>1, GotoShape DEF PC
<1>3. /\ handle' \in [Calls -> HandleState] /\ handle'[call.seen].is = "closed"
      /\ \A h \in Calls : /\ handle'[h].of = handle[h].of
                         /\ h # call.seen => handle'[h] = handle[h]
  BY <1>1, HandleMarked
<1>4. TypeOK' /\ PlaceOfOp'
  BY <1>1, <1>2, <1>3 DEF TypeOK, PlaceOfOp
<1>5. FreshClaims' /\ EntriesAreHandles'
  <2>1. FreshClaims'
    <3>1. /\ call.op = "get" => call.seen # calls
          /\ call.seen <= calls
      BY <1>1 DEF FreshClaims, TypeOK, Calls
    <3>2. QED
      BY <1>1, <1>2, <1>3, <3>1 DEF FreshClaims, PlaceOfOp, Calls, TypeOK
  <2>2. EntriesAreHandles'
    BY <1>1, <1>2, <1>3 DEF EntriesAreHandles, Tracked, TypeOK
  <2>3. QED
    BY <2>1, <2>2
<1>6. SeenIsCurrent'
  BY <1>1, <1>2, <1>3 DEF SeenIsCurrent
<1>7. OpenIsTracked' /\ AnsweredFor' /\ ClosedIsGivenUp' /\ ExitWorksOff'
  BY <1>1, <1>2, <1>3 DEF OpenIsTracked, AnsweredFor, ClosedIsGivenUp, ExitWorksOff, ExitLeavesNoClaim
<1>8. QED
  BY <1>4, <1>5, <1>6, <1>7

-----------------------------------------------------------------------------
(* The end of a creation, and get_sandbox.                                 *)

(* The number of the call is the name of a handle nobody has yet.          *)
LEMMA ConstructStep ==
  ASSUME SyncInv, Construct
  PROVE  SyncInv'
<1> USE NoneIsNobody, NoCallTyped
    DEF SyncInv, At, Creating, InTerminate, Active, Exists, cluster, bounds, Construct, NoCall
<1> DEFINE made == [of |-> call.claim, is |-> "open"]
<1>1. /\ call.claim \in Claims /\ call.op \in {"create", "get"} /\ calls \in Calls
      /\ handle[calls].is = "none" /\ registry[call.claim] = None
      /\ claim[call.claim] # "none" /\ ~exited /\ calls # None
  BY DEF PlaceOfOp, FreshClaims, SeenIsCurrent, TypeOK, CallState, Operations
<1>2. /\ made \in HandleState /\ made.of = call.claim /\ made.is = "open"
  BY <1>1 DEF HandleState
<1> HIDE DEF made
<1>3. /\ handle' \in [Calls -> HandleState] /\ handle'[calls] = made
      /\ \A h \in Calls : h # calls => handle'[h] = handle[h]
  BY <1>1, <1>2 DEF TypeOK, made
<1>4. /\ registry' \in [Claims -> Calls \cup {None}] /\ registry'[call.claim] = calls
      /\ \A c \in Claims : c # call.claim => registry'[c] = registry[c]
  BY <1>1 DEF TypeOK
<1>5. TypeOK' /\ PlaceOfOp'
  BY <1>1, <1>3, <1>4 DEF TypeOK, PlaceOfOp
<1>6. FreshClaims'
  BY <1>1, <1>2, <1>3, <1>4 DEF FreshClaims, Calls, Claims, TypeOK
<1>7. EntriesAreHandles' /\ SeenIsCurrent'
  <2>1. ASSUME NEW c \in Claims, registry'[c] # None
        PROVE  handle'[registry'[c]].is # "none" /\ handle'[registry'[c]].of = c
    BY <1>1, <1>2, <1>3, <1>4, <2>1 DEF EntriesAreHandles, TypeOK
  <2>2. ASSUME NEW h \in Calls, handle'[h].is # "none"
        PROVE  handle'[h].of \in Claims /\ claim'[handle'[h].of] # "none"
    BY <1>1, <1>2, <1>3, <2>2 DEF EntriesAreHandles
  <2>3. QED
    BY <2>1, <2>2 DEF EntriesAreHandles, SeenIsCurrent
<1>8. OpenIsTracked'
  BY <1>1, <1>2, <1>3, <1>4 DEF OpenIsTracked, EntriesAreHandles
<1>9. AnsweredFor' /\ ClosedIsGivenUp' /\ ExitWorksOff'
  BY <1>1, <1>2, <1>3, <1>4 DEF AnsweredFor, ClosedIsGivenUp, ExitWorksOff, ExitLeavesNoClaim, Claims
<1>10. QED
  BY <1>5, <1>6, <1>7, <1>8, <1>9

(* The handle cannot be made.                                              *)
LEMMA ConstructFailsStep ==
  ASSUME SyncInv, ConstructFails
  PROVE  SyncInv'
<1>1. /\ call.op \in {"create", "get"} /\ ~InTerminate
      /\ faults' \in 0..MaxFaults
  BY SyncAssumption DEF ConstructFails, Fault, SyncInv, PlaceOfOp, At, Creating, InTerminate, TypeOK,
     CallState, Operations
<1>2. CASE call.op = "create"
  BY <1>1, <1>2, CallMoves DEF ConstructFails, Creating, PC, cluster
<1>3. CASE call.op = "get"
  <2>1. call' = NoCall /\ events' \in Seq(ClaimStates \cup BoxStates)
    BY <1>3, EventsTyped DEF ConstructFails, SyncInv
  <2>2. QED
    BY <1>1, <1>3, <2>1, GetEnds DEF ConstructFails
<1>4. QED
  BY <1>1, <1>2, <1>3

(* What get_sandbox pops was closed, of a claim that is gone or excused.   *)
LEMMA ReadSandboxStep ==
  ASSUME SyncInv, ReadSandbox
  PROVE  SyncInv'
<1>1. /\ call.op = "get" /\ call.claim \in Claims /\ At("reading") /\ ~InTerminate /\ TypeOK
      /\ UNCHANGED <<cluster, handle, calls, excused, exited, interrupts>> /\ faults' = faults
      /\ faults' \in 0..MaxFaults
  BY DEF ReadSandbox, bounds, SyncInv, PlaceOfOp, At, Creating, InTerminate, TypeOK, CallState,
     Operations
<1>2. CASE call.seen # None /\ Active(call.seen)
  <2>1. call' = NoCall /\ UNCHANGED <<registry, events>>
    BY <1>2 DEF ReadSandbox
  <2>2. QED
    BY <1>1, <2>1, GetEnds DEF TypeOK
<1>3. CASE ~(call.seen # None /\ Active(call.seen))
  <2> USE NoneIsNobody DEF SyncInv, At, Creating, InTerminate, Active, Exists, cluster
  <2>1. registry' = Popped(call.claim) /\ Goto("constructing")
    BY <1>3 DEF ReadSandbox
  <2>2. /\ call' \in CallState /\ call'.at = "constructing" /\ call'.op = "get"
        /\ call'.claim = call.claim /\ call'.seen = call.seen /\ call'.todo = call.todo
        /\ events' \in Seq(ClaimStates \cup BoxStates)
    BY <1>1, <2>1, GotoShape DEF PC
  <2>3. /\ registry' \in [Claims -> Calls \cup {None}] /\ registry'[call.claim] = None
        /\ \A c \in Claims : c # call.claim => registry'[c] = registry[c]
    BY <1>1, <2>1 DEF Popped, TypeOK
  <2>4. /\ claim[call.claim] # "none" /\ call.seen = registry[call.claim] /\ ~exited
        /\ \A h \in Calls : Active(h) => handle[h].of # call.claim
        /\ registry[call.claim] # None => ~Exists(call.claim) \/ call.claim \in excused
    <3>1. claim[call.claim] # "none" /\ call.seen = registry[call.claim] /\ ~exited
      BY <1>1 DEF FreshClaims, SeenIsCurrent, PlaceOfOp
    <3>2. ASSUME registry[call.claim] # None
          PROVE  ~Exists(call.claim) \/ call.claim \in excused
      <4>1. /\ call.seen \in Calls /\ handle[call.seen].of = call.claim
            /\ handle[call.seen].is \in {"closed", "half"}
        BY <1>1, <1>3, <3>1, <3>2 DEF EntriesAreHandles, TypeOK, HandleState
      <4>2. QED
        BY <1>1, <4>1 DEF ClosedIsGivenUp
    <3>3. QED
      BY <1>1, <1>3, <3>1, <3>2 DEF OpenIsTracked
  <2>5. TypeOK' /\ PlaceOfOp'
    BY <1>1, <2>2, <2>3, <2>4 DEF TypeOK, PlaceOfOp
  <2>6. FreshClaims' /\ EntriesAreHandles' /\ SeenIsCurrent'
    BY <1>1, <2>2, <2>3, <2>4 DEF FreshClaims, EntriesAreHandles, SeenIsCurrent, Tracked, Claims
  <2>7. OpenIsTracked' /\ AnsweredFor' /\ ClosedIsGivenUp' /\ ExitWorksOff'
    BY <1>1, <2>2, <2>3, <2>4 DEF OpenIsTracked, AnsweredFor, ClosedIsGivenUp, ExitWorksOff,
       ExitLeavesNoClaim, EntriesAreHandles, Claims
  <2>8. QED
    BY <2>5, <2>6, <2>7
<1>4. QED
  BY <1>2, <1>3

-----------------------------------------------------------------------------
(* The cluster.                                                            *)

(* The cluster's steps are steps of what exists.                           *)
LEMMA ClusterStep ==
  ASSUME SyncInv, UNCHANGED <<user, bounds>>,
         claim' \in [Claims -> ClaimStates], box' \in [Claims -> BoxStates],
         \A c \in Claims : claim'[c] = claim[c] \/ (Exists(c) /\ claim'[c] # "none"),
         events' \in Seq(ClaimStates \cup BoxStates),
         At("resolving") => events' \in Seq(ClaimStates),
         At("waiting") => events' \in Seq(BoxStates)
  PROVE  SyncInv'
<1> USE DEF SyncInv, At, Creating, InTerminate, Active, Exists, user, bounds
<1>1. TypeOK' /\ PlaceOfOp'
  BY DEF TypeOK, PlaceOfOp
<1>2. FreshClaims' /\ EntriesAreHandles' /\ SeenIsCurrent'
  BY DEF FreshClaims, EntriesAreHandles, SeenIsCurrent, Tracked, PlaceOfOp, Claims
<1>3. OpenIsTracked' /\ AnsweredFor' /\ ClosedIsGivenUp' /\ ExitWorksOff'
  BY DEF OpenIsTracked, AnsweredFor, ClosedIsGivenUp, ExitWorksOff, ExitLeavesNoClaim,
     EntriesAreHandles, Claims
<1>4. QED
  BY <1>1, <1>2, <1>3

(* What an open watch hears of is a state of what it watches.              *)
LEMMA HeardTyped ==
  ASSUME SyncInv, NEW pc, NEW c, NEW state, Heard(pc, c, state),
         \/ pc = "resolving" /\ state \in ClaimStates
         \/ pc = "waiting" /\ state \in BoxStates
  PROVE  /\ events' \in Seq(ClaimStates \cup BoxStates)
         /\ At("resolving") => events' \in Seq(ClaimStates)
         /\ At("waiting") => events' \in Seq(BoxStates)
<1>1. /\ events \in Seq(ClaimStates \cup BoxStates)
      /\ At("resolving") => events \in Seq(ClaimStates)
      /\ At("waiting") => events \in Seq(BoxStates)
  BY DEF SyncInv, TypeOK, PlaceOfOp
<1>2. QED
  BY <1>1 DEF Heard, At

(* The cluster moves a claim.                                              *)
LEMMA ClaimMovesStep ==
  ASSUME SyncInv, NEW c \in Claims, ClaimNamed(c) \/ ClaimFailed(c) \/ ClaimVanishes(c)
  PROVE  SyncInv'
<1>1. PICK to \in {"named", "failed", "deleted"} : ClaimMoves(c, to) /\ Exists(c)
  BY DEF ClaimNamed, ClaimFailed, ClaimVanishes, Exists
<1>2. box' \in [Claims -> BoxStates]
  BY DEF ClaimNamed, ClaimFailed, ClaimVanishes, SyncInv, TypeOK, BoxStates
<1>3. /\ claim' \in [Claims -> ClaimStates]
      /\ \A d \in Claims : claim'[d] = claim[d] \/ (Exists(d) /\ claim'[d] # "none")
  BY <1>1 DEF ClaimMoves, SyncInv, TypeOK, ClaimStates
<1>4. Heard("resolving", c, to) /\ to \in ClaimStates /\ UNCHANGED <<user, bounds>>
  BY <1>1 DEF ClaimMoves, ClaimStates
<1>5. QED
  BY <1>2, <1>3, <1>4, HeardTyped, ClusterStep

(* The cluster moves a sandbox.                                            *)
LEMMA BoxMovesStep ==
  ASSUME SyncInv, NEW c \in Claims, BoxMoves(c)
  PROVE  SyncInv'
<1>1. box' \in [Claims -> BoxStates] /\ claim' = claim /\ UNCHANGED <<user, bounds>>
  BY DEF BoxMoves, SyncInv, TypeOK, BoxStates
<1>2. PICK state \in BoxStates : Heard("waiting", c, state)
  BY <1>1 DEF BoxMoves, Heard
<1>3. claim' \in [Claims -> ClaimStates]
  BY <1>1 DEF SyncInv, TypeOK
<1>4. QED
  BY <1>1, <1>2, <1>3, HeardTyped, ClusterStep

-----------------------------------------------------------------------------
(* The theorems.                                                           *)

(* The invariant is true at first.                                         *)
LEMMA InitSafe == Init => SyncInv
<1> SUFFICES ASSUME Init PROVE SyncInv
  OBVIOUS
<1> USE NoneIsNobody, NoCallTyped DEF Init
<1>1. TypeOK
  <2>1. calls \in 0..MaxCalls /\ faults \in 0..MaxFaults /\ interrupts \in 0..MaxInterrupts
    BY SyncAssumption
  <2>2. [h \in Calls |-> [of |-> None, is |-> "none"]] \in [Calls -> HandleState]
    BY DEF HandleState
  <2>3. claim \in [Claims -> ClaimStates] /\ box \in [Claims -> BoxStates]
    BY DEF ClaimStates, BoxStates
  <2>4. registry \in [Claims -> Calls \cup {None}] /\ excused \subseteq Claims
    OBVIOUS
  <2>5. call \in CallState /\ exited \in BOOLEAN
    OBVIOUS
  <2>6. events \in Seq(ClaimStates \cup BoxStates)
    OBVIOUS
  <2>7. QED
    BY <2>1, <2>2, <2>3, <2>4, <2>5, <2>6 DEF TypeOK
<1>2. /\ \A c \in Calls : c \in Claims /\ c \in Nat /\ c \notin Foreign /\ claim[c] = "none"
      /\ \A h \in Calls : handle[h].is = "none"
      /\ \A c \in Claims : registry[c] = None
      /\ call.op = "none" /\ call.at = "idle" /\ call.claim = None /\ call.todo = {}
  <2>1. ASSUME NEW c \in Calls
        PROVE  c \in Claims /\ c \in Nat /\ c \notin Foreign /\ claim[c] = "none"
    <3>1. c \in Claims /\ c \in Nat /\ c \notin Foreign
      BY SyncAssumption DEF Calls, Claims
    <3>2. QED
      BY <3>1
  <2>2. QED
    BY <2>1 DEF NoCall
<1>3. PlaceOfOp /\ FreshClaims
  BY <1>2 DEF PlaceOfOp, FreshClaims, At, Creating, InTerminate
<1>4. EntriesAreHandles /\ SeenIsCurrent
  BY <1>2 DEF EntriesAreHandles, SeenIsCurrent, At, InTerminate
<1>5. OpenIsTracked /\ AnsweredFor /\ ClosedIsGivenUp /\ ExitWorksOff
  BY <1>2 DEF OpenIsTracked, AnsweredFor, ClosedIsGivenUp, ExitWorksOff, ExitLeavesNoClaim, Exists,
     Active
<1>6. QED
  BY <1>1, <1>3, <1>4, <1>5 DEF SyncInv

(* Every step keeps it.                                                    *)
LEMMA StepSafe == SyncInv /\ [Next]_vars => SyncInv'
<1> SUFFICES ASSUME SyncInv, [Next]_vars PROVE SyncInv'
  OBVIOUS
<1>1. CASE Start
  BY <1>1, CreateSandboxStep, ListActiveStep, DeleteAllStep, ExitStep, GetSandboxStep,
     DeleteSandboxStep, TerminateStep DEF Start
<1>2. CASE Proceed
  BY <1>2, PostAnsweredStep, PostFailsStep, DiscardStep, NextEventStep, ConstructStep,
     ConstructFailsStep, ReadSandboxStep, ReadFailsStep, CloseConnectionStep, ClaimDeletedStep,
     DeletionFailsStep DEF Proceed
<1>3. CASE StreamEnds \/ TimesOut \/ Interrupt
  BY <1>3, StreamEndsStep, TimesOutStep, InterruptStep
<1>4. CASE Cluster
  BY <1>4, ClaimMovesStep, BoxMovesStep DEF Cluster
<1>5. CASE UNCHANGED vars
  <2>1. UNCHANGED <<cluster, user, bounds>> /\ events' = events
    BY <1>5 DEF vars
  <2>2. QED
    BY <2>1, StreamMoves DEF SyncInv, TypeOK, PlaceOfOp
<1>6. QED
  BY <1>1, <1>2, <1>3, <1>4, <1>5 DEF Next

(* The inductive invariant: where each call is and what it still knows.    *)
LEMMA SyncInvariant == Spec => []SyncInv
BY InitSafe, StepSafe, PTL DEF Spec

(* The client's state keeps its shape, whatever fails or is interrupted.   *)
THEOREM SyncTypeOK == Spec => []TypeOK
<1>1. SyncInv => TypeOK
  BY DEF SyncInv
<1>2. QED
  BY <1>1, SyncInvariant, PTL

(* Every open handle is in the registry, where delete_all finds it: no     *)
(* call that fails or is interrupted leaks a tunnel.                       *)
THEOREM SyncOpenIsTracked == Spec => []OpenIsTracked
<1>1. SyncInv => OpenIsTracked
  BY DEF SyncInv
<1>2. QED
  BY <1>1, SyncInvariant, PTL

(* After atexit the program leaves no claim it made but the excused ones.  *)
THEOREM SyncExitLeavesNoClaim == Spec => []ExitLeavesNoClaim
<1>1. SyncInv => ExitLeavesNoClaim
  BY DEF SyncInv, ExitWorksOff
<1>2. QED
  BY <1>1, SyncInvariant, PTL

-----------------------------------------------------------------------------
(* The registry implements SandboxLease.                                   *)

(* The client answers for the claim's creation.                            *)
Pending(c) == Creating /\ call.claim = c

(* The lease of a claim, case by case.                                     *)
LEMMA LeaseOf ==
  ASSUME NEW c \in Claims
  PROVE  /\ claim[c] = "none" => Lease[c] = "absent"
         /\ claim[c] = "deleted" => Lease[c] = "ended"
         /\ Exists(c) /\ registry[c] # None => Lease[c] = "leased"
         /\ Exists(c) /\ registry[c] = None /\ Pending(c) => Lease[c] = "pending"
         /\ Exists(c) /\ registry[c] = None /\ ~Pending(c) => Lease[c] = "loose"
BY DEF Lease, Exists, Pending, Creating

(* The place of a claim in the lease after a step.                         *)
LEMMA LeaseOfNext ==
  ASSUME NEW c \in Claims
  PROVE  /\ claim'[c] = "none" => Lease'[c] = "absent"
         /\ claim'[c] = "deleted" => Lease'[c] = "ended"
         /\ Exists(c)' /\ registry'[c] # None => Lease'[c] = "leased"
         /\ Exists(c)' /\ registry'[c] = None /\ Pending(c)' => Lease'[c] = "pending"
         /\ Exists(c)' /\ registry'[c] = None /\ ~Pending(c)' => Lease'[c] = "loose"
BY DEF Lease, Exists, Pending, Creating

(* A step that takes every lease as it is, one to its next state, or some  *)
(* excused ones to loose is a step of SandboxLease.                        *)
LEMMA LeaseMoves ==
  ASSUME excused \subseteq excused',
         \/ \A c \in Claims : Lease'[c] = Lease[c]
         \/ \E k \in Claims :
              /\ \A c \in Claims \ {k} : Lease'[c] = Lease[c]
              /\ \/ Lease[k] = "absent" /\ Lease'[k] = "pending"
                 \/ Lease[k] \in {"pending", "loose"} /\ Lease'[k] = "leased"
                 \/ Lease[k] \in {"pending", "leased", "loose"} /\ Lease'[k] = "ended"
         \/ \A c \in Claims :
              \/ Lease'[c] = Lease[c]
              \/ /\ Lease[c] \in {"absent", "pending", "leased"} /\ Lease'[c] = "loose"
                 /\ c \in excused'
  PROVE  L!Next
<1>1. Lease = [c \in Claims |-> Lease[c]] /\ Lease' = [c \in Claims |-> Lease'[c]]
  BY DEF Lease
<1>2. CASE \A c \in Claims : Lease'[c] = Lease[c]
  <2>1. Lease' = Lease
    BY <1>1, <1>2, Zenon
  <2>2. QED
    BY <2>1 DEF L!Next
<1>3. ASSUME NEW k \in Claims, \A c \in Claims \ {k} : Lease'[c] = Lease[c],
             \/ Lease[k] = "absent" /\ Lease'[k] = "pending"
             \/ Lease[k] \in {"pending", "loose"} /\ Lease'[k] = "leased"
             \/ Lease[k] \in {"pending", "leased", "loose"} /\ Lease'[k] = "ended"
      PROVE  L!Next
  <2>1. Lease' = [Lease EXCEPT ![k] = Lease'[k]]
    BY <1>1, <1>3
  <2>2. QED
    BY <1>3, <2>1 DEF L!Next, L!Make, L!Grant, L!End, L!Becomes
<1>4. CASE \A c \in Claims :
             \/ Lease'[c] = Lease[c]
             \/ /\ Lease[c] \in {"absent", "pending", "leased"} /\ Lease'[c] = "loose"
                /\ c \in excused'
  <2> DEFINE lost == {c \in Claims : Lease'[c] # Lease[c]}
  <2>1. Lease' = [c \in Claims |-> IF c \in lost THEN "loose" ELSE Lease[c]]
    BY <1>1, <1>4
  <2>2. lost \in SUBSET Claims /\ lost \subseteq excused'
        /\ \A c \in lost : Lease[c] \in {"absent", "pending", "leased"}
    BY <1>4
  <2>3. QED
    BY <2>1, <2>2 DEF L!Next, L!Lose
<1>5. QED
  BY <1>2, <1>3, <1>4

(* A step that leaves every claim as it is, or only its state short of     *)
(* deletion, and every entry, leaves every lease, when the creations of    *)
(* the claims that exist go on.                                            *)
LEMMA LeaseStays ==
  ASSUME SyncInv,
         \A c \in Claims : claim'[c] = claim[c] \/ (Exists(c) /\ Exists(c)'),
         registry' = registry, excused \subseteq excused',
         \A c \in Claims : claim[c] # "none" => (Pending(c)' <=> Pending(c))
  PROVE  L!Next
<1>1. ASSUME NEW c \in Claims
      PROVE  Lease'[c] = Lease[c]
  <2>1. claim[c] \in ClaimStates
    BY DEF SyncInv, TypeOK
  <2>2. CASE claim[c] \in {"none", "deleted"}
    BY <2>2, LeaseOf, LeaseOfNext DEF Exists
  <2>3. CASE Exists(c)
    <3>1. Exists(c)'
      BY <2>3 DEF Exists
    <3>2. Pending(c)' <=> Pending(c)
      BY <2>3 DEF Exists
    <3>3. QED
      BY <2>3, <3>1, <3>2, LeaseOf, LeaseOfNext
  <2>4. QED
    BY <2>1, <2>2, <2>3 DEF ClaimStates, Exists
<1>2. QED
  BY <1>1, LeaseMoves

(* A call that gives its claim up has settled it: the lease is as it was,  *)
(* it ended, or the claim is excused.                                      *)
LEMMA LeaseGivenUp ==
  ASSUME SyncInv, NEW k \in Claims, Creating => k = call.claim, call'.op # "create",
         claim' \in [Claims -> ClaimStates],
         \A c \in Claims :
           \/ claim'[c] = claim[c]
           \/ c = k /\ claim[c] # "none" /\ claim'[c] = "deleted"
           \/ c = k /\ At("posting") /\ claim'[c] = "made",
         excused \subseteq excused',
         Creating => Settled(k)',
         registry' = registry \/ (registry' = Popped(k) /\ Settled(k)')
  PROVE  L!Next
<1>1. /\ \A c \in Claims : claim[c] \in ClaimStates /\ claim'[c] \in ClaimStates
      /\ \A c \in Claims \ {k} : claim'[c] = claim[c] /\ registry'[c] = registry[c]
                                /\ ~Pending(c) /\ ~Pending(c)'
      /\ ~Pending(k)'
      /\ registry'[k] = registry[k] \/ (registry'[k] = None /\ Settled(k)')
      /\ At("posting") => Creating /\ claim[k] = "none" /\ registry[k] = None
  <2>1. /\ claim \in [Claims -> ClaimStates] /\ registry \in [Claims -> Calls \cup {None}]
        /\ \A c \in Claims \ {k} : ~Pending(c)
        /\ \A c \in Claims : ~Pending(c)'
    BY DEF SyncInv, TypeOK, Pending, Creating
  <2>2. At("posting") => Creating /\ claim[k] = "none" /\ registry[k] = None
    BY DEF SyncInv, TypeOK, Creating, PlaceOfOp, FreshClaims, At, InTerminate, CallState, Operations
  <2>3. \A c \in Claims \ {k} : claim'[c] = claim[c] /\ registry'[c] = registry[c]
    BY <2>1 DEF Popped
  <2>4. registry'[k] = registry[k] \/ (registry'[k] = None /\ Settled(k)')
    BY <2>1 DEF Popped
  <2>5. QED
    BY <2>1, <2>2, <2>3, <2>4
<1>2. ASSUME NEW c \in Claims \ {k}
      PROVE  Lease'[c] = Lease[c]
  BY <1>1, LeaseOf, LeaseOfNext DEF ClaimStates, Exists
<1>3. CASE claim'[k] = "deleted" /\ Exists(k)
  <2>1. Lease'[k] = "ended" /\ Lease[k] \in {"pending", "leased", "loose"}
    BY <1>3, LeaseOf, LeaseOfNext
  <2>2. QED
    BY <1>2, <2>1, LeaseMoves
<1>4. CASE Exists(k)' /\ ~Exists(k)
  <2>1. At("posting") /\ Creating /\ claim[k] = "none" /\ registry'[k] = None
    BY <1>1, <1>4 DEF Exists
  <2>2. Lease[k] = "absent" /\ Lease'[k] = "loose" /\ k \in excused'
    BY <1>1, <1>4, <2>1, LeaseOf, LeaseOfNext DEF Settled
  <2>3. QED
    BY <1>2, <2>2, LeaseMoves
<1>5. CASE Exists(k)' /\ Exists(k)
  <2>1. Lease'[k] = Lease[k] \/
          (Lease[k] \in {"pending", "leased"} /\ Lease'[k] = "loose" /\ k \in excused')
    <3>1. CASE registry'[k] # None
      BY <1>1, <1>5, <3>1, LeaseOf, LeaseOfNext
    <3>2. CASE registry'[k] = None /\ registry[k] # None
      BY <1>1, <1>5, <3>2, LeaseOf, LeaseOfNext DEF Settled
    <3>3. CASE registry'[k] = None /\ registry[k] = None
      BY <1>1, <1>5, <3>3, LeaseOf, LeaseOfNext DEF Settled, Pending
    <3>4. QED
      BY <3>1, <3>2, <3>3
  <2>2. QED
    BY <1>2, <2>1, LeaseMoves
<1>6. CASE ~Exists(k)' /\ ~Exists(k)
  <2>1. claim'[k] \in {"none", "deleted"} /\ claim'[k] = claim[k]
    BY <1>1, <1>6 DEF ClaimStates, Exists
  <2>2. Lease'[k] = Lease[k]
    BY <2>1, LeaseOf, LeaseOfNext
  <2>3. QED
    BY <1>2, <2>2, LeaseMoves
<1>7. ~Exists(k)' /\ Exists(k) => claim'[k] = "deleted"
  BY DEF Exists
<1>8. QED
  BY <1>3, <1>4, <1>5, <1>6, <1>7

(* Nothing is promised by beginning a call.                                *)
LEMMA StartLease ==
  ASSUME SyncInv, Start, ~ListActive
  PROVE  L!Next
<1>1. /\ claim' = claim /\ registry' = registry /\ excused' = excused
      /\ call.op = "none"
  BY DEF SyncInv, Start, CreateSandbox, GetSandbox, DeleteSandbox, Terminate, DeleteAll, Exit, Begin,
     DeleteNext, PlaceOfOp, At, cluster
<1>2. CASE CreateSandbox
  <2>1. call'.claim = calls + 1
    BY <1>2 DEF CreateSandbox, Begin
  <2>2. calls + 1 \in Calls /\ claim[calls + 1] = "none"
    BY <1>2, SyncAssumption DEF CreateSandbox, Begin, SyncInv, TypeOK, FreshClaims, Calls
  <2>3. QED
    BY <1>1, <2>1, <2>2, LeaseStays DEF Pending, Creating
<1>3. CASE ~CreateSandbox
  <2>1. call'.op # "create"
    BY <1>3 DEF Start, GetSandbox, DeleteSandbox, Terminate, DeleteAll, Exit, Begin, DeleteNext, NoCall
  <2>2. QED
    BY <1>1, <2>1, LeaseStays DEF Pending, Creating
<1>4. QED
  BY <1>2, <1>3

(* What list_active_sandboxes forgets is gone or excused.                  *)
LEMMA ListActiveLease ==
  ASSUME SyncInv, ListActive
  PROVE  L!Next
<1>1. /\ claim' = claim /\ excused' = excused /\ call.op = "none" /\ call'.op = "none" /\ At("idle")
      /\ \A c \in Claims :
           registry'[c] = IF registry[c] # None /\ ~Active(registry[c]) THEN None ELSE registry[c]
  BY DEF SyncInv, ListActive, Begin, PlaceOfOp, At, cluster
<1>2. ASSUME NEW c \in Claims
      PROVE  \/ Lease'[c] = Lease[c]
             \/ /\ Lease[c] \in {"absent", "pending", "leased"} /\ Lease'[c] = "loose"
                /\ c \in excused'
  <2>1. CASE claim[c] \in {"none", "deleted"}
    BY <1>1, <2>1, LeaseOf, LeaseOfNext
  <2>2. CASE Exists(c) /\ registry'[c] = registry[c]
    <3>1. Exists(c)' /\ ~Pending(c) /\ ~Pending(c)'
      BY <1>1, <2>2 DEF Exists, Pending, Creating
    <3>2. QED
      BY <2>2, <3>1, LeaseOf, LeaseOfNext
  <2>3. CASE Exists(c) /\ registry'[c] # registry[c]
    <3>1. /\ registry[c] \in Calls /\ handle[registry[c]].of = c /\ registry'[c] = None
          /\ handle[registry[c]].is \in {"closed", "half"}
      BY <1>1, <2>3, NoneIsNobody DEF SyncInv, TypeOK, HandleState, EntriesAreHandles, Active
    <3>2. c \in excused
      BY <1>1, <2>3, <3>1 DEF SyncInv, ClosedIsGivenUp, At
    <3>3. Exists(c)' /\ ~Pending(c)'
      BY <1>1, <2>3 DEF Exists, Pending, Creating
    <3>4. Lease[c] = "leased" /\ Lease'[c] = "loose"
      BY <2>3, <3>1, <3>3, LeaseOf, LeaseOfNext, NoneIsNobody
    <3>5. QED
      BY <1>1, <3>2, <3>4
  <2>4. QED
    BY <2>1, <2>2, <2>3 DEF SyncInv, TypeOK, ClaimStates, Exists
<1>3. QED
  BY <1>1, <1>2, LeaseMoves

(* The request of a creation makes a pending claim or nothing.             *)
LEMMA PostLease ==
  ASSUME SyncInv, PostAnswered \/ PostFails
  PROVE  L!Next
<1> PICK k \in Claims : k = call.claim
  BY DEF PostAnswered, PostFails, SyncInv, PlaceOfOp, At
<1>1. /\ Creating /\ claim[k] = "none" /\ registry[k] = None
      /\ Creating' /\ call'.claim = k /\ registry' = registry /\ excused' = excused
      /\ claim' = claim \/ claim' = [claim EXCEPT ![k] = "made"]
      /\ claim \in [Claims -> ClaimStates]
  BY DEF PostAnswered, PostFails, Goto, SyncInv, PlaceOfOp, FreshClaims, At, Creating, InTerminate,
     TypeOK, CallState, Operations
<1>2. CASE claim' = claim
  BY <1>1, <1>2, LeaseStays DEF Pending
<1>3. CASE claim' = [claim EXCEPT ![k] = "made"]
  <2>1. Exists(k)' /\ Pending(k)' /\ registry'[k] = None
    BY <1>1, <1>3 DEF Exists, Pending
  <2>2. Lease[k] = "absent" /\ Lease'[k] = "pending"
    BY <1>1, <2>1, LeaseOf, LeaseOfNext
  <2>3. ASSUME NEW c \in Claims \ {k}
        PROVE  Lease'[c] = Lease[c]
    <3>1. claim'[c] = claim[c] /\ registry'[c] = registry[c] /\ ~Pending(c) /\ ~Pending(c)'
      BY <1>1, <1>3 DEF Pending
    <3>2. QED
      BY <1>1, <3>1, LeaseOf, LeaseOfNext DEF ClaimStates, Exists
  <2>4. QED
    BY <1>1, <2>2, <2>3, LeaseMoves
<1>4. QED
  BY <1>1, <1>2, <1>3

(* The registry answers for the claim of the new handle, if it exists.     *)
LEMMA ConstructLease ==
  ASSUME SyncInv, Construct
  PROVE  L!Next
<1> PICK k \in Claims : k = call.claim
  BY DEF Construct, SyncInv, PlaceOfOp, At
<1>1. /\ claim' = claim /\ excused' = excused /\ registry[k] = None /\ registry'[k] # None
      /\ \A c \in Claims \ {k} : registry'[c] = registry[c] /\ ~Pending(c) /\ ~Pending(c)'
      /\ claim \in [Claims -> ClaimStates]
  <2>1. calls # None /\ registry[k] = None /\ registry \in [Claims -> Calls \cup {None}]
    BY NoneIsNobody
    DEF Construct, SyncInv, SeenIsCurrent, FreshClaims, PlaceOfOp, InTerminate, TypeOK, At
  <2>2. QED
    BY <2>1 DEF Construct, SyncInv, TypeOK, cluster, Pending, Creating, NoCall
<1>2. ASSUME NEW c \in Claims \ {k}
      PROVE  Lease'[c] = Lease[c]
  BY <1>1, LeaseOf, LeaseOfNext DEF ClaimStates, Exists
<1>3. CASE Exists(k)
  <2>1. Lease[k] \in {"pending", "loose"} /\ Lease'[k] = "leased"
    BY <1>1, <1>3, LeaseOf, LeaseOfNext DEF Exists
  <2>2. QED
    BY <1>1, <1>2, <2>1, LeaseMoves
<1>4. CASE ~Exists(k)
  <2>1. Lease'[k] = Lease[k]
    BY <1>1, <1>4, LeaseOf, LeaseOfNext DEF ClaimStates, Exists
  <2>2. QED
    BY <1>1, <1>2, <2>1, LeaseMoves
<1>5. QED
  BY <1>3, <1>4

(* The calls that end or go on without a creation's success.               *)
LEMMA ProceedLease ==
  ASSUME SyncInv, Discard \/ DeleteUntracked \/ ReadSandbox \/ ClaimDeleted \/ DeletionFails
  PROVE  L!Next
<1> PICK k \in Claims : k = call.claim
  BY DEF Discard, DeleteUntracked, ReadSandbox, ClaimDeleted, DeletionFails, SyncInv, PlaceOfOp, At
<1>1. TypeOK /\ ~At("posting")
  BY DEF SyncInv, Discard, DeleteUntracked, ReadSandbox, ClaimDeleted, DeletionFails, At
<1>2. CASE Discard \/ DeleteUntracked
  <2>1. /\ (UNCHANGED claim) \/ Deleted(k)
        /\ registry' = registry /\ call'.op # "create"
        /\ excused \subseteq excused' /\ (k \in excused' \/ Deleted(k))
    BY <1>2 DEF Discard, DeleteUntracked, NoCall, Excuse
  <2>2. Settled(k)'
    BY <1>1, <2>1, DeletedShape DEF Settled
  <2>3. QED
    BY <1>1, <2>1, <2>2, DeletedShape, LeaseGivenUp
<1>3. CASE ReadSandbox
  <2>1. claim' = claim /\ excused' = excused /\ call.op = "get" /\ call'.op # "create"
    BY <1>3 DEF ReadSandbox, cluster, SyncInv, PlaceOfOp, At, Creating, InTerminate, TypeOK,
       CallState, Operations, NoCall, Goto
  <2>2. registry' = registry \/ (registry' = Popped(k) /\ ~(call.seen # None /\ Active(call.seen)))
    BY <1>3 DEF ReadSandbox
  <2>3. CASE registry' = registry
    BY <1>1, <2>1, <2>3, LeaseGivenUp DEF TypeOK, Creating
  <2>4. CASE registry' = Popped(k) /\ registry[k] = None
    <3>1. registry' = registry
      BY <1>1, <2>4 DEF Popped, TypeOK
    <3>2. QED
      BY <2>3, <3>1
  <2>5. CASE registry' = Popped(k) /\ registry[k] # None /\ registry' # registry
    <3>1. /\ call.seen = registry[k] /\ call.seen \in Calls /\ handle[call.seen].of = k
          /\ handle[call.seen].is \in {"closed", "half"}
      BY <1>1, <1>3, <2>1, <2>2, <2>5
      DEF ReadSandbox, SyncInv, SeenIsCurrent, EntriesAreHandles, At, TypeOK, HandleState, Active
    <3>2. Settled(k)
      BY <1>3, <3>1 DEF ReadSandbox, SyncInv, ClosedIsGivenUp, Settled, At
    <3>3. Settled(k)'
      BY <2>1, <3>2 DEF Settled, Exists
    <3>4. QED
      BY <1>1, <2>1, <2>5, <3>3, LeaseGivenUp DEF TypeOK, Creating
  <2>6. QED
    BY <2>2, <2>3, <2>4, <2>5
<1>4. CASE ClaimDeleted \/ DeletionFails
  <2>1. /\ (UNCHANGED claim) \/ Deleted(k)
        /\ excused \subseteq excused' /\ (k \in excused' \/ Deleted(k)) /\ At("deleting")
        /\ registry' \in {registry, Popped(k)}
        /\ \/ Continue(registry)
           \/ Continue(AfterDeletion(registry))
    BY <1>4 DEF ClaimDeleted, DeletionFails, Excuse, Continue, DeleteNext, AfterDeletion
  <2>2. ~Creating /\ call'.op # "create"
    BY <2>1 DEF SyncInv, PlaceOfOp, At, Creating, Continue, DeleteNext, InLoop, NoCall
  <2>3. Settled(k)'
    BY <1>1, <2>1, DeletedShape DEF Settled
  <2>4. QED
    BY <1>1, <2>1, <2>2, <2>3, DeletedShape, LeaseGivenUp
<1>5. QED
  BY <1>2, <1>3, <1>4

(* An interrupt ends, excuses or leaves the claim it meets.                *)
LEMMA InterruptLease ==
  ASSUME SyncInv, Interrupt
  PROVE  L!Next
<1> PICK k \in Claims : k = call.claim
  BY DEF Interrupt, SyncInv, PlaceOfOp
<1>1. /\ claim' \in [Claims -> ClaimStates]
      /\ \A c \in Claims :
           \/ claim'[c] = claim[c]
           \/ c = k /\ claim[c] # "none" /\ claim'[c] = "deleted"
           \/ c = k /\ At("posting") /\ claim'[c] = "made"
  <2>1. TypeOK
    BY DEF SyncInv
  <2>2. CASE (UNCHANGED claim) \/ Deleted(k)
    BY <2>1, <2>2, DeletedShape
  <2>3. CASE At("posting") /\ claim' = [claim EXCEPT ![k] = "made"]
    BY <2>1, <2>3 DEF TypeOK, ClaimStates
  <2>4. QED
    BY <2>2, <2>3 DEF Interrupt
<1>2. /\ registry' = registry /\ call'.op # "create" /\ excused \subseteq excused'
      /\ Creating => k \in excused'
  BY DEF Interrupt, NoCall, Excuse, Harms, Creating
<1>3. QED
  BY <1>1, <1>2, LeaseGivenUp DEF Settled

(* Between its requests a creation stays pending.                          *)
LEMMA QuietLease ==
  ASSUME SyncInv, NextEvent \/ ConstructFails \/ ReadFails \/ CloseConnection \/ StreamEnds \/ TimesOut
  PROVE  L!Next
<1>1. /\ claim' = claim /\ registry' = registry /\ excused' = excused
      /\ TypeOK /\ call.claim \in Claims
  BY DEF NextEvent, ConstructFails, ReadFails, CloseConnection, StreamEnds, TimesOut, cluster, user,
     Watching, SyncInv, PlaceOfOp, At
<1>2. /\ call'.op = "create" <=> call.op = "create"
      /\ call.op = "create" => call'.claim = call.claim
  <2>1. CASE Raise
    BY <1>1, <2>1, RaiseShape DEF NoCall, TypeOK, CallState
  <2>2. ASSUME NEW pc, Goto(pc)
        PROVE  call' = [call EXCEPT !.at = pc]
    BY <2>2 DEF Goto
  <2>3. CASE \E pc \in PC : Goto(pc)
    BY <1>1, <2>2, <2>3 DEF TypeOK, CallState
  <2>4. CASE call' = NoCall /\ call.op # "create"
    BY <2>4 DEF NoCall
  <2>5. CASE call' = call
    BY <2>5
  <2>6. Raise \/ (\E pc \in PC : Goto(pc)) \/ (call' = NoCall /\ call.op # "create") \/ call' = call
    <3>1. CASE NextEvent
      <4>1. "waiting" \in PC /\ "reading" \in PC /\ "constructing" \in PC
        BY DEF PC
      <4>2. QED
        BY <3>1, <4>1 DEF NextEvent, EndsTheWait
    <3>2. CASE ~NextEvent
      BY <3>2 DEF ConstructFails, ReadFails, CloseConnection, StreamEnds, TimesOut, PC, user
    <3>3. QED
      BY <3>1, <3>2
  <2>7. QED
    BY <2>1, <2>3, <2>4, <2>5, <2>6
<1>3. QED
  BY <1>1, <1>2, LeaseStays DEF Pending, Creating

(* A claim that vanishes ends its lease; the cluster changes no other.     *)
LEMMA ClusterLease ==
  ASSUME SyncInv, NEW k \in Claims,
         ClaimNamed(k) \/ ClaimFailed(k) \/ ClaimVanishes(k) \/ BoxMoves(k)
  PROVE  L!Next
<1>1. /\ UNCHANGED <<registry, call, excused>> /\ claim \in [Claims -> ClaimStates]
      /\ \A c \in Claims : Pending(c)' <=> Pending(c)
  BY DEF ClaimNamed, ClaimFailed, ClaimVanishes, ClaimMoves, BoxMoves, user, SyncInv, TypeOK, Pending,
     Creating
<1>2. CASE ClaimNamed(k) \/ ClaimFailed(k) \/ BoxMoves(k)
  <2>1. \A c \in Claims : claim'[c] = claim[c] \/ (Exists(c) /\ Exists(c)')
    BY <1>1, <1>2 DEF ClaimNamed, ClaimFailed, ClaimMoves, BoxMoves, Exists
  <2>2. QED
    BY <1>1, <2>1, LeaseStays
<1>3. CASE ClaimVanishes(k)
  <2>1. Exists(k) /\ claim' = [claim EXCEPT ![k] = "deleted"]
    BY <1>3 DEF ClaimVanishes, ClaimMoves
  <2>2. Lease[k] \in {"pending", "leased", "loose"} /\ Lease'[k] = "ended"
    BY <1>1, <2>1, LeaseOf, LeaseOfNext
  <2>3. ASSUME NEW c \in Claims \ {k}
        PROVE  Lease'[c] = Lease[c]
    <3>1. claim'[c] = claim[c] /\ registry'[c] = registry[c] /\ (Pending(c)' <=> Pending(c))
      BY <1>1, <2>1
    <3>2. QED
      BY <1>1, <3>1, LeaseOf, LeaseOfNext DEF ClaimStates, Exists
  <2>4. QED
    BY <1>1, <2>2, <2>3, LeaseMoves
<1>4. QED
  BY <1>2, <1>3

(* Every step of the client is one of SandboxLease.                        *)
LEMMA StepLease == SyncInv /\ [Next]_vars => [L!Next]_(L!vars)
<1> SUFFICES ASSUME SyncInv, [Next]_vars PROVE [L!Next]_(L!vars)
  OBVIOUS
<1>1. CASE Start
  BY <1>1, StartLease, ListActiveLease
<1>2. CASE Proceed
  BY <1>2, PostLease, ConstructLease, ProceedLease, QuietLease DEF Proceed
<1>3. CASE StreamEnds \/ TimesOut
  BY <1>3, QuietLease
<1>4. CASE Interrupt
  BY <1>4, InterruptLease
<1>5. CASE Cluster
  BY <1>5, ClusterLease DEF Cluster
<1>6. CASE UNCHANGED vars
  BY <1>6 DEF vars, cluster, user, L!vars, Lease
<1>7. QED
  BY <1>1, <1>2, <1>3, <1>4, <1>5, <1>6 DEF Next

(* The initial states are those of the lease.                              *)
LEMMA InitLease == Init => L!Init
<1> SUFFICES ASSUME Init PROVE L!Init
  OBVIOUS
<1>1. ASSUME NEW c \in Claims
      PROVE  Lease[c] \in {"absent", "loose"}
  <2>1. claim[c] \in {"named", "none"} /\ registry[c] = None /\ ~Pending(c)
    BY <1>1 DEF Init, NoCall, Pending, Creating
  <2>2. QED
    BY <2>1, LeaseOf DEF Exists
<1>2. Lease = [c \in Claims |-> Lease[c]]
  BY DEF Lease
<1>3. Lease \in [Claims -> {"absent", "loose"}]
  BY <1>1, <1>2, Zenon
<1>4. QED
  BY <1>3 DEF Init, L!Init

(* SandboxClient implements SandboxLease: the registry gives up a claim    *)
(* that exists only when its creation or its deletion was harmed           *)
(* (sandbox_client.py 76-255).                                             *)
THEOREM SyncImplementsLease == Spec => ImplementsLease
BY InitLease, StepLease, SyncInvariant, PTL DEF Spec, ImplementsLease, L!Spec

=============================================================================
