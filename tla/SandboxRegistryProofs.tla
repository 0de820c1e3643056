------------------------ MODULE SandboxRegistryProofs -------------------------
(***************************************************************************)
(* TLAPS proofs about SandboxRegistry, for every set of calls that run at  *)
(* the same time: first whatever fails and is cancelled, then for a user   *)
(* of the context manager whose requests do not fail.                      *)
(***************************************************************************)
EXTENDS SandboxRegistry, TLAPS

-----------------------------------------------------------------------------
(* What a step leaves of the calls.                                        *)

(* The others are where they were, if perhaps cut.                         *)
OthersStay(k) ==
  \A j \in Calls \ {k} :
    /\ call'[j].op = call[j].op /\ call'[j].at = call[j].at /\ call'[j].claim = call[j].claim
    /\ call'[j].seen = call[j].seen /\ call'[j].todo = call[j].todo
    /\ call'[j].failed = call[j].failed /\ call'[j].unclosed = call[j].unclosed

(* A call gets a new record, and no other does.                            *)
LEMMA IsShape ==
  ASSUME TypeOK, NEW k \in Calls, NEW rec \in CallRecord, Is(k, rec)
  PROVE  /\ call' \in [Calls -> CallRecord] /\ call'[k] = rec
         /\ \A j \in Calls \ {k} : call'[j] = call[j]
         /\ OthersStay(k)
<1>1. call \in [Calls -> CallRecord]
  BY DEF TypeOK
<1>2. /\ call' \in [Calls -> CallRecord] /\ call'[k] = rec
      /\ \A j \in Calls \ {k} : call'[j] = call[j]
  BY <1>1 DEF Is
<1>3. QED
  BY <1>2 DEF OthersStay

(* A record that goes to another place keeps the rest.                     *)
LEMMA ToShape ==
  ASSUME NEW rec \in CallRecord, NEW pc \in PC
  PROVE  /\ To(rec, pc) \in CallRecord /\ To(rec, pc).at = pc /\ To(rec, pc).op = rec.op
         /\ To(rec, pc).claim = rec.claim /\ To(rec, pc).seen = rec.seen
         /\ To(rec, pc).todo = rec.todo /\ To(rec, pc).failed = rec.failed
         /\ To(rec, pc).unclosed = rec.unclosed /\ To(rec, pc).cut = FALSE
BY DEF To, CallRecord

(* A call that goes on keeps everything but its place.                     *)
LEMMA GotoShape ==
  ASSUME TypeOK, NEW k \in Calls, NEW pc \in PC, Goto(k, pc)
  PROVE  /\ call' \in [Calls -> CallRecord] /\ OthersStay(k)
         /\ call'[k].at = pc /\ call'[k].op = call[k].op /\ call'[k].claim = call[k].claim
         /\ call'[k].seen = call[k].seen /\ call'[k].todo = call[k].todo
         /\ call'[k].failed = call[k].failed /\ call'[k].cut = FALSE
<1>1. call[k] \in CallRecord
  BY DEF TypeOK
<1>2. PICK rec \in CallRecord :
        /\ rec = To(call[k], pc) /\ rec.at = pc /\ rec.op = call[k].op
        /\ rec.claim = call[k].claim /\ rec.seen = call[k].seen /\ rec.todo = call[k].todo
        /\ rec.failed = call[k].failed /\ rec.cut = FALSE
  BY <1>1, ToShape
<1>3. call' \in [Calls -> CallRecord] /\ call'[k] = rec /\ OthersStay(k)
  BY <1>2, IsShape DEF Goto
<1>4. QED
  BY <1>2, <1>3

(* A call that begins has an operation, a claim and a handle.              *)
LEMMA BegunShape ==
  ASSUME TypeOK, NEW k \in Calls, NEW op \in Operations, NEW c \in Claims \cup {None}
  PROVE  /\ Begun(k, op, c) \in CallRecord /\ Begun(k, op, c).op = op
         /\ Begun(k, op, c).claim = c /\ Begun(k, op, c).at = call[k].at
         /\ Begun(k, op, c).seen = call[k].seen /\ Begun(k, op, c).todo = call[k].todo
         /\ Begun(k, op, c).failed = call[k].failed
<1>1. call[k] \in CallRecord
  BY DEF TypeOK
<1>2. [call[k] EXCEPT !.op = op] \in CallRecord
  BY <1>1 DEF CallRecord
<1>3. QED
  BY <1>1, <1>2 DEF Begun, CallRecord

-----------------------------------------------------------------------------
(* The invariant, whatever fails and is cancelled.                         *)

(* A step of a call that has not ended keeps the invariant when it makes   *)
(* no claim but its own, opens no handle but its own, enters no handle but *)
(* its own and that when it is done, and touches the registry only when    *)
(* nobody else has the lock.                                               *)
LEMMA CallStep ==
  ASSUME RegistryInv, NEW k \in Calls, ~Over(k),
         call' \in [Calls -> CallRecord], OthersStay(k),
         claim' \in [Claims -> {"none", "created", "ready", "deleted"}],
         \A c \in Claims \ {k} : Exists(c)' => Exists(c),
         handle' \in [Calls -> {"none", "open", "closed"}],
         \A h \in Calls : /\ handle[h] # "none" => handle'[h] # "none"
                          /\ h # k /\ handle'[h] = "open" => handle[h] = "open",
         registry' \in [Claims -> Calls \cup {None}],
         \A c \in Claims :
           registry'[c] # None =>
             \/ registry'[c] = registry[c]
             \/ registry'[c] = k /\ handle'[k] # "none" /\ call'[k].at = "done",
         \/ /\ lock' = lock /\ registry' = registry
            /\ call[k].at # "sweeping" /\ call'[k].at # "sweeping"
         \/ lock \in {None, k} /\ lock' = None /\ call'[k].at # "sweeping"
         \/ /\ lock \in {None, k} /\ lock' = k /\ call'[k].at = "sweeping"
            /\ call'[k].todo \subseteq Tracked'
            /\ \A c \in Tracked' :
                 handle'[registry'[c]] = "open" => c \in call'[k].todo \cup call'[k].unclosed,
         Creating(k)' =>
           call'[k].at \in {"requesting", "waiting", "cleaning", "inserting"} \cup Ended,
         call'[k].at \in {"requesting", "waiting", "cleaning"} => Creating(k)',
         call'[k].at = "inserting" => handle'[k] # "none",
         call'[k].at = "reading" => call'[k].claim \in Claims,
         call'[k].at # "none",
         Creating(k)' /\ call'[k].at = "raised" => call'[k].failed \/ ~Exists(k)'
  PROVE  RegistryInv'
<1> USE RegistryAssumption DEF RegistryInv, At, Creating, OthersStay
<1>1. \A j \in Calls : call[j].at = "done" => j # k
  BY DEF Over, Ended
<1>2. TypeOK'
  BY DEF TypeOK, SweepHasTheOpen
<1>3. Places'
  BY DEF Places, Idle
<1>4. EntriesAreDone'
  BY <1>1 DEF EntriesAreDone, TypeOK
<1>5. SweepHasTheOpen'
  <2>1. ASSUME NEW j \in Calls \ {k}, call[j].at = "sweeping"
        PROVE  /\ lock' = j /\ call'[j].todo \subseteq Tracked'
               /\ \A c \in Tracked' :
                    handle'[registry'[c]] = "open" => c \in call'[j].todo \cup call'[j].unclosed
    <3>1. lock = j /\ lock' = j /\ registry' = registry
      BY <2>1 DEF SweepHasTheOpen
    <3>2. \A c \in Tracked : registry[c] \in Calls /\ registry[c] # k
      BY <1>1 DEF EntriesAreDone, Tracked, Entries, TypeOK
    <3>3. QED
      BY <2>1, <3>1, <3>2 DEF SweepHasTheOpen, Tracked, Entries
  <2>2. QED
    BY <2>1 DEF SweepHasTheOpen
<1>6. RaisedCreateLeavesNoClaim'
  BY DEF RaisedCreateLeavesNoClaim, Claims
<1>7. QED
  BY <1>2, <1>3, <1>4, <1>5, <1>6

(* A request makes or deletes the claim it names, or nothing.              *)
LEMMA ClaimShape ==
  ASSUME TypeOK, NEW k \in Calls, NEW c, \/ Created(k) \/ Deleted(c) \/ UNCHANGED claim
  PROVE  /\ claim' \in [Claims -> {"none", "created", "ready", "deleted"}]
         /\ \A d \in Claims \ {k} : Exists(d)' => Exists(d)
         /\ Deleted(c) /\ c \in Claims => ~Exists(c)'
         /\ ~Created(k) => \A d \in Claims : Exists(d)' => Exists(d)
<1>1. claim \in [Claims -> {"none", "created", "ready", "deleted"}] /\ k \in Claims
  BY DEF TypeOK, Claims
<1>2. CASE Created(k)
  BY <1>1, <1>2 DEF Created, Deleted, Exists
<1>3. CASE Deleted(c)
  BY <1>1, <1>3 DEF Created, Deleted, Exists
<1>4. CASE UNCHANGED claim
  BY <1>1, <1>4 DEF Deleted, Exists
<1>5. QED
  BY <1>2, <1>3, <1>4

(* A call that moves, and makes or deletes a claim, and nothing else.      *)
LEMMA CallMoves ==
  ASSUME RegistryInv, NEW k \in Calls, ~Over(k), call[k].at # "sweeping",
         call' \in [Calls -> CallRecord], OthersStay(k),
         NEW c, \/ Created(k) \/ Deleted(c) \/ UNCHANGED claim,
         UNCHANGED <<handle, registry, lock>>,
         Creating(k)' =>
           call'[k].at \in {"requesting", "waiting", "cleaning", "inserting"} \cup Ended,
         call'[k].at \in {"requesting", "waiting", "cleaning"} => Creating(k)',
         call'[k].at \notin {"inserting", "none", "reading", "sweeping"},
         Creating(k)' /\ call'[k].at = "raised" => call'[k].failed \/ ~Exists(k)'
  PROVE  RegistryInv'
<1>1. TypeOK
  BY DEF RegistryInv
<1>2. /\ claim' \in [Claims -> {"none", "created", "ready", "deleted"}]
      /\ \A d \in Claims \ {k} : Exists(d)' => Exists(d)
  BY <1>1, ClaimShape
<1>3. /\ handle' \in [Calls -> {"none", "open", "closed"}]
      /\ registry' \in [Claims -> Calls \cup {None}]
  BY <1>1 DEF TypeOK
<1>4. QED
  BY <1>2, <1>3, CallStep

-----------------------------------------------------------------------------
(* create_sandbox.                                                         *)

(* A creation begins: its claim is its own and not yet there.              *)
LEMMA CreateSandboxStep ==
  ASSUME RegistryInv, NEW k \in Calls, CreateSandbox(k)
  PROVE  RegistryInv'
<1>1. TypeOK /\ "create" \in Operations /\ "requesting" \in PC /\ k \in Claims \cup {None}
  BY DEF RegistryInv, Operations, PC, Claims
<1>a. PICK new \in CallRecord : new = Begun(k, "create", k) /\ new.op = "create"
  BY <1>1, BegunShape
<1>2. PICK rec \in CallRecord :
        rec = To(new, "requesting") /\ rec.op = "create" /\ rec.at = "requesting"
  <2>1. /\ To(new, "requesting") \in CallRecord /\ To(new, "requesting").at = "requesting"
        /\ To(new, "requesting").op = "create"
    BY <1>1, <1>a, ToShape
  <2>2. QED
    BY <2>1
<1>3. call' \in [Calls -> CallRecord] /\ call'[k] = rec /\ OthersStay(k)
  BY <1>1, <1>a, <1>2, IsShape DEF CreateSandbox
<1>4. ~Over(k) /\ call[k].at # "sweeping"
  BY DEF CreateSandbox, MayBegin, Idle, At, Over, Ended
<1>5. QED
  BY <1>2, <1>3, <1>4, CallMoves DEF CreateSandbox, Creating

(* The request that makes the claim is answered.                           *)
LEMMA ClaimCreatedStep ==
  ASSUME RegistryInv, NEW k \in Calls, ClaimCreated(k) \/ ClaimRefused(k) \/ WaitFails(k)
  PROVE  RegistryInv'
<1>1. TypeOK /\ ~Over(k) /\ call[k].at # "sweeping" /\ Creating(k)
  BY DEF RegistryInv, Places, ClaimCreated, ClaimRefused, WaitFails, At, Over, Ended
<1>2. PICK pc \in {"waiting", "cleaning"} : Goto(k, pc)
  BY DEF ClaimCreated, ClaimRefused, WaitFails
<1>3. pc \in PC
  BY <1>2 DEF PC
<1>4. call' \in [Calls -> CallRecord] /\ OthersStay(k) /\ call'[k].at = pc /\ call'[k].op = "create"
  BY <1>1, <1>2, <1>3, GotoShape DEF Creating
<1>5. (Created(k) \/ UNCHANGED claim) /\ UNCHANGED <<handle, registry, lock>>
  BY DEF ClaimCreated, ClaimRefused, WaitFails
<1>6. QED
  BY <1>1, <1>2, <1>4, <1>5, CallMoves DEF Creating

(* create_sandbox raises when its claim is deleted, or the API refused it. *)
LEMMA CleanUpStep ==
  ASSUME RegistryInv, NEW k \in Calls, CleanUp(k)
  PROVE  RegistryInv'
<1>1. TypeOK /\ ~Over(k) /\ call[k].at # "sweeping" /\ Creating(k) /\ k \in Claims
  BY DEF RegistryInv, Places, CleanUp, At, Over, Ended, Claims
<1>2. "raised" \in PC /\ call[k] \in CallRecord /\ UNCHANGED <<handle, registry, lock>>
  BY <1>1 DEF PC, Ended, TypeOK, CleanUp
<1>3. CASE Deleted(k) /\ Goto(k, "raised")
  <2>1. call' \in [Calls -> CallRecord] /\ OthersStay(k) /\ call'[k].at = "raised"
    BY <1>1, <1>2, <1>3, GotoShape
  <2>2. ~Exists(k)'
    BY <1>1, <1>3, ClaimShape
  <2>3. QED
    BY <1>1, <1>2, <1>3, <2>1, <2>2, CallMoves DEF Ended
<1>4. CASE UNCHANGED claim /\ Is(k, [To(call[k], "raised") EXCEPT !.failed = TRUE])
  <2>1. PICK rec \in CallRecord :
          /\ rec = [To(call[k], "raised") EXCEPT !.failed = TRUE]
          /\ rec.at = "raised" /\ rec.failed = TRUE
    <3>1. PICK r \in CallRecord : r = To(call[k], "raised") /\ r.at = "raised"
      BY <1>2, ToShape
    <3>2. [r EXCEPT !.failed = TRUE] \in CallRecord
      BY DEF CallRecord
    <3>3. QED
      BY <3>1, <3>2 DEF CallRecord
  <2>2. call' \in [Calls -> CallRecord] /\ OthersStay(k) /\ call'[k] = rec
    BY <1>1, <1>4, <2>1, IsShape
  <2>3. QED
    BY <1>1, <1>2, <1>4, <2>1, <2>2, CallMoves DEF Ended
<1>5. QED
  BY <1>3, <1>4 DEF CleanUp

-----------------------------------------------------------------------------
(* What a step of a call that is not create_sandbox may leave.             *)

ClaimsShrink ==
  /\ claim' \in [Claims -> {"none", "created", "ready", "deleted"}]
  /\ \A c \in Claims : Exists(c)' => Exists(c)

HandlesClose ==
  /\ handle' \in [Calls -> {"none", "open", "closed"}]
  /\ \A h \in Calls : /\ handle[h] # "none" => handle'[h] # "none"
                      /\ handle'[h] = "open" => handle[h] = "open"

Fewer(reg) ==
  /\ reg \in [Claims -> Calls \cup {None}]
  /\ \A c \in Claims : reg[c] # None => reg[c] = registry[c]

(* Popping an entry leaves the others as they are.                         *)
LEMMA PoppedIsFewer ==
  ASSUME TypeOK, NEW k \in Calls
  PROVE  Fewer(Popped(k)) /\ Fewer(registry)
BY DEF TypeOK, Popped, Fewer

(* terminate begins at one of three awaits.                                *)
LEMMA FirstAwaitIsPlace ==
  ASSUME NEW h
  PROVE  FirstAwait(h) \in {"deleting_claim", "closing", "deleting"} /\ FirstAwait(h) \in PC
<1>1. {"deleting_claim", "closing", "deleting"} \subseteq PC
  BY DEF PC
<1>2. FirstAwait(h) \in {"deleting_claim", "closing", "deleting"}
  BY DEF FirstAwait
<1>3. QED
  BY <1>1, <1>2

(* A call that is not create_sandbox moves on, the registry as it was or   *)
(* fewer where the lock is free.                                           *)
LEMMA OtherMoves ==
  ASSUME RegistryInv, NEW k \in Calls, ~Over(k), call[k].at # "sweeping",
         call' \in [Calls -> CallRecord], OthersStay(k), ~Creating(k)',
         ClaimsShrink, HandlesClose,
         Fewer(registry'), Free \/ registry' = registry, lock' = lock,
         call'[k].at = "reading" => call'[k].claim \in Claims,
         call'[k].at \notin {"none", "requesting", "waiting", "cleaning", "inserting", "sweeping"}
  PROVE  RegistryInv'
<1>1. claim' \in [Claims -> {"none", "created", "ready", "deleted"}]
  BY DEF ClaimsShrink
<1>2. \A c \in Claims \ {k} : Exists(c)' => Exists(c)
  BY DEF ClaimsShrink
<1>3. handle' \in [Calls -> {"none", "open", "closed"}]
  BY DEF HandlesClose
<1>4. \A h \in Calls : /\ handle[h] # "none" => handle'[h] # "none"
                       /\ h # k /\ handle'[h] = "open" => handle[h] = "open"
  BY DEF HandlesClose
<1>5. /\ registry' \in [Claims -> Calls \cup {None}]
      /\ \A c \in Claims : registry'[c] # None => registry'[c] = registry[c]
  BY DEF Fewer
<1>6. \/ lock' = lock /\ registry' = registry
      \/ lock \in {None, k} /\ lock' = None
  BY DEF Free
<1>7. QED
  BY <1>1, <1>2, <1>3, <1>4, <1>5, <1>6, CallStep

-----------------------------------------------------------------------------
(* The handle of create_sandbox and get_sandbox enters the registry.       *)

(* The handle enters the registry, at once or when the lock is free.       *)
LEMMA InsertStep ==
  ASSUME RegistryInv, NEW k \in Calls, ~Over(k), ~Idle(k), call[k].at # "sweeping",
         UNCHANGED <<claim, lock>>,
         handle' = [handle EXCEPT ![k] = "open"] \/ (At(k, "inserting") /\ UNCHANGED handle),
         \/ Free /\ Put(k)
         \/ ~At(k, "inserting") /\ Goto(k, "inserting") /\ UNCHANGED registry
         \/ ~At(k, "inserting") /\ Free /\ Goto(k, "inserting") /\ registry' = Popped(k)
  PROVE  RegistryInv'
<1>1. TypeOK /\ {"done", "inserting"} \subseteq PC
  BY DEF RegistryInv, PC, Ended
<1>2. /\ claim' \in [Claims -> {"none", "created", "ready", "deleted"}]
      /\ \A c \in Claims \ {k} : Exists(c)' => Exists(c)
  BY <1>1 DEF TypeOK, Exists
<1>3. /\ handle' \in [Calls -> {"none", "open", "closed"}] /\ handle'[k] # "none"
      /\ \A h \in Calls : /\ handle[h] # "none" => handle'[h] # "none"
                          /\ h # k /\ handle'[h] = "open" => handle[h] = "open"
  BY <1>1 DEF TypeOK, RegistryInv, Places
<1>4. PICK pc \in {"done", "inserting"} : Goto(k, pc) /\ (pc = "done" => Free /\ Put(k))
  BY DEF Put
<1>5. call' \in [Calls -> CallRecord] /\ OthersStay(k) /\ call'[k].at = pc
  BY <1>1, <1>4, GotoShape
<1>6. /\ registry' \in [Claims -> Calls \cup {None}]
      /\ \A c \in Claims : registry'[c] # None => registry'[c] = registry[c] \/ registry'[c] = k
      /\ pc = "inserting" => \A c \in Claims : registry'[c] # None => registry'[c] = registry[c]
      /\ lock' = lock /\ (Free \/ registry' = registry)
  <2>1. CASE Free /\ Put(k)
    <3>1. pc = "done"
      <4>1. call'[k].at = "done"
        BY <2>1, <1>1, GotoShape DEF Put
      <4>2. QED
        BY <4>1, <1>5
    <3>2. QED
      BY <1>1, <2>1, <3>1 DEF Put, TypeOK
  <2>2. CASE UNCHANGED registry
    BY <1>1, <2>2 DEF TypeOK
  <2>3. CASE Free /\ registry' = Popped(k)
    BY <1>1, <2>3, PoppedIsFewer DEF Fewer
  <2>4. QED
    BY <2>1, <2>2, <2>3
<1>7. \A c \in Claims :
        registry'[c] # None =>
          registry'[c] = registry[c] \/ (registry'[c] = k /\ handle'[k] # "none" /\ call'[k].at = "done")
  BY <1>3, <1>4, <1>5, <1>6
<1>8. \/ lock' = lock /\ registry' = registry
      \/ lock \in {None, k} /\ lock' = None
  BY <1>6 DEF Free
<1>9. /\ Creating(k)' =>
           call'[k].at \in {"requesting", "waiting", "cleaning", "inserting"} \cup Ended
      /\ call'[k].at \in {"done", "inserting"}
  BY <1>5 DEF Ended
<1>10. QED
  BY <1>2, <1>3, <1>5, <1>6, <1>7, <1>8, <1>9, CallStep

(* The sandbox is ready: a handle is made, and goes to the lock.           *)
LEMMA SandboxReadyStep ==
  ASSUME RegistryInv, NEW k \in Calls, SandboxReady(k) \/ InsertLater(k) \/ ReplaceLater(k)
  PROVE  RegistryInv'
<1>1. ~Over(k) /\ ~Idle(k) /\ call[k].at # "sweeping"
  BY DEF SandboxReady, InsertLater, ReplaceLater, At, Over, Idle, Ended
<1>2. QED
  BY <1>1, InsertStep
     DEF SandboxReady, InsertLater, ReplaceLater, Insert, Uncontended, Free, At

-----------------------------------------------------------------------------
(* close, and the loop of delete_all.                                      *)

(* A sweep has all the open handles of the registry before it.             *)
LEMMA SweepKeeps ==
  ASSUME RegistryInv, NEW k \in Calls, ~Over(k),
         NEW rec \in CallRecord, rec.op # "create",
         NEW reg, Fewer(reg), lock \in {None, k}, ClaimsShrink, HandlesClose,
         NEW todo, todo \subseteq Entries(reg),
         \A c \in Entries(reg) : handle'[reg[c]] = "open" => c \in todo \cup rec.unclosed,
         Sweep(k, rec, reg, todo)
  PROVE  RegistryInv'
<1>1. TypeOK /\ {"sweeping", "closing_api"} \subseteq PC
  BY DEF RegistryInv, PC
<1>2. /\ claim' \in [Claims -> {"none", "created", "ready", "deleted"}]
      /\ \A c \in Claims \ {k} : Exists(c)' => Exists(c)
  BY DEF ClaimsShrink
<1>3. handle' \in [Calls -> {"none", "open", "closed"}]
  BY DEF HandlesClose
<1>4. \A h \in Calls : /\ handle[h] # "none" => handle'[h] # "none"
                       /\ h # k /\ handle'[h] = "open" => handle[h] = "open"
  BY DEF HandlesClose
<1> DEFINE left == {c \in todo : handle'[reg[c]] = "open"}
<1>5. CASE left # {}
  <2>1. registry' = reg /\ lock' = k /\ Is(k, [To(rec, "sweeping") EXCEPT !.todo = left])
    BY <1>5 DEF Sweep
  <2>2. PICK new \in CallRecord :
          /\ new = [To(rec, "sweeping") EXCEPT !.todo = left]
          /\ new.at = "sweeping" /\ new.op # "create" /\ new.todo = left
          /\ new.unclosed = rec.unclosed
    <3>1. PICK r \in CallRecord :
            /\ r = To(rec, "sweeping") /\ r.at = "sweeping" /\ r.op = rec.op
            /\ r.unclosed = rec.unclosed
      BY <1>1, ToShape
    <3>2. left \in SUBSET Claims
      BY DEF Entries
    <3>3. [r EXCEPT !.todo = left] \in CallRecord
      BY <3>2 DEF CallRecord
    <3>4. QED
      BY <3>1, <3>3 DEF CallRecord
  <2>3. call' \in [Calls -> CallRecord] /\ OthersStay(k) /\ call'[k] = new
    BY <1>1, <2>1, <2>2, IsShape
  <2>4. /\ call'[k].todo \subseteq Tracked'
        /\ \A c \in Tracked' :
             handle'[registry'[c]] = "open" => c \in call'[k].todo \cup call'[k].unclosed
    BY <2>1, <2>2, <2>3 DEF Entries, Tracked
  <2>5. /\ registry' \in [Claims -> Calls \cup {None}]
        /\ \A c \in Claims : registry'[c] # None => registry'[c] = registry[c]
    BY <2>1 DEF Fewer
  <2>6. /\ ~Creating(k)' /\ call'[k].at = "sweeping"
    BY <2>2, <2>3 DEF Creating
  <2>7. QED
    BY <1>2, <1>3, <1>4, <2>1, <2>3, <2>4, <2>5, <2>6, CallStep
<1>6. CASE left = {}
  <2>1. registry' = NoEntries /\ lock' = None /\ Is(k, [To(rec, "closing_api") EXCEPT !.todo = {}])
    BY <1>6 DEF Sweep
  <2>2. PICK new \in CallRecord :
          /\ new = [To(rec, "closing_api") EXCEPT !.todo = {}]
          /\ new.at = "closing_api" /\ new.op # "create"
    <3>1. PICK r \in CallRecord : r = To(rec, "closing_api") /\ r.at = "closing_api" /\ r.op = rec.op
      BY <1>1, ToShape
    <3>2. [r EXCEPT !.todo = {}] \in CallRecord
      BY DEF CallRecord
    <3>3. QED
      BY <3>1, <3>2 DEF CallRecord
  <2>3. call' \in [Calls -> CallRecord] /\ OthersStay(k) /\ call'[k] = new
    BY <1>1, <2>1, <2>2, IsShape
  <2>4. /\ registry' \in [Claims -> Calls \cup {None}]
        /\ \A c \in Claims : registry'[c] = None
    BY <2>1 DEF NoEntries
  <2>5. ~Creating(k)' /\ call'[k].at = "closing_api"
    BY <2>2, <2>3 DEF Creating
  <2>6. QED
    BY <1>2, <1>3, <1>4, <2>1, <2>3, <2>4, <2>5, CallStep
<1>7. QED
  BY <1>5, <1>6

(* A close begins, or waits for the lock.                                  *)
LEMMA StartCloseKeeps ==
  ASSUME RegistryInv, NEW k \in Calls, ~Over(k), call[k].at # "sweeping",
         NEW rec \in CallRecord, rec.op # "create",
         NEW reg, Fewer(reg), Free \/ reg = registry, ClaimsShrink, UNCHANGED handle,
         StartClose(k, rec, reg)
  PROVE  RegistryInv'
<1>1. TypeOK /\ "locking" \in PC
  BY DEF RegistryInv, PC
<1>2. HandlesClose
  BY <1>1 DEF HandlesClose, TypeOK
<1>3. CASE Uncontended(k)
  <2>1. Sweep(k, rec, reg, Entries(reg)) /\ lock = None
    BY <1>3 DEF StartClose, Uncontended, Free
  <2>2. QED
    BY <1>2, <2>1, SweepKeeps
<1>4. CASE ~Uncontended(k)
  <2>1. registry' = reg /\ lock' = lock /\ Is(k, To(rec, "locking"))
    BY <1>4 DEF StartClose
  <2>2. PICK new \in CallRecord : new = To(rec, "locking") /\ new.at = "locking" /\ new.op = rec.op
    BY <1>1, ToShape
  <2>3. call' \in [Calls -> CallRecord] /\ OthersStay(k) /\ call'[k] = new
    BY <1>1, <2>1, <2>2, IsShape
  <2>4. ~Creating(k)' /\ call'[k].at = "locking"
    BY <2>2, <2>3 DEF Creating
  <2>5. Fewer(registry') /\ (Free \/ registry' = registry)
    BY <2>1
  <2>6. QED
    BY <1>2, <2>1, <2>3, <2>4, <2>5, OtherMoves
<1>5. QED
  BY <1>3, <1>4

(* delete_all goes on with the next claim of its copy.                     *)
LEMMA DeleteNextKeeps ==
  ASSUME RegistryInv, NEW k \in Calls, ~Over(k), call[k].at # "sweeping",
         NEW rec \in CallRecord, rec.op # "create",
         NEW reg, Fewer(reg), Free \/ reg = registry, ClaimsShrink, UNCHANGED handle,
         DeleteNext(k, rec, reg)
  PROVE  RegistryInv'
<1>1. TypeOK /\ "reading" \in PC
  BY DEF RegistryInv, PC
<1>2. HandlesClose
  BY <1>1 DEF HandlesClose, TypeOK
<1>3. CASE rec.todo = {}
  BY <1>3, StartCloseKeeps DEF DeleteNext
<1>4. CASE rec.todo # {}
  <2>0. PICK c \in rec.todo :
          /\ Is(k, To([rec EXCEPT !.claim = c, !.seen = reg[c], !.todo = @ \ {c}],
                      IF Uncontended(k) THEN FirstAwait(reg[c]) ELSE "reading"))
          /\ registry' = reg /\ lock' = lock
    BY <1>4 DEF DeleteNext
  <2>1. PICK pc \in {"reading", FirstAwait(reg[c])} :
          /\ Is(k, To([rec EXCEPT !.claim = c, !.seen = reg[c], !.todo = @ \ {c}], pc))
          /\ registry' = reg /\ lock' = lock
    BY <2>0
  <2>2. pc \in PC /\ pc \in {"reading", "deleting_claim", "closing", "deleting"}
    BY <1>1, <2>1, FirstAwaitIsPlace
  <2>3. c \in Claims /\ reg[c] \in Calls \cup {None} /\ rec.todo \subseteq Claims
    BY <2>1 DEF CallRecord, Fewer
  <2>4. PICK turn \in CallRecord :
          /\ turn = [rec EXCEPT !.claim = c, !.seen = reg[c], !.todo = @ \ {c}]
          /\ turn.op = rec.op /\ turn.claim = c
    <3>1. [rec EXCEPT !.claim = c] \in CallRecord
      BY <2>3 DEF CallRecord
    <3>2. [rec EXCEPT !.claim = c, !.seen = reg[c]] \in CallRecord
      BY <2>3, <3>1 DEF CallRecord
    <3>3. rec.todo \ {c} \in SUBSET Claims
      BY <2>3
    <3>4. [rec EXCEPT !.claim = c, !.seen = reg[c], !.todo = @ \ {c}] \in CallRecord
      BY <3>2, <3>3 DEF CallRecord
    <3>5. QED
      BY <3>4 DEF CallRecord
  <2>5. PICK new \in CallRecord :
          new = To(turn, pc) /\ new.at = pc /\ new.op = rec.op /\ new.claim = c
    <3>1. /\ To(turn, pc) \in CallRecord /\ To(turn, pc).at = pc /\ To(turn, pc).op = turn.op
          /\ To(turn, pc).claim = turn.claim
      BY <2>2, ToShape
    <3>2. QED
      BY <2>4, <3>1
  <2>6. call' \in [Calls -> CallRecord] /\ OthersStay(k) /\ call'[k] = new
    <3>1. Is(k, new)
      BY <2>1, <2>4, <2>5
    <3>2. QED
      BY <1>1, <3>1, IsShape
  <2>7. ~Creating(k)' /\ call'[k].at = pc /\ call'[k].claim \in Claims
    BY <2>3, <2>5, <2>6 DEF Creating
  <2>8. Fewer(registry') /\ (Free \/ registry' = registry)
    BY <2>1
  <2>9. QED
    BY <1>2, <2>1, <2>2, <2>6, <2>7, <2>8, OtherMoves
<1>5. QED
  BY <1>3, <1>4

(* What follows in the caller of terminate and of _delete_claim.           *)
LEMMA ContinueKeeps ==
  ASSUME RegistryInv, NEW k \in Calls, ~Over(k), call[k].at # "sweeping", ~Creating(k),
         NEW reg, Fewer(reg), Free \/ reg = registry, ClaimsShrink, UNCHANGED handle,
         NEW pc \in {"done", "raised"},
         Continue(k, reg, pc)
  PROVE  RegistryInv'
<1>1. TypeOK /\ call[k] \in CallRecord /\ pc \in PC
  BY DEF RegistryInv, TypeOK, PC, Ended
<1>2. CASE call[k].op = "exit"
  BY <1>1, <1>2, DeleteNextKeeps DEF Continue
<1>3. CASE call[k].op # "exit"
  <2>1. registry' = reg /\ lock' = lock /\ Goto(k, pc)
    BY <1>3 DEF Continue
  <2>2. call' \in [Calls -> CallRecord] /\ OthersStay(k) /\ call'[k].at = pc /\ call'[k].op = call[k].op
    BY <1>1, <2>1, GotoShape
  <2>3. HandlesClose /\ ~Creating(k)'
    BY <1>1, <2>2 DEF HandlesClose, TypeOK, Creating
  <2>4. Fewer(registry') /\ (Free \/ registry' = registry)
    BY <2>1
  <2>5. QED
    BY <2>1, <2>2, <2>3, <2>4, OtherMoves
<1>4. QED
  BY <1>2, <1>3

-----------------------------------------------------------------------------
(* A call that begins: terminate, delete_sandbox, get_sandbox.             *)

(* Any call begins.                                                        *)
LEMMA BeginStep ==
  ASSUME RegistryInv, NEW k \in Calls, NEW op \in Operations, NEW c \in Claims \cup {None},
         NEW h \in Calls \cup {None},
         NEW pc \in {"resolving", "deleting_claim", "closing", "deleting"},
         op # "create", Idle(k),
         Is(k, To([Begun(k, op, c) EXCEPT !.seen = h], pc)),
         UNCHANGED <<claim, handle, registry, lock>>
  PROVE  RegistryInv'
<1>1. TypeOK /\ pc \in PC /\ ~Over(k) /\ call[k].at # "sweeping"
  BY DEF RegistryInv, PC, Idle, At, Over, Ended
<1>2. PICK b \in CallRecord : b = Begun(k, op, c) /\ b.op = op
  BY <1>1, BegunShape
<1>3. PICK s \in CallRecord : s = [b EXCEPT !.seen = h] /\ s.op = op
  <2>1. [b EXCEPT !.seen = h] \in CallRecord
    BY DEF CallRecord
  <2>2. QED
    BY <1>2, <2>1 DEF CallRecord
<1>4. To(s, pc) \in CallRecord /\ To(s, pc).at = pc /\ To(s, pc).op = op
  BY <1>1, <1>3, ToShape
<1>5. Is(k, To(s, pc))
  BY <1>2, <1>3
<1>6. call' \in [Calls -> CallRecord] /\ OthersStay(k) /\ call'[k].at = pc /\ call'[k].op = op
  BY <1>1, <1>4, <1>5, IsShape
<1>7. /\ ~Creating(k)' /\ ClaimsShrink /\ HandlesClose /\ Fewer(registry')
      /\ call'[k].at \notin {"none", "requesting", "waiting", "cleaning", "inserting", "sweeping"}
  BY <1>1, <1>6 DEF Creating, ClaimsShrink, HandlesClose, Fewer, TypeOK, Exists
<1>8. QED
  BY <1>1, <1>6, <1>7, OtherMoves

(* A handle is terminated by its user.                                     *)
LEMMA TerminateStep ==
  ASSUME RegistryInv, NEW k \in Calls, NEW h \in Calls, Terminate(k, h)
  PROVE  RegistryInv'
<1>1. /\ "terminate" \in Operations /\ call[h].claim \in Claims \cup {None} /\ Idle(k)
      /\ FirstAwait(h) \in {"deleting_claim", "closing", "deleting"}
  BY FirstAwaitIsPlace DEF Operations, RegistryInv, TypeOK, CallRecord, Terminate, MayBegin
<1>2. QED
  BY <1>1, BeginStep DEF Terminate

(* A getter and a deletion begin with the entry they find.                 *)
LEMMA BeginsOnEntry ==
  ASSUME RegistryInv, NEW k \in Calls, NEW c \in Claims, DeleteSandbox(k, c) \/ GetSandbox(k, c)
  PROVE  RegistryInv'
<1>1. /\ {"get", "delete"} \subseteq Operations /\ registry[c] \in Calls \cup {None} /\ Idle(k)
      /\ FirstAwait(registry[c]) \in {"deleting_claim", "closing", "deleting"}
  BY FirstAwaitIsPlace DEF Operations, RegistryInv, TypeOK, DeleteSandbox, GetSandbox, MayBegin
<1>2. CASE DeleteSandbox(k, c)
  BY <1>1, <1>2, BeginStep DEF DeleteSandbox
<1>3. CASE GetSandbox(k, c)
  BY <1>1, <1>3, BeginStep DEF GetSandbox
<1>4. QED
  BY <1>2, <1>3

-----------------------------------------------------------------------------
(* A call that is under way.                                               *)

(* It is neither over nor create_sandbox.                                  *)
LEMMA UnderWay ==
  ASSUME RegistryInv, NEW k \in Calls,
         call[k].at \in {"reading", "resolving", "replacing", "closing", "deleting", "popping",
                         "deleting_claim", "locking", "closing_api"}
  PROVE  /\ TypeOK /\ ~Over(k) /\ ~Creating(k) /\ call[k].at # "sweeping" /\ ~Idle(k)
         /\ call[k] \in CallRecord
BY DEF RegistryInv, Places, TypeOK, Over, Ended, Idle, At

(* It goes to another place and changes nothing but a connection.          *)
LEMMA GoesOn ==
  ASSUME RegistryInv, NEW k \in Calls, ~Over(k), ~Creating(k), call[k].at # "sweeping",
         NEW pc \in PC, Goto(k, pc), HandlesClose, UNCHANGED <<claim, registry, lock>>,
         pc \notin {"none", "requesting", "waiting", "cleaning", "inserting", "reading", "sweeping"}
  PROVE  RegistryInv'
<1>1. TypeOK
  BY DEF RegistryInv
<1>2. call' \in [Calls -> CallRecord] /\ OthersStay(k) /\ call'[k].at = pc /\ call'[k].op = call[k].op
  BY <1>1, GotoShape
<1>3. ~Creating(k)' /\ ClaimsShrink /\ Fewer(registry')
  BY <1>1, <1>2 DEF Creating, ClaimsShrink, Fewer, TypeOK, Exists
<1>4. QED
  BY <1>2, <1>3, OtherMoves

(* The connection of a handle is closed.                                   *)
LEMMA CloseConnectionStep ==
  ASSUME RegistryInv, NEW k \in Calls, CloseConnection(k)
  PROVE  RegistryInv'
<1>1. TypeOK /\ ~Over(k) /\ ~Creating(k) /\ call[k].at # "sweeping" /\ "deleting" \in PC
  BY UnderWay DEF CloseConnection, At, PC
<1>2. HandlesClose
  BY <1>1 DEF CloseConnection, HandlesClose, TypeOK
<1>3. QED
  BY <1>1, <1>2, GoesOn DEF CloseConnection

(* A deletion that waited for the lock reads the registry.                 *)
LEMMA ReadLaterStep ==
  ASSUME RegistryInv, NEW k \in Calls, ReadLater(k)
  PROVE  RegistryInv'
<1>1. /\ TypeOK /\ ~Over(k) /\ ~Creating(k) /\ call[k].at # "sweeping" /\ call[k] \in CallRecord
  BY UnderWay DEF ReadLater, At
<1>2. PICK h : /\ Is(k, [To(call[k], FirstAwait(h)) EXCEPT !.seen = h])
               /\ h = registry[call[k].claim]
  BY DEF ReadLater
<1>3. h \in Calls \cup {None} /\ FirstAwait(h) \in {"deleting_claim", "closing", "deleting"}
      /\ FirstAwait(h) \in PC
  BY <1>1, <1>2, FirstAwaitIsPlace DEF TypeOK, ReadLater, RegistryInv, Places
<1>4. PICK r \in CallRecord : r = To(call[k], FirstAwait(h)) /\ r.at = FirstAwait(h) /\ r.op = call[k].op
  <2>1. /\ To(call[k], FirstAwait(h)) \in CallRecord /\ To(call[k], FirstAwait(h)).at = FirstAwait(h)
        /\ To(call[k], FirstAwait(h)).op = call[k].op
    BY <1>1, <1>3, ToShape
  <2>2. QED
    BY <2>1
<1>5. PICK rec \in CallRecord :
        rec = [r EXCEPT !.seen = h] /\ rec.at = FirstAwait(h) /\ rec.op = call[k].op
  <2>1. [r EXCEPT !.seen = h] \in CallRecord
    BY <1>3 DEF CallRecord
  <2>2. QED
    BY <1>4, <2>1 DEF CallRecord
<1>6. call' \in [Calls -> CallRecord] /\ OthersStay(k) /\ call'[k] = rec
  BY <1>1, <1>2, <1>4, <1>5, IsShape
<1>7. /\ ~Creating(k)' /\ ClaimsShrink /\ HandlesClose /\ Fewer(registry') /\ lock' = lock
      /\ registry' = registry
      /\ call'[k].at \in {"deleting_claim", "closing", "deleting"}
  BY <1>1, <1>3, <1>5, <1>6
     DEF Creating, ClaimsShrink, HandlesClose, Fewer, TypeOK, Exists, ReadLater
<1>8. QED
  BY <1>1, <1>6, <1>7, OtherMoves

(* close sweeps the registry under the lock, or waits for the lock.        *)
LEMMA CloseStep ==
  ASSUME RegistryInv, NEW k \in Calls, Close(k) \/ Exit(k)
  PROVE  RegistryInv'
<1>1. /\ TypeOK /\ ~Over(k) /\ call[k].at # "sweeping" /\ {"close", "exit"} \subseteq Operations
      /\ Free
  BY DEF RegistryInv, Close, Exit, MayBegin, Idle, At, Over, Ended, Operations, Uncontended
<1>2. UNCHANGED handle /\ ClaimsShrink /\ Fewer(registry)
  BY <1>1 DEF Close, Exit, ClaimsShrink, Fewer, TypeOK, Exists
<1>3. CASE Close(k)
  <2>1. PICK b \in CallRecord : b = Begun(k, "close", None) /\ b.op = "close"
    BY <1>1, BegunShape
  <2>2. StartClose(k, b, registry)
    BY <1>3, <2>1 DEF Close
  <2>3. QED
    BY <1>1, <1>2, <2>1, <2>2, StartCloseKeeps
<1>4. CASE Exit(k)
  <2>1. PICK b \in CallRecord : b = Begun(k, "exit", None) /\ b.op = "exit"
    BY <1>1, BegunShape
  <2>2. PICK rec \in CallRecord : rec = [b EXCEPT !.todo = Tracked] /\ rec.op = "exit"
    <3>1. Tracked \in SUBSET Claims
      BY DEF Tracked, Entries
    <3>2. [b EXCEPT !.todo = Tracked] \in CallRecord
      BY <3>1 DEF CallRecord
    <3>3. QED
      BY <2>1, <3>2 DEF CallRecord
  <2>3. DeleteNext(k, rec, registry)
    BY <1>4, <2>1, <2>2 DEF Exit
  <2>4. QED
    BY <1>1, <1>2, <2>2, <2>3, DeleteNextKeeps
<1>5. QED
  BY <1>3, <1>4

(* A close that waited for the lock begins its sweep.                      *)
LEMMA CloseLaterStep ==
  ASSUME RegistryInv, NEW k \in Calls, CloseLater(k)
  PROVE  RegistryInv'
<1>1. /\ TypeOK /\ ~Over(k) /\ ~Creating(k) /\ call[k] \in CallRecord /\ lock = None
  BY UnderWay DEF CloseLater, At, Free
<1>2. ClaimsShrink /\ HandlesClose /\ Fewer(registry)
  BY <1>1 DEF CloseLater, ClaimsShrink, HandlesClose, Fewer, TypeOK, Exists
<1>3. call[k].op # "create" /\ Sweep(k, call[k], registry, Entries(registry))
  BY <1>1 DEF CloseLater, Creating, Tracked
<1>4. QED
  BY <1>1, <1>2, <1>3, SweepKeeps

(* A turn of the sweep: a handle is closed, or its failure noted.          *)
LEMMA SweepOneShape ==
  ASSUME TypeOK, NEW k \in Calls, SweepOne(k)
  PROVE  \E d \in call[k].todo, rec \in CallRecord :
           /\ Sweep(k, rec, registry, call[k].todo \ {d})
           /\ \/ /\ handle' = [handle EXCEPT ![registry[d]] = "closed"]
                 /\ rec = call[k]
              \/ /\ MayFail /\ UNCHANGED handle
                 /\ rec.op = call[k].op /\ rec.unclosed = call[k].unclosed \cup {d}
<1>1. call[k] \in CallRecord /\ call[k].todo \subseteq Claims
  BY DEF TypeOK, CallRecord
<1>2. PICK d \in call[k].todo :
        \/ /\ handle' = [handle EXCEPT ![registry[d]] = "closed"]
           /\ Sweep(k, call[k], registry, call[k].todo \ {d})
        \/ /\ MayFail /\ UNCHANGED handle
           /\ Sweep(k, [call[k] EXCEPT !.unclosed = @ \cup {d}], registry, call[k].todo \ {d})
  BY DEF SweepOne
<1>3. PICK rec \in CallRecord :
        /\ rec = [call[k] EXCEPT !.unclosed = @ \cup {d}]
        /\ rec.op = call[k].op /\ rec.unclosed = call[k].unclosed \cup {d}
  <2>1. d \in Claims /\ call[k].unclosed \in SUBSET Claims
    BY <1>1 DEF CallRecord
  <2>2. call[k].unclosed \cup {d} \in SUBSET Claims
    BY <2>1
  <2>3. [call[k] EXCEPT !.unclosed = @ \cup {d}] \in CallRecord
    BY <1>1, <2>2 DEF CallRecord
  <2>4. QED
    BY <1>1, <2>3 DEF CallRecord
<1>4. QED
  BY <1>1, <1>2, <1>3

(* It leaves untried only what is still before it.                         *)
LEMMA SweepOneMisses ==
  ASSUME RegistryInv, NEW k \in Calls, SweepOne(k),
         NEW d \in call[k].todo, NEW rec,
         \/ handle' = [handle EXCEPT ![registry[d]] = "closed"] /\ rec = call[k]
         \/ UNCHANGED handle /\ rec.unclosed = call[k].unclosed \cup {d},
         NEW c \in Tracked, handle'[registry[c]] = "open"
  PROVE  c \in (call[k].todo \ {d}) \cup rec.unclosed
<1>1. TypeOK /\ registry[c] \in Calls
  BY DEF RegistryInv, TypeOK, Tracked, Entries
<1>2. handle[registry[c]] = "open" => c \in call[k].todo \cup call[k].unclosed
  BY DEF RegistryInv, SweepHasTheOpen, SweepOne
<1>3. CASE handle' = [handle EXCEPT ![registry[d]] = "closed"] /\ rec = call[k]
  BY <1>1, <1>2, <1>3 DEF TypeOK
<1>4. CASE UNCHANGED handle /\ rec.unclosed = call[k].unclosed \cup {d}
  BY <1>2, <1>4
<1>5. QED
  BY <1>3, <1>4

(* The sweep keeps the invariant.                                          *)
LEMMA SweepOneStep ==
  ASSUME RegistryInv, NEW k \in Calls, SweepOne(k)
  PROVE  RegistryInv'
<1>1. /\ TypeOK /\ ~Over(k) /\ ~Creating(k) /\ call[k] \in CallRecord /\ lock = k
      /\ call[k].todo \subseteq Tracked
  BY DEF RegistryInv, Places, TypeOK, SweepHasTheOpen, SweepOne, At, Over, Ended
<1>2. PICK d \in call[k].todo, rec \in CallRecord :
        /\ Sweep(k, rec, registry, call[k].todo \ {d})
        /\ \/ /\ handle' = [handle EXCEPT ![registry[d]] = "closed"]
              /\ rec = call[k]
           \/ /\ UNCHANGED handle
              /\ rec.op = call[k].op /\ rec.unclosed = call[k].unclosed \cup {d}
  BY <1>1, SweepOneShape
<1>3. ClaimsShrink /\ HandlesClose /\ Fewer(registry)
  BY <1>1, <1>2 DEF SweepOne, ClaimsShrink, HandlesClose, Fewer, TypeOK, Exists
<1>4. \A c \in Tracked :
        handle'[registry[c]] = "open" => c \in (call[k].todo \ {d}) \cup rec.unclosed
  BY <1>2, SweepOneMisses
<1>5. rec.op # "create" /\ call[k].todo \ {d} \subseteq Entries(registry)
  BY <1>1, <1>2 DEF Creating, Tracked
<1>6. QED
  BY <1>1, <1>2, <1>3, <1>4, <1>5, SweepKeeps DEF Tracked

(* The API session is closed: the requests under way are cut.              *)
LEMMA CloseApiStep ==
  ASSUME RegistryInv, NEW k \in Calls, CloseApi(k)
  PROVE  RegistryInv'
<1>1. /\ TypeOK /\ ~Over(k) /\ ~Creating(k) /\ call[k].at # "sweeping" /\ call[k] \in CallRecord
      /\ "done" \in PC
  BY UnderWay DEF CloseApi, At, PC, Ended
<1>2. /\ To(call[k], "done") \in CallRecord /\ To(call[k], "done").at = "done"
      /\ To(call[k], "done").op = call[k].op
  BY <1>1, ToShape
<1>3. \A j \in Calls \ {k} :
        [call[j] EXCEPT !.cut = ~Idle(j) /\ ~Over(j)] \in CallRecord
  <2>1. \A j \in Calls : (~Idle(j) /\ ~Over(j)) \in BOOLEAN /\ call[j] \in CallRecord
    BY <1>1 DEF TypeOK
  <2>2. QED
    BY <2>1 DEF CallRecord
<1>4. call' \in [Calls -> CallRecord] /\ call'[k] = To(call[k], "done")
  BY <1>2, <1>3 DEF CloseApi
<1>5. OthersStay(k)
  <2>1. \A j \in Calls \ {k} :
          call'[j] = [call[j] EXCEPT !.cut = ~Idle(j) /\ ~Over(j)] /\ call[j] \in CallRecord
    BY <1>1 DEF CloseApi, TypeOK
  <2>2. QED
    BY <2>1 DEF OthersStay, CallRecord
<1>6. ~Creating(k)' /\ ClaimsShrink /\ HandlesClose /\ Fewer(registry')
  BY <1>1, <1>2, <1>4 DEF Creating, ClaimsShrink, HandlesClose, Fewer, TypeOK, Exists, CloseApi
<1>7. QED
  BY <1>1, <1>2, <1>4, <1>5, <1>6, OtherMoves DEF CloseApi

-----------------------------------------------------------------------------
(* terminate returns or raises, and get_sandbox finds its claim or not.    *)

(* An entry is popped, at once or when the lock is free.                   *)
LEMMA PopKeeps ==
  ASSUME RegistryInv, NEW k \in Calls, ~Over(k), ~Creating(k), call[k].at # "sweeping",
         ClaimsShrink, UNCHANGED handle, Pop(k)
  PROVE  RegistryInv'
<1>1. TypeOK /\ "popping" \in PC /\ Outcome(k) \in {"done", "raised"}
  BY DEF RegistryInv, PC, Outcome
<1>2. Fewer(Popped(k)) /\ Fewer(registry)
  BY <1>1, PoppedIsFewer
<1>3. CASE Uncontended(k)
  <2>1. Continue(k, Popped(k), Outcome(k)) /\ Free
    BY <1>3 DEF Pop, Uncontended
  <2>2. QED
    BY <1>1, <1>2, <2>1, ContinueKeeps
<1>4. CASE ~Uncontended(k)
  <2>1. Goto(k, "popping") /\ registry' = registry /\ lock' = lock
    BY <1>4 DEF Pop
  <2>2. /\ call' \in [Calls -> CallRecord] /\ OthersStay(k) /\ call'[k].at = "popping"
        /\ call'[k].op = call[k].op
    BY <1>1, <2>1, GotoShape
  <2>3. HandlesClose /\ ~Creating(k)' /\ Fewer(registry')
    BY <1>1, <1>2, <2>1, <2>2 DEF HandlesClose, TypeOK, Creating
  <2>4. QED
    BY <2>1, <2>2, <2>3, OtherMoves
<1>5. QED
  BY <1>3, <1>4

(* A deletion, carried out or not, brings no claim back.                   *)
LEMMA DeletesOrNot ==
  ASSUME TypeOK, NEW c, Deleted(c) \/ UNCHANGED claim
  PROVE  ClaimsShrink
BY DEF TypeOK, Deleted, Exists, ClaimsShrink

(* The call goes on when terminate has returned.                           *)
LEMMA TerminateReturnsStep ==
  ASSUME RegistryInv, NEW k \in Calls,
         \/ TerminateReturns(k) \/ TerminateRaises(k) \/ CloseConnectionRaises(k)
         \/ DeleteUntracked(k) \/ PopLater(k)
  PROVE  RegistryInv'
<1>1. /\ TypeOK /\ ~Over(k) /\ ~Creating(k) /\ call[k].at # "sweeping" /\ call[k] \in CallRecord
      /\ Fewer(registry) /\ Fewer(Popped(k)) /\ Outcome(k) \in {"done", "raised"}
  BY UnderWay, PoppedIsFewer
     DEF TerminateReturns, TerminateRaises, CloseConnectionRaises, DeleteUntracked, PopLater, At,
         Outcome
<1>2. ClaimsShrink /\ UNCHANGED handle
  BY <1>1, DeletesOrNot
     DEF TerminateReturns, TerminateRaises, CloseConnectionRaises, DeleteUntracked, PopLater,
         PerhapsDeleted
<1>3. CASE Pop(k)
  BY <1>1, <1>2, <1>3, PopKeeps
<1>4. ASSUME NEW pc \in {"done", "raised"}, Continue(k, registry, pc)
      PROVE  RegistryInv'
  BY <1>1, <1>2, <1>4, ContinueKeeps
<1>5. CASE PopLater(k)
  BY <1>1, <1>2, <1>5, ContinueKeeps DEF PopLater
<1>6. QED
  BY <1>3, <1>4, <1>5 DEF TerminateReturns, TerminateRaises, CloseConnectionRaises, DeleteUntracked

(* A getter has read its claim and goes on.                                *)
LEMMA ResolvedStep ==
  ASSUME RegistryInv, NEW k \in Calls, Resolved(k)
  PROVE  RegistryInv'
<1>1. /\ TypeOK /\ ~Over(k) /\ ~Creating(k) /\ call[k].at # "sweeping" /\ ~Idle(k)
      /\ {"done", "replacing"} \subseteq PC /\ ~At(k, "inserting")
  BY UnderWay DEF Resolved, At, PC, Ended
<1>2. ASSUME NEW pc \in {"done", "replacing"}, Goto(k, pc), UNCHANGED <<handle, registry>>
      PROVE  RegistryInv'
  <2>1. HandlesClose /\ UNCHANGED <<claim, registry, lock>>
    BY <1>1, <1>2 DEF HandlesClose, TypeOK, Resolved
  <2>2. QED
    BY <1>1, <1>2, <2>1, GoesOn
<1>3. ASSUME handle' = [handle EXCEPT ![k] = "open"], Insert(k)
      PROVE  RegistryInv'
  BY <1>1, <1>3, InsertStep DEF Resolved, Insert, Uncontended
<1>4. QED
  BY <1>2, <1>3 DEF Resolved

(* A getter whose read failed terminates the handle it had.                *)
LEMMA ResolveFailsStep ==
  ASSUME RegistryInv, NEW k \in Calls, ResolveFails(k)
  PROVE  RegistryInv'
<1>1. TypeOK /\ ~Over(k) /\ ~Creating(k) /\ call[k].at # "sweeping"
  BY UnderWay DEF ResolveFails, At
<1>2. ClaimsShrink /\ HandlesClose /\ UNCHANGED <<claim, handle>>
  BY <1>1 DEF ClaimsShrink, HandlesClose, TypeOK, Exists, ResolveFails
<1>3. CASE Pop(k)
  BY <1>1, <1>2, <1>3, PopKeeps
<1>4. CASE Goto(k, FirstAwait(call[k].seen)) /\ UNCHANGED <<registry, lock>>
  <2>1. /\ FirstAwait(call[k].seen) \in PC
        /\ FirstAwait(call[k].seen) \in {"deleting_claim", "closing", "deleting"}
    BY FirstAwaitIsPlace
  <2>2. QED
    BY <1>1, <1>2, <1>4, <2>1, GoesOn
<1>5. QED
  BY <1>3, <1>4 DEF ResolveFails

-----------------------------------------------------------------------------
(* list_active_sandboxes, cancellation, and the cluster.                   *)

(* A call is cancelled at an await.                                        *)
LEMMA CancelStep ==
  ASSUME RegistryInv, NEW k \in Calls, Cancel(k)
  PROVE  RegistryInv'
<1>1. TypeOK /\ ~Over(k) /\ {"cleaning", "cancelled"} \subseteq PC
  BY DEF RegistryInv, Cancel, PC, Ended
<1>2. PICK pc \in {"cleaning", "cancelled"} :
        Goto(k, pc) /\ (pc = "cleaning" => call[k].at \in {"requesting", "waiting"})
  BY DEF Cancel
<1>3. /\ call' \in [Calls -> CallRecord] /\ OthersStay(k) /\ call'[k].at = pc
      /\ call'[k].op = call[k].op
  BY <1>1, <1>2, GotoShape
<1>4. Created(k) \/ Deleted(call[k].claim) \/ UNCHANGED claim
  BY DEF Cancel, At, PerhapsDeleted
<1>5. /\ claim' \in [Claims -> {"none", "created", "ready", "deleted"}]
      /\ \A d \in Claims \ {k} : Exists(d)' => Exists(d)
  BY <1>1, <1>4, ClaimShape
<1>6. registry' = registry /\ handle' = handle
  BY DEF Cancel
<1>7. \/ lock' = lock /\ registry' = registry /\ call[k].at # "sweeping"
      \/ lock = k /\ lock' = None
  BY <1>6 DEF Cancel, RegistryInv, SweepHasTheOpen, At
<1>8. /\ registry' \in [Claims -> Calls \cup {None}]
      /\ handle' \in [Calls -> {"none", "open", "closed"}]
  BY <1>1, <1>6 DEF TypeOK
<1>9. Creating(k)' <=> Creating(k)
  BY <1>3 DEF Creating
<1>10. pc = "cleaning" => Creating(k)
  BY <1>2 DEF RegistryInv, Places
<1>11. /\ Creating(k)' =>
            call'[k].at \in {"requesting", "waiting", "cleaning", "inserting"} \cup Ended
       /\ call'[k].at \notin {"none", "inserting", "reading", "sweeping", "raised"}
       /\ call'[k].at \in {"requesting", "waiting", "cleaning"} => Creating(k)'
  BY <1>3, <1>9, <1>10 DEF Ended
<1>12. QED
  BY <1>1, <1>3, <1>5, <1>6, <1>7, <1>8, <1>11, CallStep

(* A listing forgets the handles that are closed.                          *)
LEMMA ListActiveStep ==
  ASSUME RegistryInv, ListActive
  PROVE  RegistryInv'
<1>1. \A c \in Claims : registry'[c] # None => registry'[c] = registry[c]
  BY DEF ListActive
<1>2. TypeOK'
  BY DEF RegistryInv, TypeOK, ListActive
<1>3. \A k \in Calls : call[k].at # "sweeping"
  BY RegistryAssumption DEF RegistryInv, SweepHasTheOpen, ListActive, Free, At
<1>4. Places' /\ RaisedCreateLeavesNoClaim'
  BY DEF RegistryInv, Places, RaisedCreateLeavesNoClaim, ListActive, At, Idle, Creating, Exists
<1>5. EntriesAreDone'
  BY <1>1 DEF RegistryInv, EntriesAreDone, ListActive, At
<1>6. SweepHasTheOpen'
  BY <1>3 DEF SweepHasTheOpen, ListActive, At
<1>7. QED
  BY <1>2, <1>4, <1>5, <1>6 DEF RegistryInv

(* The cluster makes a claim ready, or deletes it.                         *)
LEMMA ClusterStep ==
  ASSUME RegistryInv, NEW c \in Claims, BecomesReady(c) \/ Vanishes(c)
  PROVE  RegistryInv'
<1>1. UNCHANGED <<handle, registry, lock, call>>
  BY DEF BecomesReady, Vanishes
<1>2. /\ claim' \in [Claims -> {"none", "created", "ready", "deleted"}]
      /\ \A d \in Claims : Exists(d)' => Exists(d)
  BY DEF BecomesReady, Vanishes, Deleted, Exists, RegistryInv, TypeOK
<1>3. QED
  BY <1>1, <1>2
     DEF RegistryInv, TypeOK, Places, EntriesAreDone, SweepHasTheOpen, RaisedCreateLeavesNoClaim,
         At, Idle, Creating, Tracked, Entries, Claims

-----------------------------------------------------------------------------
(* The invariant holds.                                                    *)

(* It holds in the beginning.                                              *)
LEMMA RegistryInit == Init => RegistryInv
<1> SUFFICES ASSUME Init PROVE RegistryInv
  OBVIOUS
<1>1. TypeOK
  <2>1. [op |-> "none", at |-> "none", claim |-> None, seen |-> None, todo |-> {},
         unclosed |-> {}, cut |-> FALSE, failed |-> FALSE] \in CallRecord
    BY DEF CallRecord, PC
  <2>2. QED
    BY <2>1 DEF Init, TypeOK, NoEntries
<1>2. QED
  BY <1>1 DEF RegistryInv, Init, Places, EntriesAreDone, SweepHasTheOpen,
              RaisedCreateLeavesNoClaim, At, Idle, Creating, NoEntries, Ended

(* Every step keeps it.                                                    *)
LEMMA RegistryStep ==
  ASSUME RegistryInv, [Next]_vars
  PROVE  RegistryInv'
<1>1. ASSUME NEW k \in Calls, Start(k)
      PROVE  RegistryInv'
  BY <1>1, CreateSandboxStep, BeginsOnEntry, TerminateStep, CloseStep DEF Start
<1>2. ASSUME NEW k \in Calls, Proceed(k)
      PROVE  RegistryInv'
  BY <1>2, ClaimCreatedStep, SandboxReadyStep, CleanUpStep, ResolvedStep, ResolveFailsStep,
     CloseConnectionStep, TerminateReturnsStep, ReadLaterStep, CloseLaterStep, SweepOneStep,
     CloseApiStep DEF Proceed
<1>3. CASE UNCHANGED vars
  BY <1>3 DEF vars, RegistryInv, TypeOK, Places, EntriesAreDone, SweepHasTheOpen,
              RaisedCreateLeavesNoClaim, At, Idle, Creating, Tracked, Entries, Exists
<1>4. QED
  BY <1>1, <1>2, <1>3, CancelStep, ListActiveStep, ClusterStep DEF Next

(* RegistryInv is inductive.                                               *)
LEMMA RegistryInvariant == Spec => []RegistryInv
BY RegistryInit, RegistryStep, PTL DEF Spec

(* The types, and the lock is held by a close that sweeps (client 87-106). *)
THEOREM RegistryTypeOK == Spec => []TypeOK
<1>1. RegistryInv => TypeOK
  BY DEF RegistryInv
<1>2. QED
  BY <1>1, RegistryInvariant, PTL

(* A create_sandbox that raises leaves no claim, for any number of calls:  *)
(* whoever deletes the claim meanwhile, only its own request makes it.     *)
THEOREM RaisedCreateIsClean == Spec => []RaisedCreateLeavesNoClaim
<1>1. RegistryInv => RaisedCreateLeavesNoClaim
  BY DEF RegistryInv
<1>2. QED
  BY <1>1, RegistryInvariant, PTL

(* A call moves only by its own steps.                                     *)
LEMMA MovesAlone ==
  ASSUME TypeOK, NEW j \in Calls, Start(j) \/ Proceed(j) \/ Cancel(j), NEW k \in Calls \ {j}
  PROVE  call'[k].at = call[k].at /\ call'[k].op = call[k].op
<1>1. call[k] \in CallRecord /\ call \in [Calls -> CallRecord]
  BY DEF TypeOK
<1>2. ASSUME NEW rec, Is(j, rec)
      PROVE  call'[k] = call[k]
  BY <1>1, <1>2 DEF Is
<1>3. CASE Start(j)
  <2>1. \E rec : Is(j, rec)
    BY <1>3 DEF Start, CreateSandbox, GetSandbox, DeleteSandbox, Terminate, Close, Exit,
                DeleteNext, StartClose, Sweep
  <2>2. QED
    BY <1>2, <2>1
<1>4. CASE CloseApi(j)
  BY <1>1, <1>4 DEF CloseApi, CallRecord
<1>5. CASE Proceed(j) /\ ~CloseApi(j)
  <2>1. \E rec : Is(j, rec)
    <3>1. \A pc : Goto(j, pc) => \E rec : Is(j, rec)
      BY DEF Goto
    <3>2. \A reg, pc : Continue(j, reg, pc) => \E rec : Is(j, rec)
      BY <3>1 DEF Continue, DeleteNext, StartClose, Sweep
    <3>3. Pop(j) \/ Put(j) \/ Insert(j) => \E rec : Is(j, rec)
      BY <3>1, <3>2 DEF Pop, Put, Insert
    <3>4. QED
      BY <1>5, <3>1, <3>2, <3>3
         DEF Proceed, ClaimCreated, ClaimRefused, SandboxReady, InsertLater, WaitFails, CleanUp,
             Resolved, ReplaceLater, ResolveFails, CloseConnection, CloseConnectionRaises,
             TerminateReturns, TerminateRaises, PopLater, DeleteUntracked, ReadLater, CloseLater, SweepOne, Sweep
  <2>2. QED
    BY <1>2, <2>1
<1>6. CASE Cancel(j)
  BY <1>2, <1>6 DEF Cancel, Goto
<1>7. QED
  BY <1>3, <1>4, <1>5, <1>6

(* close has closed, or tried and failed to close, every handle it removes,*)
(* for any number of calls and whichever closes raise: nothing enters the  *)
(* registry, no handle is opened again and no entry is missed while it has *)
(* the lock.                                                               *)
THEOREM CloseClosesAll == Spec => CloseClosesWhatItClears
<1>1. ASSUME RegistryInv, [Next]_vars, NEW k \in Calls, At(k, "sweeping"),
             call'[k].at = "closing_api", NEW c \in Tracked
      PROVE  handle'[registry[c]] = "closed" \/ c \in call'[k].unclosed
  <2>1. TypeOK /\ call[k] \in CallRecord
    BY <1>1 DEF RegistryInv, TypeOK
  <2>2. Start(k) \/ Proceed(k) \/ Cancel(k)
    <3>1. call' # call
      BY <1>1 DEF At
    <3>2. PICK j \in Calls : Start(j) \/ Proceed(j) \/ Cancel(j)
      BY <1>1, <3>1 DEF Next, vars, ListActive, BecomesReady, Vanishes
    <3>3. j = k
      BY <1>1, <2>1, <3>2, MovesAlone DEF At
    <3>4. QED
      BY <3>2, <3>3
  <2>3. ~Cancel(k)
    <3>1. {"cleaning", "cancelled"} \subseteq PC
      BY DEF PC, Ended
    <3>2. Cancel(k) => call'[k].at \in {"cleaning", "cancelled"}
      BY <2>1, <3>1, GotoShape DEF Cancel
    <3>3. QED
      BY <1>1, <3>2
  <2>4. SweepOne(k)
    BY <1>1, <2>2, <2>3
       DEF At, Start, CreateSandbox, GetSandbox, DeleteSandbox, Terminate, Close, Exit, MayBegin,
           Idle, Proceed, ClaimCreated, ClaimRefused, SandboxReady, InsertLater, WaitFails, CleanUp,
           Resolved, ReplaceLater, ResolveFails, CloseConnection, CloseConnectionRaises,
           TerminateReturns, TerminateRaises, PopLater, DeleteUntracked, ReadLater, CloseLater, CloseApi
  <2>5. PICK d \in call[k].todo, rec \in CallRecord :
          /\ Sweep(k, rec, registry, call[k].todo \ {d})
          /\ \/ handle' = [handle EXCEPT ![registry[d]] = "closed"] /\ rec = call[k]
             \/ UNCHANGED handle /\ rec.unclosed = call[k].unclosed \cup {d}
    BY <2>1, <2>4, SweepOneShape
  <2>6. /\ handle'[registry[c]] \in {"open", "closed"}
        /\ handle'[registry[c]] = "open" => c \in (call[k].todo \ {d}) \cup rec.unclosed
    <3>1. c \in Claims /\ registry[c] \in Calls /\ handle[registry[c]] \in {"open", "closed"}
      BY <1>1, <2>1 DEF RegistryInv, TypeOK, EntriesAreDone, Tracked, Entries
    <3>2. handle'[registry[c]] \in {"open", "closed"}
      BY <2>1, <2>5, <3>1 DEF TypeOK
    <3>3. QED
      BY <1>1, <2>4, <2>5, <3>2, SweepOneMisses
  <2>7. /\ {b \in call[k].todo \ {d} : handle'[registry[b]] = "open"} = {}
        /\ call'[k].unclosed = rec.unclosed
    <3>1. {"sweeping", "closing_api"} \subseteq PC
      BY DEF PC
    <3>2. ASSUME NEW pc \in {"sweeping", "closing_api"}, NEW left \in SUBSET Claims,
                 Is(k, [To(rec, pc) EXCEPT !.todo = left])
          PROVE  call'[k].at = pc /\ call'[k].unclosed = rec.unclosed
      <4>1. PICK r \in CallRecord : r = To(rec, pc) /\ r.at = pc /\ r.unclosed = rec.unclosed
        <5>1. /\ To(rec, pc) \in CallRecord /\ To(rec, pc).at = pc
              /\ To(rec, pc).unclosed = rec.unclosed
          BY <3>1, ToShape
        <5>2. QED
          BY <5>1
      <4>2. PICK new \in CallRecord :
              /\ new = [To(rec, pc) EXCEPT !.todo = left]
              /\ new.at = pc /\ new.unclosed = rec.unclosed
        <5>1. [r EXCEPT !.todo = left] \in CallRecord
          BY <4>1 DEF CallRecord
        <5>2. [r EXCEPT !.todo = left].at = pc /\ [r EXCEPT !.todo = left].unclosed = rec.unclosed
          BY <4>1 DEF CallRecord
        <5>3. QED
          BY <4>1, <5>1, <5>2
      <4>3. call'[k] = new
        BY <2>1, <3>2, <4>2, IsShape
      <4>4. QED
        BY <4>2, <4>3
    <3>3. {b \in call[k].todo \ {d} : handle'[registry[b]] = "open"} \in SUBSET Claims
      BY <2>1 DEF CallRecord
    <3>4. QED
      BY <1>1, <2>5, <3>2, <3>3 DEF Sweep
  <2>8. QED
    BY <2>6, <2>7
<1>2. RegistryInv /\ [Next]_vars =>
        [\A k \in Calls :
           At(k, "sweeping") /\ call'[k].at = "closing_api" =>
             \A c \in Tracked :
               handle'[registry[c]] = "closed" \/ c \in call'[k].unclosed]_vars
  BY <1>1
<1>3. QED
  BY <1>2, RegistryInvariant, PTL DEF Spec, CloseClosesWhatItClears

-----------------------------------------------------------------------------
(* Where no request fails, nothing is cancelled, and the client is closed  *)
(* by __aexit__ alone.                                                     *)

(* The types, as a step finds and leaves them.                             *)
LEMMA Shape ==
  ASSUME RegistryInv
  PROVE  /\ claim \in [Claims -> {"none", "created", "ready", "deleted"}]
         /\ handle \in [Calls -> {"none", "open", "closed"}]
         /\ registry \in [Claims -> Calls \cup {None}]
         /\ call \in [Calls -> CallRecord] /\ lock \in Calls \cup {None}
         /\ None \notin Calls /\ Claims = Calls
BY RegistryAssumption DEF RegistryInv, TypeOK, Claims

(* What PlaceOfOp says of one call, ClaimsAreMade of what it names,        *)
(* HandlesAreOfClaims of what it works on, and ExitWorksOff.               *)
Placed(k) ==
  LET at == call[k].at
  IN  /\ call[k].op = "none" <=> at = "none"
      /\ Creating(k) => at \in {"requesting", "waiting", "cleaning", "done", "raised"}
      /\ Creating(k) => call[k].claim = k
      /\ call[k].op = "get" => Terminating(k) \/ at \in {"resolving", "done", "raised"}
      /\ call[k].op = "delete" => Terminating(k) \/ at \in {"deleting_claim", "done"}
      /\ call[k].op = "terminate" => Terminating(k) \/ at = "done"
      /\ call[k].op = "exit" =>
           Terminating(k) \/ at \in {"deleting_claim", "sweeping", "closing_api", "done"}

Names(k) ==
  /\ claim[k] # "none" => Creating(k) /\ ~At(k, "requesting")
  /\ claim[k] = "created" => At(k, "waiting") \/ At(k, "cleaning")
  /\ call[k].op \in {"get", "delete", "terminate"} =>
       call[k].claim \in Claims /\ claim[call[k].claim] # "none"
  /\ call[k].op = "exit" /\ (Terminating(k) \/ At(k, "deleting_claim")) =>
       call[k].claim \in Claims

WorksOn(k) ==
  /\ handle[k] # "none" =>
       At(k, "done") /\ call[k].op \in {"create", "get"} /\ claim[call[k].claim] # "none"
  /\ Terminating(k) => HandleOf(call[k].seen, call[k].claim)
  /\ At(k, "resolving") /\ call[k].seen # None => HandleOf(call[k].seen, call[k].claim)

WorkedOff(k) ==
  call[k].op = "exit" =>
    \A c \in Claims :
      Exists(c) =>
        \/ Terminating(k) /\ (c = call[k].claim \/ c \in call[k].todo)
        \/ At(k, "deleting_claim") /\ (c = call[k].claim \/ c \in call[k].todo)

(* A call that is under way has no exit beside it.                         *)
LEMMA NoExitBeside ==
  ASSUME OrderlyInv, NEW k \in Calls, ~Over(k), ~Idle(k)
  PROVE  \A j \in Calls \ {k} : call[j].op # "exit"
BY DEF OrderlyInv, NobodyWaits

(* It finds the lock free, unless it is the exit's sweep.                  *)
LEMMA LockIsFree ==
  ASSUME Orderly, RegistryInv, OrderlyInv, NEW k \in Calls,
         \A j \in Calls \ {k} : call[j].op # "exit", ~At(k, "sweeping")
  PROVE  Uncontended(k) /\ Free
<1>1. ASSUME lock # None PROVE FALSE
  <2>1. lock \in Calls /\ call[lock].at = "sweeping" /\ call[lock] \in CallRecord
    BY <1>1 DEF RegistryInv, TypeOK
  <2>2. lock # k
    BY <2>1 DEF At
  <2>3. call[lock].op \in {"create", "get", "delete", "terminate", "close"}
    BY <2>1, <2>2 DEF CallRecord, Operations, OrderlyInv, PlaceOfOp
  <2>4. call[lock].op # "close"
    BY <2>1 DEF OrderlyInv, NobodyWaits
  <2>5. QED
    BY <2>1, <2>3, <2>4 DEF OrderlyInv, PlaceOfOp, Terminating, Creating
<1>2. QED
  BY <1>1 DEF Uncontended, Free, OrderlyInv, NobodyWaits

(* A step of one call, the others as they were.  It makes no claim but its *)
(* own and no handle but its own; an entry it removes is of a claim that is*)
(* gone or answered for; a handle it closes is of one.                     *)
LEMMA OrderlyCall ==
  ASSUME RegistryInv, RegistryInv', OrderlyInv, NEW k \in Calls, ~Over(k),
         OthersStay(k), \A j \in Calls : ~call'[j].cut,
         \A j \in Calls \ {k} : call[j].op # "exit",
         call'[k].op = "exit" => \A j \in Calls \ {k} : Idle(j) \/ Over(j),
         ~Waits(k)', ~call'[k].failed, call'[k].op # "close",
         \A c \in Claims : claim[c] # "none" => claim'[c] # "none",
         \A c \in Claims \ {k} :
           /\ claim'[c] # "none" => claim[c] # "none"
           /\ claim'[c] = "created" => claim[c] = "created",
         Exists(k)' => Exists(k) \/ claim[k] = "none",
         \A c \in Claims \ {k} : Exists(c)' => Exists(c),
         \A h \in Calls \ {k} : handle'[h] = "none" <=> handle[h] = "none",
         \A h \in Calls \ {k} :
           handle'[h] = "closed" =>
             \/ handle[h] = "closed"
             \/ ~Exists(call[h].claim)'
             \/ At(k, "deleting")' /\ call'[k].claim = call[h].claim,
         handle'[k] # "closed",
         \A c \in Claims : At(k, "deleting") /\ call[k].claim = c => ~Exists(c)',
         \A c \in Claims :
           registry'[c] # None => registry'[c] = registry[c] \/ (registry'[c] = k /\ handle'[k] # "none" /\ call'[k].claim = c),
         \A c \in Claims :
           Exists(c)' =>
             \/ c = k /\ Creating(k)' /\ ~Over(k)'
             \/ registry'[c] # None
             \/ At(k, "deleting")' /\ call'[k].claim = c
             \/ c # k /\ Creating(c) /\ ~Over(c)
             \/ Exists(c) /\ registry'[c] = registry[c] /\ ~(c = k /\ Creating(k)),
         Placed(k)', Names(k)', WorksOn(k)', WorkedOff(k)'
  PROVE  OrderlyInv'
<1> USE DEF OrderlyInv, OthersStay
<1>1. /\ claim \in [Claims -> {"none", "created", "ready", "deleted"}]
      /\ claim' \in [Claims -> {"none", "created", "ready", "deleted"}]
      /\ handle \in [Calls -> {"none", "open", "closed"}]
      /\ handle' \in [Calls -> {"none", "open", "closed"}]
      /\ registry \in [Claims -> Calls \cup {None}]
      /\ registry' \in [Claims -> Calls \cup {None}]
      /\ None \notin Calls /\ Claims = Calls
      /\ call \in [Calls -> CallRecord]
  <2>1. Shape!1
    BY Shape
  <2>2. QED
    BY RegistryAssumption DEF RegistryInv, TypeOK, Claims
<1>2. NobodyWaits'
  BY DEF NobodyWaits, Waits, Idle, Over, At
<1>3. PlaceOfOp'
  BY DEF PlaceOfOp, Placed, Creating, Terminating
<1>4. ClaimsAreMade'
  <2>1. Names(k)'
    OBVIOUS
  <2>2. ASSUME NEW j \in Calls \ {k}
        PROVE  Names(j)'
    BY <1>1 DEF ClaimsAreMade, Names, Creating, At, Terminating
  <2>3. QED
    BY <2>1, <2>2 DEF ClaimsAreMade, Names
<1>5. \A h \in Calls : handle[h] # "none" => h # k /\ call[h].claim \in Claims
  BY <1>1 DEF HandlesAreOfClaims, ClaimsAreMade, PlaceOfOp, Over, At, Ended, Creating
<1>6. \A h, c : HandleOf(h, c) =>
                   h \in Calls \ {k} /\ handle'[h] # "none" /\ call'[h].claim = c
  BY <1>5 DEF HandleOf
<1>7. HandlesAreOfClaims'
  <2>1. ASSUME NEW j \in Calls \ {k}
        PROVE  WorksOn(j)'
    <3>1. WorksOn(j)
      BY DEF HandlesAreOfClaims, WorksOn
    <3>2. handle'[j] # "none" =>
            At(j, "done")' /\ call'[j].op \in {"create", "get"} /\ claim'[call'[j].claim] # "none"
      BY <1>5, <3>1 DEF WorksOn, At
    <3>3. /\ Terminating(j)' => HandleOf(call[j].seen, call[j].claim)
          /\ At(j, "resolving")' /\ call'[j].seen # None => HandleOf(call[j].seen, call[j].claim)
      BY <3>1 DEF WorksOn, At, Terminating
    <3>4. HandleOf(call[j].seen, call[j].claim) => HandleOf(call[j].seen, call[j].claim)'
      BY <1>6 DEF HandleOf
    <3>5. QED
      BY <3>2, <3>3, <3>4 DEF WorksOn
  <2>2. ASSUME NEW c \in Claims, registry'[c] # None
        PROVE  /\ registry'[c] \in Calls /\ handle'[registry'[c]] # "none"
               /\ call'[registry'[c]].claim = c
    <3>1. CASE registry'[c] = registry[c]
      <4>1. HandleOf(registry[c], c)
        BY <2>2, <3>1 DEF HandlesAreOfClaims
      <4>2. QED
        BY <1>6, <3>1, <4>1
    <3>2. CASE registry'[c] = k /\ handle'[k] # "none" /\ call'[k].claim = c
      BY <3>2
    <3>3. QED
      BY <2>2, <3>1, <3>2
  <2>3. QED
    BY <2>1, <2>2 DEF HandlesAreOfClaims, WorksOn, HandleOf
<1>8. ASSUME NEW c \in Claims, NEW j \in Calls \ {k}, call[j].claim = c, At(j, "deleting")
      PROVE  BeingDeleted(c)'
  BY <1>8 DEF BeingDeleted, At
<1>9. AnsweredFor'
  <2> SUFFICES ASSUME NEW c \in Claims, Exists(c)'
               PROVE  (Creating(c)' /\ ~Over(c)') \/ registry'[c] # None \/ BeingDeleted(c)'
    BY DEF AnsweredFor
  <2>1. CASE c # k /\ Creating(c) /\ ~Over(c)
    BY <1>1, <2>1 DEF Creating, Over
  <2>2. CASE Exists(c) /\ registry'[c] = registry[c] /\ ~(c = k /\ Creating(k))
    <3>1. (Creating(c) /\ ~Over(c)) \/ registry[c] # None \/ BeingDeleted(c)
      BY <2>2 DEF AnsweredFor
    <3>2. CASE BeingDeleted(c)
      BY <1>8, <3>2 DEF BeingDeleted
    <3>3. QED
      BY <2>1, <2>2, <3>1, <3>2
  <2>3. CASE At(k, "deleting")' /\ call'[k].claim = c
    BY <2>3 DEF BeingDeleted
  <2>4. QED
    BY <2>1, <2>2, <2>3
<1>10. ClosedIsGivenUp'
  <2> SUFFICES ASSUME NEW h \in Calls, handle'[h] = "closed"
               PROVE  ~Exists(call[h].claim)' \/ BeingDeleted(call[h].claim)'
    BY DEF ClosedIsGivenUp
  <2>1. h # k /\ call'[h].claim = call[h].claim /\ call[h].claim \in Claims
    BY <1>1, <1>5
  <2>2. CASE At(k, "deleting")' /\ call'[k].claim = call[h].claim
    BY <2>1, <2>2 DEF BeingDeleted
  <2>3. CASE handle[h] = "closed" /\ ~Exists(call[h].claim)
    <3>1. claim[call[h].claim] # "none"
      BY <2>3 DEF HandlesAreOfClaims
    <3>2. QED
      BY <2>1, <2>3, <3>1
  <2>4. CASE handle[h] = "closed" /\ BeingDeleted(call[h].claim)
    <3>1. PICK j \in Calls : call[j].claim = call[h].claim /\ At(j, "deleting")
      BY <2>4 DEF BeingDeleted
    <3>2. CASE j = k
      BY <2>1, <3>1, <3>2 DEF Exists
    <3>3. CASE j # k
      BY <1>8, <2>1, <3>1, <3>3
    <3>4. QED
      BY <3>2, <3>3
  <2>5. QED
    BY <2>1, <2>2, <2>3, <2>4 DEF ClosedIsGivenUp
<1>11. ExitWorksOff'
  BY DEF ExitWorksOff, WorkedOff
<1>20. QED
  BY <1>2, <1>3, <1>4, <1>7, <1>9, <1>10, <1>11

(* A call that leaves the claims, the handles and the registry as they are.*)
LEMMA OrderlyQuiet ==
  ASSUME RegistryInv, RegistryInv', OrderlyInv, NEW k \in Calls, ~Over(k), ~At(k, "deleting"),
         OthersStay(k), \A j \in Calls : ~call'[j].cut,
         \A j \in Calls \ {k} : call[j].op # "exit",
         call'[k].op = "exit" => \A j \in Calls \ {k} : Idle(j) \/ Over(j),
         ~Waits(k)', ~call'[k].failed, call'[k].op # "close",
         UNCHANGED <<claim, handle, registry>>,
         Creating(k) => Creating(k)' /\ ~Over(k)',
         Placed(k)', Names(k)', WorksOn(k)', WorkedOff(k)'
  PROVE  OrderlyInv'
<1>1. handle[k] = "none"
  BY Shape DEF OrderlyInv, HandlesAreOfClaims, Over, Ended, At
<1>2. /\ k \in Claims /\ \A c \in Claims : Exists(c)' <=> Exists(c)
      /\ Exists(k)' => Exists(k)
  BY Shape DEF Exists
<1>3. /\ \A c \in Claims : claim[c] # "none" => claim'[c] # "none"
      /\ \A c \in Claims \ {k} : /\ claim'[c] # "none" => claim[c] # "none"
                                 /\ claim'[c] = "created" => claim[c] = "created"
      /\ \A h \in Calls \ {k} : handle'[h] = "none" <=> handle[h] = "none"
      /\ handle'[k] # "closed"
      /\ \A c \in Claims : registry'[c] # None => registry'[c] = registry[c]
      /\ \A h \in Calls \ {k} : handle'[h] = "closed" => handle[h] = "closed"
  BY <1>1
<1>4. \A c \in Claims :
        Exists(c)' =>
          \/ c = k /\ Creating(k)' /\ ~Over(k)'
          \/ Exists(c) /\ registry'[c] = registry[c] /\ ~(c = k /\ Creating(k))
  BY <1>2
<1>5. QED
  BY <1>2, <1>3, <1>4, OrderlyCall

(* The records a step leaves.                                              *)
LEMMA OrderlyRecord ==
  ASSUME RegistryInv, OrderlyInv, NEW k \in Calls,
         NEW rec \in CallRecord, ~rec.cut, ~rec.failed, Is(k, rec)
  PROVE  /\ call'[k] = rec /\ OthersStay(k) /\ ~call'[k].failed
         /\ \A j \in Calls : ~call'[j].cut
<1>1. /\ call'[k] = rec /\ \A j \in Calls \ {k} : call'[j] = call[j]
      /\ OthersStay(k)
  BY IsShape DEF RegistryInv
<1>2. QED
  BY <1>1 DEF OrderlyInv, NobodyWaits

(* A call that goes on did not fail and is not cut.                        *)
LEMMA OrderlyGoto ==
  ASSUME RegistryInv, OrderlyInv, NEW k \in Calls, NEW pc \in PC, Goto(k, pc)
  PROVE  /\ OthersStay(k) /\ ~call'[k].failed /\ \A j \in Calls : ~call'[j].cut
         /\ call'[k].at = pc /\ call'[k].op = call[k].op /\ call'[k].claim = call[k].claim
         /\ call'[k].seen = call[k].seen /\ call'[k].todo = call[k].todo
<1>1. call[k] \in CallRecord /\ ~call[k].failed
  BY Shape DEF OrderlyInv, NobodyWaits
<1>2. PICK rec \in CallRecord :
        /\ rec = To(call[k], pc) /\ rec.at = pc /\ rec.op = call[k].op
        /\ rec.claim = call[k].claim /\ rec.seen = call[k].seen /\ rec.todo = call[k].todo
        /\ ~rec.failed /\ ~rec.cut
  <2>1. PICK rec \in CallRecord :
          /\ rec = To(call[k], pc) /\ rec.at = pc /\ rec.op = call[k].op
          /\ rec.claim = call[k].claim /\ rec.seen = call[k].seen /\ rec.todo = call[k].todo
          /\ rec.failed = call[k].failed /\ rec.cut = FALSE
    BY <1>1, ToShape
  <2>2. ~rec.failed /\ ~rec.cut
    BY <1>1, <2>1, Zenon
  <2>3. QED
    BY <2>1, <2>2
<1>3. Is(k, rec)
  BY <1>2 DEF Goto
<1>4. call'[k] = rec /\ OthersStay(k) /\ ~call'[k].failed /\ \A j \in Calls : ~call'[j].cut
  BY <1>2, <1>3, OrderlyRecord
<1>5. QED
  BY <1>2, <1>4

(* A call begins.                                                          *)
LEMMA OrderlyBegin ==
  ASSUME Orderly, RegistryInv, RegistryInv', OrderlyInv, NEW k \in Calls,
         NEW op \in Operations \ {"none", "exit", "close"}, NEW c \in Claims \cup {None},
         NEW rec \in CallRecord, rec.op = op, rec.claim = c, ~rec.cut, ~rec.failed,
         MayBegin(k, op), Is(k, rec), UNCHANGED <<claim, handle, registry>>,
         \/ op = "create" /\ c = k /\ rec.at = "requesting"
         \/ /\ op = "get" /\ rec.at = "resolving" /\ c \in Claims /\ claim[c] # "none"
            /\ rec.seen = None \/ HandleOf(rec.seen, c)
         \/ /\ op = "delete" /\ c \in Claims /\ claim[c] # "none"
            /\ \/ rec.at = "deleting_claim"
               \/ rec.at \in {"closing", "deleting"} /\ HandleOf(rec.seen, c)
         \/ /\ op = "terminate" /\ c \in Claims /\ claim[c] # "none"
            /\ rec.at \in {"closing", "deleting"} /\ HandleOf(rec.seen, c)
  PROVE  OrderlyInv'
<1>1. /\ call'[k] = rec /\ OthersStay(k) /\ ~call'[k].failed
      /\ \A j \in Calls : ~call'[j].cut
  BY OrderlyRecord
<1>2. /\ ~Over(k) /\ Idle(k) /\ call[k].op = "none" /\ ~At(k, "deleting") /\ ~Creating(k)
      /\ \A j \in Calls \ {k} : call[j].op # "exit"
  BY DEF MayBegin, Idle, At, Over, Ended, Orderly, OrderlyInv, PlaceOfOp, Creating
<1>3. claim[k] = "none" /\ handle[k] = "none"
  BY <1>2, Shape DEF OrderlyInv, ClaimsAreMade, HandlesAreOfClaims, At
<1>4. ~Waits(k)' /\ call'[k].op # "close" /\ call'[k].op # "exit"
  BY <1>1 DEF Waits
<1>5. HandleOf(rec.seen, c) => HandleOf(call[k].seen, call[k].claim)'
  BY <1>1, <1>3 DEF HandleOf, OthersStay
<1>6. Placed(k)' /\ WorkedOff(k)'
  BY <1>1, <1>4 DEF Placed, WorkedOff, Creating, Terminating, At
<1>7. Names(k)'
  BY <1>1, <1>3 DEF Names, Creating, At, Terminating
<1>8. WorksOn(k)'
  BY <1>1, <1>3, <1>5 DEF WorksOn, At, Terminating
<1>9. QED
  BY <1>1, <1>2, <1>4, <1>6, <1>7, <1>8, OrderlyQuiet

(* A call that at most deletes claims, closes handles and removes entries. *)
LEMMA OrderlyEnds ==
  ASSUME RegistryInv, RegistryInv', OrderlyInv, NEW k \in Calls, ~Over(k),
         OthersStay(k), \A j \in Calls : ~call'[j].cut,
         \A j \in Calls \ {k} : call[j].op # "exit",
         call'[k].op = "exit" => \A j \in Calls \ {k} : Idle(j) \/ Over(j),
         ~Waits(k)', ~call'[k].failed, call'[k].op # "close",
         \A c \in Claims : claim'[c] = claim[c] \/ (Exists(c) /\ claim'[c] = "deleted"),
         \A h \in Calls : handle'[h] = "none" <=> handle[h] = "none",
         Fewer(registry'),
         \A h \in Calls :
           handle'[h] = "closed" =>
             \/ handle[h] = "closed"
             \/ ~Exists(call[h].claim)'
             \/ At(k, "deleting")' /\ call'[k].claim = call[h].claim,
         \A c \in Claims : At(k, "deleting") /\ call[k].claim = c => ~Exists(c)',
         \A c \in Claims :
           Exists(c)' => registry'[c] = registry[c] \/ (c # k /\ Creating(c) /\ ~Over(c)),
         Creating(k) => (Creating(k)' /\ ~Over(k)') \/ ~Exists(k)',
         Placed(k)', Names(k)', WorksOn(k)', WorkedOff(k)'
  PROVE  OrderlyInv'
<1>1. k \in Claims /\ handle'[k] # "closed"
  BY Shape DEF OrderlyInv, HandlesAreOfClaims, Over, Ended, At
<1>2. /\ \A c \in Claims : Exists(c)' => Exists(c)
      /\ \A c \in Claims : claim[c] # "none" => claim'[c] # "none"
      /\ \A c \in Claims \ {k} : /\ claim'[c] # "none" => claim[c] # "none"
                                 /\ claim'[c] = "created" => claim[c] = "created"
  BY DEF Exists
<1>3. \A c \in Claims :
        Exists(c)' =>
          \/ c = k /\ Creating(k)' /\ ~Over(k)'
          \/ registry'[c] # None
          \/ c # k /\ Creating(c) /\ ~Over(c)
          \/ Exists(c) /\ registry'[c] = registry[c] /\ ~(c = k /\ Creating(k))
  BY <1>2
<1>4. \A c \in Claims : registry'[c] # None => registry'[c] = registry[c]
  BY DEF Fewer
<1>5. QED
  BY <1>1, <1>2, <1>3, <1>4, OrderlyCall

-----------------------------------------------------------------------------
(* Its steps.                                                              *)

(* Where no request fails none is refused.                                 *)
LEMMA NothingFails ==
  ASSUME Orderly, OrderlyInv, NEW k \in Calls
  PROVE  ~RequestMayFail(k) /\ ~Cancel(k) /\ ~Close(k)
BY DEF Orderly, OrderlyInv, NobodyWaits, RequestMayFail, Cancel, Close, MayBegin

(* A creation begins with a claim nobody knows.                            *)
LEMMA OrderlyCreate ==
  ASSUME Orderly, RegistryInv, RegistryInv', OrderlyInv, NEW k \in Calls, CreateSandbox(k)
  PROVE  OrderlyInv'
<1>1. /\ "create" \in Operations \ {"none", "exit", "close"} /\ "requesting" \in PC
      /\ k \in Claims \cup {None} /\ call[k] \in CallRecord /\ TypeOK
      /\ ~call[k].failed
  BY Shape DEF Operations, PC, RegistryInv, OrderlyInv, NobodyWaits
<1>2. PICK new \in CallRecord :
        /\ new = Begun(k, "create", k) /\ new.op = "create" /\ new.claim = k
        /\ new.failed = call[k].failed
  <2>1. /\ Begun(k, "create", k) \in CallRecord /\ Begun(k, "create", k).op = "create"
        /\ Begun(k, "create", k).claim = k /\ Begun(k, "create", k).failed = call[k].failed
    BY <1>1, BegunShape
  <2>2. QED
    BY <2>1
<1>3. PICK rec \in CallRecord :
        /\ rec = To(new, "requesting") /\ rec.op = "create" /\ rec.at = "requesting"
        /\ rec.claim = k /\ rec.failed = new.failed /\ rec.cut = FALSE
  <2>1. /\ To(new, "requesting") \in CallRecord /\ To(new, "requesting").at = "requesting"
        /\ To(new, "requesting").op = new.op /\ To(new, "requesting").claim = new.claim
        /\ To(new, "requesting").failed = new.failed /\ To(new, "requesting").cut = FALSE
    BY <1>1, ToShape
  <2>2. QED
    BY <1>2, <2>1
<1>4. ~rec.failed /\ ~rec.cut
  BY <1>1, <1>2, <1>3, Zenon
<1>5. MayBegin(k, "create") /\ Is(k, rec) /\ UNCHANGED <<claim, handle, registry>>
  BY <1>2, <1>3 DEF CreateSandbox
<1>6. QED
  BY <1>1, <1>3, <1>4, <1>5, OrderlyBegin

(* A call that begins on a handle, or on a claim.                          *)
LEMMA OrderlyBeginOn ==
  ASSUME Orderly, RegistryInv, RegistryInv', OrderlyInv, NEW k \in Calls,
         NEW op \in {"get", "delete", "terminate"}, NEW c \in Claims, claim[c] # "none",
         NEW h \in Calls \cup {None}, h = None \/ HandleOf(h, c),
         NEW pc \in {"resolving", FirstAwait(h)},
         op = "get" <=> pc = "resolving", op = "terminate" => h # None,
         MayBegin(k, op), Is(k, To([Begun(k, op, c) EXCEPT !.seen = h], pc)),
         UNCHANGED <<claim, handle, registry>>
  PROVE  OrderlyInv'
<1>1. /\ op \in Operations \ {"none", "exit", "close"} /\ pc \in PC
      /\ c \in Claims \cup {None} /\ call[k] \in CallRecord /\ TypeOK /\ ~call[k].failed
      /\ pc = "resolving" \/ pc = FirstAwait(h)
  BY Shape, FirstAwaitIsPlace DEF Operations, PC, RegistryInv, OrderlyInv, NobodyWaits
<1>2. PICK b \in CallRecord :
        /\ b = Begun(k, op, c) /\ b.op = op /\ b.claim = c /\ b.failed = call[k].failed
  <2>1. /\ Begun(k, op, c) \in CallRecord /\ Begun(k, op, c).op = op
        /\ Begun(k, op, c).claim = c /\ Begun(k, op, c).failed = call[k].failed
    BY <1>1, BegunShape
  <2>2. QED
    BY <2>1
<1>3. PICK s \in CallRecord :
        /\ s = [b EXCEPT !.seen = h] /\ s.op = op /\ s.claim = c /\ s.seen = h
        /\ s.failed = b.failed
  <2>1. [b EXCEPT !.seen = h] \in CallRecord
    BY DEF CallRecord
  <2>2. QED
    BY <1>2, <2>1 DEF CallRecord
<1>4. PICK rec \in CallRecord :
        /\ rec = To(s, pc) /\ rec.op = op /\ rec.at = pc /\ rec.claim = c /\ rec.seen = h
        /\ rec.failed = s.failed /\ rec.cut = FALSE
  <2>1. /\ To(s, pc) \in CallRecord /\ To(s, pc).at = pc
        /\ To(s, pc).op = s.op /\ To(s, pc).claim = s.claim /\ To(s, pc).seen = s.seen
        /\ To(s, pc).failed = s.failed /\ To(s, pc).cut = FALSE
    BY <1>1, ToShape
  <2>2. QED
    BY <1>3, <2>1
<1>5. ~rec.failed /\ ~rec.cut
  BY <1>1, <1>2, <1>3, <1>4, Zenon
<1>6. Is(k, rec)
  BY <1>2, <1>3, <1>4
<1>7. pc # "resolving" => /\ pc \in {"deleting_claim", "closing", "deleting"}
                          /\ pc = "deleting_claim" <=> h = None
  BY <1>1, FirstAwaitIsPlace DEF FirstAwait
<1>8. QED
  BY <1>1, <1>4, <1>5, <1>6, <1>7, OrderlyBegin

(* A getter, a deletion or a terminate begins on what it finds.            *)
LEMMA OrderlyBegins ==
  ASSUME Orderly, RegistryInv, RegistryInv', OrderlyInv, NEW k \in Calls,
         \/ \E c \in Claims : GetSandbox(k, c) \/ DeleteSandbox(k, c)
         \/ \E h \in Calls : Terminate(k, h)
  PROVE  OrderlyInv'
<1>1. ASSUME NEW c \in Claims, GetSandbox(k, c) \/ DeleteSandbox(k, c)
      PROVE  OrderlyInv'
  <2>1. /\ claim[c] # "none" /\ registry[c] \in Calls \cup {None}
        /\ registry[c] = None \/ HandleOf(registry[c], c)
    BY <1>1, Shape DEF GetSandbox, DeleteSandbox, Known, OrderlyInv, HandlesAreOfClaims
  <2>2. FirstAwait(registry[c]) # "resolving"
    BY FirstAwaitIsPlace
  <2>3. QED
    BY <1>1, <2>1, <2>2, OrderlyBeginOn DEF GetSandbox, DeleteSandbox
<1>2. ASSUME NEW h \in Calls, Terminate(k, h)
      PROVE  OrderlyInv'
  <2>1. /\ call[h].claim \in Claims /\ claim[call[h].claim] # "none" /\ HandleOf(h, call[h].claim)
        /\ h # None
    BY <1>2, Shape
    DEF Terminate, OrderlyInv, HandlesAreOfClaims, HandleOf, ClaimsAreMade, PlaceOfOp, Creating
  <2>2. FirstAwait(h) # "resolving"
    BY FirstAwaitIsPlace
  <2>3. QED
    BY <1>2, <2>1, <2>2, OrderlyBeginOn DEF Terminate
<1>3. QED
  BY <1>1, <1>2

(* What is known of a call that is under way.                              *)
LEMMA OrderlyActive ==
  ASSUME RegistryInv, OrderlyInv, NEW k \in Calls, ~Over(k), ~Idle(k)
  PROVE  /\ \A j \in Calls \ {k} : call[j].op # "exit"
         /\ call[k].op = "exit" => \A j \in Calls \ {k} : Idle(j) \/ Over(j)
         /\ call[k].op # "close" /\ handle[k] = "none" /\ k \in Claims /\ TypeOK
         /\ Placed(k) /\ Names(k) /\ WorksOn(k)
<1>1. k \in Claims /\ handle[k] = "none" /\ TypeOK
  BY Shape DEF OrderlyInv, HandlesAreOfClaims, Over, Ended, At, RegistryInv
<1>2. Placed(k) /\ Names(k) /\ WorksOn(k)
  BY DEF OrderlyInv, PlaceOfOp, ClaimsAreMade, HandlesAreOfClaims, Placed, Names, WorksOn
<1>3. QED
  BY <1>1, <1>2 DEF OrderlyInv, NobodyWaits

(* A claim that was made has its creation to answer for it.                *)
LEMMA OrderlyClaimCreated ==
  ASSUME RegistryInv, RegistryInv', OrderlyInv, NEW k \in Calls, ClaimCreated(k)
  PROVE  OrderlyInv'
<1>1. /\ ~Over(k) /\ ~Idle(k) /\ At(k, "requesting") /\ "waiting" \in PC
      /\ Goto(k, "waiting") /\ Created(k) /\ UNCHANGED <<handle, registry>>
  BY DEF ClaimCreated, Over, Idle, At, Ended, PC
<1>2. /\ k \in Claims /\ handle[k] = "none" /\ call[k].op = "create" /\ call[k].claim = k
      /\ claim[k] = "none"
      /\ \A j \in Calls \ {k} : call[j].op # "exit"
  BY <1>1, OrderlyActive DEF Placed, Names, At, Terminating, RegistryInv, Places, Creating
<1>3. /\ OthersStay(k) /\ ~call'[k].failed /\ \A j \in Calls : ~call'[j].cut
      /\ call'[k].at = "waiting" /\ call'[k].op = "create" /\ call'[k].claim = k
  BY <1>1, <1>2, OrderlyGoto
<1>4. claim'[k] = "created" /\ \A c \in Claims \ {k} : claim'[c] = claim[c]
  BY <1>1, <1>2, Shape DEF Created
<1>5. /\ \A c \in Claims : claim[c] # "none" => claim'[c] # "none"
      /\ \A c \in Claims \ {k} : /\ claim'[c] # "none" => claim[c] # "none"
                                 /\ claim'[c] = "created" => claim[c] = "created"
                                 /\ Exists(c)' <=> Exists(c)
  BY <1>4 DEF Exists
<1>6. /\ \A h \in Calls \ {k} : handle'[h] = "none" <=> handle[h] = "none"
      /\ \A h \in Calls \ {k} : handle'[h] = "closed" => handle[h] = "closed"
      /\ handle'[k] # "closed"
      /\ \A c \in Claims : registry'[c] = registry[c]
  BY <1>1, <1>2
<1>7. /\ ~Waits(k)' /\ Creating(k)' /\ ~Over(k)' /\ ~At(k, "deleting")
      /\ call'[k].op # "exit" /\ call'[k].op # "close"
  BY <1>1, <1>3 DEF Waits, Creating, Over, Ended, At
<1>8. \A c \in Claims :
        Exists(c)' =>
          \/ c = k /\ Creating(k)' /\ ~Over(k)'
          \/ Exists(c) /\ registry'[c] = registry[c] /\ ~(c = k /\ Creating(k))
  BY <1>5, <1>6, <1>7
<1>9. Placed(k)' /\ Names(k)' /\ WorksOn(k)' /\ WorkedOff(k)'
  BY <1>1, <1>2, <1>3 DEF Placed, Names, WorksOn, WorkedOff, Creating, Terminating, At
<1>10. QED
  BY <1>1, <1>2, <1>3, <1>5, <1>6, <1>7, <1>8, <1>9, OrderlyCall

(* A creation that has waited in vain goes on to its cleanup.              *)
LEMMA OrderlyWaitFails ==
  ASSUME RegistryInv, RegistryInv', OrderlyInv, NEW k \in Calls, WaitFails(k)
  PROVE  OrderlyInv'
<1>1. /\ ~Over(k) /\ ~Idle(k) /\ At(k, "waiting") /\ "cleaning" \in PC /\ ~At(k, "deleting")
      /\ Goto(k, "cleaning") /\ UNCHANGED <<claim, handle, registry>>
  BY DEF WaitFails, Over, Idle, At, Ended, PC
<1>2. /\ k \in Claims /\ handle[k] = "none" /\ call[k].op = "create" /\ call[k].claim = k
      /\ \A j \in Calls \ {k} : call[j].op # "exit"
  BY <1>1, OrderlyActive DEF Placed, At, Terminating, RegistryInv, Places, Creating
<1>3. /\ OthersStay(k) /\ ~call'[k].failed /\ \A j \in Calls : ~call'[j].cut
      /\ call'[k].at = "cleaning" /\ call'[k].op = "create" /\ call'[k].claim = k
  BY <1>1, <1>2, OrderlyGoto
<1>4. /\ ~Waits(k)' /\ Creating(k)' /\ ~Over(k)'
      /\ call'[k].op # "exit" /\ call'[k].op # "close"
  BY <1>3 DEF Waits, Creating, Over, Ended, At
<1>5. Placed(k)' /\ Names(k)' /\ WorksOn(k)' /\ WorkedOff(k)'
  BY <1>1, <1>2, <1>3 DEF Placed, Names, WorksOn, WorkedOff, Creating, Terminating, At
<1>6. QED
  BY <1>1, <1>2, <1>3, <1>4, <1>5, OrderlyQuiet

(* A creation that gave up has deleted its claim.                          *)
LEMMA OrderlyCleanUp ==
  ASSUME Orderly, RegistryInv, RegistryInv', OrderlyInv, NEW k \in Calls, CleanUp(k)
  PROVE  OrderlyInv'
<1>1. /\ ~Over(k) /\ ~Idle(k) /\ At(k, "cleaning") /\ "raised" \in PC
      /\ Goto(k, "raised") /\ Deleted(k) /\ UNCHANGED <<handle, registry>>
  BY NothingFails DEF CleanUp, Over, Idle, At, Ended, PC
<1>2. /\ k \in Claims /\ handle[k] = "none" /\ call[k].op = "create" /\ call[k].claim = k
      /\ \A j \in Calls \ {k} : call[j].op # "exit"
  BY <1>1, OrderlyActive DEF Placed, At, Terminating, RegistryInv, Places, Creating
<1>3. /\ OthersStay(k) /\ ~call'[k].failed /\ \A j \in Calls : ~call'[j].cut
      /\ call'[k].at = "raised" /\ call'[k].op = "create" /\ call'[k].claim = k
  BY <1>1, <1>2, OrderlyGoto
<1>4. /\ \A c \in Claims : claim'[c] = claim[c] \/ (Exists(c) /\ claim'[c] = "deleted")
      /\ ~Exists(k)' /\ claim'[k] # "created"
  BY <1>1, <1>2, Shape DEF Deleted, Exists
<1>5. /\ ~Waits(k)' /\ ~At(k, "deleting")
      /\ call'[k].op # "exit" /\ call'[k].op # "close"
      /\ \A c \in Claims : registry'[c] = registry[c]
      /\ \A h \in Calls : handle'[h] = handle[h]
      /\ Fewer(registry')
  BY <1>1, <1>3, Shape DEF Waits, At, Fewer
<1>6. Placed(k)' /\ Names(k)' /\ WorksOn(k)' /\ WorkedOff(k)'
  BY <1>1, <1>2, <1>3, <1>4 DEF Placed, Names, WorksOn, WorkedOff, Creating, Terminating, At
<1>7. QED
  BY <1>1, <1>2, <1>3, <1>4, <1>5, <1>6, OrderlyEnds

(* A handle enters the registry.                                           *)
LEMMA OrderlyPut ==
  ASSUME Orderly, RegistryInv, RegistryInv', OrderlyInv, NEW k \in Calls,
         \/ SandboxReady(k)
         \/ Resolved(k) /\ ~(call[k].seen # None /\ handle[call[k].seen] = "open")
  PROVE  OrderlyInv'
<1>1. /\ ~Over(k) /\ ~Idle(k) /\ ~At(k, "sweeping") /\ ~At(k, "deleting")
      /\ (At(k, "waiting") \/ At(k, "resolving"))
  BY DEF SandboxReady, Resolved, Over, Idle, At, Ended
<1>2. /\ k \in Claims /\ handle[k] = "none" /\ TypeOK
      /\ call[k].op \in {"create", "get"} /\ (call[k].op = "create" => call[k].claim = k)
      /\ \A j \in Calls \ {k} : call[j].op # "exit"
      /\ Uncontended(k)
      /\ call[k].claim \in Claims
  <2>1. /\ k \in Claims /\ handle[k] = "none" /\ TypeOK /\ Placed(k) /\ Names(k)
        /\ call[k].op # "close" /\ \A j \in Calls \ {k} : call[j].op # "exit"
    BY <1>1, OrderlyActive
  <2>2. call[k].op \in {"create", "get"}
    BY <1>1, <2>1, Shape DEF Placed, At, Terminating, CallRecord, Operations, Creating
  <2>3. Uncontended(k)
    BY <1>1, <2>1, LockIsFree, OrderlyActive
  <2>4. QED
    BY <2>1, <2>2, <2>3 DEF Placed, Names, Creating
<1>3. /\ Put(k) /\ handle' = [handle EXCEPT ![k] = "open"] /\ claim' = claim
      /\ Exists(call[k].claim)
  BY <1>2, OrderlyActive, <1>1 DEF SandboxReady, Resolved, Insert, Exists, Placed, Creating, RegistryInv, Places, At
<1>4. "done" \in PC /\ Goto(k, "done") /\ registry' = [registry EXCEPT ![call[k].claim] = k]
  BY <1>3 DEF PC, Ended, Put
<1>5. /\ OthersStay(k) /\ ~call'[k].failed /\ \A j \in Calls : ~call'[j].cut
      /\ call'[k].at = "done" /\ call'[k].op = call[k].op /\ call'[k].claim = call[k].claim
  BY <1>4, OrderlyGoto
<1>6. /\ \A c \in Claims : claim'[c] = claim[c] /\ (Exists(c)' <=> Exists(c))
      /\ \A h \in Calls \ {k} : handle'[h] = handle[h]
      /\ handle'[k] = "open"
      /\ \A c \in Claims : registry'[c] = IF c = call[k].claim THEN k ELSE registry[c]
  BY <1>2, <1>3, <1>4, Shape DEF Exists
<1>7. /\ ~Waits(k)' /\ call'[k].op # "exit" /\ call'[k].op # "close"
  BY <1>2, <1>5 DEF Waits
<1>8. \A c \in Claims :
        Exists(c)' =>
          \/ registry'[c] # None
          \/ Exists(c) /\ registry'[c] = registry[c] /\ ~(c = k /\ Creating(k))
  BY <1>2, <1>6, Shape DEF Creating
<1>9. /\ Names(k) /\ (At(k, "waiting") \/ At(k, "resolving"))
      /\ call[k].op = "create" => claim[k] = "ready"
  BY <1>1, <1>2, OrderlyActive DEF SandboxReady, Resolved, At, Placed, Creating, Terminating
<1>10. Placed(k)' /\ WorkedOff(k)'
  BY <1>2, <1>5 DEF Placed, WorkedOff, Creating, Terminating, At
<1>11. Names(k)' /\ WorksOn(k)'
  BY <1>2, <1>3, <1>5, <1>6, <1>9 DEF Names, WorksOn, Creating, Terminating, At, Exists
<1>12. QED
  BY <1>1, <1>2, <1>5, <1>6, <1>7, <1>8, <1>10, <1>11, OrderlyCall

(* The connection of a handle is closed before its claim is deleted.       *)
LEMMA OrderlyCloseConnection ==
  ASSUME RegistryInv, RegistryInv', OrderlyInv, NEW k \in Calls, CloseConnection(k)
  PROVE  OrderlyInv'
<1>1. /\ ~Over(k) /\ ~Idle(k) /\ call[k].at = "closing" /\ "deleting" \in PC
      /\ Goto(k, "deleting") /\ UNCHANGED <<claim, registry>>
  BY DEF CloseConnection, Over, Idle, At, Ended, PC
<1>2. /\ k \in Claims /\ handle[k] = "none" /\ Placed(k) /\ Names(k) /\ WorksOn(k)
      /\ \A j \in Calls \ {k} : call[j].op # "exit"
      /\ call[k].op = "exit" => \A j \in Calls \ {k} : Idle(j) \/ Over(j)
      /\ call[k].op # "close"
  BY <1>1, OrderlyActive
<1>3. /\ OthersStay(k) /\ ~call'[k].failed /\ \A j \in Calls : ~call'[j].cut
      /\ call'[k].at = "deleting" /\ call'[k].op = call[k].op /\ call'[k].claim = call[k].claim
      /\ call'[k].seen = call[k].seen /\ call'[k].todo = call[k].todo
  BY <1>1, <1>2, OrderlyGoto
<1>4. HandleOf(call[k].seen, call[k].claim) /\ handle' = [handle EXCEPT ![call[k].seen] = "closed"]
  BY <1>1, <1>2 DEF CloseConnection, WorksOn, Terminating
<1>5. /\ call[k].seen \in Calls \ {k} /\ handle[call[k].seen] # "none"
      /\ call[call[k].seen].claim = call[k].claim
  BY <1>2, <1>4 DEF HandleOf
<1>6. /\ \A h \in Calls : handle'[h] = IF h = call[k].seen THEN "closed" ELSE handle[h]
      /\ Fewer(registry') /\ \A c \in Claims : claim'[c] = claim[c] /\ registry'[c] = registry[c]
  BY <1>1, <1>4, <1>5, Shape DEF Fewer
<1>7. /\ \A h \in Calls : handle'[h] = "none" <=> handle[h] = "none"
      /\ \A h \in Calls :
           handle'[h] = "closed" =>
             handle[h] = "closed" \/ (At(k, "deleting")' /\ call'[k].claim = call[h].claim)
  BY <1>3, <1>5, <1>6 DEF At
<1>8. ~Waits(k)' /\ ~At(k, "deleting") /\ ~Creating(k)
  BY <1>1, <1>2, <1>3 DEF Waits, At, Placed, Creating
<1>9. HandleOf(call[k].seen, call[k].claim)'
  BY <1>3, <1>5, <1>6 DEF HandleOf, OthersStay
<1>10. WorkedOff(k) => WorkedOff(k)'
  BY <1>1, <1>3 DEF WorkedOff, Exists, Terminating, At
<1>11. WorkedOff(k)
  BY DEF OrderlyInv, ExitWorksOff, WorkedOff
<1>12. Placed(k)' /\ Names(k)' /\ WorksOn(k)'
  BY <1>1, <1>2, <1>3, <1>5, <1>6, <1>9 DEF Placed, Names, WorksOn, Creating, Terminating, At
<1>13. QED
  BY <1>1, <1>2, <1>3, <1>6, <1>7, <1>8, <1>10, <1>11, <1>12, OrderlyEnds

(* get_sandbox returns the handle it found.                                *)
LEMMA OrderlyFound ==
  ASSUME RegistryInv, RegistryInv', OrderlyInv, NEW k \in Calls, Resolved(k),
         call[k].seen # None /\ handle[call[k].seen] = "open"
  PROVE  OrderlyInv'
<1>1. /\ ~Over(k) /\ ~Idle(k) /\ call[k].at = "resolving" /\ "done" \in PC /\ ~At(k, "deleting")
      /\ Goto(k, "done") /\ UNCHANGED <<claim, handle, registry>>
  BY DEF Resolved, Over, Idle, At, Ended, PC
<1>2. /\ k \in Claims /\ handle[k] = "none" /\ Placed(k) /\ Names(k) /\ WorksOn(k)
      /\ \A j \in Calls \ {k} : call[j].op # "exit"
      /\ call[k].op # "close" /\ call[k].op # "exit" /\ ~Creating(k)
  BY <1>1, OrderlyActive DEF Placed, Terminating, At, Creating
<1>3. /\ OthersStay(k) /\ ~call'[k].failed /\ \A j \in Calls : ~call'[j].cut
      /\ call'[k].at = "done" /\ call'[k].op = call[k].op /\ call'[k].claim = call[k].claim
  BY <1>1, <1>2, OrderlyGoto
<1>4. ~Waits(k)' /\ call'[k].op # "close" /\ call'[k].op # "exit"
  BY <1>2, <1>3 DEF Waits
<1>5. Placed(k)' /\ Names(k)' /\ WorksOn(k)' /\ WorkedOff(k)'
  BY <1>1, <1>2, <1>3 DEF Placed, Names, WorksOn, WorkedOff, Creating, Terminating, At
<1>6. QED
  BY <1>1, <1>2, <1>3, <1>4, <1>5, OrderlyQuiet

(* get_sandbox gives up: the handle it found is terminated, or the entry   *)
(* is removed, of a claim whose creation still goes on.                    *)
LEMMA OrderlyResolveFails ==
  ASSUME Orderly, RegistryInv, RegistryInv', OrderlyInv, NEW k \in Calls, ResolveFails(k)
  PROVE  OrderlyInv'
<1>1. /\ ~Over(k) /\ ~Idle(k) /\ call[k].at = "resolving" /\ ~At(k, "deleting")
      /\ UNCHANGED <<claim, handle>> /\ claim[call[k].claim] # "ready" /\ ~At(k, "sweeping")
  BY NothingFails DEF ResolveFails, Over, Idle, At, Ended, PC
<1>2. /\ k \in Claims /\ handle[k] = "none" /\ Placed(k) /\ Names(k) /\ WorksOn(k)
      /\ \A j \in Calls \ {k} : call[j].op # "exit"
      /\ call[k].op # "close" /\ call[k].op # "exit" /\ ~Creating(k) /\ call[k].op = "get"
      /\ call[k].claim \in Claims
  <2>1. /\ k \in Claims /\ handle[k] = "none" /\ Placed(k) /\ Names(k) /\ WorksOn(k)
        /\ \A j \in Calls \ {k} : call[j].op # "exit"
        /\ call[k].op # "close"
    BY <1>1, OrderlyActive
  <2>2. call[k].op = "get"
    BY <1>1, <2>1, Shape DEF Placed, Terminating, At, Creating, CallRecord, Operations
  <2>3. QED
    BY <2>1, <2>2 DEF Names, Creating
<1>3. CASE call[k].seen # None
  <2>1. /\ Goto(k, FirstAwait(call[k].seen)) /\ UNCHANGED registry
        /\ FirstAwait(call[k].seen) \in PC /\ FirstAwait(call[k].seen) \in {"closing", "deleting"}
    BY <1>3, FirstAwaitIsPlace DEF ResolveFails, FirstAwait
  <2>2. /\ OthersStay(k) /\ ~call'[k].failed /\ \A j \in Calls : ~call'[j].cut
        /\ call'[k].at \in {"closing", "deleting"} /\ call'[k].op = "get"
        /\ call'[k].claim = call[k].claim /\ call'[k].seen = call[k].seen
    BY <1>2, <2>1, OrderlyGoto
  <2>3. ~Waits(k)' /\ call'[k].op # "close" /\ call'[k].op # "exit"
    BY <2>2 DEF Waits
  <2>4. HandleOf(call[k].seen, call[k].claim) /\ call[k].seen # k
    BY <1>1, <1>2, <1>3 DEF WorksOn, At, HandleOf
  <2>5. HandleOf(call[k].seen, call[k].claim)'
    BY <1>1, <2>2, <2>4 DEF HandleOf, OthersStay
  <2>6. Placed(k)' /\ Names(k)' /\ WorksOn(k)' /\ WorkedOff(k)'
    BY <1>1, <1>2, <2>2, <2>5 DEF Placed, Names, WorksOn, WorkedOff, Creating, Terminating, At
  <2>7. QED
    BY <1>1, <1>2, <2>1, <2>2, <2>3, <2>6, OrderlyQuiet
<1>4. CASE call[k].seen = None
  <2>1. Uncontended(k)
    BY <1>1, <1>2, LockIsFree
  <2>2. Goto(k, "raised") /\ registry' = Popped(k) /\ "raised" \in PC
    BY <1>2, <1>4, <2>1 DEF ResolveFails, Pop, Continue, Outcome, PC, Ended
  <2>3. /\ OthersStay(k) /\ ~call'[k].failed /\ \A j \in Calls : ~call'[j].cut
        /\ call'[k].at = "raised" /\ call'[k].op = "get" /\ call'[k].claim = call[k].claim
    BY <1>2, <2>2, OrderlyGoto
  <2>4. ~Waits(k)' /\ call'[k].op # "close" /\ call'[k].op # "exit"
    BY <2>3 DEF Waits
  <2>5. /\ Fewer(registry')
        /\ \A c \in Claims : claim'[c] = claim[c]
        /\ \A h \in Calls : handle'[h] = handle[h]
        /\ \A c \in Claims : c # call[k].claim => registry'[c] = registry[c]
    BY <1>1, <2>2, Shape, PoppedIsFewer DEF Popped, RegistryInv
  <2>6. Exists(call[k].claim) =>
          call[k].claim # k /\ Creating(call[k].claim) /\ ~Over(call[k].claim)
    BY <1>1, <1>2, Shape DEF Exists, OrderlyInv, ClaimsAreMade, Over, Ended, At, Creating
  <2>7. \A c \in Claims :
          Exists(c)' => registry'[c] = registry[c] \/ (c # k /\ Creating(c) /\ ~Over(c))
    BY <1>1, <2>5, <2>6 DEF Exists
  <2>8. Placed(k)' /\ Names(k)' /\ WorksOn(k)' /\ WorkedOff(k)'
    BY <1>1, <1>2, <2>3 DEF Placed, Names, WorksOn, WorkedOff, Creating, Terminating, At
  <2>9. QED
    BY <1>1, <1>2, <2>3, <2>4, <2>5, <2>7, <2>8, OrderlyEnds
<1>5. QED
  BY <1>3, <1>4

(* The exit closes connections when no claim is left.                      *)
LEMMA OrderlySweep ==
  ASSUME RegistryInv, RegistryInv', OrderlyInv, NEW k \in Calls, ~Over(k),
         \A j \in Calls \ {k} : call[j].op # "exit" /\ (Idle(j) \/ Over(j)),
         NEW rec \in CallRecord, rec.op = "exit", ~rec.cut, ~rec.failed,
         NEW reg, Fewer(reg), NEW todo \in SUBSET Claims, Sweep(k, rec, reg, todo),
         ~Creating(k),
         \A c \in Claims : claim'[c] = claim[c] \/ (Exists(c) /\ claim'[c] = "deleted"),
         \A c \in Claims : ~Exists(c)',
         \A h \in Calls : handle'[h] = "none" <=> handle[h] = "none"
  PROVE  OrderlyInv'
<1>1. {"sweeping", "closing_api"} \subseteq PC
  BY DEF PC
<1>2. PICK left \in SUBSET Claims, pc \in {"sweeping", "closing_api"} :
        Is(k, [To(rec, pc) EXCEPT !.todo = left])
  <2>1. {c \in todo : handle'[reg[c]] = "open"} \in SUBSET Claims /\ {} \in SUBSET Claims
    OBVIOUS
  <2>2. QED
    BY <2>1 DEF Sweep
<1>3. PICK new \in CallRecord :
        /\ new = [To(rec, pc) EXCEPT !.todo = left]
        /\ new.at = pc /\ new.op = "exit" /\ new.failed = rec.failed /\ new.cut = FALSE
  <2>1. PICK r \in CallRecord :
          /\ r = To(rec, pc) /\ r.at = pc /\ r.op = rec.op /\ r.failed = rec.failed
          /\ r.cut = FALSE
    <3>1. /\ To(rec, pc) \in CallRecord /\ To(rec, pc).at = pc /\ To(rec, pc).op = rec.op
          /\ To(rec, pc).failed = rec.failed /\ To(rec, pc).cut = FALSE
      BY <1>1, <1>2, ToShape
    <3>2. QED
      BY <3>1
  <2>2. [r EXCEPT !.todo = left] \in CallRecord
    BY DEF CallRecord
  <2>3. QED
    BY <2>1, <2>2 DEF CallRecord
<1>4. ~new.failed /\ ~new.cut /\ Is(k, new)
  BY <1>2, <1>3, Zenon
<1>5. /\ call'[k] = new /\ OthersStay(k) /\ ~call'[k].failed
      /\ \A j \in Calls : ~call'[j].cut
  BY <1>4, OrderlyRecord
<1>6. Fewer(registry')
  <2>1. registry' = reg \/ registry' = NoEntries
    BY DEF Sweep
  <2>2. QED
    BY <2>1 DEF Fewer, NoEntries
<1>7. /\ ~Waits(k)' /\ call'[k].op = "exit" /\ call'[k].op # "close"
      /\ Placed(k)' /\ WorkedOff(k)'
  BY <1>2, <1>3, <1>5 DEF Waits, Placed, WorkedOff, Creating, Terminating, At
<1>8. handle[k] = "none" /\ claim'[k] = "none"
  <2>1. claim[k] = "none" /\ handle[k] = "none"
    BY Shape DEF OrderlyInv, ClaimsAreMade, HandlesAreOfClaims, Over, Ended, At
  <2>2. QED
    BY <2>1, Shape DEF Exists
<1>9. Names(k)' /\ WorksOn(k)'
  BY <1>2, <1>3, <1>5, <1>8 DEF Names, WorksOn, Creating, Terminating, At
<1>10. /\ \A h \in Calls :
            handle'[h] = "closed" => handle[h] = "closed" \/ ~Exists(call[h].claim)'
       /\ \A c \in Claims : At(k, "deleting") /\ call[k].claim = c => ~Exists(c)'
       /\ \A c \in Claims :
            Exists(c)' => registry'[c] = registry[c] \/ (c # k /\ Creating(c) /\ ~Over(c))
  <2>1. \A h \in Calls : handle'[h] = "closed" => call'[h].claim \in Claims
    BY <1>5, <1>8, Shape
    DEF OrderlyInv, HandlesAreOfClaims, ClaimsAreMade, PlaceOfOp, Creating, OthersStay
  <2>2. QED
    BY <2>1 DEF Exists
<1>11. QED
  BY <1>5, <1>6, <1>7, <1>9, <1>10, OrderlyEnds

(* A turn of the loop of delete_all is about a claim that is tracked.      *)
LEMMA OrderlyNext ==
  ASSUME Orderly, RegistryInv, RegistryInv', OrderlyInv, NEW k \in Calls, ~Over(k),
         ~At(k, "sweeping"), ~Creating(k),
         \A j \in Calls \ {k} : call[j].op # "exit" /\ (Idle(j) \/ Over(j)),
         NEW rec \in CallRecord, rec.op = "exit", ~rec.cut, ~rec.failed,
         NEW reg, Fewer(reg), UNCHANGED handle,
         \A c \in Claims : claim'[c] = claim[c] \/ (Exists(c) /\ claim'[c] = "deleted"),
         \A c \in Claims : At(k, "deleting") /\ call[k].claim = c => ~Exists(c)',
         \A c \in Claims : Exists(c)' => c \in rec.todo /\ reg[c] = registry[c],
         DeleteNext(k, rec, reg)
  PROVE  OrderlyInv'
<1>1. Uncontended(k) /\ Free
  BY LockIsFree
<1>2. CASE rec.todo = {}
  <2>1. Sweep(k, rec, reg, Entries(reg)) /\ Entries(reg) \in SUBSET Claims
    BY <1>1, <1>2 DEF DeleteNext, StartClose, Entries
  <2>2. QED
    BY <1>2, <2>1, OrderlySweep
<1>3. CASE rec.todo # {}
  <2>1. PICK c \in rec.todo :
          /\ Is(k, To([rec EXCEPT !.claim = c, !.seen = reg[c], !.todo = @ \ {c}],
                      FirstAwait(reg[c])))
          /\ registry' = reg
    BY <1>1, <1>3 DEF DeleteNext
  <2>2. PICK pc \in PC : pc = FirstAwait(reg[c]) /\ pc \in {"deleting_claim", "closing", "deleting"}
    BY FirstAwaitIsPlace
  <2>3. c \in Claims /\ reg[c] \in Calls \cup {None} /\ rec.todo \subseteq Claims
    BY DEF CallRecord, Fewer
  <2>4. PICK turn \in CallRecord :
          /\ turn = [rec EXCEPT !.claim = c, !.seen = reg[c], !.todo = @ \ {c}]
          /\ turn.op = "exit" /\ turn.claim = c /\ turn.seen = reg[c]
          /\ turn.todo = rec.todo \ {c} /\ turn.failed = rec.failed
    <3>1. [rec EXCEPT !.claim = c] \in CallRecord
      BY <2>3 DEF CallRecord
    <3>2. [rec EXCEPT !.claim = c, !.seen = reg[c]] \in CallRecord
      BY <2>3, <3>1 DEF CallRecord
    <3>3. rec.todo \ {c} \in SUBSET Claims
      BY <2>3
    <3>4. [rec EXCEPT !.claim = c, !.seen = reg[c], !.todo = @ \ {c}] \in CallRecord
      BY <3>2, <3>3 DEF CallRecord
    <3>5. QED
      BY <3>4 DEF CallRecord
  <2>5. PICK new \in CallRecord :
          /\ new = To(turn, pc) /\ new.at = pc /\ new.op = "exit" /\ new.claim = c
          /\ new.seen = reg[c] /\ new.todo = rec.todo \ {c}
          /\ new.failed = rec.failed /\ new.cut = FALSE
    <3>1. /\ To(turn, pc) \in CallRecord /\ To(turn, pc).at = pc /\ To(turn, pc).op = turn.op
          /\ To(turn, pc).claim = turn.claim /\ To(turn, pc).seen = turn.seen
          /\ To(turn, pc).todo = turn.todo /\ To(turn, pc).failed = turn.failed
          /\ To(turn, pc).cut = FALSE
      BY ToShape
    <3>2. QED
      BY <2>4, <3>1
  <2>6. ~new.failed /\ ~new.cut
    BY <2>5, Zenon
  <2>7. Is(k, new)
    BY <2>1, <2>2, <2>4, <2>5
  <2>8. /\ call'[k] = new /\ OthersStay(k) /\ ~call'[k].failed
        /\ \A j \in Calls : ~call'[j].cut
    BY <2>6, <2>7, OrderlyRecord
  <2>9. handle[k] = "none" /\ claim[k] = "none"
    BY Shape DEF OrderlyInv, ClaimsAreMade, HandlesAreOfClaims, Over, Ended, At
  <2>10. claim'[k] = "none"
    BY <2>9, Shape DEF Exists
  <2>11. pc # "deleting_claim" => HandleOf(reg[c], c)'
    <3>1. ASSUME pc # "deleting_claim" PROVE reg[c] = registry[c] /\ reg[c] # None
      BY <2>2, <2>3, <3>1 DEF FirstAwait, Fewer
    <3>2. ASSUME pc # "deleting_claim" PROVE HandleOf(registry[c], c)
      BY <2>3, <3>1, <3>2 DEF OrderlyInv, HandlesAreOfClaims
    <3>3. QED
      BY <2>8, <2>9, <3>1, <3>2 DEF HandleOf, OthersStay
  <2>12. /\ ~Waits(k)' /\ call'[k].op = "exit" /\ call'[k].op # "close"
         /\ Placed(k)'
    BY <2>2, <2>5, <2>8 DEF Waits, Placed, Creating, Terminating, At
  <2>13. WorkedOff(k)'
    BY <2>2, <2>5, <2>8 DEF WorkedOff, Terminating, At
  <2>14. Names(k)'
    BY <2>2, <2>3, <2>5, <2>8, <2>10 DEF Names, Creating, Terminating, At
  <2>15. WorksOn(k)'
    BY <2>2, <2>5, <2>8, <2>9, <2>11 DEF WorksOn, Terminating, At
  <2>16. /\ Fewer(registry')
         /\ \A h \in Calls : handle'[h] = handle[h]
         /\ \A d \in Claims : Exists(d)' => registry'[d] = registry[d]
    BY <2>1
  <2>17. QED
    BY <2>8, <2>12, <2>13, <2>14, <2>15, <2>16, OrderlyEnds
<1>4. QED
  BY <1>2, <1>3

(* The claim a call works on is gone, and its caller goes on.              *)
LEMMA OrderlyContinue ==
  ASSUME Orderly, RegistryInv, RegistryInv', OrderlyInv, NEW k \in Calls,
         At(k, "deleting") \/ At(k, "deleting_claim"),
         Deleted(call[k].claim), UNCHANGED handle,
         NEW reg \in {registry, Popped(k)},
         NEW pc \in {"done", "raised"}, pc = "raised" => call[k].op = "get",
         Continue(k, reg, pc)
  PROVE  OrderlyInv'
<1>1. /\ ~Over(k) /\ ~Idle(k) /\ ~At(k, "sweeping") /\ pc \in PC
  BY DEF Over, Idle, At, Ended, PC
<1>2. /\ k \in Claims /\ handle[k] = "none" /\ Placed(k) /\ Names(k) /\ WorksOn(k) /\ TypeOK
      /\ \A j \in Calls \ {k} : call[j].op # "exit"
      /\ call[k].op = "exit" => \A j \in Calls \ {k} : Idle(j) \/ Over(j)
      /\ call[k].op # "close"
  BY <1>1, OrderlyActive
<1>3. /\ ~Creating(k) /\ call[k].claim \in Claims /\ claim[k] = "none"
      /\ call[k].op \in {"get", "delete", "terminate", "exit"}
  BY <1>1, <1>2, Shape DEF Placed, Names, Creating, Terminating, At, CallRecord, Operations
<1>4. /\ \A c \in Claims : claim'[c] = claim[c] \/ (Exists(c) /\ claim'[c] = "deleted")
      /\ \A c \in Claims : call[k].claim = c => ~Exists(c)'
      /\ claim'[k] = "none"
  BY <1>3, <1>2, Shape DEF Deleted, Exists
<1>5. /\ Fewer(reg) /\ \A c \in Claims : c # call[k].claim => reg[c] = registry[c]
  BY <1>2, Shape, PoppedIsFewer DEF Popped
<1>6. CASE call[k].op = "exit"
  <2>1. /\ DeleteNext(k, call[k], reg) /\ call[k] \in CallRecord
        /\ ~call[k].cut /\ ~call[k].failed
    BY <1>6, Shape DEF Continue, OrderlyInv, NobodyWaits
  <2>2. \A c \in Claims : Exists(c)' => Exists(c)
    BY <1>4 DEF Exists
  <2>3. \A c \in Claims : Exists(c)' => c \in call[k].todo /\ reg[c] = registry[c]
    BY <1>4, <1>5, <1>6, <2>2 DEF OrderlyInv, ExitWorksOff
  <2>4. QED
    BY <1>1, <1>2, <1>3, <1>4, <1>5, <1>6, <2>1, <2>3, OrderlyNext
<1>7. CASE call[k].op # "exit"
  <2>1. registry' = reg /\ Goto(k, pc)
    BY <1>7 DEF Continue
  <2>2. /\ OthersStay(k) /\ ~call'[k].failed /\ \A j \in Calls : ~call'[j].cut
        /\ call'[k].at = pc /\ call'[k].op = call[k].op /\ call'[k].claim = call[k].claim
    BY <1>1, <2>1, OrderlyGoto
  <2>3. ~Waits(k)' /\ call'[k].op # "close" /\ call'[k].op # "exit"
    BY <1>2, <1>7, <2>2 DEF Waits
  <2>4. claim'[call[k].claim] # "none"
    BY <1>3, <1>4, <1>2, <1>7 DEF Names
  <2>5. Placed(k)' /\ Names(k)' /\ WorksOn(k)' /\ WorkedOff(k)'
    BY <1>1, <1>2, <1>3, <1>4, <1>7, <2>2, <2>4
    DEF Placed, Names, WorksOn, WorkedOff, Creating, Terminating, At
  <2>6. /\ Fewer(registry') /\ \A h \in Calls : handle'[h] = handle[h]
        /\ \A c \in Claims : Exists(c)' => registry'[c] = registry[c]
    BY <1>4, <1>5, <2>1
  <2>7. QED
    BY <1>1, <1>2, <1>3, <1>4, <2>2, <2>3, <2>5, <2>6, OrderlyEnds
<1>8. QED
  BY <1>6, <1>7

(* The deletion of a claim is answered: the claim is gone.                 *)
LEMMA OrderlyDeleted ==
  ASSUME Orderly, RegistryInv, RegistryInv', OrderlyInv, NEW k \in Calls,
         TerminateReturns(k) \/ DeleteUntracked(k)
  PROVE  OrderlyInv'
<1>1. /\ ~Over(k) /\ ~Idle(k) /\ ~At(k, "sweeping") /\ UNCHANGED handle
      /\ At(k, "deleting") \/ At(k, "deleting_claim")
      /\ Deleted(call[k].claim)
  BY NothingFails DEF TerminateReturns, DeleteUntracked, Over, Idle, At, Ended
<1>2. Uncontended(k)
  BY <1>1, OrderlyActive, LockIsFree
<1>3. \/ Continue(k, registry, "done")
      \/ Continue(k, Popped(k), Outcome(k))
  BY <1>2 DEF TerminateReturns, DeleteUntracked, Pop
<1>4. Outcome(k) \in {"done", "raised"} /\ (Outcome(k) = "raised" => call[k].op = "get")
  BY DEF Outcome
<1>5. QED
  BY <1>1, <1>3, <1>4, OrderlyContinue

(* The context is left when all calls have ended, and what is then on the  *)
(* cluster is tracked.                                                     *)
LEMMA OrderlyExit ==
  ASSUME Orderly, RegistryInv, RegistryInv', OrderlyInv, NEW k \in Calls, Exit(k)
  PROVE  OrderlyInv'
<1>1. /\ ~Over(k) /\ Idle(k) /\ ~At(k, "sweeping") /\ ~At(k, "deleting")
      /\ UNCHANGED <<claim, handle>> /\ call[k].op = "none" /\ ~Creating(k)
      /\ \A j \in Calls \ {k} : call[j].op # "exit" /\ (Idle(j) \/ Over(j))
      /\ TypeOK /\ call[k] \in CallRecord /\ ~call[k].failed /\ ~call[k].cut
  BY Shape DEF Exit, MayBegin, Idle, At, Over, Ended, Orderly, OrderlyInv, PlaceOfOp, Creating,
               RegistryInv, NobodyWaits
<1>2. "exit" \in Operations /\ None \in Claims \cup {None}
  BY DEF Operations
<1>3. PICK b \in CallRecord :
        b = Begun(k, "exit", None) /\ b.op = "exit" /\ b.failed = call[k].failed /\ b.cut = call[k].cut
  <2>1. Begun(k, "exit", None).cut = call[k].cut
    BY <1>1 DEF Begun, CallRecord
  <2>2. /\ Begun(k, "exit", None) \in CallRecord /\ Begun(k, "exit", None).op = "exit"
        /\ Begun(k, "exit", None).failed = call[k].failed
    BY <1>1, <1>2, BegunShape
  <2>3. QED
    BY <2>1, <2>2
<1>4. PICK rec \in CallRecord :
        /\ rec = [b EXCEPT !.todo = Tracked] /\ rec.op = "exit" /\ rec.todo = Tracked
        /\ rec.failed = b.failed /\ rec.cut = b.cut
  <2>1. Tracked \in SUBSET Claims
    BY DEF Tracked, Entries
  <2>2. /\ [b EXCEPT !.todo = Tracked] \in CallRecord
        /\ [b EXCEPT !.todo = Tracked].op = "exit" /\ [b EXCEPT !.todo = Tracked].todo = Tracked
        /\ [b EXCEPT !.todo = Tracked].failed = b.failed
        /\ [b EXCEPT !.todo = Tracked].cut = b.cut
    BY <1>3, <2>1 DEF CallRecord
  <2>3. QED
    BY <2>2
<1>5. ~rec.failed /\ ~rec.cut /\ DeleteNext(k, rec, registry)
  BY <1>1, <1>3, <1>4, Zenon DEF Exit
<1>6. \A c \in Claims : Exists(c) => c \in Tracked
  <2>1. ASSUME NEW c \in Claims, Exists(c) PROVE registry[c] # None
    <3>1. ~(Creating(c) /\ ~Over(c)) /\ ~BeingDeleted(c)
      BY <1>1, Shape DEF Claims, Creating, BeingDeleted, Idle, Over, Ended, At, OrderlyInv, PlaceOfOp
    <3>2. QED
      BY <2>1, <3>1 DEF OrderlyInv, AnsweredFor
  <2>2. QED
    BY <2>1 DEF Tracked, Entries
<1>7. /\ \A c \in Claims : claim'[c] = claim[c] \/ (Exists(c) /\ claim'[c] = "deleted")
      /\ \A c \in Claims : Exists(c)' => c \in rec.todo /\ registry[c] = registry[c]
      /\ Fewer(registry)
  BY <1>1, <1>4, <1>6, PoppedIsFewer DEF Exists
<1>8. QED
  BY <1>1, <1>4, <1>5, <1>7, OrderlyNext

(* The sweep of the exit closes one handle.                                *)
LEMMA OrderlySweepOne ==
  ASSUME Orderly, RegistryInv, RegistryInv', OrderlyInv, NEW k \in Calls, SweepOne(k)
  PROVE  OrderlyInv'
<1>1. ~Over(k) /\ ~Idle(k) /\ call[k].at = "sweeping" /\ claim' = claim
  BY DEF SweepOne, Over, Idle, At, Ended
<1>2. /\ TypeOK /\ call[k] \in CallRecord /\ Placed(k) /\ call[k].op # "close"
      /\ \A j \in Calls \ {k} : call[j].op # "exit"
      /\ call[k].op = "exit" => \A j \in Calls \ {k} : Idle(j) \/ Over(j)
      /\ ~call[k].cut /\ ~call[k].failed
  BY <1>1, OrderlyActive, Shape DEF OrderlyInv, NobodyWaits
<1>3. call[k].op = "exit" /\ ~Creating(k)
  BY <1>1, <1>2 DEF Placed, Terminating, At, CallRecord, Operations, Creating
<1>4. PICK d \in call[k].todo :
        /\ handle' = [handle EXCEPT ![registry[d]] = "closed"]
        /\ Sweep(k, call[k], registry, call[k].todo \ {d})
  BY <1>2, SweepOneShape DEF Orderly
<1>5. registry[d] \in Calls /\ handle[registry[d]] # "none"
  BY <1>1, <1>4, Shape DEF RegistryInv, SweepHasTheOpen, EntriesAreDone, Tracked, Entries, At
<1>6. \A h \in Calls : handle'[h] = "none" <=> handle[h] = "none"
  BY <1>4, <1>5, Shape
<1>7. \A c \in Claims : ~Exists(c)
  BY <1>1, <1>3 DEF OrderlyInv, ExitWorksOff, Terminating, At
<1>8. /\ \A c \in Claims : claim'[c] = claim[c] \/ (Exists(c) /\ claim'[c] = "deleted")
      /\ \A c \in Claims : ~Exists(c)'
      /\ Fewer(registry) /\ call[k].todo \ {d} \in SUBSET Claims
  BY <1>1, <1>2, <1>7, PoppedIsFewer DEF Exists, CallRecord, SweepOne
<1>9. QED
  BY <1>1, <1>2, <1>3, <1>4, <1>6, <1>8, OrderlySweep

(* Nobody has a request under way when the API session is closed.          *)
LEMMA OrderlyCloseApi ==
  ASSUME Orderly, RegistryInv, RegistryInv', OrderlyInv, NEW k \in Calls, CloseApi(k)
  PROVE  OrderlyInv'
<1>1. /\ ~Over(k) /\ ~Idle(k) /\ call[k].at = "closing_api" /\ "done" \in PC /\ ~At(k, "deleting")
      /\ UNCHANGED <<claim, handle, registry>>
  BY DEF CloseApi, Over, Idle, At, Ended, PC
<1>2. /\ TypeOK /\ call[k] \in CallRecord /\ Placed(k) /\ Names(k) /\ WorksOn(k)
      /\ call[k].op # "close" /\ handle[k] = "none"
      /\ \A j \in Calls \ {k} : call[j].op # "exit"
      /\ call[k].op = "exit" => \A j \in Calls \ {k} : Idle(j) \/ Over(j)
  BY <1>1, OrderlyActive, Shape DEF OrderlyInv, NobodyWaits
<1>3. call[k].op = "exit" /\ ~Creating(k)
  BY <1>1, <1>2 DEF Placed, Terminating, At, CallRecord, Operations, Creating
<1>4. \A c \in Claims : ~Exists(c)
  BY <1>1, <1>3 DEF OrderlyInv, ExitWorksOff, Terminating, At
<1>5. /\ To(call[k], "done") \in CallRecord /\ To(call[k], "done").at = "done"
      /\ To(call[k], "done").op = "exit" /\ To(call[k], "done").claim = call[k].claim
      /\ To(call[k], "done").failed = call[k].failed /\ To(call[k], "done").cut = FALSE
  BY <1>1, <1>2, <1>3, ToShape
<1>6. call'[k] = To(call[k], "done")
  BY DEF CloseApi
<1>7. /\ call'[k].at = "done" /\ call'[k].op = "exit" /\ call'[k].claim = call[k].claim
      /\ ~call'[k].failed /\ ~call'[k].cut
  BY <1>2, <1>5, <1>6 DEF OrderlyInv, NobodyWaits
<1>8. \A j \in Calls \ {k} :
        call'[j] = [call[j] EXCEPT !.cut = FALSE] /\ call[j] \in CallRecord
  <2>1. \A j \in Calls \ {k} : call'[j] = [call[j] EXCEPT !.cut = ~Idle(j) /\ ~Over(j)]
    BY DEF CloseApi
  <2>2. \A j \in Calls \ {k} : (~Idle(j) /\ ~Over(j)) = FALSE
    BY <1>2, <1>3
  <2>3. QED
    BY <2>1, <2>2, Shape
<1>9. OthersStay(k) /\ \A j \in Calls : ~call'[j].cut
  BY <1>7, <1>8 DEF OthersStay, CallRecord
<1>10. ~Waits(k)' /\ call'[k].op # "close"
  BY <1>7 DEF Waits
<1>11. Placed(k)' /\ Names(k)' /\ WorksOn(k)' /\ WorkedOff(k)'
  BY <1>1, <1>2, <1>3, <1>4, <1>7
  DEF Placed, Names, WorksOn, WorkedOff, Creating, Terminating, At, Exists
<1>12. QED
  BY <1>1, <1>2, <1>3, <1>7, <1>9, <1>10, <1>11, OrderlyQuiet

(* The cluster: a claim that gets ready, or vanishes.                      *)
LEMMA OrderlyCluster ==
  ASSUME RegistryInv, OrderlyInv, NEW c \in Claims, BecomesReady(c) \/ Vanishes(c)
  PROVE  OrderlyInv'
<1>1. UNCHANGED <<handle, registry, lock, call>>
  BY DEF BecomesReady, Vanishes
<1>2. /\ \A d \in Claims : claim'[d] # "none" <=> claim[d] # "none"
      /\ \A d \in Claims : claim'[d] = "created" => claim[d] = "created"
      /\ \A d \in Claims : Exists(d)' => Exists(d)
  BY Shape DEF BecomesReady, Vanishes, Deleted, Exists
<1>3. NobodyWaits' /\ PlaceOfOp'
  BY <1>1 DEF OrderlyInv, NobodyWaits, PlaceOfOp, Waits, Idle, Over, At, Creating, Terminating
<1>4. ClaimsAreMade'
  BY <1>1, <1>2, Shape DEF OrderlyInv, ClaimsAreMade, At, Creating, Terminating
<1>5. HandlesAreOfClaims'
  <2>1. \A h \in Calls : handle[h] # "none" => call[h].claim \in Claims
    BY Shape DEF OrderlyInv, HandlesAreOfClaims, ClaimsAreMade, PlaceOfOp, Creating
  <2>2. QED
    BY <1>1, <1>2, <2>1 DEF OrderlyInv, HandlesAreOfClaims, HandleOf, At, Terminating
<1>6. AnsweredFor'
  BY <1>1, <1>2 DEF OrderlyInv, AnsweredFor, BeingDeleted, Creating, Over, At
<1>7. ClosedIsGivenUp'
  <2>1. \A h \in Calls : handle[h] # "none" => call[h].claim \in Claims
    BY Shape DEF OrderlyInv, HandlesAreOfClaims, ClaimsAreMade, PlaceOfOp, Creating
  <2>2. \A h \in Calls : handle[h] = "closed" => handle[h] # "none"
    OBVIOUS
  <2>3. \A h \in Calls :
          handle[h] = "closed" => ~Exists(call[h].claim)' \/ BeingDeleted(call[h].claim)'
    <3> SUFFICES ASSUME NEW h \in Calls, handle[h] = "closed"
                 PROVE  ~Exists(call[h].claim)' \/ BeingDeleted(call[h].claim)'
      OBVIOUS
    <3>1. call[h].claim \in Claims /\ (~Exists(call[h].claim) \/ BeingDeleted(call[h].claim))
      BY <2>1, <2>2 DEF OrderlyInv, ClosedIsGivenUp
    <3>2. Exists(call[h].claim)' => Exists(call[h].claim)
      BY <1>1, <1>2, <3>1 DEF Exists
    <3>3. BeingDeleted(call[h].claim) => BeingDeleted(call[h].claim)'
      BY <1>1 DEF BeingDeleted, At
    <3>4. QED
      BY <3>1, <3>2, <3>3
  <2>4. QED
    BY <1>1, <2>3 DEF ClosedIsGivenUp
<1>8. ExitWorksOff'
  BY <1>1, <1>2 DEF OrderlyInv, ExitWorksOff, Terminating, At
<1>9. QED
  BY <1>3, <1>4, <1>5, <1>6, <1>7, <1>8 DEF OrderlyInv

(* The listing forgets entries that are closed: their claims are on their  *)
(* way out.                                                                *)
LEMMA OrderlyListActive ==
  ASSUME RegistryInv, OrderlyInv, ListActive
  PROVE  OrderlyInv'
<1>1. UNCHANGED <<claim, handle, lock, call>>
  BY DEF ListActive
<1>2. \A c \in Claims : registry'[c] # None => registry'[c] = registry[c]
  BY DEF ListActive
<1>3. \A c \in Claims :
        registry'[c] = registry[c] \/ (registry[c] # None /\ handle[registry[c]] = "closed")
  BY DEF ListActive
<1>4. NobodyWaits' /\ PlaceOfOp' /\ ClaimsAreMade'
  BY <1>1 DEF OrderlyInv, NobodyWaits, PlaceOfOp, ClaimsAreMade, Waits, Idle, Over, At, Creating,
              Terminating
<1>5. HandlesAreOfClaims'
  BY <1>1, <1>2 DEF OrderlyInv, HandlesAreOfClaims, HandleOf, At, Terminating
<1>6. AnsweredFor'
  <2> SUFFICES ASSUME NEW c \in Claims, Exists(c)
               PROVE  (Creating(c) /\ ~Over(c)) \/ registry'[c] # None \/ BeingDeleted(c)
    BY <1>1 DEF AnsweredFor, Exists, Creating, Over, BeingDeleted, At
  <2>1. CASE registry'[c] = registry[c]
    BY <2>1 DEF OrderlyInv, AnsweredFor
  <2>2. CASE registry[c] # None /\ handle[registry[c]] = "closed"
    <3>1. registry[c] \in Calls /\ call[registry[c]].claim = c
      BY <2>2 DEF OrderlyInv, HandlesAreOfClaims, HandleOf
    <3>2. QED
      BY <2>2, <3>1 DEF OrderlyInv, ClosedIsGivenUp
  <2>3. QED
    BY <1>3, <2>1, <2>2
<1>7. ClosedIsGivenUp' /\ ExitWorksOff'
  BY <1>1 DEF OrderlyInv, ClosedIsGivenUp, ExitWorksOff, BeingDeleted, Exists, Terminating, At
<1>8. QED
  BY <1>4, <1>5, <1>6, <1>7 DEF OrderlyInv

(* It holds in the beginning.                                              *)
LEMMA OrderlyInit == Init => OrderlyInv
<1> SUFFICES ASSUME Init PROVE OrderlyInv
  OBVIOUS
<1>1. /\ \A c \in Claims : claim[c] = "none" /\ registry[c] = None
      /\ \A k \in Calls : handle[k] = "none" /\ call[k].op = "none" /\ call[k].at = "none"
                          /\ call[k].cut = FALSE /\ call[k].failed = FALSE
  BY DEF Init, NoEntries
<1>2. \A k \in Calls : claim[k] = "none"
  BY <1>1 DEF Claims
<1>3. QED
  BY <1>1, <1>2
  DEF OrderlyInv, NobodyWaits, PlaceOfOp, ClaimsAreMade, HandlesAreOfClaims, AnsweredFor,
      ClosedIsGivenUp, ExitWorksOff, Waits, Idle, Over, At, Creating, Terminating, Exists, HandleOf

(* Nobody waits, no request is refused, and nothing is cancelled.          *)
LEMMA OrderlyNever ==
  ASSUME Orderly, RegistryInv, OrderlyInv, NEW k \in Calls
  PROVE  /\ ~ClaimRefused(k) /\ ~InsertLater(k) /\ ~ReplaceLater(k) /\ ~TerminateRaises(k)
         /\ ~PopLater(k) /\ ~ReadLater(k) /\ ~CloseLater(k) /\ ~Cancel(k) /\ ~Close(k)
         /\ ~CloseConnectionRaises(k)
<1>1. ~Waits(k)
  BY DEF OrderlyInv, NobodyWaits
<1>2. QED
  BY <1>1, NothingFails
  DEF ClaimRefused, InsertLater, ReplaceLater, TerminateRaises, PopLater, ReadLater, CloseLater,
      CloseConnectionRaises, Orderly, Waits, At

(* Every step keeps it.                                                    *)
LEMMA OrderlyStep ==
  ASSUME Orderly, RegistryInv, OrderlyInv, [Next]_vars
  PROVE  OrderlyInv'
<1>0. RegistryInv'
  BY RegistryStep
<1>1. ASSUME NEW k \in Calls, Start(k)
      PROVE  OrderlyInv'
  BY <1>0, <1>1, OrderlyCreate, OrderlyBegins, OrderlyExit, OrderlyNever DEF Start
<1>2. ASSUME NEW k \in Calls, Proceed(k)
      PROVE  OrderlyInv'
  <2>1. CASE Resolved(k)
    BY <1>0, <2>1, OrderlyPut, OrderlyFound
  <2>2. QED
    BY <1>0, <1>2, <2>1, OrderlyNever, OrderlyClaimCreated, OrderlyWaitFails, OrderlyCleanUp,
       OrderlyPut, OrderlyCloseConnection, OrderlyResolveFails, OrderlyDeleted, OrderlySweepOne,
       OrderlyCloseApi DEF Proceed
<1>3. CASE UNCHANGED vars
  BY <1>3 DEF vars, OrderlyInv, NobodyWaits, PlaceOfOp, ClaimsAreMade, HandlesAreOfClaims,
              AnsweredFor, ClosedIsGivenUp, ExitWorksOff, Waits, Idle, Over, At, Creating,
              Terminating, Exists, HandleOf, BeingDeleted
<1>4. QED
  BY <1>1, <1>2, <1>3, OrderlyNever, OrderlyListActive, OrderlyCluster DEF Next

(* OrderlyInv is inductive, given RegistryInv.                             *)
LEMMA OrderlyInvariant == Orderly => (Spec => [](RegistryInv /\ OrderlyInv))
<1> SUFFICES ASSUME Orderly PROVE Spec => [](RegistryInv /\ OrderlyInv)
  OBVIOUS
<1>1. Init => RegistryInv /\ OrderlyInv
  BY RegistryInit, OrderlyInit
<1>2. RegistryInv /\ OrderlyInv /\ [Next]_vars => (RegistryInv /\ OrderlyInv)'
  BY RegistryStep, OrderlyStep
<1>3. QED
  BY <1>1, <1>2, PTL DEF Spec

(* The context manager leaves no claim that was made in it, however many   *)
(* calls ran in it at the same time, when no request failed and the context*)
(* was left after all of them had ended.                                   *)
THEOREM ContextLeavesNoClaim == Orderly => (Spec => []ExitLeavesNoClaim)
<1> SUFFICES ASSUME Orderly PROVE Spec => []ExitLeavesNoClaim
  OBVIOUS
<1>1. RegistryInv /\ OrderlyInv => ExitLeavesNoClaim
  BY DEF OrderlyInv, ExitWorksOff, ExitLeavesNoClaim, Terminating, At
<1>2. QED
  BY <1>1, OrderlyInvariant, PTL

-----------------------------------------------------------------------------
(* The registry implements SandboxLease.                                   *)

(* A call answers for the creation of its claim.                           *)
Pending(c) == Creating(c) /\ ~Over(c)

(* Where AnsweredFor holds no claim is loose.                              *)
LEMMA LeaseOf ==
  ASSUME AnsweredFor, NEW c \in Claims
  PROVE  /\ claim[c] = "none" => Lease[c] = "absent"
         /\ claim[c] = "deleted" => Lease[c] = "ended"
         /\ Exists(c) /\ Pending(c) => Lease[c] = "pending"
         /\ Exists(c) /\ ~Pending(c) => Lease[c] = "leased"
BY DEF Lease, Exists, Pending, Creating, AnsweredFor

(* The place of a claim in the lease after a step.                         *)
LEMMA LeaseOfNext ==
  ASSUME AnsweredFor', NEW c \in Claims
  PROVE  /\ claim'[c] = "none" => Lease'[c] = "absent"
         /\ claim'[c] = "deleted" => Lease'[c] = "ended"
         /\ Exists(c)' /\ Pending(c)' => Lease'[c] = "pending"
         /\ Exists(c)' /\ ~Pending(c)' => Lease'[c] = "leased"
BY DEF Lease, Exists, Pending, Creating, AnsweredFor

(* A step that takes every lease as it is, or one to its next state.       *)
LEMMA LeaseMoves ==
  ASSUME \/ \A c \in Claims : Lease'[c] = Lease[c]
         \/ \E k \in Claims :
              /\ \A c \in Claims \ {k} : Lease'[c] = Lease[c]
              /\ \/ Lease[k] = "absent" /\ Lease'[k] = "pending"
                 \/ Lease[k] = "pending" /\ Lease'[k] = "leased"
                 \/ Lease[k] \in {"pending", "leased"} /\ Lease'[k] = "ended"
  PROVE  L!Next
<1>1. Lease = [c \in Claims |-> Lease[c]] /\ Lease' = [c \in Claims |-> Lease'[c]]
  BY DEF Lease
<1>2. CASE \A c \in Claims : Lease'[c] = Lease[c]
  <2>1. Lease' = Lease
    BY <1>1, <1>2, Zenon
  <2>2. QED
    BY <2>1 DEF L!Next
<1>3. ASSUME NEW k \in Claims, \A c \in Claims \ {k} : Lease'[c] = Lease[c],
             \/ Lease[k] = "absent" /\ Lease'[k] = "pending"
             \/ Lease[k] = "pending" /\ Lease'[k] = "leased"
             \/ Lease[k] \in {"pending", "leased"} /\ Lease'[k] = "ended"
      PROVE  L!Next
  <2>1. Lease' = [Lease EXCEPT ![k] = Lease'[k]]
    BY <1>1, <1>3
  <2>2. QED
    BY <1>3, <2>1 DEF L!Next, L!Make, L!Grant, L!End, L!Becomes
<1>4. QED
  BY <1>2, <1>3

(* Every claim, by what becomes of it and of its creation.                 *)
LEMMA LeaseSteps ==
  ASSUME RegistryInv, RegistryInv', AnsweredFor, AnsweredFor', NEW k \in Claims,
         \A c \in Claims \ {k} : claim'[c] = claim[c] /\ (Exists(c) => (Pending(c)' <=> Pending(c))),
         \/ claim'[k] = claim[k] /\ (Exists(k) /\ Pending(k)' => Pending(k))
         \/ claim[k] = "none" /\ Exists(k)' /\ Pending(k)'
         \/ Exists(k) /\ claim'[k] = "deleted"
         \/ claim[k] = "created" /\ claim'[k] = "ready" /\ (Pending(k)' <=> Pending(k))
  PROVE  L!Next
<1>1. \A c \in Claims : claim[c] \in {"none", "deleted"} \/ Exists(c)
  BY DEF RegistryInv, TypeOK, Exists
<1>2. ASSUME NEW c \in Claims \ {k}
      PROVE  Lease'[c] = Lease[c]
  <2>1. claim'[c] = claim[c] /\ (Exists(c)' <=> Exists(c))
    BY DEF Exists
  <2>2. QED
    BY <1>1, <2>1, LeaseOf, LeaseOfNext
<1>3. \/ Lease'[k] = Lease[k]
      \/ Lease[k] = "absent" /\ Lease'[k] = "pending"
      \/ Lease[k] = "pending" /\ Lease'[k] = "leased"
      \/ Lease[k] \in {"pending", "leased"} /\ Lease'[k] = "ended"
  <2>1. CASE claim'[k] = claim[k] /\ (Exists(k) /\ Pending(k)' => Pending(k))
    <3>1. Exists(k)' <=> Exists(k)
      BY <2>1 DEF Exists
    <3>2. QED
      BY <1>1, <2>1, <3>1, LeaseOf, LeaseOfNext
  <2>2. CASE claim[k] = "none" /\ Exists(k)' /\ Pending(k)'
    BY <2>2, LeaseOf, LeaseOfNext
  <2>3. CASE Exists(k) /\ claim'[k] = "deleted"
    BY <2>3, LeaseOf, LeaseOfNext
  <2>4. CASE claim[k] = "created" /\ claim'[k] = "ready" /\ (Pending(k)' <=> Pending(k))
    <3>1. Exists(k) /\ Exists(k)'
      BY <2>4 DEF Exists
    <3>2. QED
      BY <2>4, <3>1, LeaseOf, LeaseOfNext
  <2>5. QED
    BY <2>1, <2>2, <2>3, <2>4
<1>4. QED
  BY <1>2, <1>3, LeaseMoves

(* The calls: create_sandbox makes its claim, answers for it until the     *)
(* registry does, or deletes it; the others delete the claim they name.    *)
LEMMA CallLease ==
  ASSUME Orderly, RegistryInv, OrderlyInv, RegistryInv', OrderlyInv', NEW k \in Calls,
         Start(k) \/ Proceed(k)
  PROVE  L!Next
<1>1. /\ TypeOK /\ AnsweredFor /\ AnsweredFor' /\ k \in Claims /\ Claims = Calls
      /\ claim \in [Claims -> {"none", "created", "ready", "deleted"}]
  BY Shape DEF OrderlyInv, RegistryInv
<1>2. \A c \in Claims \ {k} : Pending(c)' <=> Pending(c)
  BY <1>1, MovesAlone DEF Pending, Creating, Over
<1>3. CASE ClaimCreated(k)
  <2>1. /\ claim[k] = "none" /\ "waiting" \in PC /\ Creating(k)
    BY <1>1, <1>3 DEF ClaimCreated, OrderlyInv, ClaimsAreMade, PC, RegistryInv, Places, At
  <2>2. claim'[k] = "created" /\ \A c \in Claims \ {k} : claim'[c] = claim[c]
    BY <1>1, <1>3 DEF ClaimCreated, Created
  <2>3. Exists(k)' /\ Pending(k)'
    BY <1>1, <1>3, <2>1, <2>2, GotoShape DEF ClaimCreated, Exists, Pending, Creating, Over, Ended
  <2>4. QED
    BY <1>1, <1>2, <2>1, <2>2, <2>3, LeaseSteps
<1>4. CASE CleanUp(k)
  <2>1. Deleted(k)
    BY <1>4, NothingFails DEF CleanUp
  <2>2. /\ \A c \in Claims \ {k} : claim'[c] = claim[c]
        /\ IF Exists(k) THEN claim'[k] = "deleted" ELSE claim'[k] = claim[k]
    BY <1>1, <2>1 DEF Deleted
  <2>3. QED
    BY <1>1, <1>2, <2>2, LeaseSteps
<1>5. CASE SandboxReady(k) \/ WaitFails(k)
  <2>1. claim' = claim /\ Pending(k)
    BY <1>5 DEF SandboxReady, WaitFails, Pending, RegistryInv, Places, At, Over, Ended
  <2>2. QED
    BY <1>1, <1>2, <2>1, LeaseSteps
<1>6. CASE ~ClaimCreated(k) /\ ~CleanUp(k) /\ ~SandboxReady(k) /\ ~WaitFails(k)
  <2>1. ~Creating(k)
    BY <1>6, OrderlyNever
    DEF Start, Proceed, CreateSandbox, GetSandbox, DeleteSandbox, Terminate, Exit, MayBegin, Idle,
        Resolved, ResolveFails, CloseConnection, TerminateReturns, DeleteUntracked, SweepOne,
        CloseApi, At, OrderlyInv, PlaceOfOp, Creating
  <2>2. claim[k] = "none"
    BY <2>1 DEF OrderlyInv, ClaimsAreMade
  <2>3. CASE claim' = claim
    BY <1>1, <1>2, <2>2, <2>3, LeaseSteps DEF Exists
  <2>4. CASE Deleted(call[k].claim) /\ claim' # claim
    <3>1. PICK c \in Claims : c = call[k].claim /\ Exists(c)
      <4>1. call[k].claim \in Claims /\ Exists(call[k].claim)
        BY <1>1, <2>4 DEF Deleted
      <4>2. QED
        BY <4>1
    <3>2. /\ claim'[c] = "deleted" /\ \A d \in Claims \ {c} : claim'[d] = claim[d]
      BY <1>1, <2>4, <3>1 DEF Deleted
    <3>3. \A d \in Claims \ {c} : Exists(d) => (Pending(d)' <=> Pending(d))
      BY <1>2, <2>2 DEF Exists
    <3>4. QED
      BY <1>1, <3>1, <3>2, <3>3, LeaseSteps
  <2>5. claim' = claim \/ Deleted(call[k].claim)
    BY <1>6, OrderlyNever
    DEF Start, Proceed, CreateSandbox, GetSandbox, DeleteSandbox, Terminate, Exit,
        Resolved, ResolveFails, CloseConnection, TerminateReturns, DeleteUntracked, SweepOne,
        CloseApi
  <2>6. QED
    BY <2>3, <2>4, <2>5
<1>7. QED
  BY <1>3, <1>4, <1>5, <1>6

(* Every step is one of the lease, or a stutter.                           *)
LEMMA StepLease ==
  ASSUME Orderly, RegistryInv, OrderlyInv, [Next]_vars
  PROVE  [L!Next]_(L!vars)
<1>1. RegistryInv' /\ OrderlyInv'
  BY RegistryStep, OrderlyStep
<1>2. AnsweredFor /\ AnsweredFor' /\ claim \in [Claims -> {"none", "created", "ready", "deleted"}]
  BY <1>1, Shape DEF OrderlyInv
<1>3. ASSUME NEW k \in Calls, Start(k) \/ Proceed(k)
      PROVE  L!Next
  BY <1>1, <1>3, CallLease
<1>4. ASSUME NEW c \in Claims, BecomesReady(c) \/ Vanishes(c)
      PROVE  L!Next
  <2>1. /\ \A d \in Claims : Pending(d)' <=> Pending(d)
        /\ \A d \in Claims \ {c} : claim'[d] = claim[d]
        /\ \/ claim[c] = "created" /\ claim'[c] = "ready"
           \/ Exists(c) /\ claim'[c] = "deleted"
    BY <1>2, <1>4 DEF BecomesReady, Vanishes, Deleted, Pending, Creating, Over
  <2>2. QED
    BY <1>1, <1>2, <2>1, LeaseSteps
<1>5. CASE ListActive \/ UNCHANGED vars
  <2>1. \A c \in Claims : claim'[c] = claim[c] /\ (Pending(c)' <=> Pending(c))
    BY <1>5 DEF ListActive, vars, Pending, Creating, Over
  <2>2. ASSUME NEW c \in Claims
        PROVE  Lease'[c] = Lease[c]
    <3>1. Exists(c)' <=> Exists(c)
      BY <2>1 DEF Exists
    <3>2. QED
      BY <1>2, <2>1, <3>1, LeaseOf, LeaseOfNext DEF Exists
  <2>3. QED
    BY <2>2, LeaseMoves
<1>6. QED
  BY <1>3, <1>4, <1>5, OrderlyNever DEF Next

(* The initial states are those of the lease.                              *)
LEMMA InitLease == Init => L!Init
<1> SUFFICES ASSUME Init PROVE L!Init
  OBVIOUS
<1>1. ASSUME NEW c \in Claims
      PROVE  Lease[c] = "absent"
  <2>1. claim[c] = "none"
    BY DEF Init
  <2>2. QED
    BY <2>1 DEF Lease
<1>2. Lease = [c \in Claims |-> Lease[c]]
  BY DEF Lease
<1>3. Lease \in [Claims -> {"absent", "loose"}]
  BY <1>1, <1>2
<1>4. QED
  BY <1>3 DEF L!Init

(* AsyncSandboxClient implements SandboxLease and harms no claim, for any  *)
(* number of calls at the same time, where no request fails and nothing is *)
(* cancelled: the registry gives up no claim that exists                   *)
(* (async_sandbox_client.py 106-262).                                      *)
THEOREM RegistryImplementsLease == Orderly => (Spec => ImplementsLease)
<1> SUFFICES ASSUME Orderly PROVE Spec => ImplementsLease
  OBVIOUS
<1>1. RegistryInv /\ OrderlyInv /\ [Next]_vars => [L!Next]_(L!vars)
  BY StepLease
<1>2. QED
  BY <1>1, InitLease, OrderlyInvariant, PTL DEF Spec, ImplementsLease, L!Spec

=============================================================================
