-------------------------- MODULE SandboxRegistry ---------------------------
(***************************************************************************)
(* AsyncSandboxClient: a registry of sandbox handles, the asyncio lock     *)
(* around it, and the calls of its user that run at the same time, each    *)
(* over the Kubernetes API.                                                *)
(*                                                                         *)
(* An action is what a call does from one await to the next.  An           *)
(* asyncio.Lock that is free and that nobody waits for is taken without    *)
(* suspending, and only close holds the lock across an await: calls begin  *)
(* to wait during a close, and those that wait may take the lock in any    *)
(* order.  Namespaces, labels and tracing are left out.                    *)
(***************************************************************************)
EXTENDS FiniteSets

CONSTANTS
  Calls,       \* the calls the user makes; each makes at most one handle
  Ops,         \* the operations they may be
  None,        \* no handle, no call
  MayFail,     \* may a request to a healthy API, or a connector's close, fail?
  MayCancel,   \* may the user cancel a call?
  KnownEarly,  \* may a claim be named before create_sandbox returned it?
  Structured   \* does the user leave the context only when all calls ended?

(* The claim of a create_sandbox call has a fresh name: the call itself.   *)
Claims == Calls

Operations == {"create", "get", "delete", "terminate", "close", "exit"}

ASSUME RegistryAssumption ==
  /\ Ops \subseteq Operations
  /\ None \notin Calls
  /\ {MayFail, MayCancel, KnownEarly, Structured} \subseteq BOOLEAN

VARIABLES
  claim,       \* the SandboxClaims on the cluster
  handle,      \* the handle a call has made: its _is_closed
  registry,    \* _active_connection_sandboxes: claim -> handle
  lock,        \* the call that holds _lock
  call         \* what each call does

vars == <<claim, handle, registry, lock, call>>

Ended == {"done", "raised", "cancelled"}

PC ==
  {"none", "requesting", "waiting", "cleaning", "inserting", "reading",
   "resolving", "replacing", "closing", "deleting", "popping",
   "deleting_claim", "locking", "sweeping", "closing_api"} \cup Ended

(* seen is the handle the call read from the registry, todo what delete_all*)
(* or close has before it, unclosed the entries whose connection this close*)
(* could not close, cut that its request was under way when the API session*)
(* was closed, failed that its cleanup was not carried out.                *)
CallRecord ==
  [op : Operations \cup {"none"}, at : PC, claim : Claims \cup {None},
   seen : Calls \cup {None}, todo : SUBSET Claims, unclosed : SUBSET Claims,
   cut : BOOLEAN, failed : BOOLEAN]

TypeOK ==
  /\ claim \in [Claims -> {"none", "created", "ready", "deleted"}]
  /\ handle \in [Calls -> {"none", "open", "closed"}]
  /\ registry \in [Claims -> Calls \cup {None}]
  /\ lock \in Calls \cup {None}
  /\ lock # None => call[lock].at = "sweeping"
  /\ call \in [Calls -> CallRecord]

NoEntries == [c \in Claims |-> None]

Init ==
  /\ claim = [c \in Claims |-> "none"]
  /\ handle = [k \in Calls |-> "none"]
  /\ registry = NoEntries
  /\ lock = None
  /\ call = [k \in Calls |-> [op |-> "none", at |-> "none", claim |-> None,
                              seen |-> None, todo |-> {}, unclosed |-> {},
                              cut |-> FALSE, failed |-> FALSE]]

-----------------------------------------------------------------------------
At(k, pc) == call[k].at = pc
Idle(k) == At(k, "none")
Over(k) == call[k].at \in Ended

Is(k, rec) == call' = [call EXCEPT ![k] = rec]
To(rec, pc) == [rec EXCEPT !.at = pc, !.cut = FALSE]
Goto(k, pc) == Is(k, To(call[k], pc))

(* A waiting call may take the lock when it is free, another one only when *)
(* nobody waits.                                                           *)
Waits(k) ==
  call[k].at \in {"inserting", "reading", "replacing", "popping", "locking"}
Free == lock = None
Uncontended(k) == Free /\ \A j \in Calls \ {k} : ~Waits(j)

Exists(c) == claim[c] \in {"created", "ready"}
Entries(reg) == {c \in Claims : reg[c] # None}
Tracked == Entries(registry)
RequestMayFail(k) == MayFail \/ call[k].cut

(* A request without answer may have been carried out or not.              *)
Created(c) == claim' = [claim EXCEPT ![c] = "created"]
Deleted(c) == claim' = [claim EXCEPT ![c] = IF Exists(c) THEN "deleted" ELSE @]
PerhapsDeleted(c) == (UNCHANGED claim) \/ Deleted(c)

(* What the user may name.                                                 *)
Known(c) == claim[c] # "none" /\ (KnownEarly \/ At(c, "done"))

Begun(k, op, c) ==
  [call[k] EXCEPT !.op = op, !.claim = c]

MayBegin(k, op) ==
  /\ Idle(k)
  /\ op \in Ops
  /\ Structured => \A j \in Calls : call[j].op # "exit"

-----------------------------------------------------------------------------
(* create_sandbox.                                                         *)

CreateSandbox(k) ==
  /\ MayBegin(k, "create")
  /\ Is(k, To(Begun(k, "create", k), "requesting"))
  /\ UNCHANGED <<claim, handle, registry, lock>>

ClaimCreated(k) ==
  /\ At(k, "requesting")
  /\ Created(k)
  /\ Goto(k, "waiting")
  /\ UNCHANGED <<handle, registry, lock>>

ClaimRefused(k) ==
  /\ At(k, "requesting")
  /\ RequestMayFail(k)
  /\ (UNCHANGED claim) \/ Created(k)
  /\ Goto(k, "cleaning")
  /\ UNCHANGED <<handle, registry, lock>>

Put(k) ==
  /\ registry' = [registry EXCEPT ![call[k].claim] = k]
  /\ Goto(k, "done")

(* Mutant: the handle is put in the registry without the lock.             *)
InsertUnlocked(k) == Put(k)

(* Mutant: the handle is returned and not tracked.                         *)
InsertNothing(k) == Goto(k, "done") /\ UNCHANGED registry

(* The handle is put in the registry, or the call waits for the lock.      *)
Insert(k) ==
  IF Uncontended(k) THEN Put(k)
  ELSE Goto(k, "inserting") /\ UNCHANGED registry

SandboxReady(k) ==
  /\ At(k, "waiting")
  /\ claim[k] = "ready"
  /\ handle' = [handle EXCEPT ![k] = "open"]
  /\ Insert(k)
  /\ UNCHANGED <<claim, lock>>

InsertLater(k) ==
  /\ At(k, "inserting")
  /\ Free
  /\ Put(k)
  /\ UNCHANGED <<claim, handle, lock>>

(* The claim is deleted, an answer is an error, or the time is over.       *)
WaitFails(k) ==
  /\ At(k, "waiting")
  /\ Goto(k, "cleaning")
  /\ UNCHANGED <<claim, handle, registry, lock>>

(* The shielded _delete_claim, whose own failure is only logged.           *)
CleanUp(k) ==
  /\ At(k, "cleaning")
  /\ \/ Deleted(k) /\ Goto(k, "raised")
     \/ /\ RequestMayFail(k) /\ UNCHANGED claim
        /\ Is(k, [To(call[k], "raised") EXCEPT !.failed = TRUE])
  /\ UNCHANGED <<handle, registry, lock>>

-----------------------------------------------------------------------------
(* terminate of a handle, and the deletion of a claim without handle.      *)

FirstAwait(h) ==
  IF h = None THEN "deleting_claim"
  ELSE IF handle[h] = "open" THEN "closing" ELSE "deleting"

(* The user terminates a handle he holds; the registry keeps it.           *)
Terminate(k, h) ==
  /\ MayBegin(k, "terminate")
  /\ At(h, "done") /\ handle[h] # "none"
  /\ Is(k, To([Begun(k, "terminate", call[h].claim) EXCEPT !.seen = h], FirstAwait(h)))
  /\ UNCHANGED <<claim, handle, registry, lock>>

CloseConnection(k) ==
  /\ At(k, "closing")
  /\ handle' = [handle EXCEPT ![call[k].seen] = "closed"]
  /\ Goto(k, "deleting")
  /\ UNCHANGED <<claim, registry, lock>>

-----------------------------------------------------------------------------
(* close, and the loop of delete_all.                                      *)

(* close has the lock and todo before it: the next connection is being     *)
(* closed, or all have been tried and the registry is cleared.             *)
Sweep(k, rec, reg, todo) ==
  LET left == {c \in todo : handle'[reg[c]] = "open"}
  IN  IF left # {}
      THEN /\ registry' = reg
           /\ lock' = k
           /\ Is(k, [To(rec, "sweeping") EXCEPT !.todo = left])
      ELSE /\ registry' = NoEntries
           /\ lock' = None
           /\ Is(k, [To(rec, "closing_api") EXCEPT !.todo = {}])

StartClose(k, rec, reg) ==
  IF Uncontended(k) THEN Sweep(k, rec, reg, Entries(reg))
  ELSE registry' = reg /\ UNCHANGED lock /\ Is(k, To(rec, "locking"))

(* A turn of the loop of delete_all is delete_sandbox; __aexit__ then      *)
(* closes the client.                                                      *)
DeleteNext(k, rec, reg) ==
  IF rec.todo = {} THEN StartClose(k, rec, reg)
  ELSE /\ registry' = reg
       /\ UNCHANGED lock
       /\ \E c \in rec.todo :
            LET turn == [rec EXCEPT !.claim = c, !.seen = reg[c], !.todo = @ \ {c}]
            IN  Is(k, To(turn, IF Uncontended(k) THEN FirstAwait(reg[c]) ELSE "reading"))

ReadLater(k) ==
  /\ At(k, "reading")
  /\ Free
  /\ LET h == registry[call[k].claim]
     IN  Is(k, [To(call[k], FirstAwait(h)) EXCEPT !.seen = h])
  /\ UNCHANGED <<claim, handle, registry, lock>>

(* Waiting for the lock before the first await is beginning later.         *)
Close(k) ==
  /\ MayBegin(k, "close")
  /\ Uncontended(k)
  /\ UNCHANGED <<claim, handle>>
  /\ StartClose(k, Begun(k, "close", None), registry)

CloseLater(k) ==
  /\ At(k, "locking")
  /\ Free
  /\ UNCHANGED <<claim, handle>>
  /\ Sweep(k, call[k], registry, Tracked)

(* One connection is closed, the lock still held.  A close that raises is  *)
(* logged and the loop goes on: the handle stays open.                     *)
SweepOne(k) ==
  /\ At(k, "sweeping")
  /\ \E c \in call[k].todo :
       LET rest == call[k].todo \ {c}
       IN  \/ /\ handle' = [handle EXCEPT ![registry[c]] = "closed"]
              /\ Sweep(k, call[k], registry, rest)
           \/ /\ MayFail
              /\ UNCHANGED handle
              /\ Sweep(k, [call[k] EXCEPT !.unclosed = @ \cup {c}], registry, rest)
  /\ UNCHANGED claim

(* k8s_helper.close cuts the requests that are under way.                  *)
CloseApi(k) ==
  /\ At(k, "closing_api")
  /\ call' = [j \in Calls |->
       IF j = k THEN To(call[k], "done")
       ELSE [call[j] EXCEPT !.cut = ~Idle(j) /\ ~Over(j)]]
  /\ UNCHANGED <<claim, handle, registry, lock>>

(* Mutant: __aexit__ only closes the client.                               *)
ExitOnlyCloses(k) ==
  /\ MayBegin(k, "exit")
  /\ Uncontended(k)
  /\ Structured => \A j \in Calls : Idle(j) \/ Over(j)
  /\ UNCHANGED <<claim, handle>>
  /\ StartClose(k, Begun(k, "exit", None), registry)

(* __aexit__: delete_all for what is tracked now, then close.              *)
Exit(k) ==
  /\ MayBegin(k, "exit")
  /\ Uncontended(k)
  /\ Structured => \A j \in Calls : Idle(j) \/ Over(j)
  /\ UNCHANGED <<claim, handle>>
  /\ DeleteNext(k, [Begun(k, "exit", None) EXCEPT !.todo = Tracked], registry)

-----------------------------------------------------------------------------
(* delete_sandbox.                                                         *)

DeleteSandbox(k, c) ==
  /\ MayBegin(k, "delete")
  /\ Uncontended(k)
  /\ Known(c)
  /\ Is(k, To([Begun(k, "delete", c) EXCEPT !.seen = registry[c]], FirstAwait(registry[c])))
  /\ UNCHANGED <<claim, handle, registry, lock>>

(* What follows in the caller of terminate or of _delete_claim.            *)
Continue(k, reg, pc) ==
  IF call[k].op = "exit" THEN DeleteNext(k, call[k], reg)
  ELSE registry' = reg /\ Goto(k, pc) /\ UNCHANGED lock

Outcome(k) == IF call[k].op = "get" THEN "raised" ELSE "done"
Popped(k) == [registry EXCEPT ![call[k].claim] = None]

Pop(k) ==
  IF Uncontended(k) THEN Continue(k, Popped(k), Outcome(k))
  ELSE Goto(k, "popping") /\ UNCHANGED <<registry, lock>>

TerminateReturns(k) ==
  /\ At(k, "deleting")
  /\ Deleted(call[k].claim)
  /\ UNCHANGED handle
  /\ IF call[k].op = "terminate" THEN Continue(k, registry, "done") ELSE Pop(k)

PopLater(k) ==
  /\ At(k, "popping")
  /\ Free
  /\ UNCHANGED <<claim, handle>>
  /\ Continue(k, Popped(k), Outcome(k))

(* The entry stays, with a closed handle; delete_sandbox only logs.        *)
TerminateRaises(k) ==
  /\ At(k, "deleting")
  /\ RequestMayFail(k)
  /\ PerhapsDeleted(call[k].claim)
  /\ UNCHANGED handle
  /\ Continue(k, registry, IF call[k].op = "delete" THEN "done" ELSE "raised")

(* The connector's close raises: the handle stays open and nothing is      *)
(* deleted.                                                                *)
CloseConnectionRaises(k) ==
  /\ At(k, "closing")
  /\ MayFail
  /\ UNCHANGED <<claim, handle>>
  /\ Continue(k, registry, IF call[k].op = "delete" THEN "done" ELSE "raised")

DeleteUntracked(k) ==
  /\ At(k, "deleting_claim")
  /\ Deleted(call[k].claim) \/ (RequestMayFail(k) /\ UNCHANGED claim)
  /\ UNCHANGED handle
  /\ Continue(k, registry, "done")

-----------------------------------------------------------------------------
(* get_sandbox.                                                            *)

GetSandbox(k, c) ==
  /\ MayBegin(k, "get")
  /\ Uncontended(k)
  /\ Known(c)
  /\ Is(k, To([Begun(k, "get", c) EXCEPT !.seen = registry[c]], "resolving"))
  /\ UNCHANGED <<claim, handle, registry, lock>>

(* The open handle that was read is returned; a closed one is replaced.    *)
Resolved(k) ==
  LET h == call[k].seen
  IN  /\ At(k, "resolving")
      /\ Exists(call[k].claim)
      /\ IF h # None /\ handle[h] = "open"
         THEN Goto(k, "done") /\ UNCHANGED <<handle, registry>>
         ELSE IF h # None /\ ~Uncontended(k)
         THEN Goto(k, "replacing") /\ UNCHANGED <<handle, registry>>
         ELSE handle' = [handle EXCEPT ![k] = "open"] /\ Insert(k)
      /\ UNCHANGED <<claim, lock>>

(* The old entry is removed, and the lock taken anew for the new handle.   *)
ReplaceLater(k) ==
  /\ At(k, "replacing")
  /\ Free
  /\ handle' = [handle EXCEPT ![k] = "open"]
  /\ IF Uncontended(k) THEN Put(k)
     ELSE registry' = Popped(k) /\ Goto(k, "inserting")
  /\ UNCHANGED <<claim, lock>>

(* The claim is gone or not resolved in time, or the API answers with an   *)
(* error: the handle in the registry is terminated and the entry removed.  *)
ResolveFails(k) ==
  /\ At(k, "resolving")
  /\ claim[call[k].claim] # "ready" \/ RequestMayFail(k)
  /\ UNCHANGED <<claim, handle>>
  /\ IF call[k].seen = None THEN Pop(k)
     ELSE Goto(k, FirstAwait(call[k].seen)) /\ UNCHANGED <<registry, lock>>

(* list_active_sandboxes forgets the handles that are closed.              *)
ListActive ==
  /\ Free /\ \A k \in Calls : ~Waits(k)
  /\ registry' = [c \in Claims |->
       IF registry[c] # None /\ handle[registry[c]] = "closed" THEN None ELSE registry[c]]
  /\ UNCHANGED <<claim, handle, lock, call>>

-----------------------------------------------------------------------------
(* Cancellation, and the cluster.                                          *)

(* Mutant: a close that is cancelled keeps the lock.                       *)
CancelKeepsLock(k) ==
  /\ MayCancel /\ ~Idle(k) /\ ~Over(k)
  /\ ~At(k, "cleaning") /\ call[k].op # "exit"
  /\ Goto(k, IF call[k].at \in {"requesting", "waiting"} THEN "cleaning" ELSE "cancelled")
  /\ UNCHANGED <<claim, handle, registry, lock>>

(* Mutant: create_sandbox does not clean up when it is cancelled.          *)
CancelUncaught(k) ==
  /\ MayCancel /\ ~Idle(k) /\ ~Over(k)
  /\ ~At(k, "cleaning") /\ call[k].op # "exit"
  /\ Goto(k, IF call[k].at \in {"requesting", "waiting"} THEN "raised" ELSE "cancelled")
  /\ lock' = IF lock = k THEN None ELSE lock
  /\ UNCHANGED <<claim, handle, registry>>

(* Before it has the handle create_sandbox cleans up; close gives back the *)
(* lock; the others end where they are.  __aexit__ is not cancelled.       *)
Cancel(k) ==
  /\ MayCancel /\ ~Idle(k) /\ ~Over(k)
  /\ ~At(k, "cleaning") /\ call[k].op # "exit"
  /\ CASE At(k, "requesting") -> (UNCHANGED claim) \/ Created(k)
       [] call[k].at \in {"deleting", "deleting_claim"} -> PerhapsDeleted(call[k].claim)
       [] OTHER -> UNCHANGED claim
  /\ Goto(k, IF call[k].at \in {"requesting", "waiting"} THEN "cleaning" ELSE "cancelled")
  /\ lock' = IF lock = k THEN None ELSE lock
  /\ UNCHANGED <<handle, registry>>

BecomesReady(c) ==
  /\ claim[c] = "created"
  /\ claim' = [claim EXCEPT ![c] = "ready"]
  /\ UNCHANGED <<handle, registry, lock, call>>

(* A claim whose time is over, or that somebody else deletes.              *)
Vanishes(c) ==
  /\ Exists(c)
  /\ Deleted(c)
  /\ UNCHANGED <<handle, registry, lock, call>>

-----------------------------------------------------------------------------
Start(k) ==
  \/ CreateSandbox(k)
  \/ \E c \in Claims : GetSandbox(k, c) \/ DeleteSandbox(k, c)
  \/ \E h \in Calls : Terminate(k, h)
  \/ Close(k)
  \/ Exit(k)

Proceed(k) ==
  \/ ClaimCreated(k) \/ ClaimRefused(k) \/ SandboxReady(k) \/ InsertLater(k)
  \/ WaitFails(k) \/ CleanUp(k)
  \/ Resolved(k) \/ ReplaceLater(k) \/ ResolveFails(k)
  \/ CloseConnection(k) \/ CloseConnectionRaises(k)
  \/ TerminateReturns(k) \/ TerminateRaises(k)
  \/ PopLater(k) \/ DeleteUntracked(k) \/ ReadLater(k)
  \/ CloseLater(k) \/ SweepOne(k) \/ CloseApi(k)

Next ==
  \/ \E k \in Calls : Start(k) \/ Proceed(k) \/ Cancel(k)
  \/ ListActive
  \/ \E c \in Claims : BecomesReady(c) \/ Vanishes(c)

Spec == Init /\ [][Next]_vars

(* Requests are answered, in time or with an error, and the event loop     *)
(* runs the calls that are ready.                                          *)
Fairness == \A k \in Calls : WF_vars(Proceed(k))

-----------------------------------------------------------------------------
(* Properties.                                                             *)

BeingDeleted(c) == \E k \in Calls : call[k].claim = c /\ At(k, "deleting")

(* The context manager cleans up: when it has been left, none of the       *)
(* claims made in it is on the cluster (async_sandbox_client.py 45, 89-93).*)
ExitLeavesNoClaim ==
  \A k \in Calls :
    call[k].op = "exit" /\ At(k, "done") => \A c \in Claims : ~Exists(c)

(* close has closed, or tried to close, the connection of every handle it  *)
(* removes: nothing enters the registry and no entry is missed while it    *)
(* awaits the connections one by one, closes that raise among them.  What  *)
(* is open after it is what its own attempt could not close, which it logs *)
(* (async_sandbox_client.py 95-104).                                       *)
CloseClosesWhatItClears ==
  [][\A k \in Calls :
       At(k, "sweeping") /\ call'[k].at = "closing_api" =>
         \A c \in Tracked :
           handle'[registry[c]] = "closed" \/ c \in call'[k].unclosed]_vars

(* A create_sandbox that raises leaves no claim, whether it was refused,   *)
(* timed out or cancelled and whatever others did with the claim meanwhile,*)
(* unless the API refused the cleanup too (async_sandbox_client.py 164-166)*)
RaisedCreateLeavesNoClaim ==
  \A k \in Calls :
    call[k].op = "create" /\ At(k, "raised") /\ ~call[k].failed => ~Exists(k)

(* Every call returns or raises: the lock is given back however close ends.*)
EveryCallReturns == \A k \in Calls : ~Idle(k) ~> Over(k)

(* The life of each claim as SandboxLease has it: where no request fails   *)
(* and nothing is cancelled the registry never gives up a claim that       *)
(* exists, in whatever order the calls take the lock                       *)
(* (async_sandbox_client.py 106-262).                                      *)
Lease ==
  [c \in Claims |->
    IF claim[c] = "none" THEN "absent"
    ELSE IF claim[c] = "deleted" THEN "ended"
    ELSE IF call[c].op = "create" /\ ~Over(c) THEN "pending"
    ELSE IF registry[c] # None \/ BeingDeleted(c) THEN "leased"
    ELSE "loose"]

L == INSTANCE SandboxLease WITH lease <- Lease, harmed <- {}
ImplementsLease == L!Spec

-----------------------------------------------------------------------------
(* Why they hold: the inductive invariant, whatever fails and is cancelled.*)

(* Where create_sandbox may be, what only it does, and what calls have.    *)
Creating(k) == call[k].op = "create"

Places ==
  \A k \in Calls :
    /\ Creating(k) => call[k].at \in {"requesting", "waiting", "cleaning", "inserting"} \cup Ended
    /\ call[k].at \in {"requesting", "waiting", "cleaning"} => Creating(k)
    /\ At(k, "inserting") => handle[k] # "none"
    /\ At(k, "reading") => call[k].claim \in Claims
    /\ Idle(k) => call[k].op = "none"

(* An entry leads to a handle of a call that is done.                      *)
EntriesAreDone ==
  \A c \in Claims : registry[c] # None => handle[registry[c]] # "none" /\ At(registry[c], "done")

(* A sweep has the lock, and every open handle before it, unless it has    *)
(* tried it.                                                               *)
SweepHasTheOpen ==
  \A k \in Calls :
    At(k, "sweeping") =>
      /\ lock = k /\ call[k].todo \subseteq Tracked
      /\ \A c \in Tracked :
           handle[registry[c]] = "open" => c \in call[k].todo \cup call[k].unclosed

RegistryInv ==
  /\ TypeOK /\ Places /\ EntriesAreDone /\ SweepHasTheOpen
  /\ RaisedCreateLeavesNoClaim

-----------------------------------------------------------------------------
(* The same where no request fails, nothing is cancelled, and the client   *)
(* is closed by __aexit__ alone, when all calls have ended.                *)

Orderly == ~MayFail /\ ~MayCancel /\ Structured /\ "close" \notin Ops

(* Nobody waits for the lock; the exit is alone.                           *)
NobodyWaits ==
  /\ \A k \in Calls : ~Waits(k) /\ ~call[k].cut /\ ~call[k].failed /\ call[k].op # "close"
  /\ \A k \in Calls : call[k].op = "exit" => \A j \in Calls \ {k} : Idle(j) \/ Over(j)

Terminating(k) == call[k].at \in {"closing", "deleting"}

PlaceOfOp ==
  \A k \in Calls :
    LET at == call[k].at
    IN  /\ call[k].op = "none" <=> at = "none"
        /\ Creating(k) => at \in {"requesting", "waiting", "cleaning", "done", "raised"}
        /\ Creating(k) => call[k].claim = k
        /\ call[k].op = "get" => Terminating(k) \/ at \in {"resolving", "done", "raised"}
        /\ call[k].op = "delete" => Terminating(k) \/ at \in {"deleting_claim", "done"}
        /\ call[k].op = "terminate" => Terminating(k) \/ at = "done"
        /\ call[k].op = "exit" =>
             Terminating(k) \/ at \in {"deleting_claim", "sweeping", "closing_api", "done"}

(* Only create_sandbox makes a claim, and calls name claims that were made.*)
ClaimsAreMade ==
  \A k \in Calls :
    /\ claim[k] # "none" => Creating(k) /\ ~At(k, "requesting")
    /\ claim[k] = "created" => At(k, "waiting") \/ At(k, "cleaning")
    /\ call[k].op \in {"get", "delete", "terminate"} =>
         call[k].claim \in Claims /\ claim[call[k].claim] # "none"
    /\ call[k].op = "exit" /\ (Terminating(k) \/ At(k, "deleting_claim")) =>
         call[k].claim \in Claims

(* A handle is of the claim its call names, and so is what calls work on.  *)
HandleOf(h, c) == h \in Calls /\ handle[h] # "none" /\ call[h].claim = c

HandlesAreOfClaims ==
  /\ \A h \in Calls :
       handle[h] # "none" =>
         At(h, "done") /\ call[h].op \in {"create", "get"} /\ claim[call[h].claim] # "none"
  /\ \A c \in Claims : registry[c] # None => HandleOf(registry[c], c)
  /\ \A k \in Calls : Terminating(k) => HandleOf(call[k].seen, call[k].claim)
  /\ \A k \in Calls :
       At(k, "resolving") /\ call[k].seen # None => HandleOf(call[k].seen, call[k].claim)

(* What exists is answered for, and what was closed is on its way out.     *)
AnsweredFor ==
  \A c \in Claims :
    Exists(c) => (Creating(c) /\ ~Over(c)) \/ registry[c] # None \/ BeingDeleted(c)

ClosedIsGivenUp ==
  \A h \in Calls :
    handle[h] = "closed" => ~Exists(call[h].claim) \/ BeingDeleted(call[h].claim)

ExitWorksOff ==
  \A k \in Calls :
    call[k].op = "exit" =>
      \A c \in Claims :
        Exists(c) =>
          \/ Terminating(k) /\ (c = call[k].claim \/ c \in call[k].todo)
          \/ At(k, "deleting_claim") /\ (c = call[k].claim \/ c \in call[k].todo)

OrderlyInv ==
  /\ NobodyWaits /\ PlaceOfOp /\ ClaimsAreMade /\ HandlesAreOfClaims
  /\ AnsweredFor /\ ClosedIsGivenUp /\ ExitWorksOff

=============================================================================
