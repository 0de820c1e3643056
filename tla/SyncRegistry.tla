---------------------------- MODULE SyncRegistry ----------------------------
(***************************************************************************)
(* SandboxClient: the registry of sandbox handles of a program that makes  *)
(* one call after another, over a Kubernetes API whose requests fail, a    *)
(* cluster that changes under the watches of K8sHelper, and KeyboardInter- *)
(* rupt at any moment.  When the program ends, atexit runs delete_all.     *)
(*                                                                         *)
(* An action is what a call does from one request to the next.  Namespaces,*)
(* labels (which raise before anything is done), tracing and the read-only *)
(* list_all_sandboxes and status are left out.                             *)
(***************************************************************************)
EXTENDS Naturals, Sequences

CONSTANTS
  MaxCalls,      \* calls the program makes
  Foreign,       \* claims that others made before it started
  MaxFaults,     \* requests that the API refuses or does not answer
  MaxInterrupts  \* times the user interrupts the program

Calls == 1..MaxCalls
Claims == Calls \cup Foreign
None == 0

ASSUME SyncAssumption ==
  /\ {MaxCalls, MaxFaults, MaxInterrupts} \subseteq Nat
  /\ Foreign \cap Nat = {}

VARIABLES
  claim,       \* the SandboxClaims on the cluster
  box,         \* their Sandboxes
  handle,      \* the handle a call made: its claim and whether it is closed
  registry,    \* _active_connection_sandboxes: claim -> handle
  call,        \* the call that runs
  calls,       \* calls begun
  events,      \* what the open watch has not yet delivered
  excused,     \* history: claims whose creation or deletion was harmed
  faults,      \* requests refused
  interrupts,  \* interrupts
  exited       \* has atexit been through?

cluster == <<claim, box>>
user == <<handle, registry, call, calls, excused, exited>>
bounds == <<faults, interrupts>>
vars == <<cluster, user, bounds, events>>

ClaimStates == {"none", "made", "failed", "named", "deleted"}
BoxStates == {"none", "starting", "ready", "deleted"}
PC == {"idle", "posting", "resolving", "waiting", "reading", "constructing",
       "discarding", "closing", "deleting", "deleting_claim"}
Operations == {"none", "create", "get", "delete", "terminate", "delete_all", "exit"}

(* seen is the handle the call works on, todo what delete_all has before it*)
CallState ==
  [op : Operations, at : PC, claim : Claims \cup {None}, seen : Calls \cup {None},
   todo : SUBSET Claims]
HandleState == [of : Claims \cup {None}, is : {"none", "open", "half", "closed"}]

TypeOK ==
  /\ claim \in [Claims -> ClaimStates]
  /\ box \in [Claims -> BoxStates]
  /\ handle \in [Calls -> HandleState]
  /\ registry \in [Claims -> Calls \cup {None}]
  /\ call \in CallState
  /\ calls \in 0..MaxCalls
  /\ events \in Seq(ClaimStates \cup BoxStates)
  /\ excused \subseteq Claims
  /\ faults \in 0..MaxFaults /\ interrupts \in 0..MaxInterrupts
  /\ exited \in BOOLEAN

NoCall == [op |-> "none", at |-> "idle", claim |-> None, seen |-> None, todo |-> {}]

Init ==
  /\ claim = [c \in Claims |-> IF c \in Foreign THEN "named" ELSE "none"]
  /\ box = [c \in Claims |-> IF c \in Foreign THEN "ready" ELSE "none"]
  /\ handle = [h \in Calls |-> [of |-> None, is |-> "none"]]
  /\ registry = [c \in Claims |-> None]
  /\ call = NoCall /\ calls = 0 /\ events = <<>>
  /\ excused = {} /\ faults = 0 /\ interrupts = 0 /\ exited = FALSE

-----------------------------------------------------------------------------
At(pc) == call.at = pc
Exists(c) == claim[c] \in {"made", "failed", "named"}
Active(h) == handle[h].is = "open"
Tracked == {c \in Claims : registry[c] # None}
Popped(c) == [registry EXCEPT ![c] = None]

(* The first answer of a watch is the object as it is.                     *)
Listed(state) == IF state \in {"none", "deleted"} THEN <<>> ELSE <<state>>

Goto(pc) ==
  /\ call' = [call EXCEPT !.at = pc]
  /\ events' = IF pc = "waiting" THEN Listed(box[call.claim]) ELSE <<>>

Fault == faults < MaxFaults /\ faults' = faults + 1
Answered == UNCHANGED faults

Deleted(c) == claim' = [claim EXCEPT ![c] = IF Exists(c) THEN "deleted" ELSE @]
Excuse(cs) == excused' = excused \cup cs

Begin(op, pc, c, h) ==
  /\ At("idle") /\ ~exited /\ calls < MaxCalls
  /\ calls' = calls + 1
  /\ call' = [op |-> op, at |-> pc, claim |-> c, seen |-> h, todo |-> {}]
  /\ events' = IF pc = "resolving" THEN Listed(claim[c]) ELSE <<>>

(* Where terminate, or delete_sandbox without a handle, begins.            *)
FirstStep(h) ==
  IF h = None THEN "deleting_claim"
  ELSE IF handle[h].is = "closed" THEN "deleting" ELSE "closing"

-----------------------------------------------------------------------------
(* create_sandbox.                                                         *)

CreateSandbox ==
  /\ Begin("create", "posting", calls + 1, None)
  /\ UNCHANGED <<cluster, handle, registry, excused, exited, bounds>>

PostAnswered ==
  /\ At("posting")
  /\ claim' = [claim EXCEPT ![call.claim] = "made"]
  /\ call' = [call EXCEPT !.at = "resolving"]
  /\ events' = <<"made">>
  /\ UNCHANGED <<box, handle, registry, calls, excused, exited, bounds>>

(* A request without answer may have been carried out or not.              *)
PostFails ==
  /\ At("posting") /\ Fault
  /\ (UNCHANGED claim) \/ claim' = [claim EXCEPT ![call.claim] = "made"]
  /\ Goto("discarding")
  /\ UNCHANGED <<box, handle, registry, calls, excused, exited, interrupts>>

(* _delete_claim, which swallows its own failure.                          *)
Discard ==
  /\ At("discarding")
  /\ \/ Deleted(call.claim) /\ Answered /\ UNCHANGED excused
     \/ Fault /\ Excuse({call.claim}) /\ (UNCHANGED claim \/ Deleted(call.claim))
  /\ call' = NoCall /\ events' = <<>>
  /\ UNCHANGED <<box, handle, registry, calls, exited, interrupts>>

-----------------------------------------------------------------------------
(* The watches: resolve_sandbox_name and wait_for_sandbox_ready.           *)

Watching == At("resolving") \/ At("waiting")
Watched == IF At("resolving") THEN claim[call.claim] ELSE box[call.claim]

(* Mutant: create_sandbox raises at once, too.                             *)
RaiseAtOnce ==
  IF call.seen # None THEN Goto(FirstStep(call.seen))
  ELSE call' = NoCall /\ events' = <<>>

(* An exception on the way: create_sandbox discards its claim, get_sandbox *)
(* terminates the handle it found and raises.                              *)
Raise ==
  IF call.op = "create" THEN Goto("discarding")
  ELSE IF call.seen # None THEN Goto(FirstStep(call.seen))
  ELSE call' = NoCall /\ events' = <<>>

EndsTheWait(event) ==
  \/ event = "deleted"
  \/ event = "failed" /\ At("resolving")

NextEvent ==
  /\ Watching /\ events # <<>>
  /\ LET event == Head(events)
     IN  CASE EndsTheWait(event) -> Raise
           [] event = "named" ->
                Goto(IF call.op = "create" THEN "waiting" ELSE "reading")
           [] event = "ready" -> Goto("constructing")
           [] OTHER -> events' = Tail(events) /\ UNCHANGED call
  /\ UNCHANGED <<cluster, handle, registry, calls, excused, exited, bounds>>

(* The server ends the stream: the loop opens another one, and what was    *)
(* not delivered, a deletion too, is never seen.                           *)
StreamEnds ==
  /\ Watching
  /\ events' = Listed(Watched)
  /\ UNCHANGED <<cluster, user, bounds>>

(* Mutant: a new stream gets the whole timeout again.                      *)
NeverTimesOut == FALSE /\ UNCHANGED vars

(* The deadline is passed, or the list request of the stream fails.        *)
TimesOut ==
  /\ Watching
  /\ Raise
  /\ UNCHANGED <<cluster, handle, registry, calls, excused, exited, bounds>>

-----------------------------------------------------------------------------
(* The end of create_sandbox, and get_sandbox.                             *)

(* Mutant: the handle goes under the number of the next call.              *)
ConstructForTheNext ==
  /\ At("constructing")
  /\ handle' = [handle EXCEPT ![calls] = [of |-> call.claim, is |-> "open"]]
  /\ registry' = [registry EXCEPT ![call.claim] = calls + 1]
  /\ call' = NoCall
  /\ UNCHANGED <<cluster, calls, events, excused, exited, bounds>>

(* Sandbox.__init__ reads the pod's address.                               *)
Construct ==
  /\ At("constructing")
  /\ handle' = [handle EXCEPT ![calls] = [of |-> call.claim, is |-> "open"]]
  /\ registry' = [registry EXCEPT ![call.claim] = calls]
  /\ call' = NoCall
  /\ UNCHANGED <<cluster, calls, events, excused, exited, bounds>>

(* Mutant: the handle is made outside of the try block.                    *)
ConstructUnguarded ==
  /\ At("constructing") /\ Fault
  /\ call' = NoCall /\ events' = <<>>
  /\ UNCHANGED <<cluster, handle, registry, calls, excused, exited, interrupts>>

ConstructFails ==
  /\ At("constructing") /\ Fault
  /\ IF call.op = "create" THEN Goto("discarding") ELSE call' = NoCall /\ events' = <<>>
  /\ UNCHANGED <<cluster, handle, registry, calls, excused, exited, interrupts>>

GetSandbox(c) ==
  /\ claim[c] # "none"
  /\ Begin("get", "resolving", c, registry[c])
  /\ UNCHANGED <<cluster, handle, registry, excused, exited, bounds>>

(* Mutant: a handle that is open is replaced as well.                      *)
ReattachAlways ==
  /\ At("reading") /\ box[call.claim] \in {"starting", "ready"}
  /\ registry' = Popped(call.claim) /\ Goto("constructing")
  /\ UNCHANGED <<cluster, handle, calls, excused, exited, bounds>>

BoxFound(c) == box[c] \in {"starting", "ready"}

(* The Sandbox is read: the active handle is returned, a closed one popped *)
(* before a new one is made.                                               *)
ReadSandbox ==
  /\ At("reading") /\ BoxFound(call.claim)
  /\ IF call.seen # None /\ Active(call.seen)
     THEN call' = NoCall /\ UNCHANGED <<registry, events>>
     ELSE registry' = Popped(call.claim) /\ Goto("constructing")
  /\ UNCHANGED <<cluster, handle, calls, excused, exited, bounds>>

ReadFails ==
  /\ At("reading")
  /\ (~BoxFound(call.claim) /\ Answered) \/ Fault
  /\ Raise
  /\ UNCHANGED <<cluster, handle, registry, calls, excused, exited, interrupts>>

(* list_active_sandboxes forgets the handles that are not active.          *)
ListActive ==
  /\ Begin("none", "idle", None, None)
  /\ registry' = [c \in Claims |->
       IF registry[c] # None /\ ~Active(registry[c]) THEN None ELSE registry[c]]
  /\ UNCHANGED <<cluster, handle, excused, exited, bounds>>

-----------------------------------------------------------------------------
(* terminate, delete_sandbox, delete_all.                                  *)

Terminate(h) ==
  /\ handle[h].is # "none"
  /\ Begin("terminate", FirstStep(h), handle[h].of, h)
  /\ UNCHANGED <<cluster, handle, registry, excused, exited, bounds>>

DeleteSandbox(c) ==
  /\ claim[c] # "none"
  /\ Begin("delete", FirstStep(registry[c]), c, registry[c])
  /\ UNCHANGED <<cluster, handle, registry, excused, exited, bounds>>

(* The loop of delete_all over the entries it found.                       *)
DeleteNext(reg, todo, op) ==
  /\ registry' = reg
  /\ IF todo = {} THEN call' = NoCall /\ exited' = (exited \/ op = "exit")
     ELSE /\ UNCHANGED exited
          /\ \E c \in todo :
               call' = [op |-> op, at |-> FirstStep(reg[c]), claim |-> c,
                        seen |-> reg[c], todo |-> todo \ {c}]

DeleteAll ==
  /\ At("idle") /\ ~exited /\ calls < MaxCalls
  /\ calls' = calls + 1
  /\ DeleteNext(registry, Tracked, "delete_all")
  /\ UNCHANGED <<cluster, handle, events, excused, bounds>>

(* The program ends, normally or by an exception nobody caught.            *)
Exit ==
  /\ At("idle") /\ ~exited
  /\ DeleteNext(registry, Tracked, "exit")
  /\ UNCHANGED <<cluster, handle, calls, events, excused, bounds>>

InLoop == call.op \in {"delete_all", "exit"}
Continue(reg) ==
  IF InLoop THEN DeleteNext(reg, call.todo, call.op)
  ELSE registry' = reg /\ call' = NoCall /\ UNCHANGED exited

CloseConnection ==
  /\ At("closing")
  /\ handle' = [handle EXCEPT ![call.seen].is = "closed"]
  /\ Goto("deleting")
  /\ UNCHANGED <<cluster, registry, calls, excused, exited, bounds>>

(* Only terminate by the user leaves its entry in the registry.            *)
AfterDeletion(reg) == IF call.op = "terminate" THEN reg ELSE Popped(call.claim)

ClaimDeleted ==
  /\ At("deleting")
  /\ Deleted(call.claim)
  /\ Continue(AfterDeletion(registry))
  /\ UNCHANGED <<box, handle, calls, events, excused, bounds>>

(* terminate raises: delete_sandbox logs it and keeps its entry, and so    *)
(* does get_sandbox, whose caller gets this exception.                     *)
DeletionFails ==
  /\ At("deleting") /\ Fault
  /\ (UNCHANGED claim) \/ Deleted(call.claim)
  /\ Excuse({call.claim})
  /\ Continue(registry)
  /\ UNCHANGED <<box, handle, calls, events, interrupts>>

DeleteUntracked ==
  /\ At("deleting_claim")
  /\ \/ Deleted(call.claim) /\ Answered /\ UNCHANGED excused
     \/ Fault /\ Excuse({call.claim}) /\ (UNCHANGED claim \/ Deleted(call.claim))
  /\ call' = NoCall
  /\ UNCHANGED <<box, handle, registry, calls, events, exited, interrupts>>

-----------------------------------------------------------------------------
(* KeyboardInterrupt passes through every "except Exception".              *)

Harms == IF call.op = "get" /\ ~At("closing") /\ ~At("deleting") THEN {}
         ELSE {call.claim} \cup call.todo

Interrupt ==
  /\ ~At("idle") /\ interrupts < MaxInterrupts
  /\ interrupts' = interrupts + 1
  /\ CASE At("posting") -> (UNCHANGED claim) \/ claim' = [claim EXCEPT ![call.claim] = "made"]
       [] At("discarding") \/ At("deleting") \/ At("deleting_claim") ->
            (UNCHANGED claim) \/ Deleted(call.claim)
       [] OTHER -> UNCHANGED claim
  /\ \/ UNCHANGED handle
     \/ At("closing") /\ handle' = [handle EXCEPT ![call.seen].is = "half"]
  /\ Excuse(Harms)
  /\ call' = NoCall /\ events' = <<>>
  /\ exited' = (call.op = "exit")
  /\ UNCHANGED <<box, registry, calls, faults>>

-----------------------------------------------------------------------------
(* The cluster, which the open watch hears of.                             *)

Heard(pc, c, state) ==
  events' = IF At(pc) /\ call.claim = c THEN Append(events, state) ELSE events

ClaimMoves(c, to) ==
  /\ claim' = [claim EXCEPT ![c] = to]
  /\ Heard("resolving", c, to)
  /\ UNCHANGED <<user, bounds>>

(* A Sandbox of the warm pool is ready when it is named.                   *)
ClaimNamed(c) ==
  /\ claim[c] \in {"made", "failed"}
  /\ ClaimMoves(c, "named")
  /\ \E state \in {"starting", "ready"} : box' = [box EXCEPT ![c] = state]

ClaimFailed(c) == claim[c] = "made" /\ ClaimMoves(c, "failed") /\ UNCHANGED box

(* The time of the claim is over, or somebody else deletes it.             *)
ClaimVanishes(c) == Exists(c) /\ ClaimMoves(c, "deleted") /\ UNCHANGED box

BoxMoves(c) ==
  /\ \/ box[c] = "starting" /\ box' = [box EXCEPT ![c] = "ready"]
     \/ /\ box[c] \in {"starting", "ready"} /\ claim[c] = "deleted"
        /\ box' = [box EXCEPT ![c] = "deleted"]
  /\ Heard("waiting", c, box'[c])
  /\ UNCHANGED <<claim, user, bounds>>

-----------------------------------------------------------------------------
Start ==
  \/ CreateSandbox \/ ListActive \/ DeleteAll \/ Exit
  \/ \E c \in Claims : GetSandbox(c) \/ DeleteSandbox(c)
  \/ \E h \in Calls : Terminate(h)

Proceed ==
  \/ PostAnswered \/ PostFails \/ Discard \/ NextEvent
  \/ Construct \/ ConstructFails \/ ReadSandbox \/ ReadFails
  \/ CloseConnection \/ ClaimDeleted \/ DeletionFails \/ DeleteUntracked

Cluster ==
  \E c \in Claims : ClaimNamed(c) \/ ClaimFailed(c) \/ ClaimVanishes(c) \/ BoxMoves(c)

Next == Start \/ Proceed \/ StreamEnds \/ TimesOut \/ Interrupt \/ Cluster

Spec == Init /\ [][Next]_vars

(* The thread runs, requests end, and time passes.                         *)
FairSpec == Spec /\ WF_vars(Proceed) /\ WF_vars(TimesOut)

-----------------------------------------------------------------------------
(* Properties.                                                             *)

(* Every handle that is still open is the one in the registry, so that     *)
(* delete_all closes it with its tunnel, whatever calls failed or were     *)
(* interrupted (sandbox_client.py 138-186, 225-235).                       *)
OpenIsTracked == \A h \in Calls : Active(h) => registry[handle[h].of] = h

(* When the program has ended no claim it made is left, but one whose      *)
(* creation was interrupted or whose deletion the API refused or the user  *)
(* interrupted (sandbox_client.py 76-78, 133-136, 237-255).                *)
ExitLeavesNoClaim == exited => \A c \in Calls : Exists(c) => c \in excused

(* Every call ends, though a watch may be reopened any number of times:    *)
(* the deadline is set once (k8s_helper.py 83-90, 133-138).                *)
EveryCallReturns == ~At("idle") ~> At("idle")

(* The life of each claim as SandboxLease has it: the registry gives up a  *)
(* claim that exists only after a harmed creation or deletion.             *)
Lease ==
  [c \in Claims |->
    IF claim[c] = "none" THEN "absent"
    ELSE IF claim[c] = "deleted" THEN "ended"
    ELSE IF registry[c] # None THEN "leased"
    ELSE IF call.op = "create" /\ call.claim = c THEN "pending"
    ELSE "loose"]

L == INSTANCE SandboxLease WITH lease <- Lease, harmed <- excused
ImplementsLease == L!Spec

-----------------------------------------------------------------------------
(* Why they hold: the inductive invariant.                                 *)

Creating == call.op = "create"
InTerminate == At("closing") \/ At("deleting")

(* Where each operation may be, and what the watches tell it.              *)
PlaceOfOp ==
  /\ At("idle") => call.claim = None /\ call.op = "none"
  /\ ~At("idle") => ~exited /\ call.claim \in Claims
  /\ Creating => call.at \in {"posting", "resolving", "waiting", "constructing", "discarding"}
  /\ call.op = "get" => call.at \in {"resolving", "reading", "constructing", "closing", "deleting"}
  /\ call.op \in {"delete", "terminate"} => InTerminate \/ At("deleting_claim")
  /\ call.op \in {"delete_all", "exit"} => InTerminate
  /\ call.op = "none" => At("idle")
  /\ At("resolving") => events \in Seq(ClaimStates)
  /\ At("waiting") => events \in Seq(BoxStates) /\ Creating

(* Claims are numbered by the calls that create them.                      *)
FreshClaims ==
  /\ \A c \in Calls : c > calls => claim[c] = "none" /\ registry[c] = None
  /\ \A h \in Calls : h > calls => handle[h].is = "none"
  /\ ~At("idle") /\ call.op # "exit" => calls \in Calls
  /\ call.op \in {"create", "get"} => handle[calls].is = "none"
  /\ Creating => call.claim = calls /\ registry[call.claim] = None
  /\ At("posting") => claim[call.claim] = "none"
  /\ At("resolving") \/ At("waiting") \/ At("reading") \/ At("constructing") =>
       claim[call.claim] # "none"

(* An entry leads to a handle of its claim; a handle is of a claim that was*)
(* made; delete_all has entries before it.                                 *)
EntriesAreHandles ==
  /\ \A c \in Claims :
       registry[c] # None => handle[registry[c]].is # "none" /\ handle[registry[c]].of = c
  /\ \A h \in Calls :
       handle[h].is # "none" => handle[h].of \in Claims /\ claim[handle[h].of] # "none"
  /\ call.todo \subseteq Tracked \ {call.claim}

(* What the call has read of the registry is still so.                     *)
SeenIsCurrent ==
  /\ call.op \in {"get", "delete", "delete_all", "exit"} /\ ~At("constructing") =>
       call.seen = registry[call.claim]
  /\ At("constructing") => registry[call.claim] = None
  /\ InTerminate =>
       call.seen # None /\ handle[call.seen].of = call.claim /\ handle[call.seen].is # "none"
  /\ At("deleting") => handle[call.seen].is = "closed"

(* A claim that exists is answered for by the registry or by its creation; *)
(* a handle that was closed has lost its claim; or the claim is excused.   *)
AnsweredFor ==
  \A c \in Calls :
    Exists(c) => c \in excused \/ registry[c] # None \/ (Creating /\ call.claim = c)

ClosedIsGivenUp ==
  \A h \in Calls :
    handle[h].is \in {"closed", "half"} =>
      \/ ~Exists(handle[h].of) \/ handle[h].of \in excused
      \/ At("deleting") /\ call.claim = handle[h].of

(* The exit works off what was tracked when it began.                      *)
ExitWorksOff ==
  /\ call.op = "exit" =>
       \A c \in Calls : Exists(c) => c \in excused \/ c \in call.todo \/ c = call.claim
  /\ ExitLeavesNoClaim

SyncInv ==
  /\ TypeOK /\ PlaceOfOp /\ FreshClaims /\ EntriesAreHandles /\ SeenIsCurrent
  /\ OpenIsTracked /\ AnsweredFor /\ ClosedIsGivenUp /\ ExitWorksOff

=============================================================================
