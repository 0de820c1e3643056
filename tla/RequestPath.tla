---------------------------- MODULE RequestPath -----------------------------
(***************************************************************************)
(* The way of a request from a sandbox handle to the pod: the connector    *)
(* with its strategy (a URL, a Gateway, or a kubectl tunnel), its retries, *)
(* the router that proxies by the X-Sandbox-ID header, and the pod, which  *)
(* may be replaced.  SandboxConnector and AsyncSandboxConnector differ in  *)
(* the header, in what they retry and in what they forget after a failure. *)
(*                                                                         *)
(* Send n of an operation that changes something on the pod leaves n on its*)
(* disk.  Every attempt puts a copy of the request on the way, and a copy  *)
(* may outlive its attempt: a client or a router that gives up does not    *)
(* stop the pod.  Paths, contents and tracing are left out.                *)
(***************************************************************************)
EXTENDS Naturals, FiniteSets

CONSTANTS
  Kinds,         \* connectors: "sync", "async"
  Ops,           \* operations of the engines: see Operations
  Strategies,    \* "direct", "gateway", "tunnel"
  MaxRetries,    \* MAX_RETRIES and Retry(total): 5 in the code
  MaxSends,      \* requests of the user
  MaxTunnels,    \* kubectl processes started
  MaxPods,       \* pods the sandbox has, one after another
  MaxInterrupts  \* KeyboardInterrupt, or cancellation of the task

(* Those that change the pod, and those whose answer is decoded.           *)
Operations == {"write", "read", "list", "exists", "run"}
Changing == {"write", "run"}
Decoding == {"list", "exists", "run"}

ASSUME RequestAssumption ==
  /\ Kinds \subseteq {"sync", "async"}
  /\ Ops \subseteq Operations
  /\ Strategies \subseteq {"direct", "gateway", "tunnel"}
  /\ {MaxRetries, MaxSends, MaxTunnels, MaxInterrupts} \subseteq Nat
  /\ MaxPods \in Nat \ {0}

None == 0
Sends == 1..MaxSends
Attempts == 1..(MaxRetries + 1)

VARIABLES
  kind, strategy,    \* of the handle
  podIP,             \* the address read when the handle was made, if any
  base,              \* base_url: a tunnel or a Gateway address
  process,           \* port_forward_process
  started, alive,    \* kubectl processes started, and those that live
  gateway,           \* the address of the Gateway
  pod,               \* the pod of the sandbox, and its address
  taken,             \* addresses of its former pods that other pods have now
  disk,              \* what the pod holds
  copies,            \* requests on the way to a pod
  client,            \* the send that runs
  closed,            \* is the connection closed for good?
  interrupts,
  forsaken,          \* history: kubectl processes whose start or stop was cut short
  executed,          \* history: how often each send was carried out
  astray,            \* history: sends that another sandbox carried out
  last,              \* history: the last send answered, from this pod
  outlived           \* history: has a copy outlived its send?

config == <<kind, strategy, podIP>>
connection == <<base, process, started, alive, forsaken>>
world == <<gateway, pod, taken>>
effects == <<disk, executed, astray>>
vars == <<config, connection, world, effects, copies, client, closed, interrupts,
          last, outlived>>

Answers == {"none", "ok", "garbled", "4xx", "5xx"}

ClientState ==
  [at : {"idle", "connecting", "starting", "spawning", "verifying", "waiting", "stopping"},
   op : Operations \cup {"none"}, send : 0..MaxSends, attempt : 0..MaxRetries + 1,
   answer : Answers, by : 0..MaxPods,
   then : {"none", "connect", "raise", "close"}]   \* what the stopping is for

CopyState == [changes : BOOLEAN, send : Sends, attempt : Attempts]

(* A send is carried out at most once per attempt, by whatever pods, even  *)
(* if its copies outlive it (connector.py 191-203, async_connector.py      *)
(* 99-115).                                                                *)
TypeOK ==
  /\ kind \in Kinds /\ strategy \in Strategies /\ podIP \in {None, 1}
  /\ base \in 0..MaxTunnels + 2 /\ process \in 0..MaxTunnels
  /\ started \in 0..MaxTunnels /\ alive \subseteq 1..started
  /\ forsaken \subseteq 1..started
  /\ gateway \in {1, 2} /\ pod \in 1..MaxPods /\ taken \subseteq 1..(pod - 1)
  /\ disk \in {None} \cup Sends
  /\ copies \subseteq CopyState
  /\ client \in ClientState
  /\ closed \in BOOLEAN /\ interrupts \in 0..MaxInterrupts
  /\ executed \in [Sends -> 0..MaxRetries + 1] /\ astray \subseteq Sends
  /\ last \in {None} \cup Sends /\ outlived \in BOOLEAN

Init ==
  /\ kind \in Kinds
  /\ strategy \in Strategies \ (IF kind = "async" THEN {"tunnel"} ELSE {})
  /\ podIP \in (IF kind = "sync" THEN {None, 1} ELSE {None})
  /\ base = None /\ process = None /\ started = 0 /\ alive = {} /\ forsaken = {}
  /\ gateway = 1 /\ pod = 1 /\ taken = {}
  /\ disk = None /\ copies = {}
  /\ client = [at |-> "idle", op |-> "none", send |-> 0, attempt |-> 0, answer |-> "none",
               by |-> 0, then |-> "none"]
  /\ closed = FALSE /\ interrupts = 0
  /\ executed = [s \in Sends |-> 0] /\ astray = {} /\ last = None /\ outlived = FALSE

-----------------------------------------------------------------------------
At(pc) == client.at = pc
Goto(pc) == client' = [client EXCEPT !.at = pc]
Return ==
  client' = [client EXCEPT !.at = "idle", !.op = "none", !.attempt = 0,
                           !.answer = "none", !.by = 0, !.then = "none"]

(* strategy.close is called by connect, by the handlers of send_request,   *)
(* which raise, and by the handle that is closed.  To stop kubectl takes a *)
(* while.                                                                  *)
StopTunnel(then) ==
  /\ client' = [client EXCEPT !.at = "stopping", !.attempt = 0, !.answer = "none",
                              !.by = 0, !.then = then]
  /\ UNCHANGED <<connection, closed>>

After(then) ==
  \/ /\ then = "connect" /\ UNCHANGED closed
     /\ client' = [client EXCEPT !.at = "connecting", !.then = "none"]
  \/ then = "raise" /\ Return /\ UNCHANGED closed
  \/ then = "close" /\ Return /\ closed' = TRUE

CloseStrategy(then) ==
  \/ process # None /\ StopTunnel(then)
  \/ /\ process = None /\ base' = None /\ After(then)
     /\ UNCHANGED <<process, started, alive, forsaken>>

(* The process is forgotten, in a finally, however stopping it ended.      *)
ForgetTunnel == base' = None /\ process' = None /\ UNCHANGED started

(* It was terminated or killed; or that failed, which is logged.           *)
Stopped ==
  /\ At("stopping")
  /\ ForgetTunnel
  /\ \/ alive' = alive \ {process} /\ UNCHANGED forsaken
     \/ UNCHANGED alive /\ forsaken' = forsaken \cup {process}
  /\ After(client.then)

(* The engines of a closed handle are gone.                                *)
SendRequest(op) ==
  /\ At("idle") /\ ~closed /\ client.send < MaxSends
  /\ client' = [client EXCEPT !.at = "connecting", !.op = op, !.send = @ + 1]
  /\ outlived' = (outlived \/ copies # {})
  /\ UNCHANGED <<config, connection, world, effects, copies, closed, interrupts, last>>

-----------------------------------------------------------------------------
(* connect and verify_connection.                                          *)

ConnectDirect ==
  /\ At("connecting") /\ strategy = "direct"
  /\ Goto("verifying")
  /\ UNCHANGED <<connection, closed>>

(* kubectl runs before its process is known; or it cannot be run at all.   *)
StartTunnel ==
  \/ /\ started < MaxTunnels
     /\ started' = started + 1 /\ alive' = alive \cup {started + 1}
     /\ Goto("starting")
     /\ UNCHANGED <<base, process, forsaken, closed>>
  \/ Return /\ UNCHANGED <<connection, closed>>

(* Mutant: an old process without a base URL is left alone.                *)
ConnectOverIt ==
  /\ At("connecting") /\ strategy = "tunnel"
  /\ \/ base # None /\ process \in alive /\ Goto("verifying") /\ UNCHANGED <<connection, closed>>
     \/ ~(base # None /\ process \in alive) /\ StartTunnel

(* An old process is closed before a new one is started.                   *)
ConnectTunnel ==
  /\ At("connecting") /\ strategy = "tunnel"
  /\ \/ base # None /\ process \in alive /\ Goto("verifying") /\ UNCHANGED <<connection, closed>>
     \/ ~(base # None /\ process \in alive) /\ process # None /\ StopTunnel("connect")
     \/ process = None /\ StartTunnel

TunnelStarted ==
  /\ At("starting")
  /\ process' = started
  /\ Goto("spawning")
  /\ UNCHANGED <<base, started, alive, forsaken, closed>>

TunnelReady ==
  /\ At("spawning") /\ process \in alive
  /\ base' = process
  /\ Goto("verifying")
  /\ UNCHANGED <<process, started, alive, forsaken, closed>>

(* kubectl crashed, or the time is over.                                   *)
TunnelFails == At("spawning") /\ CloseStrategy("raise")

(* The Gateway's address is kept once it is found.                         *)
ConnectGateway ==
  /\ At("connecting") /\ strategy = "gateway"
  /\ base' = IF base = None THEN gateway ELSE base
  /\ Goto("verifying")
  /\ UNCHANGED <<process, started, alive, forsaken, closed>>

(* No address in time: TimeoutError, which send_request does not catch.    *)
GatewayTimesOut ==
  /\ At("connecting") /\ strategy = "gateway" /\ base = None
  /\ Return
  /\ UNCHANGED <<connection, closed>>

TunnelDown == strategy = "tunnel" /\ process \notin alive

VerifyFails == At("verifying") /\ TunnelDown /\ CloseStrategy("raise")

Connect ==
  /\ \/ ConnectDirect \/ ConnectTunnel \/ TunnelStarted \/ TunnelReady \/ TunnelFails
     \/ ConnectGateway \/ GatewayTimesOut \/ VerifyFails \/ Stopped
  /\ UNCHANGED <<config, world, effects, copies, interrupts, last, outlived>>

-----------------------------------------------------------------------------
(* The attempts of session.request, and the loop of the async connector.   *)

Reached ==
  CASE strategy = "tunnel" -> process \in alive
    [] strategy = "gateway" -> base = gateway
    [] OTHER -> TRUE

Put(attempt) ==
  /\ client' = [client EXCEPT !.at = "waiting", !.attempt = attempt, !.answer = "none", !.by = 0]
  /\ copies' = IF Reached
               THEN copies \cup {[changes |-> client.op \in Changing, send |-> client.send,
                                attempt |-> attempt]}
               ELSE copies

Post ==
  /\ At("verifying") /\ ~TunnelDown
  /\ Put(1)
  /\ UNCHANGED <<config, connection, world, effects, closed, interrupts, last, outlived>>

Unanswered == client.answer = "none"

(* Mutant: the last attempt is taken for one that may be repeated.         *)
RetryableOnceMore ==
  /\ client.attempt <= MaxRetries + 1
  /\ client.answer = "5xx" \/ (Unanswered /\ kind = "sync")

(* urllib3 repeats what had no answer, a POST too; the async connector only*)
(* what was answered with a 5xx.                                           *)
Retryable ==
  /\ client.attempt <= MaxRetries
  /\ client.answer = "5xx" \/ (Unanswered /\ kind = "sync")

Retry ==
  /\ At("waiting") /\ Retryable
  /\ Put(client.attempt + 1)
  /\ UNCHANGED <<config, connection, world, effects, closed, interrupts, last, outlived>>

(* The sync connector closes the connection after every failure; the async *)
(* one forgets its address when there was no answer.                       *)
FailSync == kind = "sync" /\ CloseStrategy("raise")

FailAsync ==
  /\ kind = "async"
  /\ Return
  /\ base' = IF Unanswered THEN None ELSE base
  /\ UNCHANGED <<process, started, alive, forsaken, closed>>

(* Mutant: no time out is set.                                             *)
WaitForEver ==
  /\ At("waiting") /\ ~Retryable /\ client.answer \in {"4xx", "5xx"}
  /\ FailSync \/ FailAsync
  /\ UNCHANGED <<config, world, effects, copies, interrupts, last, outlived>>

Fail ==
  /\ At("waiting") /\ ~Retryable /\ client.answer \in {"none", "4xx", "5xx"}
  /\ FailSync \/ FailAsync
  /\ UNCHANGED <<config, world, effects, copies, interrupts, last, outlived>>

(* Mutant: the answer of a send is not told from a failed one.             *)
AnyAnswerSucceeds ==
  /\ At("waiting") /\ client.answer \in {"ok", "5xx"}
  /\ Return
  /\ last' = IF client.op \in Changing THEN client.send ELSE last
  /\ UNCHANGED <<config, connection, world, effects, copies, closed, interrupts, outlived>>

Succeed ==
  /\ At("waiting") /\ client.answer = "ok"
  /\ Return
  /\ last' = IF client.by = pod /\ client.op \in Changing THEN client.send ELSE last
  /\ UNCHANGED <<config, connection, world, effects, copies, closed, interrupts, outlived>>

(* An answer that cannot be decoded raises in the engine, RuntimeError, and*)
(* leaves the connection as it is.                                         *)
DecodeFails ==
  /\ At("waiting") /\ client.answer = "garbled"
  /\ Return
  /\ UNCHANGED <<config, connection, world, effects, copies, closed, interrupts, last, outlived>>

(* Nothing is cleaned up when a send or a close is interrupted: a kubectl  *)
(* that is being started is not known yet, one that is being stopped is    *)
(* forgotten, perhaps before it was killed.                                *)
Interrupt ==
  /\ ~At("idle") /\ interrupts < MaxInterrupts
  /\ interrupts' = interrupts + 1
  /\ Return
  /\ \/ At("stopping") /\ ForgetTunnel /\ forsaken' = forsaken \cup {process}
     \/ At("starting") /\ forsaken' = forsaken \cup {started} /\ UNCHANGED <<base, process, started>>
     \/ ~At("stopping") /\ ~At("starting") /\ UNCHANGED <<base, process, started, forsaken>>
  /\ UNCHANGED <<config, alive, world, effects, copies, closed, last, outlived>>

Close ==
  /\ At("idle") /\ ~closed
  /\ CloseStrategy("close")
  /\ UNCHANGED <<config, world, effects, copies, interrupts, last, outlived>>

-----------------------------------------------------------------------------
(* The router and the pods.                                                *)

(* Mutant: both connectors send an address, and never read it again.       *)
TargetByAddress == 1

(* The header names an address, read once, or the sandbox, whose DNS name  *)
(* follows the pod.                                                        *)
Target == IF podIP # None THEN podIP ELSE pod

IsCurrent(c) == At("waiting") /\ c.send = client.send /\ c.attempt = client.attempt

Answer(c, answers, by) ==
  IF IsCurrent(c)
  THEN \E a \in answers :
         /\ a = "garbled" => client.op \in Decoding
         /\ client' = [client EXCEPT !.answer = a, !.by = by]
  ELSE UNCHANGED client

(* The pod carries the request out; its answer may be of any kind, or lost.*)
Execute(c) ==
  /\ Target = pod
  /\ copies' = copies \ {c}
  /\ disk' = IF c.changes THEN c.send ELSE disk
  /\ executed' = [executed EXCEPT ![c.send] = @ + 1]
  /\ Answer(c, Answers, pod)
  /\ UNCHANGED astray

ExecuteElsewhere(c) ==
  /\ Target \in taken
  /\ copies' = copies \ {c}
  /\ executed' = [executed EXCEPT ![c.send] = @ + 1]
  /\ astray' = astray \cup {c.send}
  /\ Answer(c, Answers, None)
  /\ UNCHANGED disk

(* Nobody is at the address, or the pod refuses the connection: 502.  The  *)
(* router answers headers it cannot use with 400.                          *)
Unreachable(c) ==
  /\ copies' = copies \ {c}
  /\ Answer(c, {"4xx", "5xx", "none"}, None)
  /\ UNCHANGED effects

(* The router gives up and answers 500 while the pod goes on.              *)
RouterGivesUp(c) ==
  /\ IsCurrent(c) /\ Unanswered
  /\ client' = [client EXCEPT !.answer = "5xx"]
  /\ UNCHANGED <<copies, effects>>

Serve ==
  /\ \E c \in copies :
       Execute(c) \/ ExecuteElsewhere(c) \/ Unreachable(c) \/ RouterGivesUp(c)
  /\ UNCHANGED <<config, connection, world, closed, interrupts, last, outlived>>

TunnelDies ==
  /\ \E p \in alive : alive' = alive \ {p}
  /\ UNCHANGED <<config, base, process, started, forsaken, world, effects, copies, client,
                 closed, interrupts, last, outlived>>

GatewayMoves ==
  /\ strategy = "gateway" /\ gateway = 1 /\ gateway' = 2
  /\ UNCHANGED <<config, connection, pod, taken, effects, copies, client, closed,
                 interrupts, last, outlived>>

(* The sandbox gets a new pod, with an empty disk and an address of its own*)
PodReplaced ==
  /\ pod < MaxPods /\ pod' = pod + 1
  /\ disk' = None /\ last' = None
  /\ UNCHANGED <<config, connection, gateway, taken, executed, astray, copies,
                 client, closed, interrupts, outlived>>

AddressTaken ==
  /\ \E a \in 1..(pod - 1) \ taken : taken' = taken \cup {a}
  /\ UNCHANGED <<config, connection, gateway, pod, effects, copies, client, closed,
                 interrupts, last, outlived>>

-----------------------------------------------------------------------------
Proceed == Connect \/ Post \/ Retry \/ Fail \/ Succeed \/ DecodeFails

Next ==
  \/ (\E op \in Ops : SendRequest(op)) \/ Proceed \/ Interrupt \/ Close
  \/ Serve \/ TunnelDies \/ GatewayMoves \/ PodReplaced \/ AddressTaken

Spec == Init /\ [][Next]_vars

(* The thread or the event loop runs, and every wait has a time out.       *)
FairSpec == Spec /\ WF_vars(Proceed)

-----------------------------------------------------------------------------
(* Properties.                                                             *)

(* What the user wrote and got an answer for is on the disk of the pod that*)
(* answered, or something later is: only a copy that outlived an earlier   *)
(* send can undo it (connector.py 244-260, sandbox_router.py 96-121).      *)
AcknowledgedWriteStays == disk < last => outlived

(* Another sandbox carries out a request only if the sync connector sent an*)
(* address that was read before the pod was replaced (sandbox.py 58-69,    *)
(* connector.py 237, async_connector.py 95).                               *)
AstrayOnlyWhenStale == astray # {} => kind = "sync" /\ podIP # None /\ podIP # pod

(* Every kubectl process that lives is the one the strategy will close, and*)
(* none lives when the handle is closed, whatever sends failed or were     *)
(* interrupted before: but for a process whose start was interrupted before*)
(* it was known, or whose stop failed or was interrupted (connector.py     *)
(* 106-161).                                                               *)
NoOrphanTunnel ==
  /\ alive \subseteq {process} \cup forsaken \cup (IF At("starting") THEN {started} ELSE {})
  /\ closed => alive \subseteq forsaken

(* Every send returns or raises.                                           *)
EverySendReturns == ~At("idle") ~> At("idle")

-----------------------------------------------------------------------------
(* Why they hold: the inductive invariant.                                 *)

(* The send that runs has begun, and its first attempt is not yet made     *)
(* before it waits.                                                        *)
Sending ==
  \/ client.at \in {"connecting", "starting", "spawning", "verifying"}
  \/ At("stopping") /\ client.then = "connect"
SendIsCounted ==
  /\ ~At("idle") /\ client.then # "close" => client.send \in Sends /\ client.op \in Operations
  /\ At("waiting") => client.attempt \in Attempts

(* Copies are of what was sent; those of the running send change the pod   *)
(* if it does.                                                             *)
CopiesOf(s) == {c \in copies : c.send = s}
CopiesAreSent ==
  /\ IsFiniteSet(copies)
  /\ \A c \in copies :
       /\ c.send <= client.send
       /\ c.send = client.send =>
            /\ ~Sending
            /\ At("waiting") => c.changes = (client.op \in Changing)

(* Every attempt puts one copy on the way, which is carried out once.      *)
AttemptsMade(s) ==
  IF client.send < s \/ (client.send = s /\ Sending) THEN 0
  ELSE IF client.send = s /\ At("waiting") THEN client.attempt ELSE MaxRetries + 1
ExecutedPerAttempt ==
  \A s \in Sends : executed[s] + Cardinality(CopiesOf(s)) <= AttemptsMade(s)

(* Unless a copy outlived its send, all copies are of the last send, so    *)
(* what the present pod has answered is still on its disk.                 *)
AnsweredIsOnDisk ==
  /\ last <= client.send /\ client.by <= pod
  /\ ~outlived =>
       /\ last <= disk
       /\ \A c \in copies : c.send = client.send
       /\ At("waiting") /\ client.by = pod /\ client.op \in Changing => disk = client.send

(* An async handle has no address.                                         *)
AddressIsSync == podIP # None => kind = "sync"

(* A process is stopped for a reason; while one is started there is no     *)
(* other, and a closed handle does nothing and has none.                   *)
StopsForAReason ==
  /\ At("stopping") <=> client.then # "none"
  /\ At("stopping") => process # None
  /\ At("starting") => process = None /\ started # 0
  /\ process <= started
  /\ closed => At("idle") /\ process = None

RequestInv ==
  /\ TypeOK /\ SendIsCounted /\ CopiesAreSent /\ ExecutedPerAttempt
  /\ AnsweredIsOnDisk /\ AddressIsSync /\ AstrayOnlyWhenStale
  /\ StopsForAReason /\ NoOrphanTunnel

=============================================================================
