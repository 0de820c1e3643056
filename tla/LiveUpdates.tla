----------------------------- MODULE LiveUpdates -----------------------------
(***************************************************************************)
(* What the browsers are told of one run: the broadcasts of run_simulation,*)
(* of its sandbox monitor and of every new WebSocket, which all await one  *)
(* send per client of the same list.                                       *)
(*                                                                         *)
(* Two messages are told apart by whether they show the run or the state   *)
(* its end leaves (the last tick, with the registry emptied).  A step is   *)
(* what a task does between two awaits.                                    *)
(***************************************************************************)
EXTENDS Naturals, Sequences, FiniteSets, SequencesExt

CONSTANTS
  Clients,       \* browsers; each connects once
  Flaky,         \* those that may stop reading, or leave
  NumDogs,       \* len(names)
  NumTicks       \* config.num_ticks

Dogs == 1..NumDogs
Tasks == {"run", "monitor"} \cup Clients

ASSUME LiveUpdatesAssumption ==
  /\ IsFiniteSet(Clients) /\ Flaky \subseteq Clients /\ {"run", "monitor"} \cap Clients = {}
  /\ NumDogs \in Nat \ {0} /\ NumTicks \in Nat

VARIABLES
  run,                \* where run_simulation is
  monitor,            \* where its monitor_sandboxes is
  is_running, tick_count,
  dogs,               \* how many dogs were added
  bound,              \* the dogs with a sandbox in the registry
  connected_clients,
  cast,               \* the broadcast each task is in
  link,               \* the sockets, and whether their endpoint has left
  shows               \* what each socket was told last; "back": the run,
                      \* after the end

park == <<is_running, tick_count, dogs, bound>>
web == <<connected_clients, link, shows>>
vars == <<run, monitor, park, cast, web>>

(* A list of clients repeats none; a broadcast without a client is none.   *)
Lists == {s \in Seq(Clients) : IsInjective(s)}

NoCast == [over |-> FALSE, rest |-> <<>>, sent |-> FALSE]
Casts ==
  {c \in [over : BOOLEAN, rest : Lists, sent : BOOLEAN] : c.rest = <<>> => c = NoCast}

TypeOK ==
  /\ run \in {"created", "populating", "ticking", "cancelling", "ending", "done"}
  /\ monitor \in {"none", "waiting", "casting", "cancelled", "done"}
  /\ is_running \in BOOLEAN /\ tick_count \in 0..NumTicks /\ dogs \in 0..NumDogs
  /\ bound \subseteq Dogs
  /\ connected_clients \in Lists /\ cast \in [Tasks -> Casts]
  /\ link \in [Clients -> {"away", "open", "gone", "left"}]
  /\ shows \in [Clients -> {"nothing", "run", "end", "back"}]

Init ==
  /\ run = "created" /\ monitor = "none"
  /\ is_running = FALSE /\ tick_count = 0 /\ dogs = 0
  /\ bound = {}
  /\ connected_clients = <<>> /\ cast = [t \in Tasks |-> NoCast]
  /\ link = [c \in Clients |-> "away"]
  /\ shows = [c \in Clients |-> "nothing"]

-----------------------------------------------------------------------------
(* broadcast_state: the message and the list of clients are made at once,  *)
(* the sends follow one by one.                                            *)

CastDone(t) == cast[t] = NoCast
After(c, rest) ==
  IF rest = <<>> THEN NoCast ELSE [over |-> c.over, rest |-> rest, sent |-> FALSE]

Broadcast(t, pc, clients) ==
  cast' = [cast EXCEPT ![t] = After([over |-> pc \in {"ending", "done"}], clients)]

SendsNext(t) == cast' = [cast EXCEPT ![t] = After(@, Tail(@.rest))]

(* Mutant: the loop runs over the list itself, so that a removal makes it  *)
(* pass over the client that follows.                                      *)
SendRaisesInPlace(t) ==
  /\ ~CastDone(t) /\ link[Head(cast[t].rest)] \in {"gone", "left"}
  /\ connected_clients' = RemoveFirst(connected_clients, Head(cast[t].rest))
  /\ cast' = [cast EXCEPT ![t] = After(@, SubSeq(@.rest, 3, Len(@.rest)))]
  /\ UNCHANGED <<link, shows>>

(* A send to a closed socket raises: the client is dropped, if it is there *)
SendRaises(t) ==
  /\ ~CastDone(t) /\ link[Head(cast[t].rest)] \in {"gone", "left"}
  /\ connected_clients' = RemoveFirst(connected_clients, Head(cast[t].rest))
  /\ SendsNext(t)
  /\ UNCHANGED <<link, shows>>

(* The socket takes the message.  The task goes on, or waits for a client  *)
(* that does not read, as others may do already.                           *)
Stuck(c) == \E t \in Tasks : cast[t].sent /\ Head(cast[t].rest) = c

Send(t) ==
  LET c == Head(cast[t].rest) IN
  /\ ~CastDone(t) /\ ~cast[t].sent /\ link[c] = "open"
  /\ shows' = [shows EXCEPT ![c] = IF cast[t].over THEN "end"
                                   ELSE IF @ \in {"end", "back"} THEN "back" ELSE "run"]
  /\ \/ ~Stuck(c) /\ SendsNext(t)
     \/ c \in Flaky /\ cast' = [cast EXCEPT ![t].sent = TRUE]
  /\ UNCHANGED <<connected_clients, link>>

CastStep(t) ==
  /\ SendRaises(t) \/ Send(t)
  /\ UNCHANGED <<run, monitor, park>>

(* A client reads again, and all that waited for it go on.                 *)
Reads(c) ==
  /\ Stuck(c) /\ link[c] = "open"
  /\ cast' = [t \in Tasks |->
                IF cast[t].sent /\ Head(cast[t].rest) = c
                THEN After(cast[t], Tail(cast[t].rest))
                ELSE cast[t]]
  /\ UNCHANGED <<run, monitor, park, web>>

(* A socket closes: the browser leaves, or the server's ping finds it dead *)
Closes(c) ==
  /\ c \in Flaky /\ link[c] = "open"
  /\ link' = [link EXCEPT ![c] = "gone"]
  /\ shows' = [shows EXCEPT ![c] = "nothing"]
  /\ UNCHANGED <<run, monitor, park, cast, connected_clients>>

(* websocket_endpoint: the client is listed, greeted with a broadcast to   *)
(* all, and unlisted when its socket is found closed.                      *)
Connect(c) ==
  /\ link[c] = "away"
  /\ link' = [link EXCEPT ![c] = "open"]
  /\ connected_clients' = Append(connected_clients, c)
  /\ Broadcast(c, run, connected_clients')
  /\ UNCHANGED <<run, monitor, park, shows>>

(* Mutant: the endpoint returns and leaves its client in the list.         *)
LeaveListed(c) ==
  /\ link[c] = "gone" /\ CastDone(c)
  /\ link' = [link EXCEPT ![c] = "left"]
  /\ UNCHANGED <<run, monitor, park, cast, connected_clients, shows>>

Leave(c) ==
  /\ link[c] = "gone" /\ CastDone(c)
  /\ link' = [link EXCEPT ![c] = "left"]
  /\ connected_clients' = RemoveFirst(connected_clients, c)
  /\ UNCHANGED <<run, monitor, park, cast, shows>>

-----------------------------------------------------------------------------
(* run_simulation.  It sleeps after a broadcast, and looks at the flag     *)
(* when it comes back.                                                     *)

AddDog ==
  /\ dogs' = dogs + 1
  /\ run' = "populating"
  /\ Broadcast("run", run', connected_clients)
  /\ UNCHANGED <<tick_count, bound, web>>

RunBegin ==
  /\ run = "created"
  /\ is_running' = TRUE /\ monitor' = "waiting"
  /\ AddDog

Populate ==
  /\ run = "populating" /\ CastDone("run")
  /\ is_running /\ dogs < NumDogs
  /\ AddDog
  /\ UNCHANGED <<is_running, monitor>>

AtTickLoop ==
  /\ CastDone("run")
  /\ \/ run = "ticking"
     \/ run = "populating" /\ (dogs = NumDogs \/ ~is_running)

(* Mutant: only a stop ends the loop.                                      *)
TickLoopGoesOnForEver == is_running

TickLoopGoesOn == is_running /\ tick_count < NumTicks

(* Every third tick, and the last one, is broadcast.                       *)
Tick ==
  /\ AtTickLoop /\ TickLoopGoesOn
  /\ tick_count' = tick_count + 1
  /\ run' = "ticking"
  /\ IF tick_count' % 3 = 0 \/ tick_count' >= NumTicks
     THEN Broadcast("run", run', connected_clients) ELSE UNCHANGED cast
  /\ UNCHANGED <<monitor, is_running, dogs, bound, web>>

(* The end of the finally block, with the broadcast that closes it.        *)
GiveBack == bound' = {}

LeaveAtOnce ==
  /\ AtTickLoop /\ ~TickLoopGoesOn
  /\ monitor = "done"
  /\ is_running' = FALSE /\ GiveBack
  /\ run' = "ending"
  /\ Broadcast("run", run', connected_clients)
  /\ UNCHANGED <<monitor, tick_count, dogs, web>>

(* Mutant: the monitor is neither cancelled nor awaited.                   *)
LeaveMonitorAlone ==
  /\ AtTickLoop /\ ~TickLoopGoesOn
  /\ monitor # "done"
  /\ is_running' = FALSE /\ GiveBack
  /\ run' = "ending"
  /\ Broadcast("run", run', connected_clients)
  /\ UNCHANGED <<monitor, tick_count, dogs, web>>

(* The monitor ends where it is, in the middle of a send perhaps.          *)
CancelMonitor ==
  /\ AtTickLoop /\ ~TickLoopGoesOn
  /\ monitor # "done"
  /\ monitor' = "cancelled"
  /\ cast' = [cast EXCEPT !["monitor"] = NoCast]
  /\ run' = "cancelling"
  /\ UNCHANGED <<park, web>>

FinishCancelled ==
  /\ run = "cancelling"
  /\ is_running' = FALSE /\ GiveBack
  /\ run' = "ending" /\ monitor' = "done"
  /\ Broadcast("run", run', connected_clients)
  /\ UNCHANGED <<tick_count, dogs, web>>

RunReturns ==
  /\ run = "ending" /\ CastDone("run")
  /\ run' = "done"
  /\ UNCHANGED <<monitor, park, cast, web>>

RunStep ==
  \/ RunBegin \/ Populate \/ Tick
  \/ LeaveAtOnce \/ CancelMonitor \/ FinishCancelled \/ RunReturns

StopSimulation ==
  /\ is_running /\ is_running' = FALSE
  /\ UNCHANGED <<run, monitor, tick_count, dogs, bound, cast, web>>

(* monitor_sandboxes broadcasts, looks whether every dog is bound, sleeps. *)
MonitorCasts ==
  /\ monitor = "waiting"
  /\ IF is_running
     THEN monitor' = "casting" /\ Broadcast("monitor", run, connected_clients)
     ELSE monitor' = "done" /\ UNCHANGED cast
  /\ UNCHANGED <<run, park, web>>

MonitorLooks ==
  /\ monitor = "casting" /\ CastDone("monitor")
  /\ monitor' = IF bound = Dogs THEN "done" ELSE "waiting"
  /\ UNCHANGED <<run, park, cast, web>>

(* create_sandbox_for_dog succeeds.  Orchestrator has those that come after*)
(* the run.                                                                *)
Bind(d) ==
  /\ run \notin {"ending", "done"}
  /\ d <= dogs /\ d \notin bound
  /\ bound' = bound \cup {d}
  /\ UNCHANGED <<run, monitor, is_running, tick_count, dogs, cast, web>>

-----------------------------------------------------------------------------
MonitorStep == MonitorCasts \/ MonitorLooks

(* The next step of a task, whichever it is.                               *)
TaskStep(t) ==
  \/ CastStep(t)
  \/ t = "run" /\ RunStep
  \/ t = "monitor" /\ MonitorStep
  \/ t \in Clients /\ Leave(t)

Next ==
  \/ \E t \in Tasks : TaskStep(t)
  \/ StopSimulation
  \/ \E c \in Clients : Connect(c) \/ Reads(c) \/ Closes(c)
  \/ \E d \in Dogs : Bind(d)

Spec == Init /\ [][Next]_vars

(* The event loop runs what is ready; a socket that is not read is closed  *)
(* by the server's ping in the end.                                        *)
FairSpec ==
  /\ Spec
  /\ \A t \in Tasks : WF_vars(TaskStep(t))
  /\ \A c \in Flaky : WF_vars(Stuck(c) /\ (Reads(c) \/ Closes(c)))

-----------------------------------------------------------------------------
(* Properties.                                                             *)

(* When the run is over every browser is told so, whoever came, left or    *)
(* was slow in the middle of a broadcast: the list was copied, and a       *)
(* newcomer that is not in the copy has a greeting of its own              *)
(* (simulation_manager.py 88-93, 203, websocket.py 12-16).                 *)
EveryClientSeesTheEnd ==
  \A c \in Clients :
    (run \in {"ending", "done"} /\ link[c] = "open")
      ~> (shows[c] \in {"end", "back"} \/ link[c] # "open")

(* A browser that shows the end is taken back into the run only by a       *)
(* greeting that began before the end; the monitor's broadcast has been    *)
(* cancelled by then (simulation_manager.py 189-203).                      *)
TakenBack(c) == shows[c] = "end" /\ shows'[c] = "back"
OnlyAGreetingTakesBack ==
  [][\A c \in Clients : TakenBack(c) =>
       \E b \in Clients : cast'[b] # cast[b]]_vars

(* A browser that has gone leaves the list, by the send that fails or by   *)
(* the endpoint (simulation_manager.py 91-93, websocket.py 19-21).         *)
GoneClientIsForgotten ==
  \A c \in Clients :
    link[c] = "gone" ~> c \notin Range(connected_clients)

(* Why the second holds: only clients that came are listed, nobody is told *)
(* of the end before it, and after it only the greetings still tell of the *)
(* run.                                                                    *)
Ended == run \in {"ending", "done"}

ListedHasConnected == \A c \in Range(connected_clients) : link[c] # "away"

EndIsToldAfterIt ==
  /\ \A t \in Tasks : cast[t].over => Ended
  /\ \A c \in Clients : shows[c] \in {"end", "back"} => Ended

OnlyGreetingsLinger ==
  /\ monitor # "casting" => CastDone("monitor")
  /\ Ended => monitor = "done" /\ (CastDone("run") \/ cast["run"].over)

MonitorFollowsRun ==
  /\ run = "created" => monitor = "none" /\ dogs = 0
  /\ run = "cancelling" => monitor = "cancelled"

LiveInv ==
  /\ TypeOK /\ MonitorFollowsRun
  /\ ListedHasConnected /\ EndIsToldAfterIt /\ OnlyGreetingsLinger

=============================================================================
