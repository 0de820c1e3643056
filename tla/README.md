# A TLA+ verification of Barkland

Barkland is a demo that runs a pack of simulated dogs: a FastAPI orchestrator
(`barkland/`) ticks a simulation, gives every dog a Kubernetes sandbox through
the SDK kept in the same repository
(`agentic-sandbox-client/k8s_agent_sandbox/`), and pushes its state to browsers.
This directory models the parts whose correctness depends on order: what happens
between two `await`s, who else runs meanwhile, what is left behind when a step
fails. The modules are translated from the code at the commit beside them; every
definition names its lines in `PROJECT.json` under `map`.

## Inventory

| Part | Source | State it keeps | Operations |
|---|---|---|---|
| Dog engine | `barkland/engine/{needs,fsm,matching}.py`, `models/dog.py` | none (pure) | drift of needs, next state, matching |
| Simulation loop | `barkland/engine/simulation.py`, `services/simulation_manager.py` 114-184 | `sim.dogs`, `tick_count`, `is_running`, `rng` | `add_dog`, `step`, choice of the speakers |
| Orchestrator | `services/simulation_manager.py`, `api/endpoints.py`, `main.py` | `sim`, `sandbox_clients`, `dog_agents`, one task per run, monitor | start, stop, reset the warm pool, startup and shutdown |
| Sandbox manager | `services/sandbox_manager.py` | `sandbox_clients`, `global_sandbox_client`, one task per dog | create with retries, patch replicas, speak |
| Broadcast, WebSocket | `simulation_manager.py` 43-93, `api/websocket.py` | `connected_clients` | connect, disconnect, send to all |
| Agents | `barkland/agents/` | none that is shared | prompt, answer, mock answer |
| Dashboard | `barkland/templates/dashboard.html` | browser-side flags and counters | connect, start, stop, reset |
| Async SDK client | `async_sandbox_client.py`, `async_sandbox.py` | registry, `asyncio.Lock`, handles | create, get, list, delete, delete all, close, context manager |
| Async Kubernetes helper | `async_k8s_helper.py` | API session | claim requests, two watch loops, gateway |
| Sync SDK client | `sandbox_client.py`, `sandbox.py`, `k8s_helper.py` | registry without a lock, `atexit` hook | as the async one |
| Connectors | `async_connector.py`, `connector.py` | base URL, tunnel process | resolve URL, send with retries, close |
| Router | `sandbox-router/sandbox_router.py` | none | one proxied request |
| Commands, files | `commands/`, `files/` | none | one request each |
| Pod snapshots | `gke_extensions/snapshots/` | triggers created, pod UID, replicas | snapshot, suspend, resume, delete |
| Older clients | the SDK copy nested in the SDK directory: `sandbox_client.py`, `gke_extensions/podsnapshot_client.py` | claim, tunnel, triggers | context manager, snapshot |
| Tracing, computer use, deployment | | none that matters here | |

How they interact: everything in the orchestrator runs on one asyncio loop, so
code between two awaits is atomic and every await is a point where any other task
may run. The endpoints, the runs and the creators share `sim` and
`sandbox_clients` without a lock; runs, monitors and WebSocket endpoints share
`connected_clients`. The SDK client is shared by all creators and protects its own
registry with an `asyncio.Lock` that only `close` keeps across an await. The sync
client has one thread and no lock; what interleaves with it is the cluster, and an
interrupt of the user. The cluster's controllers make claims ready, replace pods
and delete claims when they like. Pauses and resumes of sandboxes are meant to be
sent from worker threads.

What is hard here: overlapping runs (nothing serialises them but a flag that is
raised late), entries of a registry read before an await and used after it,
cancellation at any await, cleanup after a partial failure, requests that were
carried out although they failed, and pods that are replaced behind a name.
`PROJECT.json` lists each hazard at its line with the properties that catch it
going wrong, or says why none can.

What makes each part correct:

* engine: needs stay in range; no state is kept for ever; pairs are mutual, and
  nobody who could be paired is left over; every dog speaks in its turn;
* orchestrator: a run ends and what it registered is given back; nobody uses a
  sandbox that was given back; the flag is never stuck; no entry is stuck in
  "Creating"; each dog has a sandbox (violated); a paused sandbox is scaled down
  (violated);
* broadcast: every browser learns of the end of a run, is not taken back by an old
  message, and is forgotten when it has gone;
* SDK clients: a claim is answered for by the registry from the moment it was
  handed out until it is deleted; leaving the context, or the program, leaves
  nothing; every call returns;
* request path: a write that was acknowledged stays; a request reaches the sandbox
  it is meant for; no `kubectl` is forgotten; every send returns;
* snapshots: a suspended pod is gone; a resume is not older than the last suspend;
  a deletion is confirmed; triggers are cleaned up or remembered.

## Modules

| Module | Models | Built on |
|---|---|---|
| `DogEngine` | pure functions of the engine | |
| `SimulationLoop` | one run's dogs and ticks | `DogEngine` |
| `SimulationHistory` | `SimulationLoop` with two observers | `SimulationLoop` |
| `SimulationLoopProofs` | theorems about `SimulationLoop` and its history | |
| `Orchestrator` | runs, monitors, creators, endpoints, process | |
| `OrchestratorProofs` | theorems about `Orchestrator` | |
| `LiveUpdates` | broadcasts of one run and the browsers | |
| `LiveUpdatesProofs` | theorems about `LiveUpdates` | |
| `SandboxPauses` | the pauses after each tick and their patches | |
| `SandboxLease` | abstract: the life of each claim of a registry | |
| `SandboxRegistry` | the async SDK client and its callers | implements `SandboxLease` |
| `SandboxRegistryProofs` | theorems about it, and the refinement | |
| `SyncRegistry` | the sync SDK client, its watches, its exit hook | implements `SandboxLease` |
| `SyncRegistryProofs` | theorems about it, and the refinement | |
| `RequestPath` | both connectors, the router, the pod | |
| `RequestPathProofs` | theorems about `RequestPath` | |
| `PodSnapshots` | one handle with snapshot support and the cluster | |
| `PodSnapshotsProofs` | theorems about `PodSnapshots` | |
| `LegacyClient` | the two context managers of the nested SDK | |
| `LegacyClientProofs` | theorems about `LegacyClient` | |
| `MC*` | instances TLC checks, where a `.cfg` is not enough | |

### DogEngine and SimulationLoop

`step` and the choice of the speakers contain no await, so a tick is one action:
needs, transitions, matching, speakers, in the order of the code. A need is a
float, only ever changed by an integer, clamped at the integers 0 and 100 and
compared with integers; it is kept in half units (even: exactly that integer, odd:
strictly between two), which decides every comparison as the float would. (Floats
lose low bits when they grow past a power of two; the model ignores that.)
`rng.choices` is any choice of positive weight, so what holds in the model holds
for every seed. Dogs are numbers, in the order of `sim.dogs`: names are sorted
when they are drawn and inserted in that order, so the order of insertion, used by
matching, and the order of names, used for speaking, are one.
`evaluate_transition` keeps its branch for invitations although its only caller
passes none.

`SimulationLoop.run` has no caller and is not modelled. `SimulationHistory` adds
what the properties have to remember: states visited, ticks since the last bark.
`EveryStateVisited` speaks of runs that are long enough: 80 ticks, from the needs
the instance draws; over all needs the code may draw the worst case is 96, which is
what the theorem asks for.

### Orchestrator

An action is what a task does from one await to the next. `run`, `monitor` and
`creator` are the program counters of `run_simulation`, `monitor_sandboxes` and
`create_sandbox_for_dog`; `sandbox_clients`, `is_running`, `dogs`, `tick_count`
are the shared objects of those names; `claim` is what is on the cluster, one
claim for each attempt of each creator. A claim's life ends in `deleting` (a
`terminate` task exists) and then `deleted`, or `left`: `terminate` raises when the
connector cannot be closed or the API answers anything but 404, in a task nobody
awaits and after the entry was popped, so the claim stays until somebody resets the
warm pool. `wiped` is a claim that `reset_warmpool` took away while somebody was
using or creating it. `create_sandbox` of the SDK is external here: it returns a
live sandbox or raises, with its claim deleted or left (`SandboxRegistry` looks
inside). The probe may succeed or fail. `RegisteredIsReleased` says of a registered
sandbox that, once another run is on or while its own still is, its `terminate`
task runs to its end; it excuses the task's own failure and the sandboxes whose
name another run has too (`Shared`), which that run writes over: two leaks the code
has. `LateBinding` says whether
`simulation_manager` looks the client up when it needs it. The code does not (it
imports the value), so the run `unwired` sets it to FALSE and shows what follows;
all runs about sandboxes set it to TRUE, which is the program as it would behave
once wired, since otherwise there would be no sandbox to speak of. Not modelled
here: dog states (`SimulationLoop` has them), broadcasts (`LiveUpdates`), pauses
(`SandboxPauses`), and speak tasks: `InUseIsNotReleased` speaks of what the registry
holds and creators probe, while a speak or pause task that took a sandbox out of the
registry before a release may still use it after.

### LiveUpdates and SandboxPauses

`LiveUpdates` takes the same run with less of its sandboxes and all of its
broadcasts: `cast` holds, for the run, its monitor and every endpoint, the copied
list of clients a broadcast has before it. A message is abstracted to whether it was
made before or after the end of the run, which is all the properties tell apart;
`shows` is the last one each browser got. A send is taken at once, or waits for a
client that does not read (`Flaky`), and then the whole task waits. A closed socket
raises, and the client is removed if it is listed: its first entry, which is its
only one, since `TypeOK` says that the list repeats nobody. `SandboxPauses` has the
loop that follows `step`: who is marked as paused, which threads were started. The
thread calls a method of `kubernetes_asyncio` without awaiting it, so
`PatchSandboxReplicas` ends and leaves the replicas as they are; the module exists
for the run that shows it.

### SandboxRegistry

Several calls of one client at the same time, each with its own record: which
operation, where in it, the handle it read before an await, what `delete_all` or
`close` still has before it. The claim of a creation and the handle a call makes
are named after the call. A call begins to wait for the lock only when it is held
or others wait for it, as `asyncio.Lock` does; the model lets waiters take it in
any order. `cut` marks requests under way when the API session is closed. Flags
choose the environment: `MayFail` (requests may fail, carried out or not),
`MayCancel` (any call but `__aexit__` may be cancelled at any await; the shielded
deletion completes), `KnownEarly` (a claim may be named by somebody else before
`create_sandbox` returned), `Structured` (the context is left only after all calls
have ended). With `MayFail` closing a connection may fail too: a `terminate` then
raises before it deletes anything (`CloseConnectionRaises`), while the sweep of
`close` only logs it, goes on, and clears the registry with that handle still open;
`unclosed` remembers the entries whose close raised in the sweep, and
`CloseClosesWhatItClears` excuses those and no others. Namespaces, labels, tracing
are left out.

### SandboxLease, SyncRegistry

`SandboxLease` is what a registry promises of each claim: absent, pending during its
creation, leased while the registry answers for it, loose when it exists and nobody
does, ended for good; and it gets loose only if a request or an interrupt harmed its
creation or deletion. One step may lose several claims at once, since one listing
forgets every handle that was closed. Both clients implement it under the mapping
`Lease` of each module, by different means: the async one because its lock and its
cleanup under a shield order concurrent calls, the sync one because each failure
path deletes what it made. In `SyncRegistry` a program makes one call after another;
an action is what a call does from one request to the next; the watch of `K8sHelper`
delivers what happened on the cluster since its listing, may end early and is
reopened until its deadline. `excused` remembers which claims were harmed. `exited`
is the `atexit` hook.

### RequestPath

One user sends requests through a handle; `kind` and `strategy` choose the
connector and the way. Every attempt puts a copy on the way, and a copy may be
carried out after the attempt, or the whole send, was given up: neither a client
nor the router that gives up stops the pod. The sync connector names a pod by the
address it read once, the async one by the sandbox's name. The router's target,
answers and failures are `Target`, `Answer`, `Unreachable` and `RouterGivesUp`.
Starting and stopping `kubectl` take several steps: it runs (`StartTunnel`, which may
also find that it cannot be run) before its process is assigned (`TunnelStarted`);
stopping it (`StopTunnel`, `Stopped`) takes a while, may fail, which is logged, and
forgets the process in a `finally` whatever happened. `client.then` is what the
stopping is for: connecting anew, raising an error, closing the handle. An interrupt
of the user may come at any of these places; `forsaken` collects the processes whose
start was interrupted before they were assigned or whose stop was interrupted or
failed. The code leaks exactly those, and `NoOrphanTunnel` says that it leaks no
other. A process that got the signal to terminate or was killed is dead; one
interrupted in between may be either. An interrupted close leaves the handle unclosed
(`_close_connection` has no `finally`), so it can be closed again; an interrupt
between the two assignments of the `finally` leaves a base URL without process, which
`connect` takes for none. What commands and files do with an answer is whether they
decode it.

### PodSnapshots

The calls of one handle, request by request, with the controllers of the cluster
in between: the pod is made, becomes ready, stops, is evicted; a trigger is
processed and makes a snapshot; a deletion takes its time. A request that fails may
have been carried out. The cleanup of triggers swallows every failure but an
interrupt (`TriggersInterrupted`), after which `terminate` still goes on to the claim
in its `finally`. `SavedIsReady` says that a snapshot is ready when its
trigger is complete, as `create` supposes when it returns its UID; the run sets it.
Grouping, filters and paging of `list` are left out: it returns what is there,
newest first.

### LegacyClient

`SandboxClient` and `PodSnapshotSandboxClient` of the nested SDK, entered, left and
entered again. `at` is the thread's place, `then` what follows `__exit__`, which
`__enter__` calls on some of its ways out: `Raise` for an exception (the subclass
catches it and exits, the plain client does not) and `ExitAndRaise` for the two
waits that exit by themselves, so that the subclass exits twice. The exit logs a
tunnel it cannot stop and a claim it cannot delete and goes on (`SuperExit`).
`excused` collects what the code gives up without a deletion or after a failed one.
Requests, `pause`, `resume` and the restore check leave nothing behind and are left
out. The other copy of `podsnapshot_client.py` is the same file, on a base class
that cannot be entered.

## Runs

| Run | Instance | Shows |
|---|---|---|
| `simulation` | up to 3 dogs for 16 ticks, batches of 2; 1 dog for 80 ticks from the corners of the needs | types, symmetric pairs, only the last odd dog left over, nobody left out of the rotation, no state kept too long, all three visited |
| `one_run` | 1 run, 2 dogs, 2 attempts, 2 ticks | the inductive invariant of the proofs, with attempts that fail and are repeated |
| `overlapping_runs` | 2 runs of one dog, the same or another, 1 attempt | nobody uses a released sandbox; the flag has a run; a Creating entry has a creator; both runs end; what was registered is given back, but for a failed `terminate` and a shared name |
| `unwired` | 1 run, by-value import | *violation*: no dog gets a sandbox |
| `live_updates` | 2 browsers, one unreliable, 2 dogs, 3 ticks | everybody is told of the end; only a greeting takes back; who has gone is forgotten |
| `never_paused` | 2 dogs, 4 ticks | *violation*: paused, the patch ended, and the replicas as before |
| `registry_context` | 5 calls, structured use, healthy API | leaving the context leaves no claim; `SandboxLease` is implemented |
| `registry_faults` | 3 calls, or 2 after two creations, failures, cancellations | types and lock holder; a creation that raises leaves nothing; `close` closes, or has tried to, what it clears; every call ends |
| `sync_registry` | 3 calls and the exit, a foreign claim, 1 failure, 1 interrupt | open handles are tracked; the exit leaves only harmed claims; every call ends; `SandboxLease` is implemented |
| `request_path` | both connectors, all strategies, 2 sends of 2 attempts, 2 tunnels, 2 pods, 1 interrupt | attempts are bounded (in `TypeOK`); an answered write stays; strays come from a stale address only; no `kubectl` is lost but by a failed or interrupted start or stop; every send returns |
| `pod_snapshots` | 3 calls, 2 pods, 2 triggers, 2 failures | a suspend that knew its pod has waited for its end; a resume is not older than the last suspend; deletions are confirmed; triggers are remembered; `terminate` reaches the claim, also when interrupted among the triggers |
| `legacy_client` | both clients, three modes, 3 entries, 2 triggers, 3 failures or interrupts, at the exit too | nothing is left outside but what is excused |

Every property of a passing run has a mutant: the definition named in
`PROJECT.json` is replaced by a plausible wrong version that stands beside it in
the module, marked `Mutant`, and the property must fail.

**Bounds.** Three dogs are the least number with an odd one out and a window of
two that wraps around unevenly. 80 ticks are more than one round of the slowest
cycle (35 + 8 + 14) from the worst start, and one dog is enough for them because
without invitations dogs do not influence one another's states; a pack is cut off
after 16 ticks by `PackIsShort`. Two runs are enough to overlap in every way two
can: one stopped and in its last broadcast, the other just accepted; the dog shared
or not; and a sandbox registered after its run has ended is released by the start of
the second. `one_run` has two dogs, so that a stop can fall between them, and two
attempts, which tell the last failure from the others (the code has ten). Two
browsers let one of them delay or shorten a broadcast to the other; one of them is
reliable, so that only the other's faults can be to blame; three ticks are the
period of the tick broadcasts. Five calls are a creation, a getter, a deleter, a
listing and the exit, or two claims for the exit; `Calls` is a symmetry set where
only safety is checked. In `sync_registry` three calls are a creation, what goes
wrong with it and what follows, before the exit. Two attempts and two sends are the
least with a copy that outlives an attempt, and one that outlives a send; two pods
give a stale address, and a third sandbox may take it. Two triggers are an older
and a newer snapshot. Three entries of the legacy client show the fields that
survive an exit twice. `NumRuns`, `NameChoices`, `NumTicks`, `MaxAttempts`,
`MaxDogs`, `Calls`, `Clients` and the constants named `Max...` are the only
bounds, and the proofs hold for all values of those in their modules.

**Fairness.** `FairSpec` of `Orchestrator` and of `LiveUpdates` gives weak fairness
to each task: an asyncio loop runs every ready task, every request of the SDK and
every probe has a timeout, and a sleep ends. Requests of the user, the shutdown and
the reset of the warm pool are never fair, so liveness properties allow for the end
of the process. A browser that does not read is closed by the WebSocket ping of the
server (uvicorn's default), or reads again: weak fairness of
`Reads \/ Closes` while it is stuck. `SandboxRegistry`, `RequestPath` and
`PodSnapshots` ask weak fairness of the next step of a call: requests are answered
or time out, watches have deadlines, and the lock, given back, is taken by
somebody. `SyncRegistry` adds that a deadline passes, since a watch may be reopened
any number of times. Nothing is assumed of controllers.

Deadlock is not checked: calls, entries and runs are bounded, and when all have
been made and answered the system rests.

## Proofs

TLAPS checks the following for every value of the constants: any number of dogs,
runs, calls, browsers, pods, attempts, failures. Every safety property of a passing
run is a theorem. Each rests on one inductive invariant, which stands at the end of
the module it is about, so that TLC could check it on the instances of the runs
before it was proved; a `...Proofs` module shows that it holds in the beginning and
that each action keeps it, one lemma per action.

*SimulationLoopProofs.* `SimulationTypeOK`, `PairsAreSymmetric`,
`AtMostOneIsUnmatched`, `EveryStayIsBounded`, all from the invariant
`SimulationInv`. Matching is argued through `Rank`, the place of a dog among those
who play: ranks are injective and without gaps, the mate of an odd rank is the
next one, so mates are unique and mutual and only the greatest can be without.
`NobodyIsStuck` is not inductive: the time in a state says nothing of the need
that will end it. `Drifted` ties the two: after *t* ticks asleep energy is at least
8*t* or already 90 and hunger at least 2*t*, after *t* ticks eating hunger is at
most 100 - 10*t*, after *t* ticks playing energy is at most 100 - 5*t*.
`NobodyIsEverLeftOut` counts windows: a dog is `Ahead` of the next window by a
number of places modulo the herd, each window it missed has brought the next one
nearer by its length, so it cannot miss as many as cover the herd.
`EveryStateIsVisited` (for 96 ticks and more) says in `NeedsDrive` what a dog that
has not yet slept, eaten or played owes to the time gone by: it has tired by one a
tick at least, got hungrier by two, more bored by one; and how long ago the stay it
is in began, which bounds the last detour before the need wins.

*OrchestratorProofs.* `OrchestratorInvariant` (`OrchestratorInv` is inductive), and
from it `NoSandboxIsUsedAfterItsRelease`, `TheFlagHasARun`, `CreatingIsNotStale`. That
nobody uses a
released sandbox needs to know why a sandbox a creator still probes cannot be in
the registry: a sandbox is registered only by the last step of the creator it is
named after (`RegisteredByTheDone`), no creator is started twice because each name
leaves `todo` once (`CreatorsAreFresh`), and an attempt's claim is fresh
(`AttemptsInRange`, `CreatingIsPending`).

*LiveUpdatesProofs.* `LiveUpdatesTypeOK`, `GreetingsTakeBack`, from `LiveInv`. That
only a greeting takes a browser back is a statement about one step; it holds
because once the run has ended its monitor has no broadcast left and its own
broadcast is the last one (`OnlyGreetingsLinger`), and the end reaches nobody
earlier (`EndIsToldAfterIt`). The list stays without repetitions because an
endpoint appends its client once (`ListedHasConnected`).

*SandboxRegistryProofs.* `RegistryTypeOK`, `RaisedCreateIsClean`, `CloseClosesAll`
from `RegistryInv`, whatever fails, is cancelled or interleaves. The sweep of
`close` has the lock and every open handle before it, or has tried to close it in
vain (`SweepHasTheOpen`), and an entry leads to a handle whose maker has returned
(`EntriesAreDone`), so no handle is opened or entered behind the sweep.
`ContextLeavesNoClaim` and `RegistryImplementsLease`, from `OrderlyInv`, have the
hypothesis `Orderly`: no request fails, nothing is cancelled, the client is closed
by `__aexit__` alone, when all calls have ended. It says what the docstring of the
context manager takes for granted, and each part is needed: a failed deletion leaves
its claim, a cancelled creation may (see below), a call that outlives the context
makes a claim behind it, and a `close` inside forgets the handles. Then nobody ever
waits for the lock (`NobodyWaits`), and whatever exists is answered for by its
creation, by the registry or by a call on its way to delete it (`AnsweredFor`). The
step that needs most is a listing: it forgets closed handles, and a handle is closed
only by somebody who deletes its claim (`ClosedIsGivenUp`).

*SyncRegistryProofs.* `SyncTypeOK`, `SyncOpenIsTracked`, `SyncExitLeavesNoClaim`,
`SyncImplementsLease`, from `SyncInv`, without any hypothesis: failures,
interrupts, early ends of a watch and foreign claims are in it. What a call has read
of the registry is still so (`SeenIsCurrent`: one thread), claims are numbered by
the calls that create them (`FreshClaims`), a claim that exists is in the registry,
in its creation, or excused (`AnsweredFor`).

Both refinements map every step to a step of `SandboxLease` or a stutter under the
mapping `Lease`; `LeaseOfNext` gives the place of a claim after a step, and the
lemmas for the actions say which claims move.

*RequestPathProofs.* `RequestTypeOK`, `AnsweredWriteStays`, `StraysAreStale`,
`TunnelsAreOwned`, from `RequestInv`. The bound on executions in `TypeOK` needs the
copies that are still on the way counted with those carried out
(`ExecutedPerAttempt`); that a `kubectl` is held or forsaken needs the reason of each
stop (`StopsForAReason`); that an answered write stays needs that, unless a copy
outlived its send, all copies are of the last send (`AnsweredIsOnDisk`).

*PodSnapshotsProofs.* `PodSnapshotsTypeOK`, `SuspendLeavesNoPod`,
`TriggersStayRemembered`, `DeletionsAreConfirmed`, `ResumesAreUpToDate`, from
`PodSnapshotsInv`: what a deletion chose is still to do, gone, or the deletion has
failed (`DeletesTheChosen`); a trigger is still to do or kept in each attempt
(`TriggersToGo`). `ResumesAreUpToDate` has the hypothesis `SavedIsReady`, since a
snapshot that gets ready after `resume` has listed them is passed over; the others
hold without it.

*LegacyClientProofs.* `LegacyTypeOK`, `LegacyLeavesNothing`, from `LegacyInv`, which
says for every place of the thread which claim, tunnel and triggers it still answers
for; everything else on the cluster is excused.

The assumptions are those of the modules: positive bounds, finite sets of names,
the marks `NoEntry`, `Creating` and `None` different from sandboxes and calls, a pod
at least. Only model-checked: liveness (`EveryRunEnds`, `RegisteredIsReleased`,
`EveryCallReturns`, `EverySendReturns`, `EveryClientSeesTheEnd`,
`GoneClientIsForgotten`, `TerminateReachesTheClaim`), which is out of the prover's
reach, and the two runs that show a violation.

## Where code and text disagree

Shown by a run:

* `simulation_manager.py` 10 imports `global_sandbox_client` by value, so no dog
  gets a sandbox; `README.md` 14-18 says each has one (`unwired`). Apart from that,
  `main.py` 25 imports a module `k8s_agent_sandbox.client` that is not in this
  repository's SDK.
* `sandbox_manager.py` 27 calls the asynchronous API without awaiting it, so no
  sandbox is ever paused or resumed; `dashboard.html` 573 and 639 say they are
  (`never_paused`).

Seen while modelling and not given a run of their own:

* a second start is accepted before the first task has run (`endpoints.py` 40),
  while `plans/Plan.md` 1411 and the 409 answer say there is only one;
* `main.py` 53 closes the client without `delete_all`, against
  `async_sandbox_client.py` 54-57;
* a creation cancelled at the lock keeps its claim (`async_sandbox_client.py` 168),
  and a cancelled deletion and a listing make the context manager miss a claim (228,
  against the docstring at 45);
* when the read of the pod fails, `suspend` reports success at once with the pod
  still running (`sandbox_with_snapshot_support.py` 183, `utils.py` 285 against 279);
* in the nested SDK an exception of another kind than `ApiException` while a trigger
  is deleted leaves the exit before the claim is deleted (`podsnapshot_client.py`
  425, against 412-413); the plain client leaks its claim when the sandbox's name is
  not resolved, the Gateway gets no address or the tunnel crashes; entered again, it
  uses the URL of the tunnel it has stopped;
* the odd playing dog stays without partner (`simulation.py` 57), though a test
  sketched in `plans/Plan.md` 1304 asserts one on every tick; an unreachable sandbox
  is dropped without deletion (`sandbox_manager.py` 65); two overlapping runs that
  share a name leak the overwritten sandbox; a `terminate` task that fails leaks its
  sandbox (`simulation_manager.py` 201, `async_sandbox.py` 126-129); `get_sandbox`
  terminates a healthy sandbox after one failed read and may drop an open handle when
  two callers race; `close` drops a handle it could not close
  (`async_sandbox_client.py` 99-103); an interrupted or failed start or stop of
  `kubectl` leaves it running (`connector.py` 117, 150-161).

## Not modelled

* Speak tasks and agents: text in, text out; the order in which answers of one dog
  arrive decides only which text is shown.
* The dashboard: layout and wording in the browser.
* Read-only calls: `status`, `list_all_sandboxes`, `is_restored_from_snapshot`, the
  CRD check of the snapshots package, `GET /api/dogs`, health.
* Tracing, validation of labels and headers, the HTTP bodies of commands and files.
* Computer use (a subclass with one request), manifests and shell scripts.

## Plan

Done: every component that keeps state is modelled, every safety property of a
passing run is proved. Left:

1. `SandboxRegistry`: weaken `Orderly` part by part, first to failing requests,
   with the claims they harm in `SandboxLease`, as in `SyncRegistry`;
2. safety lemmas towards liveness that stand without fairness: which await each
   task can be at when nothing of it is enabled;
3. `Orchestrator`: that the claims of a run are those of its creators, as a
   refinement of a lease by `sandbox_clients`.
