---------------------------- MODULE SandboxPauses ----------------------------
(***************************************************************************)
(* The pauses of run_simulation: after every tick a sandbox whose dog      *)
(* sleeps is marked as paused and a thread is started to patch it to no    *)
(* replicas; when the dog wakes up, to one.  Dogs fall asleep and wake up  *)
(* as they like (SimulationLoop has when), and all have a sandbox.         *)
(***************************************************************************)
EXTENDS Naturals

CONSTANTS
  Dogs,
  NumTicks       \* config.num_ticks

VARIABLES
  sleeping,      \* the dogs in state SLEEPING
  old,           \* 15 seconds have passed since start_time
  is_paused,     \* the sandboxes marked so
  tick_count,
  patches,       \* the threads that have not ended: <<dog, replicas, tick>>
  replicas       \* spec.replicas of each Sandbox

vars == <<sleeping, old, is_paused, tick_count, patches, replicas>>

Init ==
  /\ sleeping \in SUBSET Dogs /\ old = FALSE
  /\ is_paused = {} /\ tick_count = 0 /\ patches = {}
  /\ replicas = [d \in Dogs |-> 1]

ToPause == (IF old THEN sleeping' ELSE {}) \ is_paused
ToResume == is_paused \ (IF old THEN sleeping' ELSE {})

(* step, and the loop over the dogs that follows it.                       *)
Tick ==
  /\ tick_count < NumTicks /\ tick_count' = tick_count + 1
  /\ sleeping' \in SUBSET Dogs
  /\ is_paused' = (is_paused \cup ToPause) \ ToResume
  /\ patches' = patches \cup ToPause \X {0} \X {tick_count'}
                        \cup ToResume \X {1} \X {tick_count'}
  /\ UNCHANGED <<old, replicas>>

TimePasses ==
  /\ ~old /\ old' = TRUE
  /\ UNCHANGED <<sleeping, is_paused, tick_count, patches, replicas>>

(* patch_sandbox_replicas, in a thread of its own.  The method it calls is *)
(* the one of the asynchronous API client: it makes a coroutine, nobody    *)
(* awaits that, and no request is sent.                                    *)
PatchSandboxReplicas ==
  /\ \E p \in patches : patches' = patches \ {p}
  /\ UNCHANGED <<sleeping, old, is_paused, tick_count, replicas>>

Next == Tick \/ TimePasses \/ PatchSandboxReplicas
Spec == Init /\ [][Next]_vars

-----------------------------------------------------------------------------
(* What dashboard.html 573 and 639 say: inactive agents are scaled down,   *)
(* paused and resumed.  A sandbox that is marked and has no patch on the   *)
(* way any more has no replicas.                                           *)
PausedMeansScaledDown ==
  \A d \in is_paused : (\A p \in patches : p[1] # d) => replicas[d] = 0

=============================================================================
