-------------------------- MODULE RequestPathProofs --------------------------
(***************************************************************************)
(* TLAPS proofs about RequestPath, for both connectors, all strategies and *)
(* every number of retries, sends, tunnels, pods and interrupts.           *)
(***************************************************************************)
EXTENDS RequestPath, FiniteSetTheorems, TLAPS

-----------------------------------------------------------------------------
(* Counting the copies of a send.                                          *)

(* One more copy makes one more of its send and none of the others.        *)
LEMMA CopyAdded ==
  ASSUME IsFiniteSet(copies), NEW c, copies' = copies \cup {c}, NEW s
  PROVE  /\ IsFiniteSet(copies')
         /\ Cardinality(CopiesOf(s)) \in Nat
         /\ c.send # s => CopiesOf(s)' = CopiesOf(s)
         /\ Cardinality(CopiesOf(s)') <= Cardinality(CopiesOf(s)) + 1
<1>1. IsFiniteSet(CopiesOf(s))
  BY FS_Subset DEF CopiesOf
<1>2. CASE c.send = s
  <2>1. CopiesOf(s)' = CopiesOf(s) \cup {c}
    BY <1>2 DEF CopiesOf
  <2>2. /\ Cardinality(CopiesOf(s)) \in Nat
        /\ \/ Cardinality(CopiesOf(s)') = Cardinality(CopiesOf(s)) + 1
           \/ Cardinality(CopiesOf(s)') = Cardinality(CopiesOf(s))
    BY <1>1, <2>1, FS_AddElement, FS_CardinalityType
  <2>3. QED
    BY <1>2, <2>2, FS_AddElement
<1>3. CASE c.send # s
  <2>1. CopiesOf(s)' = CopiesOf(s)
    BY <1>3 DEF CopiesOf
  <2>2. QED
    BY <1>1, <2>1, FS_AddElement, FS_CardinalityType
<1>4. QED
  BY <1>2, <1>3

(* A copy less is one less of its send.                                    *)
LEMMA CopyRemoved ==
  ASSUME IsFiniteSet(copies), NEW c \in copies, copies' = copies \ {c}, NEW s
  PROVE  /\ IsFiniteSet(copies')
         /\ Cardinality(CopiesOf(s)) \in Nat /\ Cardinality(CopiesOf(s)') \in Nat
         /\ c.send = s => Cardinality(CopiesOf(s)') = Cardinality(CopiesOf(s)) - 1
         /\ c.send # s => CopiesOf(s)' = CopiesOf(s)
<1>1. IsFiniteSet(CopiesOf(s))
  BY FS_Subset DEF CopiesOf
<1>2. CASE c.send = s
  <2>1. CopiesOf(s)' = CopiesOf(s) \ {c} /\ c \in CopiesOf(s)
    BY <1>2 DEF CopiesOf
  <2>2. QED
    BY <1>1, <1>2, <2>1, FS_RemoveElement, FS_CardinalityType
<1>3. CASE c.send # s
  <2>1. CopiesOf(s)' = CopiesOf(s)
    BY <1>3 DEF CopiesOf
  <2>2. QED
    BY <1>1, <1>3, <2>1, FS_RemoveElement, FS_CardinalityType
<1>4. QED
  BY <1>2, <1>3

-----------------------------------------------------------------------------
(* The connection.                                                         *)

ConnectionOK ==
  /\ base \in 0..MaxTunnels + 2 /\ process \in 0..MaxTunnels
  /\ started \in 0..MaxTunnels /\ alive \subseteq 1..started /\ forsaken \subseteq 1..started
  /\ closed \in BOOLEAN
  /\ StopsForAReason /\ NoOrphanTunnel

(* Where the client is when it does not send, serve or wait.               *)
ClientOK ==
  /\ client' \in ClientState /\ client'.send = client.send
  /\ client'.at # "waiting" /\ (Sending' => Sending)
  /\ (client'.at # "idle" /\ client'.then # "close" =>
        client.at # "idle" /\ client.then # "close" /\ client'.op = client.op)
  /\ client'.by <= pod

(* What a return leaves of the client.                                     *)
LEMMA ReturnShape ==
  ASSUME RequestInv, Return
  PROVE  /\ client' \in ClientState /\ client'.send = client.send
         /\ client'.at = "idle" /\ client'.then = "none" /\ client'.by <= pod
         /\ ClientOK
<1>1. 0 \in 0..MaxRetries + 1 /\ 0 \in 0..MaxPods /\ 0 <= pod /\ client \in ClientState
  BY RequestAssumption DEF RequestInv, TypeOK
<1>2. /\ client' \in ClientState /\ client'.send = client.send
      /\ client'.at = "idle" /\ client'.then = "none" /\ client'.by <= pod
  BY <1>1 DEF Return, ClientState, Answers
<1>3. QED
  BY <1>2 DEF ClientOK, Sending, At

(* What follows the stop, or would if there were anything to stop.         *)
LEMMA AfterShape ==
  ASSUME RequestInv, NEW then \in {"connect", "raise", "close"}, After(then),
         then = "connect" => At("stopping") /\ client.then = "connect",
         ~closed, process' = None, started' \in Nat
  PROVE  /\ ClientOK /\ client'.at # "starting" /\ client'.at # "stopping"
         /\ closed' \in BOOLEAN /\ StopsForAReason'
<1>1. client \in ClientState /\ client.by <= pod
  BY DEF RequestInv, TypeOK, AnsweredIsOnDisk
<1>1a. closed' \in BOOLEAN /\ process' <= started' /\ process' = None
  <2>1. closed \in BOOLEAN
    BY DEF RequestInv, TypeOK
  <2>2. closed' \in BOOLEAN
    BY <2>1, Zenon DEF After
  <2>3. QED
    BY <2>2 DEF None
<1>2. CASE Return
  <2>1. client'.at = "idle" /\ client'.then = "none" /\ ClientOK
    BY <1>2, ReturnShape
  <2>2. QED
    BY <1>1a, <2>1 DEF StopsForAReason, At
<1>3. CASE then = "connect"
  <2>1. /\ client' \in ClientState /\ client'.send = client.send /\ client'.at = "connecting"
        /\ client'.then = "none" /\ client'.op = client.op /\ client'.by = client.by
        /\ closed' = closed
    BY <1>1, <1>3 DEF After, ClientState
  <2>2. QED
    BY <1>1, <1>1a, <1>3, <2>1 DEF ClientOK, Sending, StopsForAReason, At
<1>4. QED
  BY <1>2, <1>3 DEF After

(* Closing the strategy stops the process, or finds none.                  *)
LEMMA CloseStrategySafe ==
  ASSUME RequestInv, NEW then \in {"connect", "raise", "close"}, CloseStrategy(then),
         then = "connect" => At("connecting") /\ process # None,
         ~closed, ~At("starting"), ~At("stopping"),
         then # "close" => ~At("idle") /\ client.then # "close"
  PROVE  ConnectionOK' /\ ClientOK
<1> USE RequestAssumption
<1>1. /\ client \in ClientState /\ 0 \in 0..MaxRetries + 1 /\ 0 \in 0..MaxPods /\ 0 <= pod
      /\ NoOrphanTunnel
  BY DEF RequestInv, TypeOK
<1>2. CASE process # None /\ StopTunnel(then)
  <2>1. /\ client' \in ClientState /\ client'.send = client.send /\ client'.at = "stopping"
        /\ client'.then = then /\ client'.op = client.op /\ client'.by = 0
    BY <1>1, <1>2 DEF StopTunnel, ClientState, Answers
  <2>2. UNCHANGED <<connection, closed>>
    BY <1>2 DEF StopTunnel
  <2>3. ClientOK
    <3>1. Sending' => Sending
      BY <2>1 DEF Sending, At
    <3>2. client'.by <= pod
      BY <1>1, <2>1
    <3>3. QED
      BY <2>1, <3>1, <3>2 DEF ClientOK, At
  <2>4. ConnectionOK'
    <3>1. process # None /\ ~closed'
      BY <1>2, <2>2
    <3>2. StopsForAReason'
      BY <2>1, <2>2, <3>1 DEF RequestInv, StopsForAReason, connection, At
    <3>3. NoOrphanTunnel'
      BY <1>1, <2>1, <2>2, <3>1 DEF NoOrphanTunnel, connection, At
    <3>4. QED
      BY <2>2, <3>2, <3>3, Zenon DEF RequestInv, TypeOK, ConnectionOK, connection
  <2>5. QED
    BY <2>3, <2>4
<1>3. CASE process = None /\ After(then)
  <2>1. /\ base' = None /\ process' = process
        /\ UNCHANGED <<started, alive, forsaken>>
    BY <1>3 DEF CloseStrategy, StopTunnel
  <2>2. /\ ClientOK /\ client'.at # "starting" /\ closed' \in BOOLEAN /\ StopsForAReason'
    BY <1>3, <2>1, AfterShape DEF RequestInv, TypeOK
  <2>3. alive \subseteq forsaken
    BY <1>1, <1>3 DEF NoOrphanTunnel, RequestInv, TypeOK, None
  <2>4. ConnectionOK'
    BY <2>1, <2>2, <2>3 DEF RequestInv, TypeOK, ConnectionOK, NoOrphanTunnel, None
  <2>5. QED
    BY <2>2, <2>4
<1>4. QED
  BY <1>2, <1>3 DEF CloseStrategy

(* A stop forgets the process, dead or forsaken.                           *)
LEMMA StoppedSafe ==
  ASSUME RequestInv, Stopped
  PROVE  ConnectionOK' /\ ClientOK
<1> USE RequestAssumption
<1>1. /\ At("stopping") /\ ~closed /\ client.then \in {"connect", "raise", "close"}
      /\ process' = None /\ base' = None /\ started' = started /\ After(client.then)
  BY DEF Stopped, ForgetTunnel, RequestInv, StopsForAReason, TypeOK, ClientState, At
<1>2. /\ ClientOK /\ client'.at # "starting" /\ closed' \in BOOLEAN /\ StopsForAReason'
  BY <1>1, AfterShape DEF RequestInv, TypeOK
<1>3. /\ alive \subseteq {process} \cup forsaken
      /\ alive \subseteq 1..started /\ forsaken \subseteq 1..started
      /\ process \in 1..started
  BY <1>1 DEF RequestInv, TypeOK, NoOrphanTunnel, StopsForAReason, At, None
<1>4. alive' \subseteq forsaken' /\ alive' \subseteq 1..started /\ forsaken' \subseteq 1..started
  BY <1>3 DEF Stopped
<1>5. QED
  BY <1>1, <1>2, <1>4 DEF RequestInv, TypeOK, ConnectionOK, NoOrphanTunnel, None

(* The client is not waiting after the step, nothing was sent or served,   *)
(* and at most a send was acknowledged whose effect is on the disk.        *)
LEMMA ClientMoves ==
  ASSUME RequestInv, ConnectionOK',
         UNCHANGED <<config, world, effects, copies, outlived>>, ClientOK,
         interrupts' \in 0..MaxInterrupts,
         \/ last' = last
         \/ last' = client.send /\ client.send \in Sends /\ (~outlived => disk = client.send)
  PROVE  RequestInv'
<1> USE RequestAssumption DEF RequestInv, config, world, effects, ClientOK
<1>1. TypeOK'
  BY DEF TypeOK, ConnectionOK
<1>2. SendIsCounted'
  BY DEF SendIsCounted, At, TypeOK, ClientState
<1>3. CopiesAreSent'
  BY DEF CopiesAreSent, At, TypeOK, ClientState
<1>4. ASSUME NEW s \in Sends
      PROVE  executed'[s] + Cardinality(CopiesOf(s)') <= AttemptsMade(s)'
  <2>1. executed[s] + Cardinality(CopiesOf(s)) <= AttemptsMade(s)
    BY DEF ExecutedPerAttempt
  <2>2. /\ AttemptsMade(s) \in 0..MaxRetries + 1
        /\ AttemptsMade(s)' \in 0..MaxRetries + 1
        /\ AttemptsMade(s) <= AttemptsMade(s)'
    <3>1. /\ client.attempt \in 0..MaxRetries + 1 /\ client'.attempt \in 0..MaxRetries + 1
          /\ client.send \in Nat /\ s \in Nat /\ MaxRetries \in Nat
      BY DEF TypeOK, ClientState, Sends
    <3>2. QED
      BY <3>1 DEF AttemptsMade, At
  <2>3. executed[s] \in Nat /\ Cardinality(CopiesOf(s)) \in Nat
    BY FS_Subset, FS_CardinalityType DEF CopiesOf, CopiesAreSent, TypeOK
  <2>4. CopiesOf(s)' = CopiesOf(s)
    BY DEF CopiesOf
  <2>5. QED
    BY <2>1, <2>2, <2>3, <2>4
<1>5. ExecutedPerAttempt'
  BY <1>4 DEF ExecutedPerAttempt
<1>6. AnsweredIsOnDisk'
  <2>1. last' <= client.send /\ (~outlived => last' <= disk)
    BY DEF AnsweredIsOnDisk, Sends
  <2>2. ~outlived => \A c \in copies : c.send = client.send
    BY DEF AnsweredIsOnDisk
  <2>3. ~At("waiting")'
    BY DEF At
  <2>4. QED
    BY <2>1, <2>2, <2>3 DEF AnsweredIsOnDisk
<1>7. AddressIsSync' /\ AstrayOnlyWhenStale' /\ StopsForAReason' /\ NoOrphanTunnel'
  BY DEF AddressIsSync, AstrayOnlyWhenStale, ConnectionOK
<1>8. QED
  BY <1>1, <1>2, <1>3, <1>5, <1>6, <1>7

-----------------------------------------------------------------------------
(* Every action keeps the invariant.                                       *)

(* What the actions find, and what they leave when they do not touch it.   *)
LEMMA BeforeStep ==
  ASSUME RequestInv
  PROVE  /\ ConnectionOK /\ client \in ClientState /\ client.by <= pod
         /\ interrupts \in 0..MaxInterrupts
BY DEF RequestInv, TypeOK, ConnectionOK, AnsweredIsOnDisk

(* From one place to the next, with nothing to be stopped.                 *)
LEMMA GotoShape ==
  ASSUME RequestInv, NEW pc \in {"starting", "spawning", "verifying"}, Goto(pc), Sending, ~At("stopping")
  PROVE  /\ ClientOK /\ client'.at = pc /\ client'.then = "none"
<1>1. client \in ClientState /\ client.then = "none" /\ client.by <= pod
  BY DEF RequestInv, TypeOK, AnsweredIsOnDisk, StopsForAReason
<1>2. /\ client' \in ClientState /\ client'.send = client.send /\ client'.op = client.op
      /\ client'.at = pc /\ client'.by = client.by /\ client'.then = client.then
  BY <1>1 DEF Goto, ClientState
<1>3. QED
  BY <1>1, <1>2 DEF ClientOK, Sending, At

(* connect starts kubectl, whose number is new, and then knows it.         *)
LEMMA StartSafe ==
  ASSUME RequestInv,
         \/ At("connecting") /\ process = None /\ StartTunnel
         \/ TunnelStarted
  PROVE  ConnectionOK' /\ ClientOK
<1> USE RequestAssumption, BeforeStep DEF At
<1>1. CASE At("connecting") /\ process = None /\ StartTunnel /\ Return
  <2>1. UNCHANGED <<connection, closed>>
    BY <1>1 DEF StartTunnel, Return, Goto, ClientState
  <2>2. QED
    BY <1>1, <2>1, ReturnShape DEF connection, ConnectionOK, NoOrphanTunnel, StopsForAReason
<1>2. CASE At("connecting") /\ process = None /\ StartTunnel /\ ~Return
  <2>1. ClientOK /\ client'.at = "starting" /\ client'.then = "none"
    BY <1>2, GotoShape DEF StartTunnel, Sending
  <2>2. alive \subseteq forsaken /\ ~closed
    BY <1>2 DEF ConnectionOK, NoOrphanTunnel, StopsForAReason, None
  <2>3. QED
    BY <1>2, <2>1, <2>2 DEF StartTunnel, ConnectionOK, NoOrphanTunnel, StopsForAReason
<1>3. CASE TunnelStarted
  <2>1. ClientOK /\ client'.at = "spawning" /\ client'.then = "none"
    BY <1>3, GotoShape DEF TunnelStarted, Sending
  <2>2. ~closed /\ alive \subseteq {started} \cup forsaken
    BY <1>3 DEF TunnelStarted, ConnectionOK, NoOrphanTunnel, StopsForAReason, None
  <2>3. QED
    BY <1>3, <2>1, <2>2 DEF TunnelStarted, ConnectionOK, NoOrphanTunnel, StopsForAReason, None
<1>4. QED
  BY <1>1, <1>2, <1>3

(* connect and verify_connection.                                          *)
LEMMA ConnectStep ==
  ASSUME RequestInv, Connect
  PROVE  RequestInv'
<1> USE BeforeStep DEF At
<1>1. ASSUME UNCHANGED <<process, started, alive, forsaken, closed>>,
             base' \in 0..MaxTunnels + 2, Sending, ~At("stopping"), ~At("starting"), Goto("verifying")
      PROVE  ConnectionOK' /\ ClientOK
  <2>1. ClientOK /\ client'.at = "verifying" /\ client'.then = "none"
    BY <1>1, GotoShape
  <2>2. ~closed
    BY <1>1 DEF ConnectionOK, StopsForAReason, Sending
  <2>3. QED
    BY <1>1, <2>1, <2>2 DEF ConnectionOK, NoOrphanTunnel, StopsForAReason
<1>2. ConnectionOK' /\ ClientOK
  <2>1. CASE ConnectDirect
    BY <1>1, <2>1 DEF ConnectDirect, connection, ConnectionOK, Sending
  <2>2. CASE GatewayTimesOut
    BY <2>2, ReturnShape
    DEF GatewayTimesOut, connection, ConnectionOK, NoOrphanTunnel, StopsForAReason
  <2>3. CASE ConnectTunnel
    <3>1. CASE Goto("verifying") /\ UNCHANGED <<connection, closed>>
      BY <1>1, <2>3, <3>1 DEF ConnectTunnel, connection, ConnectionOK, Sending
    <3>2. CASE process # None /\ StopTunnel("connect")
      <4>1. CloseStrategy("connect") /\ ~closed
        BY <2>3, <3>2 DEF CloseStrategy, ConnectTunnel, ConnectionOK, StopsForAReason
      <4>2. client.then # "close"
        BY <2>3 DEF ConnectTunnel, ConnectionOK, StopsForAReason
      <4>3. QED
        BY <2>3, <3>2, <4>1, <4>2, CloseStrategySafe DEF ConnectTunnel
    <3>3. CASE process = None /\ StartTunnel
      BY <2>3, <3>3, StartSafe DEF ConnectTunnel
    <3>4. QED
      BY <2>3, <3>1, <3>2, <3>3 DEF ConnectTunnel
  <2>4. CASE TunnelStarted
    BY <2>4, StartSafe
  <2>5. CASE TunnelReady
    BY <1>1, <2>5, RequestAssumption DEF TunnelReady, ConnectionOK, Sending
  <2>6. CASE TunnelFails \/ VerifyFails
    <3>1. CloseStrategy("raise") /\ ~closed /\ client.then # "close"
      BY <2>6 DEF TunnelFails, VerifyFails, ConnectionOK, StopsForAReason
    <3>2. QED
      BY <2>6, <3>1, CloseStrategySafe DEF TunnelFails, VerifyFails
  <2>7. CASE ConnectGateway
    BY <1>1, <2>7, RequestAssumption
    DEF ConnectGateway, ConnectionOK, Sending, RequestInv, TypeOK
  <2>8. CASE Stopped
    BY <2>8, StoppedSafe
  <2>9. QED
    BY <2>1, <2>2, <2>3, <2>4, <2>5, <2>6, <2>7, <2>8 DEF Connect
<1>3. QED
  BY <1>2, ClientMoves DEF Connect

(* The send ends with an answer, an exception or an interrupt, or the      *)
(* connection is closed for good.                                          *)
LEMMA EndStep ==
  ASSUME RequestInv, Fail \/ Succeed \/ DecodeFails \/ Interrupt \/ Close
  PROVE  RequestInv'
<1> USE BeforeStep DEF At
<1>1. ASSUME Return, UNCHANGED <<process, started, alive, forsaken, closed>>,
             base' \in 0..MaxTunnels + 2, ~At("starting"), ~closed
      PROVE  ConnectionOK' /\ ClientOK
  BY <1>1, ReturnShape DEF ConnectionOK, NoOrphanTunnel, StopsForAReason
<1>2. CASE Fail
  <2>1. ~closed /\ client.then # "close"
    BY <1>2 DEF Fail, ConnectionOK, StopsForAReason
  <2>2. CASE FailSync
    BY <1>2, <2>1, <2>2, CloseStrategySafe, ClientMoves DEF Fail, FailSync
  <2>3. CASE FailAsync
    <3>1. base' \in 0..MaxTunnels + 2
      BY <2>3, RequestAssumption DEF FailAsync, ConnectionOK, None
    <3>2. QED
      BY <1>1, <1>2, <2>1, <2>3, <3>1, ClientMoves DEF Fail, FailAsync
  <2>4. QED
    BY <1>2, <2>2, <2>3 DEF Fail
<1>3. CASE Succeed
  <2>1. ~closed /\ UNCHANGED <<connection, closed>>
    BY <1>3 DEF Succeed, ConnectionOK, StopsForAReason
  <2>2. ConnectionOK' /\ ClientOK
    BY <1>1, <1>3, <2>1 DEF Succeed, connection, ConnectionOK
  <2>3. CASE client.by = pod /\ client.op \in Changing
    <3>1. ~outlived => disk = client.send
      BY <1>3, <2>3 DEF Succeed, RequestInv, AnsweredIsOnDisk
    <3>2. last' = client.send /\ client.send \in Sends
      BY <1>3, <2>3 DEF Succeed, RequestInv, SendIsCounted, StopsForAReason
    <3>3. QED
      BY <1>3, <2>2, <3>1, <3>2, ClientMoves DEF Succeed
  <2>4. CASE ~(client.by = pod /\ client.op \in Changing)
    BY <1>3, <2>2, <2>4, ClientMoves DEF Succeed
  <2>5. QED
    BY <2>3, <2>4
<1>4. CASE DecodeFails
  <2>1. ~closed /\ UNCHANGED <<connection, closed>>
    BY <1>4 DEF DecodeFails, ConnectionOK, StopsForAReason
  <2>2. ConnectionOK' /\ ClientOK
    BY <1>1, <1>4, <2>1 DEF DecodeFails, connection, ConnectionOK
  <2>3. QED
    BY <1>4, <2>2, ClientMoves DEF DecodeFails
<1>5. CASE Interrupt
  <2>1. interrupts' \in 0..MaxInterrupts
    BY <1>5, RequestAssumption DEF Interrupt
  <2>2. ~closed
    BY <1>5 DEF Interrupt, ConnectionOK, StopsForAReason
  <2>3. ConnectionOK' /\ ClientOK
    <3>1. CASE At("stopping")
      <4>1. process \in 1..started /\ forsaken' = forsaken \cup {process} /\ ForgetTunnel
        BY <1>5, <3>1 DEF Interrupt, ConnectionOK, StopsForAReason, None
      <4>2. alive \subseteq forsaken' /\ alive' = alive /\ forsaken' \subseteq 1..started
        BY <1>5, <3>1, <4>1 DEF Interrupt, ConnectionOK, NoOrphanTunnel
      <4>3. /\ client'.at = "idle" /\ client'.then = "none" /\ ClientOK
            /\ closed' = closed /\ base' = None /\ process' = None /\ started' = started
        BY <1>5, <4>1, ReturnShape DEF Interrupt, ForgetTunnel
      <4>4. QED
        BY <2>2, <4>2, <4>3, RequestAssumption
        DEF ConnectionOK, NoOrphanTunnel, StopsForAReason, None
    <3>2. CASE At("starting")
      <4>1. /\ started \in 1..started /\ forsaken' = forsaken \cup {started}
            /\ UNCHANGED <<base, process, started>>
        BY <1>5, <3>2 DEF Interrupt, ConnectionOK, StopsForAReason
      <4>2. QED
        BY <1>5, <2>2, <3>2, <4>1, ReturnShape
        DEF Interrupt, ConnectionOK, NoOrphanTunnel, StopsForAReason
    <3>3. CASE ~At("stopping") /\ ~At("starting")
      BY <1>1, <1>5, <2>2, <3>3 DEF Interrupt, ConnectionOK
    <3>4. QED
      BY <3>1, <3>2, <3>3
  <2>4. QED
    BY <1>5, <2>1, <2>3, ClientMoves DEF Interrupt
<1>6. CASE Close
  BY <1>6, CloseStrategySafe, ClientMoves DEF Close
<1>7. QED
  BY <1>2, <1>3, <1>4, <1>5, <1>6

(* A new send: what is still on the way outlived its own.                  *)
LEMMA SendStep ==
  ASSUME RequestInv, NEW op \in Ops, SendRequest(op)
  PROVE  RequestInv'
<1> USE RequestAssumption DEF RequestInv, SendRequest, config, connection, world, effects
<1>1. /\ client.send \in Nat /\ client.send < MaxSends /\ op \in Operations
      /\ client'.send = client.send + 1 /\ client'.send \in Sends
      /\ client'.at = "connecting" /\ client'.op = op /\ client'.by = client.by
  BY DEF TypeOK, ClientState, Sends, At
<1>2. TypeOK'
  <2>1. client' \in ClientState
    <3>1. client.send + 1 \in 0..MaxSends
      BY <1>1
    <3>2. QED
      BY <1>1, <3>1, BeforeStep DEF ClientState
  <2>2. outlived' \in BOOLEAN
    BY DEF TypeOK
  <2>3. QED
    BY <2>1, <2>2 DEF TypeOK
<1>3. SendIsCounted'
  BY <1>1 DEF SendIsCounted, At
<1>4. CopiesAreSent'
  <2>1. ASSUME NEW c \in copies
        PROVE  c.send <= client'.send /\ c.send # client'.send
    <3>1. c.send \in Nat /\ c.send <= client.send
      BY DEF CopiesAreSent, TypeOK, CopyState, Sends
    <3>2. QED
      BY <1>1, <3>1
  <2>2. QED
    BY <2>1 DEF CopiesAreSent
<1>5. ASSUME NEW s \in Sends
      PROVE  executed'[s] + Cardinality(CopiesOf(s)') <= AttemptsMade(s)'
  <2>1. executed[s] + Cardinality(CopiesOf(s)) <= AttemptsMade(s)
    BY DEF ExecutedPerAttempt
  <2>2. AttemptsMade(s)' = AttemptsMade(s)
    BY <1>1 DEF AttemptsMade, Sending, At, Sends
  <2>3. CopiesOf(s)' = CopiesOf(s)
    BY DEF CopiesOf
  <2>4. QED
    BY <2>1, <2>2, <2>3
<1>6. ExecutedPerAttempt'
  BY <1>5 DEF ExecutedPerAttempt
<1>7. AnsweredIsOnDisk'
  <2>1. last' <= client'.send
    <3>1. last \in Nat /\ last <= client.send
      BY DEF AnsweredIsOnDisk, TypeOK, None, Sends
    <3>2. QED
      BY <1>1, <3>1
  <2>2. QED
    BY <1>1, <2>1 DEF AnsweredIsOnDisk, At
<1>8. AddressIsSync' /\ AstrayOnlyWhenStale' /\ StopsForAReason' /\ NoOrphanTunnel'
  BY <1>1 DEF AddressIsSync, AstrayOnlyWhenStale, StopsForAReason, NoOrphanTunnel, At
<1>9. QED
  BY <1>2, <1>3, <1>4, <1>6, <1>7, <1>8

(* An attempt: the first one, or the next after a failure.                 *)
LEMMA AttemptStep ==
  ASSUME RequestInv, Post \/ Retry
  PROVE  RequestInv'
<1> USE RequestAssumption DEF RequestInv, config, connection, world, effects
<1>0. client.then = "none"
  BY DEF Post, Retry, StopsForAReason, At, TypeOK, ClientState
<1> DEFINE n == client'.attempt
           c == [changes |-> client.op \in Changing, send |-> client.send, attempt |-> n]
<1>1. /\ client.send \in Sends /\ client.op \in Operations /\ n \in Attempts
      /\ client' = [client EXCEPT !.at = "waiting", !.attempt = n, !.answer = "none", !.by = 0]
      /\ \/ Sending /\ n = 1
         \/ At("waiting") /\ n = client.attempt + 1
      /\ copies' = copies \/ copies' = copies \cup {c}
  <2>1. CASE Post
    BY <1>0, <2>1 DEF Post, Put, SendIsCounted, At, Sending, Attempts, TypeOK, ClientState
  <2>2. CASE Retry
    BY <1>0, <2>2 DEF Retry, Retryable, Put, SendIsCounted, At, Attempts, TypeOK, ClientState
  <2>3. QED
    BY <2>1, <2>2
<1>1a. c.send = client.send /\ c.changes = (client.op \in Changing) /\ c \in CopyState
  BY <1>1 DEF CopyState
<1> HIDE DEF c
<1>2. /\ client'.at = "waiting" /\ client'.send = client.send /\ client'.op = client.op
      /\ client'.by = 0 /\ client'.then = "none" /\ ~Sending' /\ At("waiting")'
  BY <1>0, <1>1 DEF TypeOK, ClientState, Sending, At
<1>3. UNCHANGED <<config, connection, world, effects, closed, interrupts, last, outlived>>
  BY DEF Post, Retry
<1>4. TypeOK'
  <2>1. client' \in ClientState
    <3>1. n \in 0..MaxRetries + 1 /\ 0 \in 0..MaxPods
      BY <1>1 DEF Attempts
    <3>2. QED
      BY <1>1, <3>1, BeforeStep DEF ClientState, Answers
  <2>2. copies' \subseteq CopyState
    BY <1>1, <1>1a DEF TypeOK
  <2>3. QED
    BY <1>3, <2>1, <2>2 DEF TypeOK
<1>5. SendIsCounted'
  BY <1>1, <1>2 DEF SendIsCounted, At
<1>6. CopiesAreSent'
  <2>1. IsFiniteSet(copies')
    BY <1>1, FS_AddElement DEF CopiesAreSent
  <2>2. ASSUME NEW d \in copies'
        PROVE  /\ d.send <= client'.send
               /\ d.send = client'.send => d.changes = (client'.op \in Changing)
    <3>1. CASE d = c
      BY <1>1a, <1>1, <1>2, <3>1 DEF Sends
    <3>2. CASE d \in copies
      BY <1>1, <1>2, <3>2 DEF CopiesAreSent
    <3>3. QED
      BY <1>1, <3>1, <3>2
  <2>3. QED
    BY <1>2, <2>1, <2>2 DEF CopiesAreSent
<1>7. ASSUME NEW s \in Sends
      PROVE  executed'[s] + Cardinality(CopiesOf(s)') <= AttemptsMade(s)'
  <2>1. executed[s] + Cardinality(CopiesOf(s)) <= AttemptsMade(s)
    BY DEF ExecutedPerAttempt
  <2>2. /\ Cardinality(CopiesOf(s)) \in Nat
        /\ \/ CopiesOf(s)' = CopiesOf(s)
           \/ client.send = s /\ Cardinality(CopiesOf(s)') \in Nat
              /\ Cardinality(CopiesOf(s)') <= Cardinality(CopiesOf(s)) + 1
    <3>1. CASE copies' = copies
      BY <3>1, FS_Subset, FS_CardinalityType DEF CopiesOf, CopiesAreSent
    <3>2. CASE copies' = copies \cup {c}
      BY <1>1a, <3>2, CopyAdded, FS_Subset, FS_CardinalityType DEF CopiesAreSent, CopiesOf
    <3>3. QED
      BY <1>1, <3>1, <3>2
  <2>3. CASE s # client.send
    <3>1. AttemptsMade(s)' = AttemptsMade(s)
      BY <1>1, <1>2, <2>3 DEF AttemptsMade, Sends
    <3>2. QED
      BY <1>3, <2>1, <2>2, <2>3, <3>1
  <2>4. CASE s = client.send
    <3>1. AttemptsMade(s)' = AttemptsMade(s) + 1 /\ AttemptsMade(s) \in Nat
      BY <1>1, <1>2, <2>4 DEF AttemptsMade, Sends, Sending, At, TypeOK, ClientState
    <3>2. executed[s] \in Nat
      BY DEF TypeOK
    <3>3. QED
      BY <1>3, <2>1, <2>2, <3>1, <3>2
  <2>5. QED
    BY <2>3, <2>4
<1>8. ExecutedPerAttempt'
  BY <1>7 DEF ExecutedPerAttempt
<1>9. AnsweredIsOnDisk'
  <2>1. client'.by # pod /\ client'.by <= pod
    BY <1>2 DEF TypeOK
  <2>2. QED
    BY <1>1a, <1>1, <1>2, <1>3, <2>1 DEF AnsweredIsOnDisk
<1>10. AddressIsSync' /\ AstrayOnlyWhenStale' /\ StopsForAReason' /\ NoOrphanTunnel'
  <2>1. ~At("idle") /\ ~At("starting")
    BY DEF Post, Retry, At
  <2>2. QED
    BY <1>2, <1>3, <2>1 DEF AddressIsSync, AstrayOnlyWhenStale, StopsForAReason, NoOrphanTunnel, At
<1>11. QED
  BY <1>4, <1>5, <1>6, <1>8, <1>9, <1>10

(* What serving a copy does to the client: it may get an answer.           *)
LEMMA AnswerShape ==
  ASSUME RequestInv, NEW c \in copies,
         \/ Answer(c, Answers, pod) \/ Answer(c, Answers, None)
         \/ Answer(c, {"4xx", "5xx", "none"}, None) \/ RouterGivesUp(c)
  PROVE  /\ client' \in ClientState
         /\ client'.at = client.at /\ client'.op = client.op
         /\ client'.send = client.send /\ client'.attempt = client.attempt
         /\ client'.then = client.then
         /\ client'.by \in {client.by, pod, None} /\ client'.by <= pod
         /\ client'.by # client.by => IsCurrent(c)
<1>1. client \in ClientState /\ client.by <= pod /\ pod \in 1..MaxPods /\ 0 \in 0..MaxPods
  BY RequestAssumption, BeforeStep DEF RequestInv, TypeOK
<1>2. ASSUME NEW answers \in SUBSET Answers, NEW by \in {pod, None}, Answer(c, answers, by)
      PROVE  \/ client' = client
             \/ IsCurrent(c) /\ \E a \in Answers :
                  client' = [client EXCEPT !.answer = a, !.by = by]
  BY <1>2 DEF Answer
<1>3. \/ client' = client
      \/ IsCurrent(c) /\ \E a \in Answers : \E by \in {client.by, pod, None} :
           client' = [client EXCEPT !.answer = a, !.by = by]
  <2>1. CASE RouterGivesUp(c)
    <3>1. client' = [client EXCEPT !.answer = "5xx", !.by = client.by]
      BY <1>1, <2>1 DEF RouterGivesUp, ClientState
    <3>2. QED
      BY <2>1, <3>1 DEF RouterGivesUp, Answers
  <2>2. CASE ~RouterGivesUp(c)
    BY <1>2, <2>2 DEF Answers
  <2>3. QED
    BY <2>1, <2>2
<1>4. CASE client' = client
  BY <1>1, <1>4
<1>5. ASSUME IsCurrent(c), NEW a \in Answers, NEW by \in {client.by, pod, None},
             client' = [client EXCEPT !.answer = a, !.by = by]
      PROVE  /\ client' \in ClientState
             /\ client'.at = client.at /\ client'.op = client.op
             /\ client'.send = client.send /\ client'.attempt = client.attempt
             /\ client'.then = client.then
             /\ client'.by = by /\ by <= pod
  <2>1. by \in 0..MaxPods /\ by <= pod
    BY <1>1 DEF None, ClientState
  <2>2. QED
    BY <1>1, <1>5, <2>1 DEF ClientState
<1>6. QED
  BY <1>3, <1>4, <1>5

(* A copy is carried out by the pod or by a stranger, is lost, or is given *)
(* up by the router.                                                       *)
LEMMA ServeStep ==
  ASSUME RequestInv, Serve
  PROVE  RequestInv'
<1> USE RequestAssumption DEF RequestInv
<1>1. PICK c \in copies :
        Execute(c) \/ ExecuteElsewhere(c) \/ Unreachable(c) \/ RouterGivesUp(c)
  BY DEF Serve
<1>2. UNCHANGED <<config, connection, world, closed, interrupts, last, outlived>>
  BY DEF Serve
<1>3. /\ client' \in ClientState
      /\ client'.at = client.at /\ client'.op = client.op
      /\ client'.send = client.send /\ client'.attempt = client.attempt
      /\ client'.then = client.then
      /\ client'.by \in {client.by, pod, None} /\ client'.by <= pod
      /\ client'.by # client.by => IsCurrent(c)
  BY <1>1, AnswerShape DEF Execute, ExecuteElsewhere, Unreachable
<1>4. c \in CopyState /\ c.send \in Sends /\ c.changes \in BOOLEAN
  BY DEF TypeOK, CopyState
<1>5. ASSUME NEW s \in Sends
      PROVE  /\ executed'[s] + Cardinality(CopiesOf(s)') <= AttemptsMade(s)'
             /\ executed'[s] \in 0..MaxRetries + 1
  <2>1. /\ executed[s] + Cardinality(CopiesOf(s)) <= AttemptsMade(s)
        /\ executed[s] \in Nat /\ Cardinality(CopiesOf(s)) \in Nat
    BY FS_Subset, FS_CardinalityType DEF ExecutedPerAttempt, TypeOK, CopiesOf, CopiesAreSent
  <2>2. AttemptsMade(s)' = AttemptsMade(s) /\ AttemptsMade(s) \in 0..MaxRetries + 1
    BY <1>3 DEF AttemptsMade, Sending, At, TypeOK, ClientState
  <2>3. CASE RouterGivesUp(c)
    BY <2>1, <2>2, <2>3 DEF RouterGivesUp, effects, CopiesOf
  <2>4. CASE copies' = copies \ {c}
    <3>1. /\ Cardinality(CopiesOf(s)') \in Nat
          /\ c.send = s => Cardinality(CopiesOf(s)') = Cardinality(CopiesOf(s)) - 1
          /\ c.send # s => CopiesOf(s)' = CopiesOf(s)
      BY <2>4, CopyRemoved DEF CopiesAreSent
    <3>2. \/ executed' = executed
          \/ executed' = [executed EXCEPT ![c.send] = @ + 1]
      BY <1>1 DEF Execute, ExecuteElsewhere, Unreachable, RouterGivesUp, effects
    <3>3. /\ c.send = s => executed'[s] \in {executed[s], executed[s] + 1}
          /\ c.send # s => executed'[s] = executed[s]
      BY <3>2 DEF TypeOK
    <3>4. QED
      BY <2>1, <2>2, <3>1, <3>3
  <2>5. QED
    BY <1>1, <2>3, <2>4 DEF Execute, ExecuteElsewhere, Unreachable
<1>6. /\ copies' \subseteq copies /\ IsFiniteSet(copies')
  BY <1>1, FS_RemoveElement
  DEF Execute, ExecuteElsewhere, Unreachable, RouterGivesUp, CopiesAreSent
<1>7. \/ UNCHANGED disk
      \/ Target = pod /\ c.changes /\ disk' = c.send
  BY <1>1 DEF Execute, ExecuteElsewhere, Unreachable, RouterGivesUp, effects
<1>8. \/ UNCHANGED astray
      \/ Target \in taken /\ astray' = astray \cup {c.send}
  BY <1>1 DEF Execute, ExecuteElsewhere, Unreachable, RouterGivesUp, effects
<1>9. TypeOK'
  <2>1. executed' \in [Sends -> 0..MaxRetries + 1]
    <3>1. executed' = [s \in Sends |-> executed'[s]]
      BY <1>1
      DEF Execute, ExecuteElsewhere, Unreachable, RouterGivesUp, effects, TypeOK
    <3>2. QED
      BY <1>5, <3>1
  <2>2. QED
    BY <1>2, <1>3, <1>4, <1>6, <1>7, <1>8, <2>1 DEF TypeOK, config, connection, world
<1>10. SendIsCounted' /\ CopiesAreSent'
  BY <1>3, <1>6 DEF SendIsCounted, CopiesAreSent, At, Sending
<1>11. ExecutedPerAttempt'
  BY <1>5 DEF ExecutedPerAttempt
<1>12. AnsweredIsOnDisk'
  <2>1. last' <= client'.send /\ client'.by <= pod'
    BY <1>2, <1>3 DEF AnsweredIsOnDisk, world
  <2>2. ASSUME ~outlived
        PROVE  /\ last' <= disk'
               /\ \A d \in copies' : d.send = client'.send
               /\ At("waiting") /\ client'.by = pod /\ client.op \in Changing =>
                    disk' = client'.send
    <3>1. c.send = client.send
      BY <2>2 DEF AnsweredIsOnDisk
    <3>2. disk' = disk \/ disk' = client.send
      BY <1>7, <3>1
    <3>3. last' <= disk'
      BY <1>2, <2>2, <3>2 DEF AnsweredIsOnDisk
    <3>4. \A d \in copies' : d.send = client'.send
      BY <1>3, <1>6, <2>2 DEF AnsweredIsOnDisk
    <3>5. ASSUME At("waiting"), client'.by = pod, client.op \in Changing
          PROVE  disk' = client'.send
      <4>1. CASE client'.by = client.by
        BY <1>3, <2>2, <3>2, <3>5, <4>1 DEF AnsweredIsOnDisk
      <4>2. CASE client'.by # client.by
        <5>1. c.changes
          BY <3>1, <3>5 DEF CopiesAreSent
        <5>2. client \in ClientState /\ pod # None
          BY DEF TypeOK, None
        <5>3. ASSUME NEW answers, Answer(c, answers, None)
              PROVE  client'.by \in {client.by, None}
          BY <5>2, <5>3 DEF Answer, ClientState
        <5>4. ~ExecuteElsewhere(c) /\ ~Unreachable(c)
          BY <3>5, <4>2, <5>2, <5>3 DEF ExecuteElsewhere, Unreachable
        <5>5. ~RouterGivesUp(c)
          BY <4>2, <5>2 DEF RouterGivesUp, ClientState
        <5>6. Execute(c)
          BY <1>1, <5>4, <5>5
        <5>7. QED
          BY <1>3, <3>1, <5>1, <5>6 DEF Execute
      <4>3. QED
        BY <4>1, <4>2
    <3>6. QED
      BY <3>3, <3>4, <3>5
  <2>3. QED
    BY <1>2, <1>3, <2>1, <2>2 DEF AnsweredIsOnDisk, At, world
<1>13. AstrayOnlyWhenStale'
  <2>1. CASE UNCHANGED astray
    BY <1>2, <2>1 DEF AstrayOnlyWhenStale, config, world
  <2>2. CASE Target \in taken
    <3>1. Target # pod
      BY <2>2 DEF TypeOK
    <3>2. podIP # None /\ podIP # pod /\ kind = "sync"
      BY <3>1 DEF Target, AddressIsSync
    <3>3. QED
      BY <1>2, <3>2 DEF AstrayOnlyWhenStale, config, world
  <2>3. QED
    BY <1>8, <2>1, <2>2
<1>14. AddressIsSync' /\ StopsForAReason' /\ NoOrphanTunnel'
  BY <1>2, <1>3 DEF AddressIsSync, StopsForAReason, NoOrphanTunnel, At, config, connection
<1>15. QED
  BY <1>9, <1>10, <1>11, <1>12, <1>13, <1>14

(* The tunnel, the Gateway, the pod and its old addresses.                 *)
LEMMA WorldStep ==
  ASSUME RequestInv, TunnelDies \/ GatewayMoves \/ PodReplaced \/ AddressTaken
  PROVE  RequestInv'
<1> USE RequestAssumption
    DEF RequestInv, config, connection, world, effects, TunnelDies, GatewayMoves,
        PodReplaced, AddressTaken
<1>1. UNCHANGED <<config, base, process, started, forsaken, executed, astray, copies, client, closed,
                  interrupts, outlived>>
  OBVIOUS
<1>2. /\ alive' \subseteq alive
      /\ \/ UNCHANGED <<pod, disk, last>>
         \/ pod' = pod + 1 /\ pod < MaxPods /\ disk' = None /\ last' = None
      /\ gateway' \in {1, 2} /\ taken' \subseteq 1..(pod' - 1)
  <2>1. pod \in 1..MaxPods /\ taken \subseteq 1..(pod - 1) /\ gateway \in {1, 2}
    BY DEF TypeOK
  <2>2. CASE TunnelDies \/ GatewayMoves
    BY <2>1, <2>2
  <2>3. CASE PodReplaced
    BY <2>1, <2>3
  <2>4. CASE AddressTaken
    BY <2>1, <2>4
  <2>5. QED
    BY <2>2, <2>3, <2>4
<1>3. TypeOK'
  BY <1>1, <1>2 DEF TypeOK
<1>4. SendIsCounted' /\ CopiesAreSent' /\ AddressIsSync'
  BY <1>1, <1>2 DEF SendIsCounted, CopiesAreSent, At, Sending, AddressIsSync
<1>4a. StopsForAReason' /\ NoOrphanTunnel'
  BY <1>1, <1>2 DEF StopsForAReason, NoOrphanTunnel, At
<1>5. ExecutedPerAttempt'
  BY <1>1 DEF ExecutedPerAttempt, CopiesOf, AttemptsMade, Sending, At
<1>6. AnsweredIsOnDisk'
  <2>1. CASE UNCHANGED <<pod, disk, last>>
    BY <1>1, <2>1 DEF AnsweredIsOnDisk, At
  <2>2. CASE pod' = pod + 1 /\ disk' = None /\ last' = None
    <3>1. client.by <= pod /\ client.by \in Nat /\ pod \in Nat /\ client.send \in Nat
      BY DEF AnsweredIsOnDisk, TypeOK, ClientState
    <3>2. client'.by # pod' /\ client'.by <= pod' /\ last' <= client'.send /\ last' <= disk'
      BY <1>1, <2>2, <3>1 DEF None
    <3>3. QED
      BY <1>1, <3>2 DEF AnsweredIsOnDisk
  <2>3. QED
    BY <1>2, <2>1, <2>2
<1>7. AstrayOnlyWhenStale'
  BY <1>1, <1>2 DEF AstrayOnlyWhenStale, TypeOK
<1>8. QED
  BY <1>3, <1>4, <1>4a, <1>5, <1>6, <1>7

(* Every action, those left included.                                      *)
LEMMA RequestStep ==
  ASSUME RequestInv, [Next]_vars
  PROVE  RequestInv'
<1>1. CASE UNCHANGED vars
  BY <1>1
  DEF vars, config, connection, world, effects, RequestInv, TypeOK, SendIsCounted,
      CopiesAreSent, ExecutedPerAttempt, AnsweredIsOnDisk, AddressIsSync, AstrayOnlyWhenStale,
      StopsForAReason, NoOrphanTunnel, CopiesOf, AttemptsMade, Sending, At
<1>2. QED
  BY <1>1, SendStep, ConnectStep, AttemptStep, EndStep, ServeStep, WorldStep DEF Next, Proceed

(* A new handle has sent nothing.                                          *)
LEMMA RequestInit == Init => RequestInv
<1> SUFFICES ASSUME Init
             PROVE  RequestInv
  OBVIOUS
<1> USE RequestAssumption DEF Init, None
<1>1. TypeOK
  <2>1. client \in ClientState
    BY DEF ClientState, Answers
  <2>2. /\ 0 \in 0..MaxTunnels /\ 0 \in 0..MaxTunnels + 2 /\ 0 \in 0..MaxInterrupts
        /\ 1 \in 1..MaxPods /\ 0 \in 0..MaxRetries + 1
    OBVIOUS
  <2>3. QED
    BY <2>1, <2>2 DEF TypeOK
<1>2. SendIsCounted /\ AnsweredIsOnDisk /\ AddressIsSync /\ AstrayOnlyWhenStale
      /\ StopsForAReason /\ NoOrphanTunnel
  BY DEF SendIsCounted, AnsweredIsOnDisk, AddressIsSync, AstrayOnlyWhenStale, StopsForAReason,
         NoOrphanTunnel, At
<1>3. CopiesAreSent
  BY FS_EmptySet DEF CopiesAreSent
<1>4. ExecutedPerAttempt
  BY FS_EmptySet DEF ExecutedPerAttempt, CopiesOf, AttemptsMade, Sends, Sending
<1>5. QED
  BY <1>1, <1>2, <1>3, <1>4 DEF RequestInv

(* RequestInv is inductive.                                                *)
LEMMA RequestInvariant == Spec => []RequestInv
BY RequestInit, RequestStep, PTL DEF Spec

-----------------------------------------------------------------------------
(* No send is carried out more often than it was attempted, by whatever    *)
(* pods and however long its copies live (connector.py 191-203,            *)
(* async_connector.py 99-115); and the rest of the types.                  *)
THEOREM RequestTypeOK == Spec => []TypeOK
<1>1. RequestInv => TypeOK
  BY DEF RequestInv
<1>2. QED
  BY <1>1, RequestInvariant, PTL

(* An acknowledged write is on the disk of the pod that answered until a   *)
(* later one is, unless a copy outlived its send (connector.py 244-260).   *)
THEOREM AnsweredWriteStays == Spec => []AcknowledgedWriteStays
<1>1. RequestInv => AcknowledgedWriteStays
  BY DEF RequestInv, AnsweredIsOnDisk, AcknowledgedWriteStays, TypeOK, None, Sends
<1>2. QED
  BY <1>1, RequestInvariant, PTL

(* A request goes astray only by an address that is stale (sandbox.py      *)
(* 58-69, connector.py 237, async_connector.py 95).                        *)
THEOREM StraysAreStale == Spec => []AstrayOnlyWhenStale
<1>1. RequestInv => AstrayOnlyWhenStale
  BY DEF RequestInv
<1>2. QED
  BY <1>1, RequestInvariant, PTL

(* No kubectl process is forgotten, however sends end and whatever is      *)
(* interrupted, but for one whose own start or stop was cut short          *)
(* (connector.py 106-161).                                                 *)
THEOREM TunnelsAreOwned == Spec => []NoOrphanTunnel
<1>1. RequestInv => NoOrphanTunnel
  BY DEF RequestInv
<1>2. QED
  BY <1>1, RequestInvariant, PTL
=============================================================================
