------------------------------- MODULE LinkTimers -------------------------------
(***************************************************************************)
(* The clocks of a link (Runtime.cpp: linkLoop, processRuntimeWifi,         *)
(* receiveFrames, sendHeartbeat, millisecondsUntilNextIoWork, waitForIo).   *)
(* The I/O task gives up a handshake, a partial frame, an unanswered        *)
(* heartbeat or a silent Hub after some time, and sleeps until the first of *)
(* these deadlines.  Times are millis(), which wraps.  Time passes while    *)
(* the task sleeps and, up to a bound, within a pass: a read or a write     *)
(* takes time, and other tasks run.  What the application task leaves to be *)
(* sent may come at any time, and is looked at as a wait is computed.       *)
(* External: the Hub, the transport, the station.                           *)
(***************************************************************************)
EXTENDS Integers

CONSTANTS
    ClockSize,          \* 2^32: millis() is a uint32_t
    kWifiTimeout, kWifiRetry, kReconnect, kConnectTimeout, kFrameTimeout,
    heartbeatInterval, kHeartbeatTimeout, kSafetyWake, kFallbackPoll,
    kPortFlush,
    MaxPassTime,        \* bound: time that passes within a pass
    kPrompt             \* for the properties: how fast a prompt Hub answers

Clock == 0 .. ClockSize - 1

VARIABLES
    clock,              \* millis()
    io,                 \* where the I/O task stands
    now,                \* the local variable of linkLoop
    wait,               \* what is left of the sleep
    passTime,           \* how long the pass has taken
    link,               \* "Joining" or linkState_: "Backoff", "Handshake", "Active"
    eventFd,            \* wakeFd_ is a descriptor: the task can wait for its socket
    wifiUp, handlers,   \* station joined; networkEventHandlersRegistered_
    wifiDeadline, wifiRetryAt, reconnectAt, linkStateStartedAt,
    lastReceivedAt, lastHeartbeatAt, heartbeatOutstanding, rxFrameStartedAt,
    lastPortFlushAt,
    toSend,             \* what the task finds left to send as it computes a wait
    inbox,              \* what can be read: "none", "part" of a frame, "frame" or "ack"
    steps,              \* frames the handshake still takes
    silence,            \* history: time since the last frame, or the first message
    owed,               \* history: time since the Hub owes an answer, or NotOwed
    late                \* history: the Hub has not been prompt in this connection

timerVars ==
    <<clock, io, now, wait, passTime, link, eventFd, wifiUp, handlers, wifiDeadline,
      wifiRetryAt, reconnectAt, linkStateStartedAt, lastReceivedAt, lastHeartbeatAt,
      heartbeatOutstanding, rxFrameStartedAt, lastPortFlushAt, toSend, inbox, steps,
      silence, owed, late>>

ioVars == <<io, now, wait, passTime>>
wifiVars == <<eventFd, wifiUp, handlers, wifiDeadline, wifiRetryAt>>
sessionVars == <<reconnectAt, linkStateStartedAt, lastReceivedAt, lastHeartbeatAt,
                 heartbeatOutstanding, rxFrameStartedAt, lastPortFlushAt, toSend>>
hubVars == <<inbox, steps, silence, owed, late>>

NotOwed == -1
Handshakes == 2

\* "tools": a Tool result, or the timeout of a call whose deadline has come.
\* "ports": outboundPortsDirty.
ToSend == {"tools", "ports"}

\* startRuntimeWifi, seen from a device that starts.
TimersInit ==
    /\ clock \in Clock /\ io = "compute" /\ now = 0 /\ wait = 0 /\ passTime = 0
    /\ link = "Joining" /\ wifiUp = FALSE /\ eventFd \in BOOLEAN /\ handlers \in BOOLEAN
    /\ wifiDeadline = (clock + kWifiTimeout) % ClockSize /\ wifiRetryAt = 0
    /\ reconnectAt = 0 /\ linkStateStartedAt = 0 /\ lastReceivedAt = 0
    /\ lastHeartbeatAt = 0 /\ heartbeatOutstanding = FALSE /\ rxFrameStartedAt = 0
    /\ lastPortFlushAt = 0 /\ toSend = {}
    /\ inbox = "none" /\ steps = 0 /\ silence = 0 /\ owed = NotOwed /\ late = FALSE
--------------------------------------------------------------------------------
\* Mutants: the older time is kept; a deadline is not slept for, or never left out.
Refreshed_Stale == now
HeartbeatDeadlines_NoLiveness ==
    IF heartbeatOutstanding THEN {} ELSE {lastHeartbeatAt + heartbeatInterval}
HeartbeatDeadlines_Both ==
    {lastReceivedAt + kHeartbeatTimeout, lastHeartbeatAt + heartbeatInterval}

minus(a, b) == (a - b) % ClockSize
timeReached(t, deadline) == minus(t, deadline) < ClockSize \div 2
millisecondsUntil(t, deadline) == IF timeReached(t, deadline) THEN 0 ELSE minus(deadline, t)

liveness == IF kHeartbeatTimeout >= 3 * heartbeatInterval THEN kHeartbeatTimeout
                                                          ELSE 3 * heartbeatInterval

\* The clock is long for the deadlines that are told from it.
TimersAssumption ==
    /\ ClockSize \in Nat \ {0} /\ heartbeatInterval \in Nat /\ kHeartbeatTimeout \in Nat
    /\ kSafetyWake \in Nat \ {0} /\ kFallbackPoll \in Nat \ {0} /\ MaxPassTime \in Nat
    /\ {kWifiTimeout, kWifiRetry, kReconnect, kConnectTimeout, kFrameTimeout} \subseteq Nat
    /\ kPortFlush \in Nat /\ kPortFlush <= ClockSize \div 2
    /\ \A limit \in {kConnectTimeout, kFrameTimeout, liveness} :
           limit <= ClockSize \div 2 /\ limit + 2 * MaxPassTime + 1 < ClockSize

\* The Hub has answered, or is asked for the next answer.
Asks == owed' = 0
Answered == owed' = NotOwed
FrameComplete == rxFrameStartedAt' = 0

\* resetSession; a time that is set before it is read again is 0 until then.
resetSession ==
    /\ lastReceivedAt' = 0 /\ lastHeartbeatAt' = 0 /\ linkStateStartedAt' = 0
    /\ heartbeatOutstanding' = FALSE /\ FrameComplete
    /\ lastPortFlushAt' = 0 /\ toSend' = {}
    /\ inbox' = "none" /\ steps' = 0 /\ silence' = 0 /\ Answered /\ late' = FALSE

\* min(kReconnectMaxMs, kReconnectMinMs << exponent) with its jitter.
disconnectAndBackoff ==
    /\ resetSession
    /\ link' = "Backoff" /\ io' = "compute"
    /\ \E delay \in 1 .. kReconnect : reconnectAt' = (clock + delay) % ClockSize
    /\ UNCHANGED <<clock, now, wait, passTime, wifiVars>>
--------------------------------------------------------------------------------
\* A pass: ioTask looks at the station first.

Goes(pc) == io' = pc /\ UNCHANGED <<clock, now, wait, passTime>>

Rejoin ==
    /\ io = "pass" /\ link = "Joining" /\ ~wifiUp
    /\ IF timeReached(clock, wifiDeadline)
          /\ (wifiRetryAt = 0 \/ timeReached(clock, wifiRetryAt))
       THEN /\ wifiRetryAt' = (clock + kWifiRetry) % ClockSize
            /\ wifiDeadline' = (clock + kWifiTimeout) % ClockSize
       ELSE UNCHANGED <<wifiRetryAt, wifiDeadline>>
    /\ Goes("compute")
    /\ UNCHANGED <<link, eventFd, wifiUp, handlers, sessionVars, hubVars>>

\* startLink
Joined ==
    /\ io = "pass" /\ link = "Joining" /\ wifiUp
    /\ link' = "Backoff" /\ reconnectAt' = clock
    /\ wifiDeadline' = 0 /\ wifiRetryAt' = 0
    /\ Goes("compute")
    /\ UNCHANGED <<eventFd, wifiUp, handlers, linkStateStartedAt, lastReceivedAt, lastHeartbeatAt,
                   heartbeatOutstanding, rxFrameStartedAt, lastPortFlushAt, toSend, hubVars>>

\* linkLoop finds the station gone: startRuntimeWifi.
LinkLost ==
    /\ io = "pass" /\ link # "Joining" /\ ~wifiUp
    /\ resetSession /\ reconnectAt' = 0
    /\ link' = "Joining" /\ handlers' \in {handlers, TRUE}
    /\ wifiDeadline' = (clock + kWifiTimeout) % ClockSize /\ wifiRetryAt' = 0
    /\ Goes("compute")
    /\ UNCHANGED <<eventFd, wifiUp>>

Connected == io = "pass" /\ wifiUp

BackoffGoesOn ==
    /\ Connected /\ link = "Backoff" /\ ~timeReached(clock, reconnectAt)
    /\ Goes("compute")
    /\ UNCHANGED <<link, wifiVars, sessionVars, hubVars>>

\* attemptConnection and connectTls
AttemptConnection ==
    /\ Connected /\ link = "Backoff" /\ timeReached(clock, reconnectAt)
    /\ \/ disconnectAndBackoff
       \/ /\ link' = "Handshake" /\ steps' = Handshakes /\ Asks
          /\ linkStateStartedAt' = clock /\ lastReceivedAt' = clock /\ reconnectAt' = 0
          /\ Goes("compute")
          /\ UNCHANGED <<wifiVars, lastHeartbeatAt, heartbeatOutstanding, rxFrameStartedAt,
                         lastPortFlushAt, toSend, inbox, silence, late>>

LinkLoop ==
    /\ Connected /\ link \in {"Handshake", "Active"}
    /\ io' = "receive" /\ now' = clock
    /\ UNCHANGED <<clock, wait, passTime, link, wifiVars, sessionVars, hubVars>>

\* The Hub closes the connection, or a frame is refused.
SocketClosed == io = "receive" /\ disconnectAndBackoff
--------------------------------------------------------------------------------
\* receiveFrames

ReadPart ==
    /\ io = "receive" /\ inbox = "part"
    /\ rxFrameStartedAt' = IF rxFrameStartedAt = 0 THEN clock ELSE rxFrameStartedAt
    /\ inbox' = "none"
    /\ UNCHANGED <<clock, ioVars, link, wifiVars, reconnectAt, linkStateStartedAt,
                   lastReceivedAt, lastHeartbeatAt, heartbeatOutstanding, lastPortFlushAt,
                   toSend, steps, silence, owed, late>>

ReadFrame ==
    /\ io = "receive" /\ inbox \in {"frame", "ack"}
    /\ FrameComplete /\ inbox' = "none" /\ silence' = 0
    /\ lastReceivedAt' = clock
    /\ UNCHANGED <<clock, ioVars, wifiVars, reconnectAt, toSend, late>>

\* ServerHello and the answers up to the last but one: the device sends the next message.
ReadHandshake ==
    /\ ReadFrame /\ link = "Handshake" /\ steps > 1
    /\ steps' = steps - 1 /\ Asks /\ linkStateStartedAt' = clock
    /\ UNCHANGED <<link, lastHeartbeatAt, heartbeatOutstanding, lastPortFlushAt>>

\* processRegisterAck
ReadRegisterAck ==
    /\ ReadFrame /\ link = "Handshake" /\ steps = 1
    /\ link' = "Active" /\ steps' = 0 /\ Answered /\ lastPortFlushAt' = clock
    /\ linkStateStartedAt' = 0 /\ lastHeartbeatAt' = clock /\ heartbeatOutstanding' = FALSE

ReadActive ==
    /\ ReadFrame /\ link = "Active" /\ inbox = "frame"
    /\ UNCHANGED <<link, steps, owed, linkStateStartedAt, lastHeartbeatAt,
                   heartbeatOutstanding, lastPortFlushAt>>

ReadHeartbeatAck ==
    /\ ReadFrame /\ link = "Active" /\ inbox = "ack"
    /\ heartbeatOutstanding' = FALSE
    /\ UNCHANGED <<link, steps, owed, linkStateStartedAt, lastHeartbeatAt, lastPortFlushAt>>

FrameOverdue == rxFrameStartedAt # 0 /\ minus(clock, rxFrameStartedAt) > kFrameTimeout

\* Back in linkLoop the time is read again, since timestamps have moved.
Refreshed == clock

EndReceive ==
    /\ io = "receive" /\ inbox = "none"
    /\ \/ FrameOverdue /\ disconnectAndBackoff
       \/ /\ ~FrameOverdue
          /\ io' = "check" /\ now' = Refreshed
          /\ UNCHANGED <<clock, wait, passTime, link, wifiVars, sessionVars, hubVars>>
--------------------------------------------------------------------------------
HandshakeOverdue(t) == link = "Handshake" /\ minus(t, linkStateStartedAt) > kConnectTimeout

CheckHandshake ==
    /\ io = "check" /\ link = "Handshake"
    /\ \/ HandshakeOverdue(now) /\ disconnectAndBackoff
       \/ /\ ~HandshakeOverdue(now)
          /\ Goes("compute")
          /\ UNCHANGED <<link, wifiVars, sessionVars, hubVars>>

\* expireToolCalls and flushToolResults, after which the time is read once more.
FlushResults ==
    /\ io = "check" /\ link = "Active"
    /\ \/ disconnectAndBackoff
       \/ /\ io' = "heartbeat" /\ now' = Refreshed
          /\ UNCHANGED <<clock, wait, passTime, link, wifiVars, sessionVars, hubVars>>

AckOverdue(t) == link = "Active" /\ heartbeatOutstanding /\ minus(t, lastHeartbeatAt) > liveness
HubSilent(t) == link = "Active" /\ minus(t, lastReceivedAt) > liveness
HeartbeatDue(t) ==
    link = "Active" /\ ~heartbeatOutstanding /\ minus(t, lastHeartbeatAt) >= heartbeatInterval

CheckHeartbeat ==
    /\ io = "heartbeat"
    /\ \/ (AckOverdue(now) \/ HubSilent(now)) /\ disconnectAndBackoff
       \/ /\ ~AckOverdue(now) /\ ~HubSilent(now)
          /\ Goes(IF HeartbeatDue(now) THEN "send" ELSE "ports")
          /\ UNCHANGED <<link, wifiVars, sessionVars, hubVars>>

SendHeartbeat ==
    /\ io = "send"
    /\ \/ disconnectAndBackoff
       \/ /\ lastHeartbeatAt' = clock /\ heartbeatOutstanding' = TRUE
          /\ Asks /\ Goes("ports")
          /\ UNCHANGED <<link, wifiVars, reconnectAt, linkStateStartedAt, lastReceivedAt,
                         rxFrameStartedAt, lastPortFlushAt, toSend, inbox, steps, silence,
                         late>>

FlushDue(t) == minus(t, lastPortFlushAt) >= kPortFlush

\* sendPortBatch, which looks for dirty ports by itself.
FlushPorts ==
    /\ io = "ports"
    /\ \/ FlushDue(now) /\ disconnectAndBackoff
       \/ /\ lastPortFlushAt' = IF FlushDue(now) THEN clock ELSE lastPortFlushAt
          /\ Goes("compute")
          /\ UNCHANGED <<link, wifiVars, reconnectAt, linkStateStartedAt, lastReceivedAt,
                         lastHeartbeatAt, heartbeatOutstanding, rxFrameStartedAt, toSend,
                         hubVars>>
--------------------------------------------------------------------------------
\* millisecondsUntilNextIoWork: the deadlines, and what is polled for.

HeartbeatDeadlines ==
    {lastReceivedAt + liveness,
     lastHeartbeatAt + IF heartbeatOutstanding THEN liveness ELSE heartbeatInterval}

PortDeadlines == IF "ports" \in toSend THEN {lastPortFlushAt + kPortFlush} ELSE {}

FrameDeadlines == IF rxFrameStartedAt = 0 THEN {} ELSE {rxFrameStartedAt + kFrameTimeout}
StateDeadlines ==
    CASE link = "Joining" -> {wifiDeadline} \cup ({wifiRetryAt} \ {0})
      [] link = "Backoff" -> {reconnectAt}
      [] link = "Handshake" -> {linkStateStartedAt + kConnectTimeout}
      [] link = "Active" -> HeartbeatDeadlines \cup PortDeadlines

\* A publisher leaves a value, a handler its result, the deadline of a call comes.
Leaves ==
    /\ io = "compute" /\ link = "Active" /\ toSend = {}
    /\ toSend' \in SUBSET ToSend
    /\ UNCHANGED <<clock, ioVars, link, wifiVars, reconnectAt, linkStateStartedAt,
                   lastReceivedAt, lastHeartbeatAt, heartbeatOutstanding, rxFrameStartedAt,
                   lastPortFlushAt, hubVars>>

\* Without an eventfd the socket is polled.
Waits ==
    {kSafetyWake}
    \cup {millisecondsUntil(clock, d % ClockSize) : d \in FrameDeadlines \cup StateDeadlines}
    \cup (IF link = "Joining" /\ ~handlers THEN {kFallbackPoll} ELSE {})
    \cup (IF link \in {"Handshake", "Active"} /\ ~eventFd THEN {kFallbackPoll} ELSE {})
    \cup (IF link \in {"Handshake", "Active"} /\ inbox # "none" THEN {0} ELSE {})
    \cup (IF "tools" \in toSend THEN {0} ELSE {})

Compute ==
    /\ io = "compute"
    /\ wait' = CHOOSE w \in Waits : \A v \in Waits : w <= v
    /\ io' = "asleep" /\ now' = 0 /\ toSend' = {}
    /\ UNCHANGED <<clock, passTime, link, wifiVars, reconnectAt, linkStateStartedAt,
                   lastReceivedAt, lastHeartbeatAt, heartbeatOutstanding, rxFrameStartedAt,
                   lastPortFlushAt, hubVars>>

\* waitForIo ends: in time, or because of a signal or of bytes on the socket.
Wake ==
    /\ io = "asleep"
    /\ io' = "pass" /\ wait' = 0 /\ passTime' = 0
    /\ UNCHANGED <<clock, now, link, wifiVars, sessionVars, hubVars>>
--------------------------------------------------------------------------------
\* The driver wakes the I/O task where its handler is registered.
StationEvent ==
    /\ wifiUp' = ~wifiUp
    /\ wait' = IF handlers /\ io = "asleep" THEN 0 ELSE wait
    /\ UNCHANGED <<clock, io, now, passTime, link, eventFd, handlers, wifiDeadline,
                   wifiRetryAt, sessionVars, hubVars>>

\* Bytes of a frame, or the rest of it: an answer that is owed, or a frame of the
\* Hub's own.  They wake a task that waits for the socket.
HubSends ==
    /\ link \in {"Handshake", "Active"} /\ inbox = "none"
    /\ \/ inbox' = "part" /\ UNCHANGED owed
       \/ inbox' = "frame" /\ link = "Handshake" /\ owed # NotOwed /\ Answered
       \/ inbox' = "frame" /\ link = "Active" /\ UNCHANGED owed
       \/ inbox' = "ack" /\ link = "Active" /\ owed # NotOwed /\ Answered
    /\ wait' = IF io = "asleep" /\ eventFd THEN 0 ELSE wait
    /\ late' = (late \/ (rxFrameStartedAt # 0 /\ inbox' = "part"))
    /\ UNCHANGED <<clock, io, now, passTime, link, wifiVars, sessionVars, steps, silence>>

Older(age) == IF age = NotOwed THEN age ELSE age + 1

\* A millisecond passes.  A prompt Hub answers, and ends a frame it has begun, within
\* kPrompt.
Tick ==
    /\ IF io = "asleep" THEN wait > 0 /\ wait' = wait - 1 /\ UNCHANGED passTime
                        ELSE passTime < MaxPassTime /\ passTime' = passTime + 1 /\ UNCHANGED wait
    /\ clock' = (clock + 1) % ClockSize
    /\ owed' = Older(owed)
    /\ silence' = IF link \in {"Handshake", "Active"} THEN silence + 1 ELSE 0
    /\ late' = \/ late \/ owed' > kPrompt
               \/ /\ rxFrameStartedAt # 0 /\ inbox = "none"
                  /\ minus(clock', rxFrameStartedAt) > kPrompt
    /\ UNCHANGED <<io, now, link, wifiVars, sessionVars, inbox, steps>>

Pass ==
    \/ Rejoin \/ Joined \/ LinkLost \/ BackoffGoesOn \/ AttemptConnection \/ LinkLoop
    \/ SocketClosed \/ ReadPart \/ ReadHandshake \/ ReadRegisterAck \/ ReadActive
    \/ ReadHeartbeatAck \/ EndReceive \/ CheckHandshake \/ FlushResults \/ CheckHeartbeat
    \/ SendHeartbeat \/ FlushPorts \/ Compute \/ Wake

TimersNext == Pass \/ StationEvent \/ HubSends \/ Leaves \/ Tick
TimersSpec == TimersInit /\ [][TimersNext]_timerVars
--------------------------------------------------------------------------------
\* A link to a Hub that has stopped answering is given up in time: a handshake, an
\* unanswered heartbeat and a silent session each end one pass after their
\* deadline, however long the task meant to sleep (Runtime.cpp:1089-1171, 1520-1543).
Late(age, limit) == age > limit + 1 + 2 * MaxPassTime
DeadHubIsDropped ==
    /\ link = "Handshake" => ~Late(owed, kConnectTimeout)
    /\ link = "Active" => ~Late(owed, liveness) /\ ~Late(silence, liveness)

\* How prompt a Hub must be: it answers a frame in time, and a heartbeat before the next
\* deadline, with the passes and the poll that lie between.
PromptAssumption ==
    /\ kPrompt \in Nat /\ kPrompt <= kConnectTimeout /\ kPrompt <= kFrameTimeout
    /\ heartbeatInterval + kPrompt + 3 * MaxPassTime <= liveness
    /\ 2 * kPrompt + kFallbackPoll + 3 * MaxPassTime <= liveness

\* A Hub that answers promptly keeps its link, wherever the clock wraps and
\* however the pass is delayed: "the older pre-read timestamp cannot underflow
\* against the newer state timestamp" (Runtime.cpp:1517).
PromptHubIsKept ==
    ~late => /\ ~(io = "receive" /\ inbox = "none" /\ FrameOverdue)
             /\ ~(io = "check" /\ HandshakeOverdue(now))
             /\ ~(io = "heartbeat" /\ (AckOverdue(now) \/ HubSilent(now)))

\* What a pass would do at time t.
JoinDue(t) ==
    /\ link = "Joining"
    /\ \/ wifiUp
       \/ /\ timeReached(t, wifiDeadline)
          /\ wifiRetryAt = 0 \/ timeReached(t, wifiRetryAt)
FrameDue(t) == rxFrameStartedAt # 0 /\ minus(t, rxFrameStartedAt) > kFrameTimeout
LinkDue(t) ==
    \/ link # "Joining" /\ ~wifiUp
    \/ link = "Backoff" /\ timeReached(t, reconnectAt)
    \/ inbox # "none" \/ FrameDue(t)
    \/ HandshakeOverdue(t) \/ AckOverdue(t) \/ HubSilent(t) \/ HeartbeatDue(t)
    \/ "tools" \in toSend
    \/ "ports" \in toSend /\ FlushDue(t)

\* The I/O task of a link gives the processor up: it goes round without a wait only
\* when there is something to do now or, since some deadlines are exclusive, in a
\* millisecond (Runtime.cpp:1089-1171).
Spins == io = "compute" /\ io' = "asleep" /\ wait' = 0
Soon(due(_)) == due(clock) \/ due((clock + 1) % ClockSize)
LinkWaits == [][Spins /\ link # "Joining" => Soon(LinkDue)]_timerVars

\* The same of a device that joins its network.
JoinWaits == [][Spins /\ link = "Joining" => Soon(JoinDue)]_timerVars
================================================================================
