------------------------------ MODULE IoLifecycle ------------------------------
(***************************************************************************)
(* How the I/O task of a Runtime sleeps, how the other tasks wake it, and   *)
(* how a Runtime begins and ends (Runtime.cpp: begin, ~Runtime, ioTask,     *)
(* wakeIo, waitForIo, millisecondsUntilNextIoWork, waitForAppWork;          *)
(* HampterDevice.cpp: begin and the destructor).                            *)
(*                                                                          *)
(* Three tasks leave work for the I/O task and then wake it: the            *)
(* application, the portal's HTTP task and the event loop of the Wi-Fi      *)
(* driver.  A wake is the load of wakeFd_ and the write to it or, without a *)
(* descriptor, the load of ioTaskHandle_ and the notification.  The I/O     *)
(* task looks at its work in several steps, computes how long it may sleep, *)
(* and sleeps.  What a pass does to the link is left to LinkSession: here a *)
(* flow is what the I/O task waits for.                                     *)
(*                                                                          *)
(* A wait the code shortens because of work it knows of is "now" or "poll". *)
(* Any other is "idle": it is bounded by kIoSafetyWakeMs (5 s) or a         *)
(* deadline of the link, and no property relies on its end.                 *)
(* External: eventfd and task notifications, semaphores, esp_event (which   *)
(* runs handlers under the lock that unregistering takes), httpd_stop       *)
(* (which joins the HTTP task), the station and the Hub.                    *)
(***************************************************************************)
EXTENDS Integers, FiniteSets

CONSTANTS
    EventFdFails      \* the VFS may have no eventfd: notifications instead

ASSUME LifecycleAssumption == EventFdFails \in BOOLEAN

Linking == {"Backoff", "Resolving", "Active"}
Flows == {"Starting", "Provisioning", "Joining", "Error"} \cup Linking

VARIABLES
    io,            \* where the I/O task stands
    afterJoin,     \* where it goes on when portal_.stop() has joined the HTTP task
    flow,          \* ioFlow_ and, while linking, linkState_
    wait,          \* what millisecondsUntilNextIoWork found
    app,           \* where the application task stands
    http, net,     \* where the HTTP task and the driver's event task stand
    seen,          \* task -> the wakeFd_ it loaded: is it a descriptor?
    work,          \* what the I/O task has been asked
    stopping,
    ioTaskHandle,  \* ioTaskHandle_ is set
    wakeFd,        \* wakeFd_ holds a descriptor
    fdOpen,        \* that descriptor is open
    signalled,     \* the eventfd is readable
    notified,      \* a task notification is pending
    ioTaskDone,    \* the semaphore of the end of the I/O task
    portalActive, httpServer,
    handlers,      \* networkEventHandlersRegistered_
    wifiUp,        \* WiFi.status() == WL_CONNECTED
    received,      \* what client_ has: "none", bytes on the "wire", "decrypted" bytes
    resetHandled

ioVars == <<io, afterJoin, flow, wait>>
posters == <<app, http, net, seen>>
wakeVars == <<wakeFd, fdOpen, signalled, notified>>
endVars == <<stopping, ioTaskHandle, ioTaskDone>>
portalVars == <<portalActive, httpServer>>
vars == <<ioVars, posters, work, wakeVars, endVars, portalVars,
          handlers, wifiUp, received, resetHandled>>

Posters == {"app", "http", "net"}
IoWork == {"fatal", "reset", "port", "result", "request", "ready"}

TypeOK ==
    /\ io \in {"none", "entry", "init", "initIo", "test", "orders", "flow", "compute",
               "asleep", "join", "leave", "suspended", "deleted"}
    /\ afterJoin \in {"erase", "flow", "radio", "leave"}
    /\ flow \in Flows /\ wait \in {"short", "idle"}
    /\ app \in {"off", "loop", "load", "signal", "awaitDone",
                "deleteTask", "clearHandle", "unregister", "closeFd", "close", "freed"}
    /\ http \in {"idle", "load", "signal"}
    /\ net \in {"idle", "load", "signal", "notify"}
    /\ seen \in [Posters -> BOOLEAN]
    /\ work \subseteq IoWork
    /\ {stopping, ioTaskHandle, wakeFd, fdOpen, signalled, notified, ioTaskDone,
        portalActive, httpServer, handlers, wifiUp, resetHandled} \subseteq BOOLEAN
    /\ received \in {"none", "wire", "decrypted"}

Init ==
    /\ io = "none" /\ afterJoin = "leave" /\ flow = "Starting" /\ wait = "idle"
    /\ app = "off" /\ http = "idle" /\ net = "idle"
    /\ seen = [p \in Posters |-> FALSE]
    /\ work = {}
    /\ wakeFd = FALSE /\ fdOpen = FALSE /\ signalled = FALSE /\ notified = FALSE
    /\ stopping = FALSE /\ ioTaskHandle = FALSE /\ ioTaskDone = FALSE
    /\ portalActive = FALSE /\ httpServer = FALSE /\ handlers = FALSE /\ wifiUp = FALSE
    /\ received = "none" /\ resetHandled = FALSE
--------------------------------------------------------------------------------
\* wakeIo(), which each of the three tasks calls.

At(p) == CASE p = "app" -> app [] p = "http" -> http [] p = "net" -> net
Goes(p, pc) ==
    /\ app' = IF p = "app" THEN pc ELSE app
    /\ http' = IF p = "http" THEN pc ELSE http
    /\ net' = IF p = "net" THEN pc ELSE net

LoadWakeFd(p) ==
    /\ At(p) = "load"
    /\ seen' = [seen EXCEPT ![p] = wakeFd]
    /\ Goes(p, "signal")
    /\ UNCHANGED <<ioVars, work, wakeVars, endVars, portalVars,
                   handlers, wifiUp, received, resetHandled>>

\* Where a task goes on after wakeIo().
Resumes(p) == IF p # "app" THEN "idle" ELSE IF stopping THEN "awaitDone" ELSE "loop"

\* A descriptor is written; without one the I/O task is looked up and notified, which a
\* task that has a descriptor never takes.  Its handle can go in between only under the
\* event handler: the application clears it itself, when the HTTP task has been joined.
SignalIo(p) ==
    /\ At(p) = "signal"
    /\ signalled' = (signalled \/ (seen[p] /\ fdOpen))
    /\ LET found == ~seen[p] /\ ioTaskHandle
       IN  IF p = "net" /\ found
           THEN Goes(p, "notify") /\ UNCHANGED notified
           ELSE Goes(p, Resumes(p)) /\ notified' = (notified \/ (found /\ ~wakeFd))
    /\ seen' = [seen EXCEPT ![p] = FALSE]
    /\ UNCHANGED <<ioVars, work, wakeFd, fdOpen, endVars,
                   portalVars, handlers, wifiUp, received, resetHandled>>

NotifyIo ==
    /\ net = "notify" /\ net' = "idle"
    /\ notified' = (notified \/ (~wakeFd /\ io # "deleted"))
    /\ UNCHANGED <<ioVars, app, http, seen, work, wakeFd, fdOpen, signalled, endVars,
                   portalVars, handlers, wifiUp, received, resetHandled>>
--------------------------------------------------------------------------------
\* The application task.

\* HampterDevice::begin: a Runtime whose begin() fails is deleted at once.
Begin ==
    /\ app = "off"
    /\ \/ app' = "loop" /\ io' = "entry"
       \/ UNCHANGED <<app, io>>
    /\ UNCHANGED <<afterJoin, flow, wait, http, net, seen, work, wakeVars,
                   endVars, portalVars, handlers, wifiUp, received, resetHandled>>

AppOnly == UNCHANGED <<ioVars, http, net, seen, wakeVars, ioTaskHandle, ioTaskDone,
                       portalVars, handlers, wifiUp, received>>

\* appHandleResetButton: once per Runtime.
HoldResetButton ==
    /\ app = "loop" /\ ~resetHandled
    /\ resetHandled' = TRUE /\ work' = work \cup {"reset"} /\ app' = "load"
    /\ UNCHANGED <<stopping>> /\ AppOnly

\* A port counts as dirty while it has a wire handle.
PublishPort ==
    /\ app = "loop"
    /\ work' = IF flow = "Active" THEN work \cup {"port"} ELSE work
    /\ app' = "load"
    /\ UNCHANGED <<stopping, resetHandled>> /\ AppOnly

\* appHandleTools ends with a result, or with setError(fatal), which wakes the
\* I/O task if it is there.
FinishTool ==
    /\ app = "loop" /\ "result" \notin work
    /\ \/ work' = work \cup {"result"} /\ app' = "load"
       \/ work' = work \cup {"fatal"} /\ app' = IF ioTaskHandle THEN "load" ELSE "loop"
    /\ UNCHANGED <<stopping, resetHandled>> /\ AppOnly
--------------------------------------------------------------------------------
\* The destructor, on the application task.

Destroy ==
    /\ app = "loop"
    /\ stopping' = TRUE /\ app' = "load"
    /\ UNCHANGED <<work, resetHandled>> /\ AppOnly

DestructorRest == UNCHANGED <<afterJoin, flow, wait, http, net, seen, work,
                              stopping, portalVars, wifiUp, received, resetHandled>>

DoneGiven == ioTaskDone

TakeDone ==
    /\ app = "awaitDone" /\ DoneGiven
    /\ ioTaskDone' = FALSE /\ app' = "deleteTask"
    /\ UNCHANGED <<io, ioTaskHandle, wakeVars, handlers>> /\ DestructorRest

DeleteTask ==
    /\ app = "deleteTask"
    /\ io' = "deleted" /\ notified' = FALSE /\ app' = "clearHandle"
    /\ UNCHANGED <<ioTaskHandle, ioTaskDone, wakeFd, fdOpen, signalled, handlers>>
    /\ DestructorRest

ClearHandle ==
    /\ app = "clearHandle"
    /\ ioTaskHandle' = FALSE /\ app' = "unregister"
    /\ UNCHANGED <<io, ioTaskDone, wakeVars, handlers>> /\ DestructorRest

\* esp_event_handler_instance_unregister waits for a handler that is running.
\* Mutant: it does not.
HandlersQuiet_Dropped == TRUE
HandlersQuiet == handlers => net = "idle"

removeNetworkEventHandlers ==
    /\ app = "unregister" /\ HandlersQuiet
    /\ handlers' = FALSE /\ app' = "closeFd"
    /\ UNCHANGED <<io, ioTaskHandle, ioTaskDone, wakeVars>> /\ DestructorRest

TakeWakeFd ==
    /\ app = "closeFd"
    /\ wakeFd' = FALSE /\ app' = "close"
    /\ UNCHANGED <<io, ioTaskHandle, ioTaskDone, fdOpen, signalled, notified, handlers>>
    /\ DestructorRest

\* portal_.stop() finds the portal stopped.
CloseAndFree ==
    /\ app = "close"
    /\ fdOpen' = FALSE /\ app' = "freed"
    /\ UNCHANGED <<io, ioTaskHandle, ioTaskDone, wakeFd, signalled, notified, handlers>>
    /\ DestructorRest
--------------------------------------------------------------------------------
\* The HTTP task: handleProvision stores the request under the portal's mutex,
\* answers the browser, and calls provisioningWorkReady.

\* hasPending_
Pending == work \cap {"request", "ready"} # {}

HttpAccept ==
    /\ http = "idle" /\ httpServer /\ portalActive
    /\ ~Pending /\ flow = "Provisioning"
    /\ work' = work \cup {"request"} /\ http' = "load"
    /\ UNCHANGED <<ioVars, app, net, seen, wakeVars, endVars,
                   portalVars, handlers, wifiUp, received, resetHandled>>

\* kRequestHandoffMs after it was stored, takeRequest gives the request out.
HandoffEnds ==
    /\ "request" \in work
    /\ work' = (work \ {"request"}) \cup {"ready"}
    /\ UNCHANGED <<ioVars, posters, wakeVars, endVars, portalVars,
                   handlers, wifiUp, received, resetHandled>>

\* The station joins or loses its network; then the event loop runs the
\* handler of the Runtime, if it is registered.
StationEvent ==
    /\ net = "idle"
    /\ flow \in {"Joining"} \cup Linking
    /\ wifiUp' = ~wifiUp
    /\ net' = IF handlers THEN "load" ELSE "idle"
    /\ UNCHANGED <<ioVars, app, http, seen, work, wakeVars, endVars,
                   portalVars, handlers, received, resetHandled>>

\* The Hub sends, or closes the connection.
HubSends ==
    /\ flow = "Active" /\ received = "none"
    /\ received' = "wire"
    /\ UNCHANGED <<ioVars, posters, work, wakeVars, endVars,
                   portalVars, handlers, wifiUp, resetHandled>>
--------------------------------------------------------------------------------
\* The I/O task.

\* Mutant: the task says nothing.
SignalDone_Dropped == UNCHANGED ioTaskDone
SignalDone == ioTaskDone' = TRUE
IoOnly == UNCHANGED <<app, http, net, seen, stopping, resetHandled>>

IoEntry ==
    /\ io = "entry"
    /\ ioTaskHandle' = TRUE /\ io' = "init"
    /\ UNCHANGED <<afterJoin, flow, wait, work, wakeVars, ioTaskDone,
                   portalVars, handlers, wifiUp, received>>
    /\ IoOnly

\* ensureNetworkEventHandlers may fail, and is tried again the next time.
EnsureHandlers == handlers' \in {handlers, TRUE}

\* ProvisioningPortal::begin; a start that fails leaves the portal as it was, stopped.
portalBegin == portalActive' = TRUE /\ httpServer' = TRUE

startProvisioning ==
    \/ portalBegin /\ flow' = "Provisioning" /\ EnsureHandlers /\ UNCHANGED work
    \/ flow' = "Error" /\ work' = work \cup {"fatal"} /\ EnsureHandlers
       /\ UNCHANGED portalVars

\* resetSession: without a session no port has a wire handle.
Undirty == work \ {"port"}

\* WiFi.begin: the station starts over.
startRuntimeWifi ==
    /\ wifiUp' = FALSE /\ EnsureHandlers
    /\ \/ flow' = "Joining" /\ work' = Undirty
       \/ flow' = "Error" /\ work' = Undirty \cup {"fatal"}

\* initializeWakeFd, whose failure is ignored.
initializeWakeFd ==
    /\ io = "init"
    /\ \/ wakeFd' = TRUE /\ fdOpen' = TRUE /\ notified' = FALSE
       \/ EventFdFails /\ UNCHANGED <<wakeFd, fdOpen, notified>>
    /\ io' = "initIo"
    /\ UNCHANGED <<afterJoin, flow, wait, work, signalled,
                   ioTaskHandle, ioTaskDone, portalVars, handlers, wifiUp, received>>
    /\ IoOnly

\* The rest of initializeIo.  When it fails the task gives the semaphore of its
\* end and suspends itself.
initializeIo ==
    /\ io = "initIo"
    /\ \/ (startProvisioning /\ UNCHANGED wifiUp) \/ (startRuntimeWifi /\ UNCHANGED portalVars)
       \/ /\ flow' = "Error" /\ work' = work \cup {"fatal"}
          /\ UNCHANGED <<portalVars, handlers, wifiUp>>
    /\ IF flow' = "Error"
       THEN io' = "suspended" /\ SignalDone
       ELSE io' = "test" /\ UNCHANGED ioTaskDone
    /\ UNCHANGED <<afterJoin, wait, wakeVars, ioTaskHandle,
                   received>>
    /\ IoOnly

\* portal_.stop(): no request is accepted any more; then the HTTP task is joined.
StopPortal(then) == portalActive' = FALSE /\ io' = "join" /\ afterJoin' = then

LoopTop == UNCHANGED <<wait, wakeVars, ioTaskHandle, ioTaskDone,
                       httpServer, handlers, wifiUp>>

TestStopping ==
    /\ io = "test"
    /\ IF stopping THEN StopPortal("leave")
                   ELSE io' = "orders" /\ UNCHANGED <<afterJoin, portalActive>>
    /\ UNCHANGED <<flow, work, received>>
    /\ LoopTop /\ IoOnly

\* fatalRequested_ first, so that a reset wins.
TakeOrders ==
    /\ io = "orders"
    /\ IF "fatal" \in work
       THEN flow' = "Error" /\ received' = "none" /\ work' = Undirty \ {"fatal", "reset"}
       ELSE work' = work \ {"reset"} /\ UNCHANGED <<flow, received>>
    /\ IF "reset" \in work THEN StopPortal("erase")
                           ELSE io' = "flow" /\ UNCHANGED <<afterJoin, portalActive>>
    /\ LoopTop /\ IoOnly

\* portal_.loop() stops the portal some time after a success.
PortalLoop ==
    /\ io = "flow" /\ portalActive /\ flow \in {"Joining"} \cup Linking
    /\ StopPortal("flow")
    /\ UNCHANGED <<flow, work, received>>
    /\ LoopTop /\ IoOnly

HttpJoined == http = "idle"

JoinHttp(then) ==
    /\ io = "join" /\ afterJoin = then /\ HttpJoined
    /\ afterJoin' = "leave"
    /\ UNCHANGED <<wait, wakeVars, ioTaskHandle>>
    /\ IoOnly

Unpend == work \ {"request", "ready"}

PortalStopped ==
    /\ \E then \in {"flow", "leave"} : JoinHttp(then) /\ io' = then
    /\ work' = Unpend /\ httpServer' = FALSE
    /\ UNCHANGED <<flow, portalActive, ioTaskDone, handlers, wifiUp, received>>

\* The rest of eraseEnrollment, which leaves the network and the Hub.
EraseEnrollment ==
    /\ JoinHttp("erase")
    /\ io' = "flow" /\ wifiUp' = FALSE /\ received' = "none"
    /\ \/ portalBegin /\ flow' = "Provisioning"
          /\ EnsureHandlers /\ work' = Unpend \cap Undirty
       \/ httpServer' = FALSE /\ flow' = "Error"
          /\ work' = (Unpend \cap Undirty) \cup {"fatal"}
          /\ EnsureHandlers /\ UNCHANGED portalActive
    /\ UNCHANGED ioTaskDone

StoppedWithoutRadio ==
    /\ JoinHttp("radio")
    /\ io' = "compute" /\ flow' = "Error" /\ work' = Unpend \cup {"fatal"}
    /\ httpServer' = FALSE /\ wifiUp' = FALSE
    /\ UNCHANGED <<portalActive, ioTaskDone, handlers, received>>
--------------------------------------------------------------------------------
\* One pass through the flow of the I/O task.

InFlow(f) == io = "flow" /\ flow \in f
Pass ==
    /\ io' = "compute"
    /\ UNCHANGED <<afterJoin, wait, wakeVars, ioTaskHandle, ioTaskDone, httpServer>>
    /\ IoOnly

\* Nothing is due.
Idles ==
    /\ \/ InFlow({"Error", "Backoff", "Resolving"})
       \/ InFlow({"Provisioning"}) /\ "ready" \notin work
       \/ InFlow({"Joining"}) /\ ~wifiUp
    /\ flow \in Linking => wifiUp
    /\ Pass
    /\ UNCHANGED <<flow, work, portalActive, handlers, wifiUp, received>>

TakeRequest ==
    /\ InFlow({"Provisioning"}) /\ "ready" \in work
    /\ work' = work \ {"ready"}
    /\ EnsureHandlers
    /\ \/ flow' = "Joining" /\ wifiUp' = FALSE /\ Pass /\ UNCHANGED portalActive
       \/ /\ StopPortal("radio")
          /\ UNCHANGED <<flow, wait, wakeVars, ioTaskHandle, ioTaskDone, httpServer,
                         wifiUp>>
          /\ IoOnly
    /\ UNCHANGED received

Joined ==
    /\ InFlow({"Joining"}) /\ wifiUp
    /\ flow' = "Backoff"
    /\ Pass
    /\ UNCHANGED <<work, portalActive, handlers, wifiUp, received>>

\* The deadline of a setup's join.
JoinTimedOut ==
    /\ InFlow({"Joining"}) /\ ~wifiUp /\ portalActive
    /\ flow' = "Provisioning"
    /\ Pass
    /\ UNCHANGED <<work, portalActive, handlers, wifiUp, received>>

\* A link is given up: for a while, for good, or for a new setup.
GiveUp ==
    /\ received' = "none"
    /\ \/ flow' \in {"Backoff", "Error"} /\ UNCHANGED wifiUp
       \/ portalActive /\ flow' = "Provisioning" /\ wifiUp' = FALSE

LinkLost ==
    /\ InFlow(Linking) /\ ~wifiUp
    /\ \/ startRuntimeWifi
       \/ /\ portalActive /\ flow' = "Provisioning"
          /\ work' = Undirty /\ UNCHANGED <<handlers, wifiUp>>
    /\ received' = "none"
    /\ Pass
    /\ UNCHANGED portalActive

\* attemptConnection and connectTls.
Connects ==
    /\ InFlow({"Backoff", "Resolving"}) /\ wifiUp
    /\ \/ flow' = "Resolving" /\ flow = "Backoff" /\ UNCHANGED <<work, received, wifiUp>>
       \/ /\ flow' = "Active" /\ UNCHANGED <<received, wifiUp>>
          /\ work' \in {work, work \cup {"port"}}
       \/ GiveUp /\ UNCHANGED work
    /\ Pass
    /\ UNCHANGED <<portalActive, handlers>>

\* receiveFrames takes what the socket has, and may leave decrypted bytes.
Receive == received' \in {"none"} \cup (IF received = "none" THEN {} ELSE {"decrypted"})

\* What arrived may be a call or a sample for the application; a result is sent,
\* and the outbound ports when kPortFlushMs have passed.
ActivePass ==
    /\ InFlow({"Active"}) /\ wifiUp
    /\ \/ /\ Receive /\ UNCHANGED <<flow, wifiUp>>
          /\ work' \in {work \ {"result"}, work \ {"result", "port"}}
       \/ GiveUp /\ work' \in {Undirty, Undirty \ {"result"}}
    /\ Pass
    /\ UNCHANGED <<portalActive, handlers>>
--------------------------------------------------------------------------------
\* millisecondsUntilNextIoWork, and the sleep.

outboundPortsDirty == "port" \in work

\* ProvisioningPortal::millisecondsUntilNextWork.  Mutant: the handoff of a
\* request is no deadline.
PortalDue_Never == FALSE
PortalDue == portalActive /\ Pending

DueNow == flow = "Active" /\ (received = "decrypted" \/ "result" \in work)
Polls ==
    \/ PortalDue
    \/ flow = "Joining" /\ ~handlers
    \/ flow = "Resolving"
    \/ flow = "Active" /\ (~wakeFd \/ outboundPortsDirty)

millisecondsUntilNextIoWork == IF DueNow \/ Polls THEN "short" ELSE "idle"

ComputeWait ==
    /\ io = "compute"
    /\ wait' = millisecondsUntilNextIoWork
    /\ io' = "asleep"
    /\ UNCHANGED <<afterJoin, flow, work, wakeVars, ioTaskHandle,
                   ioTaskDone, portalVars, handlers, wifiUp, received>>
    /\ IoOnly

\* select watches the descriptor, and the socket while there is one; without a
\* descriptor the task takes its notification.
Selected == signalled \/ (flow = "Active" /\ received = "wire")
WaitOver == IF wakeFd THEN Selected ELSE notified

Wakes ==
    /\ io = "asleep"
    /\ io' = "test" /\ wait' = "idle"
    /\ UNCHANGED <<afterJoin, flow, work, wakeFd, fdOpen,
                   ioTaskHandle, ioTaskDone, portalVars, handlers, wifiUp, received>>
    /\ IoOnly

IoWoken ==
    /\ WaitOver /\ Wakes
    /\ IF wakeFd THEN signalled' = FALSE /\ UNCHANGED notified
                 ELSE notified' = FALSE /\ UNCHANGED signalled

PollTimesOut == wait = "short" /\ ~WaitOver /\ Wakes /\ UNCHANGED <<signalled, notified>>
IdleTimesOut == wait = "idle" /\ ~WaitOver /\ Wakes /\ UNCHANGED <<signalled, notified>>

\* The last words of the task: Goodbye, client_.stop(), and its semaphore.
Leave ==
    /\ io = "leave"
    /\ io' = "suspended" /\ SignalDone
    /\ received' = "none"
    /\ UNCHANGED <<afterJoin, flow, wait, work, wakeVars, ioTaskHandle,
                   portalVars, handlers, wifiUp>>
    /\ IoOnly
--------------------------------------------------------------------------------
WakeIo(p) == LoadWakeFd(p) \/ SignalIo(p) \/ (p = "net" /\ NotifyIo)
Wake == \E p \in Posters : WakeIo(p)
AppTask == \/ HoldResetButton \/ PublishPort \/ FinishTool
Destructor == \/ TakeDone \/ DeleteTask \/ ClearHandle \/ removeNetworkEventHandlers
              \/ TakeWakeFd \/ CloseAndFree
Others == HttpAccept \/ HandoffEnds \/ StationEvent \/ HubSends
LinkPass == \/ Idles \/ TakeRequest \/ Joined \/ JoinTimedOut \/ LinkLost \/ Connects
            \/ ActivePass
IoStep == \/ IoEntry \/ initializeWakeFd \/ initializeIo \/ TestStopping \/ TakeOrders
          \/ PortalLoop \/ PortalStopped \/ EraseEnrollment
          \/ StoppedWithoutRadio \/ LinkPass \/ ComputeWait \/ IoWoken
          \/ PollTimesOut \/ Leave

Next == Begin \/ AppTask \/ Destroy \/ Destructor \/ Wake \/ Others \/ IoStep \/ IdleTimesOut

Spec == Init /\ [][Next]_vars

\* Every task that can run runs, and a wait that the code has shortened ends.
\* Nothing is assumed of an idle wait, nor of what the application, the browser,
\* the station and the Hub choose to do.
FairSpec ==
    /\ Spec
    /\ WF_vars(IoStep)
    /\ \A p \in Posters : WF_vars(WakeIo(p))
    /\ SF_vars(Destructor)
--------------------------------------------------------------------------------
\* What the I/O task would act on if it were awake.
Awaited ==
    \/ stopping
    \/ "reset" \in work
    \/ "fatal" \in work /\ flow # "Error"
    \/ flow = "Provisioning" /\ Pending
    \/ flow = "Joining" /\ wifiUp
    \/ flow \in Linking /\ ~wifiUp /\ handlers
    \/ flow = "Active" /\ (received # "none" \/ work \cap {"port", "result"} # {})

\* A task stands inside wakeIo() and will reach the I/O task where it sleeps.
WakeOnItsWay ==
    \/ \E p \in Posters : At(p) = "load" \/ (At(p) = "signal" /\ seen[p] = wakeFd)
    \/ net = "notify" /\ ~wakeFd

\* No wake-up is lost: the I/O task is never asleep for an idle time with work
\* to do, unless the sleep is about to end (wakeIo, waitForIo and the order of
\* the loop of ioTask).  Where the event handlers could not be registered, the
\* loss of the network is left to the heartbeats.
SleepIsSafe == io = "asleep" /\ wait = "idle" /\ Awaited => WaitOver \/ WakeOnItsWay

\* The I/O task is deleted when the HTTP task is no longer inside the Runtime, the
\* Runtime is freed when nothing can touch it any more, and no task holds a descriptor
\* that has been closed (~Runtime).  The event handler may be inside wakeIo() until it
\* is unregistered, which is after the I/O task was deleted.
NothingFreedInUse ==
    /\ io = "deleted" => http = "idle" /\ ~httpServer
    /\ app \in {"closeFd", "close", "freed"} => io = "deleted" /\ net = "idle" /\ ~handlers
    /\ \A p \in Posters : At(p) = "signal" /\ seen[p] => fdOpen

\* The destructor returns, whatever the I/O task is waiting for.
DestructorReturns == stopping ~> app = "freed"
================================================================================
