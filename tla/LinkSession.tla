------------------------------ MODULE LinkSession ------------------------------
(***************************************************************************)
(* How a device is set up and how it reaches its Hub: the flow of the I/O   *)
(* task (Runtime.cpp: ioTask, processProvisioning, linkLoop and the         *)
(* handshake), the setup portal whose HTTP task takes the browser's request *)
(* (ProvisioningPortal.cpp), and the credential in NVS.                     *)
(*                                                                          *)
(* A request is named by a number and stands for the Wi-Fi password, the    *)
(* enrollment token and the Hub address posted in it; the credential that   *)
(* an enrollment yields has the number of its request.  The I/O task is     *)
(* interrupted where it takes the mutex of the portal or has written NVS.   *)
(* External: the browser, the Wi-Fi driver, the Hub, the power supply.      *)
(* Delays (backoff, deadlines, the success grace) may end at any time.      *)
(***************************************************************************)
EXTENDS Integers, FiniteSets

CONSTANTS
    kEnrollmentAttempts,   \* connections tried for one request: 3
    StoreFails,            \* NVS operations may fail
    MaxRequests,           \* bound: requests the browser posts
    MaxBoots               \* bound: power cycles

ASSUME SessionAssumption ==
    /\ kEnrollmentAttempts \in Nat \ {0} /\ StoreFails \in BOOLEAN
    /\ MaxRequests \in Nat /\ MaxBoots \in Nat

None == 0
Requests == 1 .. MaxRequests

VARIABLES
    ioPc,             \* "loop", or where ioTask stands inside a step of the loop
    stopThen,         \* what portal_.stop() was called for
    ioFlow, linkMode, linkState, state,
    enrollmentAttempts, enrollmentCommitted,
    lookup,           \* whose Hub the open mDNS lookup is for (localActive_), or None
    resetRequested, fatalRequested,
    resetHandled,     \* the reset button works once per boot
    pendingProvisioning,   \* request whose Wi-Fi password the Runtime holds
    bootstrap,        \* request whose enrollment token the Runtime holds
    credentials,      \* credentials_, in RAM
    stored,           \* what CredentialStore finds in NVS
    portal,           \* [active, status, pending]
    handler,          \* request that handleProvision is reading, or None
    posted,           \* requests the browser has posted
    station,          \* WiFi.status(): "off", "joining" or "joined"
    boots,
    enrolls,          \* history: Enroll frames sent per token
    committed         \* history: requests whose credential was committed

mode == <<linkMode, linkState, enrollmentAttempts, enrollmentCommitted>>
link == <<mode, lookup>>
secrets == <<pendingProvisioning, bootstrap>>
nvs == <<credentials, stored>>
signals == <<resetRequested, fatalRequested, resetHandled>>
browser == <<handler, posted>>
history == <<boots, enrolls, committed>>
vars == <<ioPc, stopThen, ioFlow, state, link, signals, secrets, nvs, portal, browser,
          station, history>>

Init ==
    /\ ioPc = "boot" /\ stopThen = "loop" /\ ioFlow = "Starting" /\ state = "Starting"
    /\ linkMode = "None" /\ linkState = "Stopped"
    /\ enrollmentAttempts = 0 /\ enrollmentCommitted = FALSE /\ lookup = None
    /\ resetRequested = FALSE /\ fatalRequested = FALSE /\ resetHandled = FALSE
    /\ pendingProvisioning = None /\ bootstrap = None /\ credentials = None
    /\ portal = [active |-> FALSE, status |-> "Waiting", pending |-> None]
    /\ handler = None /\ station = "off"
    /\ stored = None /\ posted = 0 /\ boots = 0
    /\ enrolls = [r \in Requests |-> 0] /\ committed = {}
--------------------------------------------------------------------------------
\* Mutants: the wrong mode, counts and clean-ups that are forgotten.
ModeAfterCommit_Enrollment == "Enrollment"
CountAttempt_Never == enrollmentAttempts
ForgetPassword_Skipped == UNCHANGED pendingProvisioning
ResetWaiting_UnlessError == resetRequested /\ ioFlow # "Error"
Verified_SaveUnchecked(durable, loaded) == TRUE
OfflineState_Skipped == UNCHANGED state
Loaded_Skipped(r) == UNCHANGED credentials
cancelLocalResolve_Forgotten == UNCHANGED lookup

\* After the durable commit a device only authenticates.
ModeAfterCommit == "Runtime"
EffectiveMode == IF enrollmentCommitted THEN ModeAfterCommit ELSE linkMode

AttemptsExhausted(attempts) == attempts >= kEnrollmentAttempts
CountAttempt == enrollmentAttempts + 1

ForgetPassword == pendingProvisioning' = None
LeaveStation == station' = "off"
cancelLocalResolve == lookup' = None
setStatus(status) == portal' = [portal EXCEPT !.status = status]

\* The setup is over without success: the portal takes the next request.
BackToProvisioning ==
    /\ LeaveStation
    /\ setStatus("Error")
    /\ ForgetPassword /\ bootstrap' = None
    /\ linkMode' = "None" /\ ioFlow' = "Provisioning" /\ state' = "Provisioning"

\* disconnectAndBackoff, given the attempts made so far.
disconnectAndBackoff(fatal, attempts) ==
    LET exhausted == EffectiveMode = "Enrollment" /\ AttemptsExhausted(attempts)
    IN  /\ linkState' = IF fatal \/ exhausted THEN "Fatal" ELSE "Backoff"
        /\ cancelLocalResolve
        /\ IF (fatal \/ exhausted) /\ EffectiveMode = "Enrollment"
           THEN BackToProvisioning
           ELSE /\ ioFlow' = IF fatal THEN "Error" ELSE ioFlow
                /\ state' = IF fatal THEN "Error" ELSE "Connecting"
                /\ linkMode' = EffectiveMode
                /\ UNCHANGED <<station, portal, secrets>>

\* setError(fatal) in the I/O task: the radio or NVS is unusable.
FatalError == fatalRequested' = TRUE /\ ioFlow' = "Error" /\ state' = "Error"

OfflineState == state' = "Connecting"

startRuntimeWifi ==
    \/ station' = "joining" /\ ioFlow' = "JoiningForRuntime" /\ OfflineState
       /\ UNCHANGED fatalRequested
    \/ station' = "off" /\ FatalError

\* startProvisioning, the portal being stopped.
startProvisioning ==
    /\ linkMode' = "None" /\ linkState' = "Stopped"
    /\ \/ /\ portal' = [active |-> TRUE, status |-> "Waiting", pending |-> None]
          /\ ioFlow' = "Provisioning" /\ state' = "Provisioning"
          /\ UNCHANGED fatalRequested
       \/ /\ portal' = [portal EXCEPT !.active = FALSE, !.pending = None]
          /\ FatalError

startLink(newMode) ==
    /\ linkMode' = newMode /\ linkState' = "Backoff" /\ lookup' = None
    /\ enrollmentAttempts' = 0 /\ enrollmentCommitted' = FALSE
    /\ state' = "Connecting"
--------------------------------------------------------------------------------
\* initializeIo.  When it fails the I/O task suspends itself for good.
Boot ==
    /\ ioPc = "boot"
    /\ credentials' \in {stored} \cup (IF StoreFails THEN {None} ELSE {})
    /\ \/ /\ ioPc' = "loop"
          /\ IF credentials' # None
             THEN startRuntimeWifi /\ UNCHANGED <<linkMode, linkState, portal>>
             ELSE startProvisioning /\ UNCHANGED station
          /\ ~fatalRequested'
       \/ /\ ioPc' = "dead" /\ FatalError
          /\ UNCHANGED <<linkMode, linkState, portal, station>>
    /\ UNCHANGED <<stopThen, enrollmentAttempts, enrollmentCommitted, lookup, resetRequested,
                   resetHandled, secrets, stored, browser, history>>

PowerCycle ==
    /\ boots < MaxBoots /\ ioPc # "boot"
    /\ boots' = boots + 1
    /\ ioPc' = "boot" /\ stopThen' = "loop" /\ ioFlow' = "Starting" /\ state' = "Starting"
    /\ linkMode' = "None" /\ linkState' = "Stopped"
    /\ enrollmentAttempts' = 0 /\ enrollmentCommitted' = FALSE /\ lookup' = None
    /\ resetRequested' = FALSE /\ fatalRequested' = FALSE /\ resetHandled' = FALSE
    /\ pendingProvisioning' = None /\ bootstrap' = None /\ credentials' = None
    /\ portal' = [active |-> FALSE, status |-> "Waiting", pending |-> None]
    /\ handler' = None /\ station' = "off"
    /\ UNCHANGED <<stored, posted, enrolls, committed>>

\* appHandleResetButton, on the application task.
ResetButton ==
    /\ ~resetHandled /\ ioPc # "boot"
    /\ resetHandled' = TRUE /\ resetRequested' = TRUE
    /\ UNCHANGED <<ioPc, stopThen, ioFlow, state, link, fatalRequested, secrets, nvs,
                   portal, browser, station, history>>

\* ioTask looks at its two signals before anything else.
HandleFatal ==
    /\ ioPc = "loop" /\ fatalRequested
    /\ fatalRequested' = FALSE
    /\ linkState' = "Fatal" /\ ioFlow' = "Error" /\ state' = "Error"
    /\ UNCHANGED <<ioPc, stopThen, linkMode, enrollmentAttempts, enrollmentCommitted,
                   lookup, resetRequested, resetHandled, secrets, nvs, portal, browser, station,
                   history>>

InLoop == ioPc = "loop" /\ ~fatalRequested

\* portal_.stop() begins: from now on no request is accepted.
BeginStop(then) ==
    /\ portal' = [portal EXCEPT !.active = FALSE]
    /\ ioPc' = "stopping" /\ stopThen' = then

ResetWaiting == resetRequested

HandleReset ==
    /\ InLoop /\ ResetWaiting
    /\ resetRequested' = FALSE
    /\ cancelLocalResolve
    /\ BeginStop("erase")
    /\ UNCHANGED <<ioFlow, state, mode, fatalRequested, resetHandled, secrets, nvs,
                   browser, station, history>>

\* portal_.loop() closes the portal some time after success.
PortalLoop ==
    /\ InLoop /\ portal.active /\ portal.status = "Complete"
    /\ BeginStop("loop")
    /\ UNCHANGED <<ioFlow, state, link, signals, secrets, nvs, browser, station, history>>

\* portal_.stop() has joined the HTTP task and wipes what the portal holds.
StopJoined(then) ==
    /\ ioPc = "stopping" /\ stopThen = then /\ handler = None
    /\ ioPc' = "loop"
    /\ UNCHANGED <<stopThen, enrollmentAttempts, lookup, resetRequested, resetHandled,
                   browser, history>>

StoppedAfterSuccess ==
    /\ StopJoined("loop")
    /\ portal' = [portal EXCEPT !.pending = None]
    /\ UNCHANGED <<ioFlow, state, linkMode, linkState, enrollmentCommitted,
                   fatalRequested, secrets, nvs, station>>

StoppedWithoutRadio ==
    /\ StopJoined("radio")
    /\ portal' = [portal EXCEPT !.pending = None]
    /\ LeaveStation /\ ForgetPassword /\ FatalError
    /\ UNCHANGED <<linkMode, linkState, enrollmentCommitted, bootstrap, nvs>>

\* The rest of eraseEnrollment.
StoppedToErase ==
    /\ StopJoined("erase")
    /\ LeaveStation /\ ForgetPassword /\ bootstrap' = None
    /\ credentials' = None /\ enrollmentCommitted' = FALSE
    /\ \/ stored' = None /\ startProvisioning
       \/ /\ StoreFails
          /\ portal' = [portal EXCEPT !.pending = None]
          /\ FatalError
          /\ UNCHANGED <<stored, linkMode, linkState>>
--------------------------------------------------------------------------------
\* handleProvision checks the portal, reads the body, and checks again.
AcceptsConfig == portal.active /\ portal.pending = None
                 /\ portal.status \in {"Waiting", "Error"}

HttpRead ==
    /\ handler = None /\ posted < MaxRequests
    /\ AcceptsConfig
    /\ posted' = posted + 1 /\ handler' = posted'
    /\ UNCHANGED <<ioPc, stopThen, ioFlow, state, link, signals, secrets, nvs, portal,
                   station, history>>

\* Reading fails or the body is refused; or the portal changed meanwhile.
HttpRefuse ==
    /\ handler # None
    /\ handler' = None
    /\ UNCHANGED <<ioPc, stopThen, ioFlow, state, link, signals, secrets, nvs, portal,
                   posted, station, history>>

HttpAccept ==
    /\ handler # None
    /\ AcceptsConfig
    /\ portal' = [portal EXCEPT !.pending = handler, !.status = "ConnectingWifi"]
    /\ handler' = None
    /\ UNCHANGED <<ioPc, stopThen, ioFlow, state, link, signals, secrets, nvs, posted,
                   station, history>>

\* processProvisioning takes the request and starts the station.
TakeRequest ==
    /\ InLoop /\ ioFlow = "Provisioning" /\ portal.pending # None
    /\ pendingProvisioning' = portal.pending
    /\ \/ /\ portal' = [portal EXCEPT !.pending = None]
          /\ station' = "joining"
          /\ ioFlow' = "JoiningForEnrollment" /\ state' = "Connecting"
          /\ UNCHANGED <<ioPc, stopThen>>
       \/ /\ portal' = [portal EXCEPT !.pending = None, !.active = FALSE]
          /\ ioPc' = "stopping" /\ stopThen' = "radio"
          /\ UNCHANGED <<ioFlow, state, station>>
    /\ UNCHANGED <<link, signals, bootstrap, nvs, browser, history>>

\* processProvisioning: the station has joined, or the deadline has passed.
JoinedForEnrollment ==
    /\ InLoop /\ ioFlow = "JoiningForEnrollment" /\ station = "joined"
    /\ setStatus("Enrolling")
    /\ bootstrap' = pendingProvisioning
    /\ startLink("Enrollment")
    /\ ioFlow' = "Linking"
    /\ UNCHANGED <<ioPc, stopThen, signals, pendingProvisioning, nvs, browser, station,
                   history>>

JoinTimedOut ==
    /\ InLoop /\ ioFlow = "JoiningForEnrollment" /\ station # "joined"
    /\ LeaveStation /\ ForgetPassword
    /\ setStatus("Error")
    /\ ioFlow' = "Provisioning" /\ state' = "Provisioning"
    /\ UNCHANGED <<ioPc, stopThen, link, signals, bootstrap, nvs, browser, history>>

\* processRuntimeWifi.
JoinedForRuntime ==
    /\ InLoop /\ ioFlow = "JoiningForRuntime" /\ station = "joined"
    /\ startLink("Runtime")
    /\ ioFlow' = "Linking"
    /\ UNCHANGED <<ioPc, stopThen, signals, secrets, nvs, portal, browser, station,
                   history>>

ReconnectWifi ==
    /\ InLoop /\ ioFlow = "JoiningForRuntime" /\ station = "off"
    /\ station' = "joining"
    /\ UNCHANGED <<ioPc, stopThen, ioFlow, state, link, signals, secrets, nvs, portal,
                   browser, history>>

\* The access point answers or goes away.
WifiJoins ==
    /\ station = "joining" /\ station' = "joined"
    /\ UNCHANGED <<ioPc, stopThen, ioFlow, state, link, signals, secrets, nvs, portal,
                   browser, history>>

WifiDrops ==
    /\ station \in {"joining", "joined"} /\ station' = "off"
    /\ UNCHANGED <<ioPc, stopThen, ioFlow, state, link, signals, secrets, nvs, portal,
                   browser, history>>
--------------------------------------------------------------------------------
\* linkLoop finds the station gone.
LinkLost ==
    /\ InLoop /\ ioFlow = "Linking" /\ station # "joined"
    /\ cancelLocalResolve
    /\ IF EffectiveMode = "Runtime"
       THEN /\ startRuntimeWifi
            /\ linkMode' = EffectiveMode
            /\ IF enrollmentCommitted THEN ForgetPassword /\ bootstrap' = None
                                      ELSE UNCHANGED secrets
            /\ UNCHANGED portal
       ELSE BackToProvisioning /\ UNCHANGED fatalRequested
    /\ UNCHANGED <<ioPc, stopThen, linkState, enrollmentAttempts, enrollmentCommitted,
                   resetRequested, resetHandled, nvs, browser, history>>

Linking(s) == InLoop /\ ioFlow = "Linking" /\ station = "joined" /\ linkState = s

LinkUnchanged == UNCHANGED <<ioPc, stopThen, enrollmentCommitted, signals, nvs, browser,
                             history>>
\* A lookup that ends closes its socket (finishLocalResolve).
HubOf == IF linkMode = "Enrollment" THEN bootstrap ELSE credentials
Advance(s) ==
    /\ linkState' = s
    /\ lookup' = IF s = "Resolving" THEN HubOf ELSE None
    /\ UNCHANGED <<ioFlow, state, linkMode, station, portal, secrets>>

\* connectTls: no connection, a wrong certificate, or a session that begins.
connectTls(attempts) ==
    \/ disconnectAndBackoff(FALSE, attempts)
    \/ disconnectAndBackoff(TRUE, attempts)
    \/ Advance("AwaitServerHello")

\* attemptConnection, to a .local name or to another host.
AttemptConnection ==
    /\ Linking("Backoff")
    /\ enrollmentAttempts' = IF linkMode = "Enrollment" THEN CountAttempt
                                                        ELSE enrollmentAttempts
    /\ Advance("Resolving") \/ connectTls(enrollmentAttempts')
    /\ LinkUnchanged

Resolved ==
    /\ Linking("Resolving")
    /\ connectTls(enrollmentAttempts)
    /\ UNCHANGED enrollmentAttempts /\ LinkUnchanged

\* ServerHello: the token is sent, whether or not the write succeeds, ...
SendEnrollment ==
    /\ Linking("AwaitServerHello") /\ linkMode = "Enrollment"
    /\ enrolls' = [r \in Requests |-> enrolls[r] + IF r = bootstrap THEN 1 ELSE 0]
    /\ Advance("AwaitEnrollment") \/ disconnectAndBackoff(FALSE, enrollmentAttempts)
    /\ UNCHANGED <<ioPc, stopThen, enrollmentAttempts, enrollmentCommitted, signals, nvs,
                   browser, boots, committed>>

\* ... or the stored credential.
SendAuthentication ==
    /\ Linking("AwaitServerHello") /\ linkMode = "Runtime"
    /\ Advance("AwaitAuthentication")
    /\ UNCHANGED enrollmentAttempts /\ LinkUnchanged

\* save and the load that verifies it: what is in NVS and what was read back.
Verified(durable, loaded) == durable /\ loaded
Loaded(r) == credentials' = r

\* A valid EnrollAck: the credential goes to NVS and is read back.
EnrollAck ==
    /\ Linking("AwaitEnrollment")
    /\ \E durable, loaded \in IF StoreFails THEN BOOLEAN ELSE {TRUE} :
           /\ stored' = IF durable THEN bootstrap ELSE stored
           /\ IF Verified(durable, loaded)
              THEN /\ Loaded(bootstrap)
                   /\ ioPc' = "commit"
                   /\ UNCHANGED <<station, portal>>
              ELSE /\ ioPc' = "reject"
                   /\ station' = "off" /\ setStatus("Error")
                   /\ UNCHANGED credentials
    /\ UNCHANGED <<stopThen, ioFlow, state, link, signals, secrets, browser, history>>

\* The rest of processEnrollAck: the token is history, Register is sent or not.
Commit ==
    /\ ioPc = "commit"
    /\ ioPc' = "loop"
    /\ ForgetPassword /\ bootstrap' = None
    /\ enrollmentCommitted' = TRUE /\ linkMode' = ModeAfterCommit
    /\ committed' = committed \cup {bootstrap}
    /\ setStatus("Complete")
    /\ linkState' \in {"AwaitRegistration", "Backoff"}
    /\ UNCHANGED <<stopThen, ioFlow, state, enrollmentAttempts, lookup, signals, nvs,
                   browser, station, boots, enrolls>>

\* The EnrollAck was not saved: processFrame returns false.
Reject ==
    /\ ioPc = "reject"
    /\ ioPc' = "loop"
    /\ disconnectAndBackoff(TRUE, enrollmentAttempts)
    /\ UNCHANGED <<stopThen, enrollmentAttempts, enrollmentCommitted, signals, nvs,
                   browser, history>>

AuthAck ==
    /\ Linking("AwaitAuthentication")
    /\ Advance("AwaitRegistration")
    /\ UNCHANGED enrollmentAttempts /\ LinkUnchanged

RegisterAck ==
    /\ Linking("AwaitRegistration")
    /\ linkState' = "Active" /\ state' = "Online"
    /\ IF linkMode = "Enrollment" \/ enrollmentCommitted
       THEN /\ setStatus("Complete")
            /\ linkMode' = "Runtime" /\ enrollmentCommitted' = FALSE
            /\ ForgetPassword /\ bootstrap' = None
       ELSE UNCHANGED <<portal, linkMode, enrollmentCommitted, secrets>>
    /\ UNCHANGED <<ioPc, stopThen, ioFlow, enrollmentAttempts, lookup, signals, nvs,
                   browser, station, history>>

Awaiting == {"AwaitServerHello", "AwaitEnrollment", "AwaitAuthentication",
             "AwaitRegistration"}

Ends(fatal) ==
    /\ disconnectAndBackoff(fatal, enrollmentAttempts)
    /\ UNCHANGED enrollmentAttempts /\ LinkUnchanged

\* The handshake ends: the socket closes, a write fails, a deadline passes or the
\* Hub says Goodbye; or, fatal, the Hub reports an error, the stored credential
\* has expired, or a frame is refused.
HandshakeEnds(fatal) ==
    (\E s \in Awaiting : Linking(s)) /\ Ends(fatal)

\* An active session ends: also when a heartbeat is overdue or cannot be sent.
ActiveEnds(fatal) ==
    Linking("Active") /\ Ends(fatal)
--------------------------------------------------------------------------------
\* A handshake is bounded by kConnectTimeoutMs; a session may last.
Handshake == SendEnrollment \/ SendAuthentication \/ EnrollAck \/ AuthAck \/ RegisterAck
             \/ \E fatal \in BOOLEAN : HandshakeEnds(fatal)

IoStep ==
    \/ Boot \/ HandleFatal
    \/ StoppedAfterSuccess \/ StoppedWithoutRadio \/ StoppedToErase
    \/ TakeRequest \/ JoinedForEnrollment \/ JoinTimedOut
    \/ JoinedForRuntime \/ ReconnectWifi
    \/ LinkLost \/ AttemptConnection \/ Resolved \/ Handshake \/ Commit \/ Reject

Next ==
    \/ IoStep \/ HandleReset \/ PortalLoop
    \/ \E fatal \in BOOLEAN : ActiveEnds(fatal)
    \/ HttpRead \/ HttpRefuse \/ HttpAccept
    \/ ResetButton \/ PowerCycle \/ WifiJoins \/ WifiDrops

Spec == Init /\ [][Next]_vars

\* ioTask looks at the reset request on every pass and works until it has
\* nothing to do; reading a request body is bounded by the server's timeouts.
FairSpec == Spec /\ WF_vars(IoStep) /\ WF_vars(HandleReset)
                 /\ WF_vars(HttpRefuse \/ HttpAccept)
--------------------------------------------------------------------------------
TypeOK ==
    /\ ioPc \in {"boot", "loop", "stopping", "commit", "reject", "dead"}
    /\ stopThen \in {"loop", "radio", "erase"}
    /\ ioFlow \in {"Starting", "Provisioning", "JoiningForEnrollment",
                   "JoiningForRuntime", "Linking", "Error"}
    /\ state \in {"Starting", "Provisioning", "Connecting", "Online", "Error"}
    /\ linkMode \in {"None", "Enrollment", "Runtime"}
    /\ linkState \in Awaiting \cup {"Stopped", "Backoff", "Resolving", "Active", "Fatal"}
    /\ enrollmentAttempts \in 0 .. kEnrollmentAttempts
    /\ enrollmentCommitted \in BOOLEAN /\ resetRequested \in BOOLEAN
    /\ fatalRequested \in BOOLEAN /\ resetHandled \in BOOLEAN
    /\ {pendingProvisioning, bootstrap, credentials, stored, handler, lookup}
           \subseteq Requests \cup {None}
    /\ portal \in [active : BOOLEAN, pending : Requests \cup {None},
                   status : {"Waiting", "ConnectingWifi", "Enrolling", "Complete", "Error"}]
    /\ station \in {"off", "joining", "joined"}
    /\ posted \in 0 .. MaxRequests /\ boots \in 0 .. MaxBoots

\* What the device acts on and shows is true: in Runtime mode it has a credential, the
\* one a restart would find (Runtime.cpp:1469, 1630, 1982 against 1956); the browser is
\* told "Setup saved" only when a restart finds the credential; and online() is true
\* only in an active session.
RuntimeHasCredential ==
    linkMode = "Runtime" /\ ioPc = "loop" /\ ioFlow \in {"JoiningForRuntime", "Linking"} =>
        credentials # None /\ stored = credentials
CompleteIsDurable == portal.active /\ portal.status = "Complete" => stored # None
OnlineIsActive == state = "Online" /\ ioPc = "loop" => linkState = "Active" /\ ioFlow = "Linking"
ClaimsHold == RuntimeHasCredential /\ CompleteIsDurable /\ OnlineIsActive

\* "From that point the one-shot enrollment token must never be used again"
\* (Runtime.cpp:1465): no Enroll frame follows the commit of its token, none goes
\* out without a token, and a request sends its token a bounded number of times,
\* whichever way the session broke (1555, 1632).
TokenIsOneShot ==
    [][linkState' = "AwaitEnrollment" /\ linkState # "AwaitEnrollment" =>
          /\ bootstrap # None /\ bootstrap \notin committed
          /\ enrolls'[bootstrap] <= kEnrollmentAttempts]_vars

\* Secrets do not outlive their use: a Runtime that waits for a request holds no
\* earlier password or token, one that has enrolled holds none, and a closed
\* portal holds no request (Runtime.cpp:1475, 1639, 1976; Portal.cpp:996).
SecretsAreForgotten ==
    ioPc = "loop" =>
        /\ ioFlow = "Provisioning" => pendingProvisioning = None /\ bootstrap = None
        /\ enrollmentCommitted \/ state = "Online" =>
               pendingProvisioning = None /\ bootstrap = None
        /\ ~portal.active => portal.pending = None

\* "remove the joined STA before accepting new configuration"
\* (Runtime.cpp:1634): when a request is accepted the station is off.
AcceptedWithoutStation ==
    [][portal'.pending # None /\ portal'.pending # portal.pending => station = "off"]_vars

\* The mDNS socket is open while the link waits for it and no longer, and it asks
\* for the Hub of the mode the link is in, not for one of an earlier setup
\* (Runtime.cpp:1214, 1433, 1451, 1463, 1561, 1614).
LookupIsForThisHub ==
    ioPc = "loop" =>
        lookup = IF ioFlow = "Linking" /\ linkState = "Resolving" THEN HubOf ELSE None

\* A setup attempt comes to an end: the portal does not stay busy, wherever the
\* attempt fails (Runtime.cpp:1552).
Busy == portal.active /\ portal.status \in {"ConnectingWifi", "Enrolling"}
PortalIsFreed == Busy ~> ~Busy

\* A reset that was asked for erases the enrollment or ends in the Error state,
\* whatever the I/O task is doing, unless the device loses power or that task
\* never started (Runtime.cpp:1432).
EraseFailed == ~resetRequested /\ state = "Error"
ResetErases ==
    \A b \in 0 .. MaxBoots :
        resetRequested /\ boots = b ~>
            stored = None \/ EraseFailed \/ ioPc = "dead" \/ boots # b
================================================================================
