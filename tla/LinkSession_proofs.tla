--------------------------- MODULE LinkSession_proofs --------------------------
(***************************************************************************)
(* Proofs about LinkSession, for every number of requests, power cycles and *)
(* connections per request, with an NVS that may fail; and about the        *)
(* CredentialStore behind it, for every set of records and any number of    *)
(* generations, if what is in NVS can be read.                              *)
(***************************************************************************)
EXTENDS LinkSession, MCCredentialStore, TLAPS

NoSecrets == pendingProvisioning = None /\ bootstrap = None
Erasing == ioPc = "stopping" /\ stopThen = "erase"

\* Before initializeIo the device has nothing but NVS.
BootInv ==
    ioPc = "boot" =>
        /\ ioFlow = "Starting" /\ linkState = "Stopped" /\ lookup = None
        /\ ~fatalRequested /\ NoSecrets
        /\ ~portal.active /\ handler = None

\* How the flow, the mode and the state of the link go together.
FlowInv ==
    /\ ioPc \in {"commit", "reject"} => ioFlow = "Linking" /\ linkState = "AwaitEnrollment"
    /\ ioPc = "stopping" /\ stopThen = "radio" => ioFlow = "Provisioning"
    /\ fatalRequested => ioFlow = "Error" /\ ioPc \in {"loop", "dead"}
    /\ ioFlow \in {"Starting", "Provisioning", "JoiningForEnrollment"} => linkMode = "None"
    /\ ioFlow = "Linking" =>
           /\ linkMode # "None"
           /\ linkState = "AwaitEnrollment" => linkMode = "Enrollment"
           /\ linkState \in {"AwaitAuthentication", "AwaitRegistration", "Active"} =>
                  linkMode = "Runtime"
    /\ enrollmentCommitted => linkMode = "Runtime"
    /\ state = "Online" => ioFlow = "Linking" /\ linkState = "Active"

\* A device that acts on a credential has the stored one.
CredentialInv ==
    /\ ioFlow = "JoiningForRuntime" \/ (ioFlow = "Linking" /\ linkMode = "Runtime")
       \/ ioPc = "commit" => credentials # None /\ stored = credentials
    /\ ioPc = "commit" => credentials = bootstrap
    /\ CompleteIsDurable

\* When the Runtime has a password or a token, and when it has none.
SecretsInv ==
    /\ linkMode = "Runtime" \/ ioFlow = "JoiningForRuntime" => NoSecrets
    /\ ioFlow \in {"Provisioning", "JoiningForEnrollment"} => bootstrap = None
    /\ ioFlow = "Provisioning" /\ ~(ioPc = "stopping" /\ stopThen = "radio") =>
           pendingProvisioning = None
    /\ ioFlow = "JoiningForEnrollment" => pendingProvisioning # None
    /\ ioFlow = "Linking" /\ linkMode = "Enrollment" => bootstrap # None
    /\ ~portal.active /\ ioPc # "stopping" => portal.pending = None

LookupInv ==
    lookup = IF ioFlow = "Linking" /\ linkState = "Resolving" /\ ~Erasing THEN HubOf ELSE None

\* A request passes from the browser to the portal, the Runtime and the history, and
\* is in no two of these places.
TokenInv ==
    /\ posted \in Nat /\ committed \subseteq 1 .. posted
    /\ {handler, portal.pending, pendingProvisioning, bootstrap} \subseteq 0 .. posted
    /\ {handler, portal.pending, pendingProvisioning, bootstrap} \cap committed = {}
    /\ handler # None => portal.pending = None
    /\ {handler, portal.pending} \cap {pendingProvisioning, bootstrap} \subseteq {None}

\* The attempts that have already sent the token, and those that may.
Spent == enrollmentAttempts
         - IF linkState \in {"Resolving", "AwaitServerHello"} THEN 1 ELSE 0
EnrollInv ==
    /\ enrolls \in [Requests -> Nat] /\ enrollmentAttempts \in 0 .. kEnrollmentAttempts
    /\ \A r \in Requests :
           r > posted \/ r \in {handler, portal.pending}
           \/ (ioFlow # "Linking" /\ r = pendingProvisioning) => enrolls[r] = 0
    /\ ioFlow = "Linking" /\ linkMode = "Enrollment" =>
           /\ enrolls[bootstrap] <= Spent
           /\ linkState = "Backoff" => enrollmentAttempts < kEnrollmentAttempts

SessionInv ==
    TypeOK /\ BootInv /\ FlowInv /\ CredentialInv /\ SecretsInv /\ LookupInv /\ TokenInv
    /\ EnrollInv

Portals == [active : BOOLEAN, pending : Requests \cup {None},
            status : {"Waiting", "ConnectingWifi", "Enrolling", "Complete", "Error"}]
--------------------------------------------------------------------------------
\* How a connection ends: the setup is over, or the link goes on or into the Error state.
LEMMA DisconnectLemma ==
    ASSUME NEW fatal \in BOOLEAN, NEW attempts, disconnectAndBackoff(fatal, attempts)
    PROVE  /\ lookup' = None /\ linkState' \in {"Fatal", "Backoff"}
           /\ \/ BackToProvisioning /\ EffectiveMode = "Enrollment"
              \/ /\ UNCHANGED <<station, portal, pendingProvisioning, bootstrap>>
                 /\ linkMode' = EffectiveMode /\ ioFlow' \in {ioFlow, "Error"}
                 /\ state' \in {"Connecting", "Error"}
                 /\ EffectiveMode = "Enrollment" =>
                        ioFlow' = ioFlow /\ ~AttemptsExhausted(attempts)
    BY DEF disconnectAndBackoff, cancelLocalResolve, secrets, BackToProvisioning

\* The token of the link is not one of a request that waits.
LEMMA TokenLemma ==
    ASSUME SessionInv, NEW r \in Requests, r > posted \/ r \in {handler, portal.pending}
    PROVE  r # bootstrap
<1>1. r # None /\ r \in Int /\ posted \in Int /\ bootstrap \in 0 .. posted
    BY SessionAssumption DEF Requests, None, SessionInv, TokenInv
<1>2. CASE r > posted
    BY <1>1, <1>2
<1>3. CASE r \in {handler, portal.pending}
    BY <1>1, <1>3 DEF SessionInv, TokenInv
<1> QED
    BY <1>2, <1>3

\* An attempt or a handshake that ends keeps the count of the enrollments.
LEMMA DisconnectKeepsCount ==
    ASSUME SessionInv, NEW fatal \in BOOLEAN, ioFlow = "Linking",
           disconnectAndBackoff(fatal, enrollmentAttempts'),
           enrollmentAttempts' \in 0 .. kEnrollmentAttempts,
           enrolls' \in [Requests -> Nat],
           linkMode = "Enrollment" => enrolls'[bootstrap] <= enrollmentAttempts',
           \A r \in Requests \ {bootstrap} : enrolls'[r] = enrolls[r],
           UNCHANGED <<handler, posted, enrollmentCommitted>>
    PROVE  EnrollInv'
<1>1. Spent' = enrollmentAttempts'
    <2>1. linkState' \in {"Fatal", "Backoff"}
        BY DisconnectLemma
    <2>2. Spent' = enrollmentAttempts' - 0
        BY <2>1 DEF Spent
    <2>3. enrollmentAttempts' \in Int
        BY SessionAssumption
    <2>4. \A n \in Int : n - 0 = n
        OBVIOUS
    <2> QED
        BY <2>2, <2>3, <2>4, Zenon
<1>2. portal'.pending = portal.pending
    BY DisconnectLemma DEF BackToProvisioning, setStatus, SessionInv, TypeOK
<1>3. ASSUME NEW r \in Requests, r > posted' \/ r \in {handler', portal'.pending}
      PROVE  enrolls'[r] = 0
    <2>1. r > posted \/ r \in {handler, portal.pending}
        BY <1>2, <1>3
    <2>2. r # bootstrap
        BY <2>1, TokenLemma
    <2> QED
        BY <2>1, <2>2 DEF SessionInv, EnrollInv
<1>4. CASE BackToProvisioning
    <2>1. pendingProvisioning' = None /\ ioFlow' # "Linking"
        BY <1>4 DEF BackToProvisioning, ForgetPassword
    <2>2. \A r \in Requests : r # pendingProvisioning'
        BY <2>1 DEF Requests, None
    <2> QED
        BY <1>3, <2>1, <2>2 DEF EnrollInv
<1>5. CASE /\ UNCHANGED <<station, portal, pendingProvisioning, bootstrap>>
           /\ linkMode' = EffectiveMode /\ ioFlow' \in {ioFlow, "Error"}
           /\ EffectiveMode = "Enrollment" =>
                  ioFlow' = ioFlow /\ ~AttemptsExhausted(enrollmentAttempts')
    <2>1. linkMode' = linkMode
        BY <1>5 DEF EffectiveMode, ModeAfterCommit, SessionInv, FlowInv
    <2>2. ASSUME ioFlow' # "Linking", NEW r \in Requests, r = pendingProvisioning'
          PROVE  FALSE
        <3>1. linkMode # "Enrollment" /\ linkMode # "None"
            BY <1>5, <2>1, <2>2 DEF SessionInv, FlowInv
        <3>2. pendingProvisioning' = None
            BY <1>5, <3>1 DEF SessionInv, TypeOK, SecretsInv, NoSecrets
        <3> QED
            BY <2>2, <3>2 DEF Requests, None
    <2>3. ASSUME linkMode' = "Enrollment"
          PROVE  /\ enrolls'[bootstrap'] <= Spent'
                 /\ enrollmentAttempts' < kEnrollmentAttempts
        BY <1>1, <1>5, <2>1, <2>3, SessionAssumption DEF AttemptsExhausted
    <2> QED
        BY <1>3, <2>2, <2>3 DEF EnrollInv
<1> QED
    BY <1>4, <1>5, DisconnectLemma

\* The token that an attempt may send is counted with the attempt.
LEMMA AttemptCounts == ASSUME SessionInv, AttemptConnection PROVE EnrollInv'
<1>1. /\ ioFlow = "Linking" /\ linkState = "Backoff" /\ enrolls' = enrolls
      /\ UNCHANGED <<handler, posted, enrollmentCommitted>>
    BY DEF AttemptConnection, Linking, LinkUnchanged, browser, history
<1>2. /\ enrolls \in [Requests -> Nat] /\ enrollmentAttempts \in Nat
      /\ enrollmentAttempts' \in 0 .. kEnrollmentAttempts
      /\ linkMode = "Enrollment" => /\ enrollmentAttempts' = enrollmentAttempts + 1
                                    /\ enrolls[bootstrap] <= enrollmentAttempts
    BY <1>1, SessionAssumption
    DEF AttemptConnection, CountAttempt, SessionInv, EnrollInv, Spent
<1>3. linkMode = "Enrollment" => bootstrap \in Requests
    BY <1>1 DEF SessionInv, TypeOK, SecretsInv, FlowInv
<1>4. linkMode = "Enrollment" => enrolls'[bootstrap] <= enrollmentAttempts' - 1
                              /\ enrolls'[bootstrap] <= enrollmentAttempts'
    BY <1>1, <1>2, <1>3
<1>5. CASE Advance("Resolving") \/ Advance("AwaitServerHello")
    <2>1. /\ linkState' \in {"Resolving", "AwaitServerHello"}
          /\ UNCHANGED <<ioFlow, linkMode, portal, pendingProvisioning, bootstrap>>
        BY <1>5 DEF Advance, secrets
    <2>2. linkMode = "Enrollment" => enrolls'[bootstrap] <= Spent'
        BY <1>4, <2>1 DEF Spent
    <2> QED
        BY <1>1, <1>2, <2>1, <2>2 DEF SessionInv, EnrollInv
<1>6. CASE \E fatal \in BOOLEAN : disconnectAndBackoff(fatal, enrollmentAttempts')
    BY <1>1, <1>2, <1>4, <1>6, DisconnectKeepsCount
<1> QED
    BY <1>5, <1>6 DEF AttemptConnection, connectTls

\* So it is when a lookup comes before the connection.
LEMMA ResolvedCounts == ASSUME SessionInv, Resolved PROVE EnrollInv'
<1>1. /\ ioFlow = "Linking" /\ linkState = "Resolving"
      /\ UNCHANGED <<handler, posted, enrollmentCommitted, enrolls, enrollmentAttempts>>
    BY DEF Resolved, Linking, LinkUnchanged, browser, history
<1>2. /\ enrolls \in [Requests -> Nat]
      /\ enrollmentAttempts \in 0 .. kEnrollmentAttempts
      /\ linkMode = "Enrollment" => enrolls[bootstrap] <= enrollmentAttempts - 1
    BY <1>1 DEF SessionInv, EnrollInv, Spent
<1>3. CASE Advance("AwaitServerHello")
    <2>1. /\ linkState' = "AwaitServerHello"
          /\ UNCHANGED <<ioFlow, linkMode, portal, pendingProvisioning, bootstrap>>
        BY <1>3 DEF Advance, secrets
    <2>2. linkMode = "Enrollment" => enrolls'[bootstrap] <= Spent'
        BY <1>1, <1>2, <2>1 DEF Spent
    <2> QED
        BY <1>1, <1>2, <2>1, <2>2 DEF SessionInv, EnrollInv
<1>4. CASE \E fatal \in BOOLEAN : disconnectAndBackoff(fatal, enrollmentAttempts)
    <2>1. linkMode = "Enrollment" => bootstrap \in Requests
        BY <1>1 DEF SessionInv, TypeOK, SecretsInv
    <2>2. linkMode = "Enrollment" => enrolls'[bootstrap] <= enrollmentAttempts'
        BY <1>1, <1>2, <2>1, SessionAssumption
    <2> QED
        BY <1>1, <1>2, <1>4, <2>2, DisconnectKeepsCount
<1> QED
    BY <1>3, <1>4 DEF Resolved, connectTls

\* Each token that is sent uses up an attempt.
LEMMA SendCounts == ASSUME SessionInv, SendEnrollment PROVE EnrollInv'
<1>1. /\ ioFlow = "Linking" /\ linkState = "AwaitServerHello" /\ linkMode = "Enrollment"
      /\ UNCHANGED <<handler, posted, enrollmentCommitted, enrollmentAttempts>>
    BY DEF SendEnrollment, Linking, browser
<1>2. bootstrap \in Requests
    BY <1>1 DEF SessionInv, TypeOK, SecretsInv
<1>3. /\ enrolls \in [Requests -> Nat] /\ enrollmentAttempts \in 0 .. kEnrollmentAttempts
      /\ enrolls[bootstrap] <= enrollmentAttempts - 1
    BY <1>1 DEF SessionInv, EnrollInv, Spent
<1>4. /\ enrolls' \in [Requests -> Nat]
      /\ \A r \in Requests \ {bootstrap} : enrolls'[r] = enrolls[r]
      /\ enrolls'[bootstrap] = enrolls[bootstrap] + 1
    BY <1>2, <1>3 DEF SendEnrollment
<1>5. enrolls'[bootstrap] <= enrollmentAttempts'
    BY <1>1, <1>2, <1>3, <1>4, SessionAssumption
<1>6. CASE Advance("AwaitEnrollment")
    <2>1. /\ linkState' = "AwaitEnrollment"
          /\ UNCHANGED <<ioFlow, linkMode, portal, pendingProvisioning, bootstrap>>
        BY <1>6 DEF Advance, secrets
    <2>2. ASSUME NEW r \in Requests, r > posted' \/ r \in {handler', portal'.pending}
          PROVE  enrolls'[r] = 0
        <3>1. (r > posted \/ r \in {handler, portal.pending}) /\ r # bootstrap
            BY <1>1, <2>1, <2>2, TokenLemma
        <3> QED
            BY <1>4, <3>1 DEF SessionInv, EnrollInv
    <2>3. enrolls'[bootstrap'] <= Spent'
        BY <1>1, <1>3, <1>5, <2>1, SessionAssumption DEF Spent
    <2> QED
        BY <1>1, <1>3, <1>4, <2>1, <2>2, <2>3 DEF EnrollInv
<1>7. CASE disconnectAndBackoff(FALSE, enrollmentAttempts)
    BY <1>1, <1>3, <1>4, <1>5, <1>7, DisconnectKeepsCount
<1> QED
    BY <1>6, <1>7 DEF SendEnrollment

\* The end of a session, whatever the reason, keeps the count.
LEMMA EndsCount ==
    ASSUME SessionInv, NEW fatal \in BOOLEAN, HandshakeEnds(fatal) \/ ActiveEnds(fatal)
    PROVE  EnrollInv'
<1>1. /\ ioFlow = "Linking" /\ disconnectAndBackoff(fatal, enrollmentAttempts')
      /\ UNCHANGED <<handler, posted, enrollmentCommitted, enrolls, enrollmentAttempts>>
    BY DEF HandshakeEnds, ActiveEnds, Ends, Linking, LinkUnchanged, browser, history
<1>2. /\ enrolls \in [Requests -> Nat] /\ enrollmentAttempts \in 0 .. kEnrollmentAttempts
      /\ linkMode = "Enrollment" => enrolls[bootstrap] <= Spent
    BY <1>1 DEF SessionInv, EnrollInv
<1>3. linkMode = "Enrollment" => enrolls[bootstrap] <= enrollmentAttempts
    <2>1. linkMode = "Enrollment" => bootstrap \in Requests
        BY <1>1 DEF SessionInv, TypeOK, SecretsInv
    <2> QED
        BY <1>2, <2>1, SessionAssumption DEF Spent
<1> QED
    BY <1>1, <1>2, <1>3, DisconnectKeepsCount

\* The portal after a reset is empty, and waits if it is open.
LEMMA EraseLemma ==
    ASSUME SessionInv, StoppedToErase
    PROVE  /\ portal' \in Portals /\ portal'.pending = None
           /\ portal'.active => \/ portal'.status = "Waiting"
                                \/ UNCHANGED <<stored, portal.active, portal.status>>
<1>1. portal \in Portals
    BY DEF SessionInv, TypeOK, Portals
<1>2. CASE portal' = [active |-> TRUE, status |-> "Waiting", pending |-> None]
    BY <1>2 DEF Portals
<1>3. CASE portal' = [portal EXCEPT !.active = FALSE, !.pending = None]
    BY <1>1, <1>3 DEF Portals
<1>4. CASE portal' = [portal EXCEPT !.pending = None] /\ UNCHANGED stored
    BY <1>1, <1>4 DEF Portals
<1> QED
    BY <1>2, <1>3, <1>4 DEF StoppedToErase, startProvisioning

\* After a reset the device holds no request.
LEMMA EraseKeeps ==
    ASSUME SessionInv, StoppedToErase
    PROVE  CredentialInv' /\ SecretsInv' /\ TokenInv' /\ EnrollInv'
<1>1. /\ ioPc' = "loop" /\ handler = None
      /\ pendingProvisioning' = None /\ bootstrap' = None
      /\ ioFlow' \in {"Provisioning", "Error"}
      /\ UNCHANGED <<enrollmentAttempts, handler, posted, enrolls, committed>>
    BY DEF StoppedToErase, StopJoined, ForgetPassword, startProvisioning, FatalError,
           browser, history
<1>2. CredentialInv'
    BY <1>1, EraseLemma DEF CredentialInv, CompleteIsDurable, SessionInv
<1>3. SecretsInv'
    BY <1>1, EraseLemma DEF SecretsInv, NoSecrets
<1>4. TokenInv'
    BY <1>1, EraseLemma DEF SessionInv, TokenInv, None
<1>5. EnrollInv'
    BY <1>1, EraseLemma DEF SessionInv, EnrollInv, Requests, None
<1> QED
    BY <1>2, <1>3, <1>4, <1>5

\* A request that is taken leaves the portal.
LEMMA TakePasses == ASSUME SessionInv, TakeRequest PROVE TokenInv'
<1>1. /\ pendingProvisioning' = portal.pending /\ portal.pending # None
      /\ ioFlow = "Provisioning"
      /\ portal'.pending = None /\ UNCHANGED <<bootstrap, handler, posted, committed>>
    BY DEF TakeRequest, SessionInv, TypeOK, browser, history
<1>2. bootstrap = None /\ handler = None
    BY <1>1 DEF SessionInv, SecretsInv, TokenInv
<1> QED
    BY <1>1, <1>2 DEF SessionInv, TokenInv, None

\* A token that is committed is in no other place any more.
LEMMA CommitPasses == ASSUME SessionInv, Commit PROVE TokenInv'
<1>1. /\ pendingProvisioning' = None /\ bootstrap' = None /\ portal'.pending = portal.pending
      /\ committed' = committed \cup {bootstrap} /\ UNCHANGED <<handler, posted>>
    BY DEF Commit, ForgetPassword, setStatus, SessionInv, TypeOK, browser
<1>2. bootstrap # None
    BY DEF Commit, SessionInv, FlowInv, SecretsInv
<1>3. /\ posted \in Nat /\ committed \subseteq 1 .. posted
      /\ handler \in 0 .. posted /\ portal.pending \in 0 .. posted /\ bootstrap \in 0 .. posted
      /\ handler \notin committed /\ portal.pending \notin committed
      /\ handler # None => portal.pending = None
    BY DEF SessionInv, TokenInv
<1>4. /\ handler # bootstrap /\ portal.pending # bootstrap
      /\ committed' \subseteq 1 .. posted
    <2>1. handler \in {handler, portal.pending} \cap {pendingProvisioning, bootstrap} =>
              handler = None
        BY DEF SessionInv, TokenInv
    <2>2. portal.pending \in {handler, portal.pending} \cap {pendingProvisioning, bootstrap} =>
              portal.pending = None
        BY DEF SessionInv, TokenInv
    <2>3. bootstrap \in 1 .. posted
        BY <1>2, <1>3 DEF None
    <2> QED
        BY <1>1, <1>2, <1>3, <2>1, <2>2, <2>3
<1>5. handler \notin committed' /\ portal.pending \notin committed' /\ None \notin committed'
    BY <1>1, <1>2, <1>3, <1>4 DEF None
<1> QED
    BY <1>1, <1>3, <1>4, <1>5 DEF TokenInv, None
--------------------------------------------------------------------------------
\* initializeIo finds what is stored, and holds nothing else yet.
LEMMA BootKeeps == ASSUME SessionInv, Boot PROVE SessionInv'
<1> USE DEF SessionInv, Boot, history, browser, secrets, FatalError, startProvisioning,
        None, startRuntimeWifi, OfflineState
<1>1. TypeOK'
    <2>1. /\ enrollmentCommitted' \in BOOLEAN /\ resetRequested' \in BOOLEAN
          /\ fatalRequested' \in BOOLEAN /\ resetHandled' \in BOOLEAN
        BY DEF TypeOK
    <2>2. portal' \in Portals
        <3>1. portal \in Portals
            BY DEF TypeOK, Portals
        <3>2. CASE portal' = portal
            BY <3>1, <3>2
        <3>3. CASE portal' = [active |-> TRUE, status |-> "Waiting", pending |-> None]
            BY <3>3 DEF Portals
        <3>4. CASE portal' = [portal EXCEPT !.active = FALSE, !.pending = None]
            BY <3>1, <3>4 DEF Portals
        <3> QED
            BY <3>2, <3>3, <3>4
    <2> QED
        BY <2>1, <2>2, SessionAssumption DEF TypeOK, Portals, Requests, Awaiting
<1>2. BootInv' /\ CredentialInv' /\ TokenInv'
    BY DEF BootInv, CredentialInv, TokenInv, NoSecrets, None, CompleteIsDurable
<1>3. FlowInv'
    BY DEF FlowInv, BootInv, NoSecrets, None
<1>4. SecretsInv'
    BY DEF SecretsInv, BootInv, NoSecrets, None
<1>5. LookupInv'
    BY DEF LookupInv, BootInv, Erasing, HubOf, None, NoSecrets
<1>6. EnrollInv'
    BY SessionAssumption DEF EnrollInv, BootInv, Spent, Requests, NoSecrets, None
<1> QED
    BY <1>1, <1>2, <1>3, <1>4, <1>5, <1>6

\* Without power only NVS and the history remain.
LEMMA PowerCycleKeeps == ASSUME SessionInv, PowerCycle PROVE SessionInv'
<1> USE DEF SessionInv, PowerCycle, None
<1>1. TypeOK'
    <2>1. /\ enrollmentCommitted' \in BOOLEAN /\ resetRequested' \in BOOLEAN
          /\ fatalRequested' \in BOOLEAN /\ resetHandled' \in BOOLEAN
        BY DEF TypeOK
    <2>2. portal' \in Portals
        BY SessionAssumption DEF TypeOK, Portals, Requests
    <2> QED
        BY <2>1, <2>2, SessionAssumption DEF TypeOK, Portals, Requests, Awaiting
<1>2. BootInv' /\ FlowInv' /\ CredentialInv' /\ SecretsInv'
      /\ LookupInv' /\ TokenInv' /\ EnrollInv'
    BY SessionAssumption DEF BootInv, FlowInv, CredentialInv, SecretsInv, LookupInv,
       TokenInv, EnrollInv, NoSecrets, None, CompleteIsDurable, Erasing, HubOf, Spent,
       Requests
<1> QED
    BY <1>1, <1>2

\* The reset button sets a signal.
LEMMA ResetButtonKeeps == ASSUME SessionInv, ResetButton PROVE SessionInv'
<1> USE DEF SessionInv, ResetButton, history, browser, nvs, secrets, link, mode
<1>1. TypeOK'
    BY SessionAssumption DEF TypeOK, Requests, Awaiting, None
<1>2. BootInv' /\ FlowInv' /\ CredentialInv' /\ SecretsInv'
      /\ LookupInv' /\ TokenInv' /\ EnrollInv'
    BY SessionAssumption DEF BootInv, FlowInv, CredentialInv, SecretsInv, LookupInv,
       TokenInv, EnrollInv, NoSecrets, None, CompleteIsDurable, Erasing, HubOf, Spent,
       Requests
<1> QED
    BY <1>1, <1>2

\* A fatal signal finds the flow in the Error state, where it stays.
LEMMA HandleFatalKeeps == ASSUME SessionInv, HandleFatal PROVE SessionInv'
<1> USE DEF SessionInv, HandleFatal, history, browser, nvs, secrets
<1>1. TypeOK'
    <2>1. /\ enrollmentCommitted' \in BOOLEAN /\ resetRequested' \in BOOLEAN
          /\ fatalRequested' \in BOOLEAN /\ resetHandled' \in BOOLEAN
        BY DEF TypeOK
    <2>2. portal' \in Portals
        BY SessionAssumption DEF TypeOK, Portals, Requests
    <2> QED
        BY <2>1, <2>2, SessionAssumption DEF TypeOK, Portals, Requests, Awaiting
<1>2. BootInv' /\ FlowInv' /\ CredentialInv' /\ SecretsInv' /\ TokenInv'
    BY DEF BootInv, FlowInv, CredentialInv, SecretsInv, TokenInv, NoSecrets, None,
       CompleteIsDurable
<1>3. LookupInv'
    BY DEF LookupInv, FlowInv, Erasing, HubOf, None
<1>4. EnrollInv'
    BY SessionAssumption DEF EnrollInv, FlowInv, Spent, Requests
<1> QED
    BY <1>1, <1>2, <1>3, <1>4

\* A reset begins with closing the lookup and the portal.
LEMMA HandleResetKeeps == ASSUME SessionInv, HandleReset PROVE SessionInv'
<1> USE DEF SessionInv, HandleReset, history, browser, nvs, secrets, mode, BeginStop,
        cancelLocalResolve, None, ResetWaiting, InLoop
<1>1. TypeOK'
    <2>1. /\ enrollmentCommitted' \in BOOLEAN /\ resetRequested' \in BOOLEAN
          /\ fatalRequested' \in BOOLEAN /\ resetHandled' \in BOOLEAN
        BY DEF TypeOK
    <2>2. portal' \in Portals
        BY SessionAssumption DEF TypeOK, Portals, Requests
    <2> QED
        BY <2>1, <2>2, SessionAssumption DEF TypeOK, Portals, Requests, Awaiting
<1>2. BootInv' /\ FlowInv' /\ CredentialInv' /\ SecretsInv'
      /\ LookupInv' /\ TokenInv' /\ EnrollInv'
    BY SessionAssumption DEF BootInv, FlowInv, CredentialInv, SecretsInv, LookupInv,
       TokenInv, EnrollInv, NoSecrets, None, CompleteIsDurable, Erasing, HubOf, Spent,
       Requests
<1> QED
    BY <1>1, <1>2

\* A portal that has succeeded begins to stop.
LEMMA PortalLoopKeeps == ASSUME SessionInv, PortalLoop PROVE SessionInv'
<1> USE DEF SessionInv, PortalLoop, history, browser, nvs, secrets, signals, link, mode,
        BeginStop, InLoop
<1>1. TypeOK'
    <2>1. /\ enrollmentCommitted' \in BOOLEAN /\ resetRequested' \in BOOLEAN
          /\ fatalRequested' \in BOOLEAN /\ resetHandled' \in BOOLEAN
        BY DEF TypeOK
    <2>2. portal' \in Portals
        BY SessionAssumption DEF TypeOK, Portals, Requests
    <2> QED
        BY <2>1, <2>2, SessionAssumption DEF TypeOK, Portals, Requests, Awaiting
<1>2. BootInv' /\ FlowInv' /\ CredentialInv' /\ SecretsInv'
      /\ LookupInv' /\ TokenInv' /\ EnrollInv'
    BY SessionAssumption DEF BootInv, FlowInv, CredentialInv, SecretsInv, LookupInv,
       TokenInv, EnrollInv, NoSecrets, None, CompleteIsDurable, Erasing, HubOf, Spent,
       Requests
<1> QED
    BY <1>1, <1>2

\* A portal that has stopped after success has forgotten its request.
LEMMA StoppedAfterSuccessKeeps == ASSUME SessionInv, StoppedAfterSuccess PROVE SessionInv'
<1> USE DEF SessionInv, StoppedAfterSuccess, nvs, secrets, None, StopJoined, history,
        browser
<1>1. TypeOK'
    <2>1. /\ enrollmentCommitted' \in BOOLEAN /\ resetRequested' \in BOOLEAN
          /\ fatalRequested' \in BOOLEAN /\ resetHandled' \in BOOLEAN
        BY DEF TypeOK
    <2>2. portal' \in Portals
        BY SessionAssumption DEF TypeOK, Portals, Requests
    <2> QED
        BY <2>1, <2>2, SessionAssumption DEF TypeOK, Portals, Requests, Awaiting
<1>2. BootInv' /\ FlowInv' /\ CredentialInv' /\ SecretsInv'
      /\ LookupInv' /\ TokenInv' /\ EnrollInv'
    BY SessionAssumption DEF BootInv, FlowInv, CredentialInv, SecretsInv, LookupInv,
       TokenInv, EnrollInv, NoSecrets, None, CompleteIsDurable, Erasing, HubOf, Spent,
       Requests
<1> QED
    BY <1>1, <1>2

\* Without a radio the request is forgotten.
LEMMA StoppedWithoutRadioKeeps == ASSUME SessionInv, StoppedWithoutRadio PROVE SessionInv'
<1> USE DEF SessionInv, StoppedWithoutRadio, nvs, FatalError, ForgetPassword, None,
        LeaveStation, StopJoined, history, browser
<1>1. TypeOK'
    BY SessionAssumption DEF TypeOK, Requests, Awaiting, None
<1>2. BootInv' /\ FlowInv' /\ CredentialInv' /\ SecretsInv' /\ TokenInv' /\ EnrollInv'
    BY SessionAssumption DEF BootInv, FlowInv, CredentialInv, SecretsInv, TokenInv,
       EnrollInv, NoSecrets, None, CompleteIsDurable, Spent, Requests
<1>3. LookupInv'
    BY DEF LookupInv, FlowInv, Erasing, HubOf, None
<1> QED
    BY <1>1, <1>2, <1>3

\* What is erased is forgotten in RAM too.
LEMMA StoppedToEraseKeeps == ASSUME SessionInv, StoppedToErase PROVE SessionInv'
<1> USE DEF SessionInv, StoppedToErase, FatalError, None, startProvisioning,
        ForgetPassword, LeaveStation, StopJoined, history, browser
<1>1. TypeOK'
    <2>1. /\ enrollmentCommitted' \in BOOLEAN /\ resetRequested' \in BOOLEAN
          /\ fatalRequested' \in BOOLEAN /\ resetHandled' \in BOOLEAN
        BY DEF TypeOK
    <2>2. portal' \in Portals
        BY EraseLemma
    <2> QED
        BY <2>1, <2>2, SessionAssumption DEF TypeOK, Portals, Requests, Awaiting
<1>2. BootInv' /\ FlowInv' /\ LookupInv'
    BY DEF BootInv, FlowInv, LookupInv, NoSecrets, None, Erasing, HubOf
<1>3. CredentialInv' /\ SecretsInv' /\ TokenInv' /\ EnrollInv'
    BY EraseKeeps
<1> QED
    BY <1>1, <1>2, <1>3

\* A request that is read is a new one.
LEMMA HttpReadKeeps == ASSUME SessionInv, HttpRead PROVE SessionInv'
<1> USE DEF SessionInv, HttpRead, history, nvs, secrets, signals, link, mode,
        AcceptsConfig, None
<1>1. TypeOK'
    BY SessionAssumption DEF TypeOK, Requests, Awaiting, None
<1>2. BootInv' /\ FlowInv' /\ CredentialInv' /\ SecretsInv' /\ LookupInv' /\ TokenInv'
    BY DEF BootInv, FlowInv, CredentialInv, SecretsInv, LookupInv, TokenInv, NoSecrets,
       None, CompleteIsDurable, Erasing, HubOf
<1>3. EnrollInv'
    BY SessionAssumption DEF EnrollInv, FlowInv, TypeOK, Spent, Requests, Awaiting, None
<1> QED
    BY <1>1, <1>2, <1>3

\* A request that is refused is gone.
LEMMA HttpRefuseKeeps == ASSUME SessionInv, HttpRefuse PROVE SessionInv'
<1> USE DEF SessionInv, HttpRefuse, history, nvs, secrets, signals, link, mode, None
<1>1. TypeOK'
    BY SessionAssumption DEF TypeOK, Requests, Awaiting, None
<1>2. BootInv' /\ FlowInv' /\ CredentialInv' /\ SecretsInv'
      /\ LookupInv' /\ TokenInv' /\ EnrollInv'
    BY SessionAssumption DEF BootInv, FlowInv, CredentialInv, SecretsInv, LookupInv,
       TokenInv, EnrollInv, NoSecrets, None, CompleteIsDurable, Erasing, HubOf, Spent,
       Requests
<1> QED
    BY <1>1, <1>2

\* A request that is accepted passes to the portal.
LEMMA HttpAcceptKeeps == ASSUME SessionInv, HttpAccept PROVE SessionInv'
<1> USE DEF SessionInv, HttpAccept, history, nvs, secrets, signals, link, mode, None,
        AcceptsConfig
<1>1. TypeOK'
    <2>1. /\ enrollmentCommitted' \in BOOLEAN /\ resetRequested' \in BOOLEAN
          /\ fatalRequested' \in BOOLEAN /\ resetHandled' \in BOOLEAN
        BY DEF TypeOK
    <2>2. portal' \in Portals
        BY SessionAssumption DEF TypeOK, Portals, Requests
    <2> QED
        BY <2>1, <2>2, SessionAssumption DEF TypeOK, Portals, Requests, Awaiting
<1>2. BootInv' /\ FlowInv' /\ CredentialInv' /\ SecretsInv'
      /\ LookupInv' /\ TokenInv' /\ EnrollInv'
    BY SessionAssumption DEF BootInv, FlowInv, CredentialInv, SecretsInv, LookupInv,
       TokenInv, EnrollInv, NoSecrets, None, CompleteIsDurable, Erasing, HubOf, Spent,
       Requests
<1> QED
    BY <1>1, <1>2

\* A request that is taken passes to the Runtime.
LEMMA TakeRequestKeeps == ASSUME SessionInv, TakeRequest PROVE SessionInv'
<1> USE DEF SessionInv, TakeRequest, history, browser, nvs, signals, link, mode, None,
        InLoop
<1>1. TypeOK'
    <2>1. /\ enrollmentCommitted' \in BOOLEAN /\ resetRequested' \in BOOLEAN
          /\ fatalRequested' \in BOOLEAN /\ resetHandled' \in BOOLEAN
        BY DEF TypeOK
    <2>2. portal' \in Portals
        BY SessionAssumption DEF TypeOK, Portals, Requests
    <2> QED
        BY <2>1, <2>2, SessionAssumption DEF TypeOK, Portals, Requests, Awaiting
<1>2. BootInv' /\ FlowInv' /\ LookupInv'
    BY DEF BootInv, FlowInv, LookupInv, NoSecrets, None, Erasing, HubOf
<1>3. CredentialInv'
    BY SessionAssumption DEF CredentialInv, FlowInv, TypeOK, CompleteIsDurable, None,
       Requests, Awaiting
<1>4. SecretsInv'
    BY SessionAssumption DEF SecretsInv, FlowInv, TypeOK, NoSecrets, None, Requests,
       Awaiting
<1>5. TokenInv'
    BY TakePasses
<1>6. EnrollInv'
    <2>1. enrolls' \in [Requests -> Nat] /\ enrollmentAttempts' \in 0 .. kEnrollmentAttempts
        BY SessionAssumption DEF EnrollInv, FlowInv, SecretsInv, TokenInv, TypeOK, Spent,
           Requests, NoSecrets, None, Awaiting
    <2>2. \A r \in Requests :
              r > posted' \/ r \in {handler', portal'.pending}
              \/ (ioFlow' # "Linking" /\ r = pendingProvisioning') => enrolls'[r] = 0
        <3>1. /\ pendingProvisioning' = portal.pending /\ portal'.pending = None
              /\ ioFlow = "Provisioning" /\ UNCHANGED <<handler, posted, enrolls>>
            BY DEF TypeOK
        <3>2. \A r \in Requests : r > posted \/ r \in {handler, portal.pending} => enrolls[r] = 0
            BY DEF EnrollInv
        <3>3. None \notin Requests
            BY SessionAssumption DEF Requests, None
        <3> QED
            BY <3>1, <3>2, <3>3
    <2>3. ioFlow' = "Linking" /\ linkMode' = "Enrollment" =>
              /\ enrolls'[bootstrap'] <= Spent'
              /\ linkState' = "Backoff" => enrollmentAttempts' < kEnrollmentAttempts
        BY SessionAssumption DEF EnrollInv, FlowInv, SecretsInv, TokenInv, TypeOK, Spent,
           Requests, NoSecrets, None, Awaiting
    <2> QED
        BY <2>1, <2>2, <2>3 DEF EnrollInv
<1> QED
    BY <1>1, <1>2, <1>3, <1>4, <1>5, <1>6

\* The token of the request that was taken becomes that of the link.
LEMMA JoinedForEnrollmentKeeps == ASSUME SessionInv, JoinedForEnrollment PROVE SessionInv'
<1> USE DEF SessionInv, JoinedForEnrollment, history, browser, nvs, signals, startLink,
        None, setStatus, InLoop
<1>1. TypeOK'
    <2>1. /\ enrollmentCommitted' \in BOOLEAN /\ resetRequested' \in BOOLEAN
          /\ fatalRequested' \in BOOLEAN /\ resetHandled' \in BOOLEAN
        BY DEF TypeOK
    <2>2. portal' \in Portals
        BY SessionAssumption DEF TypeOK, Portals, Requests
    <2> QED
        BY <2>1, <2>2, SessionAssumption DEF TypeOK, Portals, Requests, Awaiting
<1>2. BootInv' /\ FlowInv' /\ CredentialInv' /\ SecretsInv' /\ LookupInv' /\ TokenInv'
    BY DEF BootInv, FlowInv, CredentialInv, SecretsInv, LookupInv, TokenInv, NoSecrets,
       None, CompleteIsDurable, Erasing, HubOf
<1>3. EnrollInv'
    BY SessionAssumption DEF EnrollInv, FlowInv, SecretsInv, TokenInv, TypeOK, Spent,
       Requests, NoSecrets, None, Awaiting
<1> QED
    BY <1>1, <1>2, <1>3

\* Without a network the password is forgotten.
LEMMA JoinTimedOutKeeps == ASSUME SessionInv, JoinTimedOut PROVE SessionInv'
<1> USE DEF SessionInv, JoinTimedOut, history, browser, nvs, signals, link, mode,
        setStatus, ForgetPassword, None, LeaveStation, InLoop
<1>1. TypeOK'
    BY SessionAssumption DEF TypeOK, Requests, Awaiting, None
<1>2. BootInv' /\ FlowInv' /\ CredentialInv' /\ SecretsInv'
      /\ LookupInv' /\ TokenInv' /\ EnrollInv'
    BY SessionAssumption DEF BootInv, FlowInv, CredentialInv, SecretsInv, LookupInv,
       TokenInv, EnrollInv, NoSecrets, None, CompleteIsDurable, Erasing, HubOf, Spent,
       Requests
<1> QED
    BY <1>1, <1>2

\* The link of an enrolled device begins with the stored credential.
LEMMA JoinedForRuntimeKeeps == ASSUME SessionInv, JoinedForRuntime PROVE SessionInv'
<1> USE DEF SessionInv, JoinedForRuntime, history, browser, nvs, secrets, signals,
        startLink, None, InLoop
<1>1. TypeOK'
    <2>1. /\ enrollmentCommitted' \in BOOLEAN /\ resetRequested' \in BOOLEAN
          /\ fatalRequested' \in BOOLEAN /\ resetHandled' \in BOOLEAN
        BY DEF TypeOK
    <2>2. portal' \in Portals
        BY SessionAssumption DEF TypeOK, Portals, Requests
    <2> QED
        BY <2>1, <2>2, SessionAssumption DEF TypeOK, Portals, Requests, Awaiting
<1>2. BootInv' /\ FlowInv' /\ CredentialInv' /\ SecretsInv'
      /\ LookupInv' /\ TokenInv' /\ EnrollInv'
    BY SessionAssumption DEF BootInv, FlowInv, CredentialInv, SecretsInv, LookupInv,
       TokenInv, EnrollInv, NoSecrets, None, CompleteIsDurable, Erasing, HubOf, Spent,
       Requests
<1> QED
    BY <1>1, <1>2

\* A retry touches the station only.
LEMMA ReconnectWifiKeeps == ASSUME SessionInv, ReconnectWifi PROVE SessionInv'
<1> USE DEF SessionInv, ReconnectWifi, history, browser, nvs, secrets, signals, link,
        mode, InLoop
<1>1. TypeOK'
    BY SessionAssumption DEF TypeOK, Requests, Awaiting, None
<1>2. BootInv' /\ FlowInv' /\ CredentialInv' /\ SecretsInv'
      /\ LookupInv' /\ TokenInv' /\ EnrollInv'
    BY SessionAssumption DEF BootInv, FlowInv, CredentialInv, SecretsInv, LookupInv,
       TokenInv, EnrollInv, NoSecrets, None, CompleteIsDurable, Erasing, HubOf, Spent,
       Requests
<1> QED
    BY <1>1, <1>2

\* So does the network that answers,
LEMMA WifiJoinsKeeps == ASSUME SessionInv, WifiJoins PROVE SessionInv'
<1> USE DEF SessionInv, WifiJoins, history, browser, nvs, secrets, signals, link, mode
<1>1. TypeOK'
    BY SessionAssumption DEF TypeOK, Requests, Awaiting, None
<1>2. BootInv' /\ FlowInv' /\ CredentialInv' /\ SecretsInv'
      /\ LookupInv' /\ TokenInv' /\ EnrollInv'
    BY SessionAssumption DEF BootInv, FlowInv, CredentialInv, SecretsInv, LookupInv,
       TokenInv, EnrollInv, NoSecrets, None, CompleteIsDurable, Erasing, HubOf, Spent,
       Requests
<1> QED
    BY <1>1, <1>2

\* and the one that goes away.
LEMMA WifiDropsKeeps == ASSUME SessionInv, WifiDrops PROVE SessionInv'
<1> USE DEF SessionInv, WifiDrops, history, browser, nvs, secrets, signals, link, mode
<1>1. TypeOK'
    BY SessionAssumption DEF TypeOK, Requests, Awaiting, None
<1>2. BootInv' /\ FlowInv' /\ CredentialInv' /\ SecretsInv'
      /\ LookupInv' /\ TokenInv' /\ EnrollInv'
    BY SessionAssumption DEF BootInv, FlowInv, CredentialInv, SecretsInv, LookupInv,
       TokenInv, EnrollInv, NoSecrets, None, CompleteIsDurable, Erasing, HubOf, Spent,
       Requests
<1> QED
    BY <1>1, <1>2

\* A link that loses the network goes back to where its mode began.
LEMMA LinkLostKeeps == ASSUME SessionInv, LinkLost PROVE SessionInv'
<1> USE DEF SessionInv, LinkLost, history, browser, nvs, BackToProvisioning, None,
        ForgetPassword, setStatus, LeaveStation, secrets, EffectiveMode,
        ModeAfterCommit, startRuntimeWifi, FatalError, OfflineState, cancelLocalResolve,
        InLoop
<1>1. TypeOK'
    <2>1. /\ enrollmentCommitted' \in BOOLEAN /\ resetRequested' \in BOOLEAN
          /\ fatalRequested' \in BOOLEAN /\ resetHandled' \in BOOLEAN
        BY DEF TypeOK
    <2>2. portal' \in Portals
        BY SessionAssumption DEF TypeOK, Portals, Requests
    <2> QED
        BY <2>1, <2>2, SessionAssumption DEF TypeOK, Portals, Requests, Awaiting
<1>2. BootInv' /\ FlowInv' /\ LookupInv'
    BY DEF BootInv, FlowInv, LookupInv, NoSecrets, None, Erasing, HubOf
<1>3. CredentialInv'
    BY SessionAssumption DEF CredentialInv, FlowInv, TypeOK, CompleteIsDurable, None,
       Requests, Awaiting
<1>4. SecretsInv'
    BY SessionAssumption DEF SecretsInv, FlowInv, TypeOK, NoSecrets, None, Requests,
       Awaiting
<1>5. TokenInv'
    BY SessionAssumption DEF TokenInv, FlowInv, TypeOK, None, Requests, Awaiting
<1>6. EnrollInv'
    <2>1. enrolls' \in [Requests -> Nat] /\ enrollmentAttempts' \in 0 .. kEnrollmentAttempts
        BY SessionAssumption DEF EnrollInv, FlowInv, SecretsInv, TokenInv, TypeOK, Spent,
           Requests, NoSecrets, None, Awaiting
    <2>2. \A r \in Requests :
              r > posted' \/ r \in {handler', portal'.pending}
              \/ (ioFlow' # "Linking" /\ r = pendingProvisioning') => enrolls'[r] = 0
        BY SessionAssumption DEF EnrollInv, FlowInv, SecretsInv, TokenInv, TypeOK, Spent,
           Requests, NoSecrets, None, Awaiting
    <2>3. ioFlow' = "Linking" /\ linkMode' = "Enrollment" =>
              /\ enrolls'[bootstrap'] <= Spent'
              /\ linkState' = "Backoff" => enrollmentAttempts' < kEnrollmentAttempts
        BY SessionAssumption DEF EnrollInv, FlowInv, SecretsInv, TokenInv, TypeOK, Spent,
           Requests, NoSecrets, None, Awaiting
    <2> QED
        BY <2>1, <2>2, <2>3 DEF EnrollInv
<1> QED
    BY <1>1, <1>2, <1>3, <1>4, <1>5, <1>6

\* A connection is tried.
LEMMA AttemptConnectionKeeps == ASSUME SessionInv, AttemptConnection PROVE SessionInv'
<1> USE DEF SessionInv, AttemptConnection, LinkUnchanged, history, browser, nvs,
        signals, connectTls, Advance, secrets, None, HubOf, disconnectAndBackoff,
        EffectiveMode, ModeAfterCommit, BackToProvisioning, ForgetPassword, setStatus,
        LeaveStation, cancelLocalResolve, AttemptsExhausted, CountAttempt, Linking,
        InLoop
<1>1. TypeOK'
    <2>1. /\ enrollmentCommitted' \in BOOLEAN /\ resetRequested' \in BOOLEAN
          /\ fatalRequested' \in BOOLEAN /\ resetHandled' \in BOOLEAN
        BY DEF TypeOK
    <2>2. portal' \in Portals
        BY SessionAssumption DEF TypeOK, Portals, Requests
    <2>3. enrollmentAttempts' \in 0 .. kEnrollmentAttempts
        BY AttemptCounts DEF EnrollInv
    <2> QED
        BY <2>1, <2>2, <2>3, SessionAssumption DEF TypeOK, Portals, Requests, Awaiting
<1>2. BootInv' /\ FlowInv' /\ LookupInv'
    BY DEF BootInv, FlowInv, LookupInv, NoSecrets, None, Erasing, HubOf
<1>3. CredentialInv'
    BY SessionAssumption DEF CredentialInv, FlowInv, TypeOK, CompleteIsDurable, None,
       Requests, Awaiting
<1>4. SecretsInv'
    BY SessionAssumption DEF SecretsInv, FlowInv, TypeOK, NoSecrets, None, Requests,
       Awaiting
<1>5. TokenInv'
    BY SessionAssumption DEF TokenInv, FlowInv, TypeOK, None, Requests, Awaiting
<1>6. EnrollInv'
    BY AttemptCounts
<1> QED
    BY <1>1, <1>2, <1>3, <1>4, <1>5, <1>6

\* A lookup has found the Hub or has failed.
LEMMA ResolvedKeeps == ASSUME SessionInv, Resolved PROVE SessionInv'
<1> USE DEF SessionInv, Resolved, LinkUnchanged, history, browser, nvs, signals,
        connectTls, Advance, secrets, None, HubOf, disconnectAndBackoff, EffectiveMode,
        ModeAfterCommit, BackToProvisioning, ForgetPassword, setStatus, LeaveStation,
        cancelLocalResolve, AttemptsExhausted, Linking, InLoop
<1>1. TypeOK'
    <2>1. /\ enrollmentCommitted' \in BOOLEAN /\ resetRequested' \in BOOLEAN
          /\ fatalRequested' \in BOOLEAN /\ resetHandled' \in BOOLEAN
        BY DEF TypeOK
    <2>2. portal' \in Portals
        BY SessionAssumption DEF TypeOK, Portals, Requests
    <2> QED
        BY <2>1, <2>2, SessionAssumption DEF TypeOK, Portals, Requests, Awaiting
<1>2. BootInv' /\ FlowInv' /\ LookupInv'
    BY DEF BootInv, FlowInv, LookupInv, NoSecrets, None, Erasing, HubOf
<1>3. CredentialInv'
    BY SessionAssumption DEF CredentialInv, FlowInv, TypeOK, CompleteIsDurable, None,
       Requests, Awaiting
<1>4. SecretsInv'
    BY SessionAssumption DEF SecretsInv, FlowInv, TypeOK, NoSecrets, None, Requests,
       Awaiting
<1>5. TokenInv'
    BY SessionAssumption DEF TokenInv, FlowInv, TypeOK, None, Requests, Awaiting
<1>6. EnrollInv'
    BY ResolvedCounts
<1> QED
    BY <1>1, <1>2, <1>3, <1>4, <1>5, <1>6

\* The token goes out.
LEMMA SendEnrollmentKeeps == ASSUME SessionInv, SendEnrollment PROVE SessionInv'
<1> USE DEF SessionInv, SendEnrollment, browser, nvs, signals, disconnectAndBackoff,
        secrets, EffectiveMode, ModeAfterCommit, BackToProvisioning, None,
        ForgetPassword, setStatus, LeaveStation, cancelLocalResolve, AttemptsExhausted,
        Advance, HubOf, Requests, Linking, InLoop
<1>1. TypeOK'
    <2>1. /\ enrollmentCommitted' \in BOOLEAN /\ resetRequested' \in BOOLEAN
          /\ fatalRequested' \in BOOLEAN /\ resetHandled' \in BOOLEAN
        BY DEF TypeOK
    <2>2. portal' \in Portals
        BY SessionAssumption DEF TypeOK, Portals, Requests
    <2> QED
        BY <2>1, <2>2, SessionAssumption DEF TypeOK, Portals, Requests, Awaiting
<1>2. BootInv' /\ FlowInv' /\ LookupInv'
    BY DEF BootInv, FlowInv, LookupInv, NoSecrets, None, Erasing, HubOf
<1>3. CredentialInv'
    BY SessionAssumption DEF CredentialInv, FlowInv, TypeOK, CompleteIsDurable, None,
       Requests, Awaiting
<1>4. SecretsInv'
    <2>1. /\ linkMode' = "Runtime" \/ ioFlow' = "JoiningForRuntime" => NoSecrets'
          /\ ioFlow' \in {"Provisioning", "JoiningForEnrollment"} => bootstrap' = None
        BY SessionAssumption DEF SecretsInv, FlowInv, TypeOK, NoSecrets, None, Requests,
           Awaiting
    <2>2. ioFlow' = "Provisioning" /\ ~(ioPc' = "stopping" /\ stopThen' = "radio") =>
              pendingProvisioning' = None
        BY SessionAssumption DEF SecretsInv, FlowInv, TypeOK, NoSecrets, None, Requests,
           Awaiting
    <2>3. /\ ioFlow' = "JoiningForEnrollment" => pendingProvisioning' # None
          /\ ioFlow' = "Linking" /\ linkMode' = "Enrollment" => bootstrap' # None
        BY SessionAssumption DEF SecretsInv, FlowInv, TypeOK, NoSecrets, None
    <2>4. ~portal'.active /\ ioPc' # "stopping" => portal'.pending = None
        BY SessionAssumption DEF SecretsInv, FlowInv, TypeOK, NoSecrets, None, Requests,
           Awaiting
    <2> QED
        BY <2>1, <2>2, <2>3, <2>4 DEF SecretsInv
<1>5. TokenInv'
    BY SessionAssumption DEF TokenInv, FlowInv, TypeOK, None, Requests, Awaiting
<1>6. EnrollInv'
    BY SendCounts
<1> QED
    BY <1>1, <1>2, <1>3, <1>4, <1>5, <1>6

\* The credential goes out.
LEMMA SendAuthenticationKeeps == ASSUME SessionInv, SendAuthentication PROVE SessionInv'
<1> USE DEF SessionInv, SendAuthentication, LinkUnchanged, history, browser, nvs,
        signals, Advance, secrets, None, HubOf, Linking, InLoop
<1>1. TypeOK'
    BY SessionAssumption DEF TypeOK, Requests, Awaiting, None
<1>2. BootInv' /\ FlowInv' /\ CredentialInv' /\ SecretsInv'
      /\ LookupInv' /\ TokenInv' /\ EnrollInv'
    BY SessionAssumption DEF BootInv, FlowInv, CredentialInv, SecretsInv, LookupInv,
       TokenInv, EnrollInv, NoSecrets, None, CompleteIsDurable, Erasing, HubOf, Spent,
       Requests
<1> QED
    BY <1>1, <1>2

\* The credential is in NVS and in RAM, or the enrollment is rejected.
LEMMA EnrollAckKeeps == ASSUME SessionInv, EnrollAck PROVE SessionInv'
<1> USE DEF SessionInv, EnrollAck, history, browser, secrets, signals, link, mode,
        setStatus, Loaded, Verified, Linking, InLoop
<1>1. TypeOK'
    <2>1. /\ enrollmentCommitted' \in BOOLEAN /\ resetRequested' \in BOOLEAN
          /\ fatalRequested' \in BOOLEAN /\ resetHandled' \in BOOLEAN
        BY DEF TypeOK
    <2>2. portal' \in Portals
        BY SessionAssumption DEF TypeOK, Portals, Requests
    <2> QED
        BY <2>1, <2>2, SessionAssumption DEF TypeOK, Portals, Requests, Awaiting
<1>2. BootInv' /\ FlowInv' /\ LookupInv'
    BY DEF BootInv, FlowInv, LookupInv, NoSecrets, None, Erasing, HubOf
<1>3. CredentialInv'
    BY SessionAssumption DEF CredentialInv, FlowInv, SecretsInv, TokenInv, TypeOK,
       CompleteIsDurable, None, NoSecrets, Requests, Awaiting
<1>4. SecretsInv'
    BY SessionAssumption DEF SecretsInv, FlowInv, TypeOK, NoSecrets, None, Requests,
       Awaiting
<1>5. TokenInv'
    BY SessionAssumption DEF TokenInv, FlowInv, TypeOK, None, Requests, Awaiting
<1>6. EnrollInv'
    <2>1. enrolls' \in [Requests -> Nat] /\ enrollmentAttempts' \in 0 .. kEnrollmentAttempts
        BY SessionAssumption DEF EnrollInv, FlowInv, TypeOK, Spent, Requests, Awaiting, None
    <2>2. \A r \in Requests :
              r > posted' \/ r \in {handler', portal'.pending}
              \/ (ioFlow' # "Linking" /\ r = pendingProvisioning') => enrolls'[r] = 0
        BY SessionAssumption DEF EnrollInv, FlowInv, TypeOK, Spent, Requests, Awaiting, None
    <2>3. ioFlow' = "Linking" /\ linkMode' = "Enrollment" =>
              /\ enrolls'[bootstrap'] <= Spent'
              /\ linkState' = "Backoff" => enrollmentAttempts' < kEnrollmentAttempts
        BY SessionAssumption DEF EnrollInv, FlowInv, TypeOK, Spent, Requests, Awaiting, None
    <2> QED
        BY <2>1, <2>2, <2>3 DEF EnrollInv
<1> QED
    BY <1>1, <1>2, <1>3, <1>4, <1>5, <1>6

\* The commit makes the token history.
LEMMA CommitKeeps == ASSUME SessionInv, Commit PROVE SessionInv'
<1> USE DEF SessionInv, Commit, browser, nvs, signals, setStatus, ModeAfterCommit, None,
        ForgetPassword
<1>1. TypeOK'
    <2>1. /\ enrollmentCommitted' \in BOOLEAN /\ resetRequested' \in BOOLEAN
          /\ fatalRequested' \in BOOLEAN /\ resetHandled' \in BOOLEAN
        BY DEF TypeOK
    <2>2. portal' \in Portals
        BY SessionAssumption DEF TypeOK, Portals, Requests
    <2> QED
        BY <2>1, <2>2, SessionAssumption DEF TypeOK, Portals, Requests, Awaiting
<1>2. BootInv' /\ FlowInv' /\ CredentialInv' /\ EnrollInv'
    BY SessionAssumption DEF BootInv, FlowInv, CredentialInv, EnrollInv, NoSecrets,
       None, CompleteIsDurable, Spent, Requests
<1>3. SecretsInv'
    BY DEF SecretsInv, FlowInv, NoSecrets, None
<1>4. LookupInv'
    BY DEF LookupInv, FlowInv, Erasing, HubOf, None
<1>5. TokenInv'
    BY CommitPasses
<1> QED
    BY <1>1, <1>2, <1>3, <1>4, <1>5

\* A rejected enrollment ends the setup.
LEMMA RejectKeeps == ASSUME SessionInv, Reject PROVE SessionInv'
<1> USE DEF SessionInv, Reject, history, browser, nvs, signals, disconnectAndBackoff,
        secrets, EffectiveMode, ModeAfterCommit, BackToProvisioning, None,
        ForgetPassword, setStatus, LeaveStation, cancelLocalResolve, AttemptsExhausted
<1>1. TypeOK'
    BY SessionAssumption DEF TypeOK, Requests, Awaiting, None
<1>2. BootInv' /\ FlowInv' /\ LookupInv'
    BY DEF BootInv, FlowInv, LookupInv, NoSecrets, None, Erasing, HubOf
<1>3. CredentialInv'
    BY SessionAssumption DEF CredentialInv, FlowInv, TypeOK, CompleteIsDurable, None,
       Requests, Awaiting
<1>4. SecretsInv'
    BY SessionAssumption DEF SecretsInv, FlowInv, TypeOK, NoSecrets, None, Requests,
       Awaiting
<1>5. TokenInv'
    BY SessionAssumption DEF TokenInv, FlowInv, TypeOK, None, Requests, Awaiting
<1>6. EnrollInv'
    BY SessionAssumption DEF EnrollInv, FlowInv, TypeOK, Spent, Requests, Awaiting, None
<1> QED
    BY <1>1, <1>2, <1>3, <1>4, <1>5, <1>6

\* The Hub knows the device.
LEMMA AuthAckKeeps == ASSUME SessionInv, AuthAck PROVE SessionInv'
<1> USE DEF SessionInv, AuthAck, LinkUnchanged, history, browser, nvs, signals, Advance,
        secrets, None, HubOf, Linking, InLoop
<1>1. TypeOK'
    BY SessionAssumption DEF TypeOK, Requests, Awaiting, None
<1>2. BootInv' /\ FlowInv' /\ CredentialInv' /\ SecretsInv'
      /\ LookupInv' /\ TokenInv' /\ EnrollInv'
    BY SessionAssumption DEF BootInv, FlowInv, CredentialInv, SecretsInv, LookupInv,
       TokenInv, EnrollInv, NoSecrets, None, CompleteIsDurable, Erasing, HubOf, Spent,
       Requests
<1> QED
    BY <1>1, <1>2

\* The session is active.
LEMMA RegisterAckKeeps == ASSUME SessionInv, RegisterAck PROVE SessionInv'
<1> USE DEF SessionInv, RegisterAck, history, browser, nvs, signals, secrets, None,
        ForgetPassword, setStatus, Linking, InLoop
<1>1. TypeOK'
    <2>1. /\ enrollmentCommitted' \in BOOLEAN /\ resetRequested' \in BOOLEAN
          /\ fatalRequested' \in BOOLEAN /\ resetHandled' \in BOOLEAN
        BY DEF TypeOK
    <2>2. portal' \in Portals
        BY SessionAssumption DEF TypeOK, Portals, Requests
    <2> QED
        BY <2>1, <2>2, SessionAssumption DEF TypeOK, Portals, Requests, Awaiting
<1>2. BootInv' /\ FlowInv' /\ LookupInv'
    BY DEF BootInv, FlowInv, LookupInv, NoSecrets, None, Erasing, HubOf
<1>3. CredentialInv'
    BY DEF CredentialInv, FlowInv, CompleteIsDurable, None
<1>4. SecretsInv'
    BY SessionAssumption DEF SecretsInv, FlowInv, TypeOK, NoSecrets, None, Requests,
       Awaiting
<1>5. TokenInv'
    BY SessionAssumption DEF TokenInv, FlowInv, TypeOK, None, Requests, Awaiting
<1>6. EnrollInv'
    <2>1. enrolls' \in [Requests -> Nat] /\ enrollmentAttempts' \in 0 .. kEnrollmentAttempts
        BY SessionAssumption DEF EnrollInv, FlowInv, TypeOK, Spent, Requests, Awaiting, None
    <2>2. \A r \in Requests :
              r > posted' \/ r \in {handler', portal'.pending}
              \/ (ioFlow' # "Linking" /\ r = pendingProvisioning') => enrolls'[r] = 0
        BY SessionAssumption DEF EnrollInv, FlowInv, TypeOK, Spent, Requests, Awaiting, None
    <2>3. ioFlow' = "Linking" /\ linkMode' = "Enrollment" =>
              /\ enrolls'[bootstrap'] <= Spent'
              /\ linkState' = "Backoff" => enrollmentAttempts' < kEnrollmentAttempts
        BY SessionAssumption DEF EnrollInv, FlowInv, TypeOK, Spent, Requests, Awaiting, None
    <2> QED
        BY <2>1, <2>2, <2>3 DEF EnrollInv
<1> QED
    BY <1>1, <1>2, <1>3, <1>4, <1>5, <1>6

\* A handshake that ends,
LEMMA HandshakeEndsKeeps ==
    ASSUME SessionInv, NEW fatal \in BOOLEAN, HandshakeEnds(fatal) PROVE SessionInv'
<1> USE DEF SessionInv, HandshakeEnds, Ends, LinkUnchanged, history, browser, nvs,
        signals, disconnectAndBackoff, secrets, EffectiveMode, ModeAfterCommit,
        BackToProvisioning, None, ForgetPassword, setStatus, LeaveStation,
        cancelLocalResolve, AttemptsExhausted, Linking, InLoop, Awaiting
<1>1. TypeOK'
    <2>1. /\ enrollmentCommitted' \in BOOLEAN /\ resetRequested' \in BOOLEAN
          /\ fatalRequested' \in BOOLEAN /\ resetHandled' \in BOOLEAN
        BY DEF TypeOK
    <2>2. portal' \in Portals
        BY SessionAssumption DEF TypeOK, Portals, Requests
    <2> QED
        BY <2>1, <2>2, SessionAssumption DEF TypeOK, Portals, Requests, Awaiting
<1>2. BootInv' /\ FlowInv' /\ LookupInv'
    BY DEF BootInv, FlowInv, LookupInv, NoSecrets, None, Erasing, HubOf
<1>3. CredentialInv'
    BY SessionAssumption DEF CredentialInv, FlowInv, TypeOK, CompleteIsDurable, None,
       Requests, Awaiting
<1>4. SecretsInv'
    BY SessionAssumption DEF SecretsInv, FlowInv, TypeOK, NoSecrets, None, Requests,
       Awaiting
<1>5. TokenInv'
    BY SessionAssumption DEF TokenInv, FlowInv, TypeOK, None, Requests, Awaiting
<1>6. EnrollInv'
    BY EndsCount
<1> QED
    BY <1>1, <1>2, <1>3, <1>4, <1>5, <1>6

\* and an active session that ends.
LEMMA ActiveEndsKeeps ==
    ASSUME SessionInv, NEW fatal \in BOOLEAN, ActiveEnds(fatal) PROVE SessionInv'
<1> USE DEF SessionInv, ActiveEnds, Ends, LinkUnchanged, history, browser, nvs, signals,
        disconnectAndBackoff, secrets, EffectiveMode, ModeAfterCommit,
        BackToProvisioning, None, ForgetPassword, setStatus, LeaveStation,
        cancelLocalResolve, AttemptsExhausted, Linking, InLoop
<1>1. TypeOK'
    <2>1. /\ enrollmentCommitted' \in BOOLEAN /\ resetRequested' \in BOOLEAN
          /\ fatalRequested' \in BOOLEAN /\ resetHandled' \in BOOLEAN
        BY DEF TypeOK
    <2>2. portal' \in Portals
        BY SessionAssumption DEF TypeOK, Portals, Requests
    <2> QED
        BY <2>1, <2>2, SessionAssumption DEF TypeOK, Portals, Requests, Awaiting
<1>2. BootInv' /\ FlowInv' /\ LookupInv'
    BY DEF BootInv, FlowInv, LookupInv, NoSecrets, None, Erasing, HubOf
<1>3. CredentialInv'
    BY DEF CredentialInv, FlowInv, CompleteIsDurable, None
<1>4. SecretsInv'
    BY DEF SecretsInv, FlowInv, NoSecrets, None
<1>5. TokenInv'
    BY DEF TokenInv, FlowInv, None
<1>6. EnrollInv'
    BY EndsCount
<1> QED
    BY <1>1, <1>2, <1>3, <1>4, <1>5, <1>6
--------------------------------------------------------------------------------
\* The initial state satisfies the invariant.
LEMMA InitLemma == Init => SessionInv
<1> SUFFICES ASSUME Init PROVE SessionInv
    OBVIOUS
<1>1. TypeOK
    <2>1. /\ enrollmentCommitted \in BOOLEAN /\ resetRequested \in BOOLEAN
          /\ fatalRequested \in BOOLEAN /\ resetHandled \in BOOLEAN
        BY DEF Init
    <2>2. portal \in Portals
        BY DEF Init, Portals
    <2> QED
        BY <2>1, <2>2, SessionAssumption DEF Init, TypeOK, Portals, Requests, None, Awaiting
<1>2. BootInv /\ FlowInv /\ CredentialInv /\ SecretsInv /\ LookupInv
    BY DEF Init, BootInv, FlowInv, CredentialInv, CompleteIsDurable, SecretsInv, NoSecrets,
           LookupInv
<1>3. TokenInv /\ EnrollInv
    BY SessionAssumption DEF Init, TokenInv, EnrollInv, Requests, None
<1> QED
    BY <1>1, <1>2, <1>3 DEF SessionInv

\* Every step keeps it.
LEMMA StepLemma == SessionInv /\ [Next]_vars => SessionInv'
<1> SUFFICES ASSUME SessionInv, [Next]_vars PROVE SessionInv'
    OBVIOUS
<1>1. CASE IoStep
    BY <1>1, BootKeeps, HandleFatalKeeps, StoppedAfterSuccessKeeps,
       StoppedWithoutRadioKeeps, StoppedToEraseKeeps, TakeRequestKeeps,
       JoinedForEnrollmentKeeps, JoinTimedOutKeeps, JoinedForRuntimeKeeps,
       ReconnectWifiKeeps, LinkLostKeeps, AttemptConnectionKeeps, ResolvedKeeps,
       SendEnrollmentKeeps, SendAuthenticationKeeps, EnrollAckKeeps, AuthAckKeeps,
       RegisterAckKeeps, HandshakeEndsKeeps, CommitKeeps, RejectKeeps
    DEF IoStep, Handshake
<1>2. CASE HandleReset \/ PortalLoop \/ \E fatal \in BOOLEAN : ActiveEnds(fatal)
    BY <1>2, HandleResetKeeps, PortalLoopKeeps, ActiveEndsKeeps
<1>3. CASE HttpRead \/ HttpRefuse \/ HttpAccept
    BY <1>3, HttpReadKeeps, HttpRefuseKeeps, HttpAcceptKeeps
<1>4. CASE ResetButton \/ PowerCycle \/ WifiJoins \/ WifiDrops
    BY <1>4, ResetButtonKeeps, PowerCycleKeeps, WifiJoinsKeeps, WifiDropsKeeps
<1>5. CASE UNCHANGED vars
    BY <1>5 DEF vars, mode, link, secrets, nvs, signals, browser, history, SessionInv,
       TypeOK, BootInv, NoSecrets, FlowInv, CredentialInv, CompleteIsDurable, SecretsInv,
       LookupInv, Erasing, HubOf, TokenInv, EnrollInv, Spent
<1> QED
    BY <1>1, <1>2, <1>3, <1>4, <1>5 DEF Next

\* The invariant holds in every reachable state.
LEMMA Invariance == Spec => []SessionInv
<1>1. Init => SessionInv
    BY InitLemma
<1>2. SessionInv /\ [Next]_vars => SessionInv'
    BY StepLemma
<1> QED
    BY <1>1, <1>2, PTL DEF Spec
--------------------------------------------------------------------------------
\* The flow, the link, the portal, what the Runtime holds and what is stored keep their
\* types, for every number of requests and power cycles.
THEOREM TypeCorrect == Spec => []TypeOK
<1>1. SessionInv => TypeOK
    BY DEF SessionInv
<1> QED
    BY <1>1, Invariance, PTL

\* A device in Runtime mode has the credential that a restart would find, the browser is
\* told "Setup saved" only when there is one, and online() is true only in an active
\* session, although NVS may fail at each operation and power may go at any time.
THEOREM ClaimsAreTrue == Spec => []ClaimsHold
<1>1. SessionInv => ClaimsHold
    BY DEF SessionInv, FlowInv, CredentialInv, ClaimsHold, RuntimeHasCredential,
           OnlineIsActive
<1> QED
    BY <1>1, Invariance, PTL

\* Passwords and tokens do not outlive their use, wherever a setup attempt ends.
THEOREM SecretsDoNotLast == Spec => []SecretsAreForgotten
<1>1. SessionInv => SecretsAreForgotten
    BY DEF SessionInv, FlowInv, SecretsInv, NoSecrets, SecretsAreForgotten
<1> QED
    BY <1>1, Invariance, PTL

\* An open lookup is for the Hub of the mode that the link is in.
THEOREM LookupFits == Spec => []LookupIsForThisHub
<1>1. SessionInv => LookupIsForThisHub
    BY DEF SessionInv, LookupInv, Erasing, LookupIsForThisHub
<1> QED
    BY <1>1, Invariance, PTL

\* No token is sent after its commit, and none more often than kEnrollmentAttempts.
THEOREM TokenUsedOnce == Spec => TokenIsOneShot
<1> DEFINE Sends ==
        linkState' = "AwaitEnrollment" /\ linkState # "AwaitEnrollment" =>
            /\ bootstrap # None /\ bootstrap \notin committed
            /\ enrolls'[bootstrap] <= kEnrollmentAttempts
<1>1. SessionInv /\ [Next]_vars => [Sends]_vars
    <2> SUFFICES ASSUME SessionInv, Next,
                        linkState' = "AwaitEnrollment", linkState # "AwaitEnrollment"
                 PROVE  /\ bootstrap # None /\ bootstrap \notin committed
                        /\ enrolls'[bootstrap] <= kEnrollmentAttempts
        OBVIOUS
    <2>1. SendEnrollment
        BY DisconnectLemma
        DEF Next, IoStep, Handshake, Boot, HandleFatal, StopJoined, StoppedAfterSuccess,
            StoppedWithoutRadio, StoppedToErase, startProvisioning, TakeRequest,
            JoinedForEnrollment, startLink, JoinTimedOut, JoinedForRuntime, ReconnectWifi,
            LinkLost, AttemptConnection, Resolved, connectTls, Advance, SendAuthentication,
            EnrollAck, Commit, Reject, AuthAck, RegisterAck, HandshakeEnds, ActiveEnds, Ends,
            HandleReset, PortalLoop, BeginStop, HttpRead, HttpRefuse, HttpAccept,
            ResetButton, PowerCycle, WifiJoins, WifiDrops, link, mode
    <2>2. SessionInv'
        BY StepLemma
    <2>3. /\ ioFlow = "Linking" /\ linkMode = "Enrollment" /\ bootstrap # None
          /\ bootstrap \notin committed
        BY <2>1 DEF SendEnrollment, Linking, SessionInv, SecretsInv, TokenInv
    <2>4. UNCHANGED <<ioFlow, linkMode, bootstrap>>
        BY <2>1, DisconnectLemma DEF SendEnrollment, Advance, secrets
    <2>5. /\ enrolls'[bootstrap] <= Spent' /\ Spent' = enrollmentAttempts' - 0
          /\ enrollmentAttempts' \in 0 .. kEnrollmentAttempts
        BY <2>2, <2>3, <2>4 DEF SessionInv, EnrollInv, Spent
    <2>6. enrolls'[bootstrap] \in Int
        <3>1. bootstrap \in Requests
            BY <2>3 DEF SessionInv, TypeOK
        <3> QED
            BY <2>2, <3>1 DEF SessionInv, EnrollInv
    <2> QED
        BY <2>3, <2>5, <2>6, SessionAssumption
<1> QED
    BY <1>1, Invariance, PTL DEF Spec, TokenIsOneShot
--------------------------------------------------------------------------------
(***************************************************************************)
(* CredentialStore.                                                         *)
(***************************************************************************)

AllReadable == ~ReadsFail

Found == Store!load(Store!Keys)

\* A record lies in the slot that the parity of its generation names.
InItsSlot ==
    \A key \in Store!Keys :
        Store!Valid(slots[key]) => Store!SlotOf(slots[key].generation) = key

\* While a record is being written it is newer than all that is stored; once it
\* is written it is in its slot.
NextIsNewest ==
    /\ storePc \in {"writing", "verify", "load"} =>
           /\ Store!Valid(next) /\ next.record \in offered
           /\ \A key \in Store!Keys :
                  slots[key].generation < next.generation \/ slots[key] = next
    /\ storePc = "writing" => next.generation = Store!NextGeneration(Found)
    /\ storePc \in {"verify", "load"} => slots[Store!Target] = next

\* Only a device without a credential saves, and a committed one has its own.
CommitSettles ==
    /\ storePc \in {"boot", "writing", "verify", "load", "clearing"} => inRam = NoRecord
    /\ vouched # NoRecord =>
           /\ storePc \in {"boot", "idle"} /\ Found.record = vouched
           /\ storePc = "idle" => inRam = vouched

StoredWasOffered ==
    \A key \in Store!Keys : Store!Valid(slots[key]) => slots[key].record \in offered

StoreInv ==
    Store!TypeOK /\ InItsSlot /\ NextIsNewest /\ CommitSettles /\ StoredWasOffered
--------------------------------------------------------------------------------
\* What load finds when it can read: a stored record that none is newer than.
LEMMA FoundLemma ==
    ASSUME Store!TypeOK
    PROVE  /\ Found \in {slots[key] : key \in Store!Keys}
           /\ \A key \in Store!Keys : Store!Valid(slots[key]) =>
                  Store!Valid(Found) /\ slots[key].generation <= Found.generation
           /\ ~Store!Valid(Found) => Found = Store!Blank
<1> USE StoreAssumption DEF Store!StoreAssumption, Store!Keys
<1>1. Found = Store!Newest(slots["slot0"], slots["slot1"])
    BY DEF Found, Store!load, Store!readSlot
<1>2. \A key \in Store!Keys : slots[key] \in Store!Stored \cup {Store!Blank}
    BY DEF Store!TypeOK
<1>3. \A blob \in Store!Stored : blob.generation \in Nat /\ Store!Valid(blob)
    BY DEF Store!Stored, Store!Valid
<1>4. ~Store!Valid(Store!Blank)
    BY DEF Store!Valid, Store!Blank
<1> QED
    BY <1>1, <1>2, <1>3, <1>4 DEF Store!Newest

\* The next generation is above all that are stored, and of the other parity than
\* the newest.
LEMMA NextGenerationLemma ==
    ASSUME Store!TypeOK
    PROVE  /\ Store!NextGeneration(Found) \in Nat \ {0}
           /\ \A key \in Store!Keys : slots[key].generation < Store!NextGeneration(Found)
           /\ Store!Valid(Found) =>
                  Store!SlotOf(Store!NextGeneration(Found)) # Store!SlotOf(Found.generation)
<1> USE StoreAssumption DEF Store!StoreAssumption
<1>1. \A key \in Store!Keys : slots[key] \in Store!Stored \cup {Store!Blank}
    BY DEF Store!TypeOK
<1>2. \A blob \in Store!Stored : blob.generation \in Nat \ {0} /\ Store!Valid(blob)
    BY DEF Store!Stored, Store!Valid
<1>3. Store!Blank.generation = 0 /\ ~Store!Valid(Store!Blank)
    BY DEF Store!Valid, Store!Blank
<1>4. \A n \in Nat : Store!SlotOf(n + 1) # Store!SlotOf(n)
    BY DEF Store!SlotOf
<1>5. Found \in Store!Stored \cup {Store!Blank}
    BY FoundLemma, <1>1
<1>6. CASE Store!Valid(Found)
  <2>1. Found.generation \in Nat /\ Store!NextGeneration(Found) = Found.generation + 1
      BY <1>2, <1>3, <1>5, <1>6 DEF Store!NextGeneration
  <2>2. \A key \in Store!Keys : slots[key].generation <= Found.generation
      BY <1>1, <1>2, <1>3, <2>1, FoundLemma
  <2>3. \A key \in Store!Keys : slots[key].generation \in Nat
      BY <1>1, <1>2, <1>3
  <2> QED
      BY <1>4, <2>1, <2>2, <2>3
<1>7. CASE ~Store!Valid(Found)
  <2>1. Store!NextGeneration(Found) = 1
      BY <1>7 DEF Store!NextGeneration
  <2>2. \A key \in Store!Keys : slots[key] = Store!Blank
      BY <1>1, <1>2, <1>7, FoundLemma
  <2> QED
      BY <1>3, <1>7, <2>1, <2>2
<1> QED
    BY <1>6, <1>7

\* Whatever a write leaves behind, the store holds the old record or the new one.
LEMMA WriteLemma ==
    ASSUME Store!TypeOK, InItsSlot, NextIsNewest, storePc = "writing", Store!TypeOK',
           NEW left \in {slots[Store!Target], Store!Blank, next},
           slots' = [slots EXCEPT ![Store!Target] = left]
    PROVE  Found' = IF left = next THEN next ELSE Found
<1> USE StoreAssumption DEF Store!StoreAssumption
<1>1. Store!Target \in Store!Keys /\ slots \in [Store!Keys -> Store!Stored \cup {Store!Blank}]
    BY DEF Store!Target, Store!SlotOf, Store!Keys, Store!TypeOK
<1>2. \A key \in Store!Keys : slots'[key] = IF key = Store!Target THEN left ELSE slots[key]
    BY <1>1
<1>3. Found = Store!Newest(slots["slot0"], slots["slot1"])
    BY DEF Found, Store!load, Store!readSlot, Store!Keys
<1>4. Found' = Store!Newest(slots'["slot0"], slots'["slot1"])
    BY DEF Found, Store!load, Store!readSlot, Store!Keys
<1>5. \A key \in Store!Keys : slots[key].generation < next.generation
    BY NextGenerationLemma DEF NextIsNewest
<1>6. \A blob \in Store!Stored \cup {Store!Blank} :
         blob.generation \in Nat /\ (Store!Valid(blob) <=> blob # Store!Blank)
    BY DEF Store!Stored, Store!Blank, Store!Valid
<1>7. Store!Valid(next) /\ next \in Store!Stored
    BY <1>6 DEF NextIsNewest, Store!TypeOK
<1>8. CASE left = next
    BY <1>1, <1>2, <1>4, <1>5, <1>6, <1>7, <1>8 DEF Store!Newest, Store!Keys
<1>9. CASE left = slots[Store!Target]
  <2>1. slots' = slots
      BY <1>1, <1>9
  <2>2. left # next
      BY <1>1, <1>5, <1>6, <1>7, <1>9
  <2> QED
      BY <1>3, <1>4, <2>1, <2>2
<1>10. CASE left = Store!Blank
  <2>1. left # next
      BY <1>6, <1>7, <1>10
  <2>2. Store!Valid(Found) => Found # slots[Store!Target]
    <3>1. Store!Valid(Found) => Store!Target # Store!SlotOf(Found.generation)
        BY NextGenerationLemma DEF NextIsNewest, Store!Target
    <3> QED
        BY <1>1, <3>1 DEF InItsSlot
  <2>3. Found = slots["slot0"] \/ Found = slots["slot1"]
      BY <1>3 DEF Store!Newest
  <2>4. Found \in Store!Stored \cup {Store!Blank}
      BY <1>1, <2>3 DEF Store!Keys
  <2>5. CASE Store!Valid(Found)
      BY <1>1, <1>2, <1>3, <1>4, <1>6, <1>10, <2>1, <2>2, <2>3, <2>4, <2>5
      DEF Store!Newest, Store!Keys
  <2>6. CASE ~Store!Valid(Found)
      BY <1>1, <1>2, <1>3, <1>4, <1>6, <1>10, <2>1, <2>4, <2>6 DEF Store!Newest, Store!Keys
  <2> QED
      BY <2>5, <2>6
<1> QED
    BY <1>8, <1>9, <1>10

LEMMA ReadsLemma ==
    ASSUME AllReadable
    PROVE  /\ Store!Reads = {Store!Keys}
           /\ \A key \in Store!Keys : Store!readSlot(key, Store!Keys) = slots[key]
           /\ Store!load(Store!Keys) = Found
BY DEF AllReadable, Store!Reads, Store!readSlot, Found
--------------------------------------------------------------------------------
LEMMA StoreInitLemma == Store!Init => StoreInv
<1> SUFFICES ASSUME Store!Init PROVE StoreInv
    OBVIOUS
<1> USE StoreAssumption DEF Store!StoreAssumption, Store!Init
<1>1. Store!TypeOK
    BY DEF Store!TypeOK
<1>2. InItsSlot /\ StoredWasOffered
    BY DEF InItsSlot, StoredWasOffered, Store!Valid, Store!Blank
<1>3. NextIsNewest /\ CommitSettles
    BY DEF NextIsNewest, CommitSettles
<1> QED
    BY <1>1, <1>2, <1>3 DEF StoreInv

LEMMA StoreTypeStepLemma ==
    ASSUME Store!TypeOK, AllReadable, [Store!Next]_Store!vars
    PROVE  Store!TypeOK'
<1> USE StoreAssumption, FoundLemma, ReadsLemma DEF Store!StoreAssumption
<1>1. Store!Blank = [generation |-> 0, record |-> NoRecord]
    BY DEF Store!Blank
<1>2. Found \in Store!Stored \cup {Store!Blank} /\ Found.record \in Records \cup {NoRecord}
    BY <1>1 DEF Store!TypeOK, Store!Stored
<1>3. Store!Target \in Store!Keys
    BY DEF Store!Target, Store!SlotOf, Store!Keys
<1>4. next.record \in Records \cup {NoRecord}
    BY <1>1 DEF Store!TypeOK, Store!Stored
<1>5. ASSUME NEW r \in Records, Store!SaveBegin(r) PROVE Store!TypeOK'
  <2>1. Store!NextGeneration(Found) \in Nat \ {0}
      BY NextGenerationLemma
  <2>2. next' \in Store!Stored
      BY <1>5, <2>1 DEF Store!SaveBegin, Store!Stored
  <2> QED
      BY <1>5, <2>2 DEF Store!SaveBegin, Store!TypeOK
<1>6. CASE Store!PutBytes
    BY <1>3, <1>6 DEF Store!PutBytes, Store!TypeOK
<1>7. Store!CutWrite => slots' \in [Store!Keys -> Store!Stored \cup {Store!Blank}]
    BY <1>3 DEF Store!CutWrite, Store!TypeOK
<1>8. Store!CutClear => slots' \in [Store!Keys -> Store!Stored \cup {Store!Blank}]
    BY DEF Store!CutClear, Store!TypeOK
<1>9. CASE Store!PutFails
    BY <1>7, <1>9 DEF Store!PutFails, Store!TypeOK
<1>10. CASE Store!Boot
    BY <1>2, <1>10 DEF Store!Boot, Store!TypeOK
<1>11. CASE Store!Verify
    BY <1>11 DEF Store!Verify, Store!TypeOK
<1>12. CASE Store!Commit
    BY <1>2, <1>4, <1>12 DEF Store!Commit, Store!TypeOK
<1>13. CASE Store!Reset
    BY <1>13 DEF Store!Reset, Store!TypeOK
<1>14. CASE Store!clearProvisioning
    BY <1>14 DEF Store!clearProvisioning, Store!TypeOK
<1>15. CASE Store!ClearFails
    BY <1>8, <1>15 DEF Store!ClearFails, Store!TypeOK
<1>16. CASE Store!PowerCycle
  <2>1. slots' \in [Store!Keys -> Store!Stored \cup {Store!Blank}]
      BY <1>7, <1>8, <1>16 DEF Store!PowerCycle, Store!TypeOK
  <2> QED
      BY <1>16, <2>1 DEF Store!PowerCycle, Store!TypeOK
<1>17. CASE UNCHANGED Store!vars
    BY <1>17 DEF Store!vars, Store!TypeOK
<1> QED
    BY <1>5, <1>6, <1>9, <1>10, <1>11, <1>12, <1>13, <1>14, <1>15, <1>16, <1>17
    DEF Store!Next

\* What is stored after a step was offered before it.
SlotsNowOffered ==
    \A key \in Store!Keys : Store!Valid(slots'[key]) => slots'[key].record \in offered

\* A cut write and a cut clear keep each record in its slot.
LEMMA CutLemma ==
    ASSUME Store!TypeOK, InItsSlot, NextIsNewest, StoredWasOffered
    PROVE  /\ Store!CutWrite /\ storePc = "writing" =>
                  InItsSlot' /\ SlotsNowOffered
           /\ Store!CutClear =>
                  InItsSlot' /\ SlotsNowOffered
<1>1. ~Store!Valid(Store!Blank)
    BY DEF Store!Valid, Store!Blank
<1>2. Store!Target \in Store!Keys
    BY DEF Store!Target, Store!SlotOf, Store!Keys
<1>3. ASSUME Store!CutClear
      PROVE  InItsSlot' /\ SlotsNowOffered
  <2>1. \A key \in Store!Keys : slots'[key] \in {Store!Blank, slots[key]}
      BY <1>3 DEF Store!CutClear
  <2> QED
      BY <1>1, <2>1 DEF InItsSlot, StoredWasOffered, SlotsNowOffered, Store!Valid
<1>4. ASSUME Store!CutWrite, storePc = "writing"
      PROVE  InItsSlot' /\ SlotsNowOffered
  <2>1. \A key \in Store!Keys :
            \/ slots'[key] \in {Store!Blank, slots[key]}
            \/ key = Store!Target /\ slots'[key] = next
      BY <1>2, <1>4 DEF Store!CutWrite, Store!TypeOK
  <2>2. next.record \in offered
      BY <1>4 DEF NextIsNewest
  <2> QED
      BY <1>1, <2>1, <2>2
      DEF InItsSlot, StoredWasOffered, SlotsNowOffered, Store!Valid, Store!Target
<1> QED
    BY <1>3, <1>4

\* The written record is the newest, so it is what load finds.
LEMMA WrittenLemma ==
    ASSUME StoreInv, storePc \in {"verify", "load"}
    PROVE  Found = next
<1> USE StoreAssumption DEF Store!StoreAssumption
<1>1. Store!Target \in Store!Keys /\ slots[Store!Target] = next /\ Store!Valid(next)
    BY DEF Store!Target, Store!SlotOf, Store!Keys, StoreInv, NextIsNewest
<1>2. \A key \in Store!Keys : slots[key].generation < next.generation \/ slots[key] = next
    BY DEF StoreInv, NextIsNewest
<1>3. Store!TypeOK
    BY DEF StoreInv
<1>4. next.generation <= Found.generation
    BY <1>1, <1>3, FoundLemma
<1>5. \A key \in Store!Keys : slots[key].generation \in Int
    BY <1>3 DEF Store!TypeOK, Store!Stored, Store!Blank
<1> QED
    BY <1>1, <1>2, <1>3, <1>4, <1>5, FoundLemma
--------------------------------------------------------------------------------
LEMMA StoreStepLemma ==
    ASSUME StoreInv, AllReadable, [Store!Next]_Store!vars
    PROVE  StoreInv'
<1> USE StoreAssumption DEF Store!StoreAssumption, StoreInv
<1>1. Store!TypeOK'
    BY StoreTypeStepLemma
<1>2. UNCHANGED slots => Found' = Found
    BY DEF Found, Store!load, Store!readSlot
<1>3. ASSUME UNCHANGED <<slots, offered>>
      PROVE  InItsSlot' /\ StoredWasOffered'
    BY <1>3 DEF InItsSlot, StoredWasOffered
<1>4. CASE Store!Boot
  <2>1. inRam' = Found.record
      BY <1>4, ReadsLemma DEF Store!Boot
  <2>2. NextIsNewest' /\ CommitSettles'
      BY <1>2, <1>4, <2>1 DEF Store!Boot, NextIsNewest, CommitSettles
  <2> QED
      BY <1>1, <1>3, <1>4, <2>2 DEF Store!Boot
<1>5. ASSUME NEW r \in Records, Store!SaveBegin(r) PROVE StoreInv'
  <2>1. next' = [generation |-> Store!NextGeneration(Found), record |-> r]
      BY <1>5, ReadsLemma DEF Store!SaveBegin
  <2>2. slots' = slots /\ storePc' = "writing" /\ offered' = offered \cup {r}
      BY <1>5 DEF Store!SaveBegin
  <2>3. NextIsNewest'
    <3>1. Store!Valid(next)' /\ next'.record \in offered'
        BY <2>1, <2>2 DEF Store!Valid
    <3>2. \A key \in Store!Keys : slots'[key].generation < next'.generation
        BY <2>1, <2>2, NextGenerationLemma
    <3>3. next'.generation = Store!NextGeneration(Found')
        BY <1>2, <2>1, <2>2
    <3> QED
        BY <2>2, <3>1, <3>2, <3>3 DEF NextIsNewest
  <2>4. vouched = NoRecord
      BY <1>5 DEF Store!SaveBegin, CommitSettles
  <2>5. CommitSettles'
      BY <1>5, <2>4 DEF Store!SaveBegin, CommitSettles
  <2>6. InItsSlot' /\ StoredWasOffered'
      BY <2>2 DEF InItsSlot, StoredWasOffered
  <2> QED
      BY <1>1, <2>3, <2>5, <2>6
<1>6. CASE Store!PutBytes
  <2>1. Store!Target \in Store!Keys /\ slots \in [Store!Keys -> Store!Stored \cup {Store!Blank}]
      BY DEF Store!Target, Store!SlotOf, Store!Keys, Store!TypeOK
  <2>2. \A key \in Store!Keys : slots'[key] = IF key = Store!Target THEN next ELSE slots[key]
      BY <1>6, <2>1 DEF Store!PutBytes
  <2>3. Store!Target' = Store!Target /\ next' = next /\ offered' = offered /\ storePc' = "verify"
      BY <1>6 DEF Store!PutBytes, Store!Target
  <2>4. NextIsNewest'
      BY <1>6, <2>1, <2>2, <2>3 DEF Store!PutBytes, NextIsNewest, Store!Valid
  <2>5. InItsSlot' /\ StoredWasOffered'
      BY <1>6, <2>2, <2>3 DEF Store!PutBytes, NextIsNewest, InItsSlot, StoredWasOffered, Store!Valid,
         Store!Target
  <2>6. CommitSettles'
      BY <1>6 DEF Store!PutBytes, CommitSettles
  <2> QED
      BY <1>1, <2>4, <2>5, <2>6
<1>7. CASE Store!PutFails
  <2>1. InItsSlot' /\ StoredWasOffered'
      BY <1>7, CutLemma DEF Store!PutFails, StoredWasOffered, SlotsNowOffered
  <2>2. NextIsNewest'
      BY <1>7 DEF Store!PutFails, NextIsNewest
  <2>3. CommitSettles'
      BY <1>7 DEF Store!PutFails, CommitSettles
  <2> QED
      BY <1>1, <2>1, <2>2, <2>3
<1>8. CASE Store!Verify
  <2>1. NextIsNewest'
      BY <1>8 DEF Store!Verify, NextIsNewest, Store!Target, Store!Valid
  <2>2. CommitSettles'
      BY <1>2, <1>8 DEF Store!Verify, CommitSettles
  <2> QED
      BY <1>1, <1>3, <1>8, <2>1, <2>2 DEF Store!Verify
<1>9. CASE Store!Commit
  <2>1. Found = next
      BY <1>9, WrittenLemma DEF Store!Commit
  <2>2. Store!Valid(next)
      BY <1>9 DEF Store!Commit, NextIsNewest
  <2>3. inRam' = next.record /\ vouched' = next.record
      BY <1>9, <2>1, <2>2, ReadsLemma DEF Store!Commit
  <2>4. CommitSettles'
      BY <1>2, <1>9, <2>1, <2>3 DEF Store!Commit, CommitSettles
  <2>5. NextIsNewest'
      BY <1>9 DEF Store!Commit, NextIsNewest
  <2> QED
      BY <1>1, <1>3, <1>9, <2>4, <2>5 DEF Store!Commit
<1>10. CASE Store!Reset
  <2>1. NextIsNewest' /\ CommitSettles'
      BY <1>10 DEF Store!Reset, NextIsNewest, CommitSettles
  <2> QED
      BY <1>1, <1>3, <1>10, <2>1 DEF Store!Reset
<1>11. CASE Store!clearProvisioning
  <2>1. InItsSlot' /\ StoredWasOffered'
      BY <1>11 DEF Store!clearProvisioning, InItsSlot, StoredWasOffered, Store!Valid, Store!Blank
  <2>2. NextIsNewest' /\ CommitSettles'
      BY <1>11 DEF Store!clearProvisioning, NextIsNewest, CommitSettles
  <2> QED
      BY <1>1, <2>1, <2>2
<1>12. CASE Store!ClearFails
  <2>1. InItsSlot' /\ StoredWasOffered'
      BY <1>12, CutLemma DEF Store!ClearFails, StoredWasOffered, SlotsNowOffered
  <2>2. NextIsNewest' /\ CommitSettles'
      BY <1>12 DEF Store!ClearFails, NextIsNewest, CommitSettles
  <2> QED
      BY <1>1, <2>1, <2>2
<1>13. CASE Store!PowerCycle
  <2>1. InItsSlot' /\ StoredWasOffered'
      BY <1>3, <1>13, CutLemma DEF Store!PowerCycle, StoredWasOffered, SlotsNowOffered
  <2>2. NextIsNewest'
      BY <1>13 DEF Store!PowerCycle, NextIsNewest
  <2>3. vouched # NoRecord => slots' = slots
      BY <1>13 DEF Store!PowerCycle, CommitSettles
  <2>4. CommitSettles'
      BY <1>2, <1>13, <2>3 DEF Store!PowerCycle, CommitSettles
  <2> QED
      BY <1>1, <2>1, <2>2, <2>4
<1>14. CASE UNCHANGED Store!vars
    BY <1>1, <1>2, <1>3, <1>14
    DEF Store!vars, NextIsNewest, CommitSettles, Store!Target, Store!Valid
<1> QED
    BY <1>4, <1>5, <1>6, <1>7, <1>8, <1>9, <1>10, <1>11, <1>12, <1>13, <1>14 DEF Store!Next

LEMMA StoreInvariant ==
    ASSUME AllReadable
    PROVE  Store!Spec => []StoreInv
<1>1. StoreInv /\ [Store!Next]_Store!vars => StoreInv'
    BY StoreStepLemma
<1> QED
    BY StoreInitLemma, <1>1, PTL DEF Store!Spec

\* Types, for all records and generations.
THEOREM StoreTypeCorrect ==
    ASSUME AllReadable
    PROVE  Store!Spec => []Store!TypeOK
<1>1. StoreInv => Store!TypeOK
    BY DEF StoreInv
<1> QED
    BY StoreInvariant, <1>1, PTL

\* The record of a committed enrollment is what a restart finds until the user
\* resets the device (save, CredentialStore.cpp:223-229).
THEOREM CommittedSurvives ==
    ASSUME AllReadable
    PROVE  Store!Spec => []CommittedIsStored
<1>1. StoreInv => CommittedIsStored
    BY DEF StoreInv, CommitSettles, CommittedIsStored, Store!CommittedIsStored, Found
<1> QED
    BY StoreInvariant, <1>1, PTL
--------------------------------------------------------------------------------
\* The step of the vault that a step of the store takes, if it takes one.
LEMMA VaultStepLemma ==
    ASSUME StoreInv, StoreInv', AllReadable, [Store!Next]_Store!vars
    PROVE  [Store!Vault!Next]_Store!Vault!vars
<1> USE StoreAssumption, ReadsLemma DEF Store!StoreAssumption, StoreInv
<1> DEFINE vault == Found.record
           saving == IF storePc = "writing" THEN next.record ELSE NoRecord
           clearing == storePc = "clearing"
<1>1. Found = Store!load(Store!Keys) /\ Found' = Store!load(Store!Keys)'
    BY DEF Found
<1>2. UNCHANGED slots => Found' = Found
    BY DEF Found, Store!load, Store!readSlot
<1>3. ASSUME UNCHANGED <<slots, vouched, offered, saving, clearing>>
      PROVE  UNCHANGED Store!Vault!vars
    BY <1>1, <1>2, <1>3 DEF Store!Vault!vars
<1>4. CASE Store!Boot
    BY <1>3, <1>4 DEF Store!Boot
<1>5. ASSUME NEW r \in Records, Store!SaveBegin(r) PROVE Store!Vault!BeginSave(r)
  <2>1. vouched = NoRecord
      BY <1>5 DEF Store!SaveBegin, CommitSettles
  <2>2. saving' = r
      BY <1>5 DEF Store!SaveBegin
  <2> QED
      BY <1>1, <1>2, <1>5, <2>1, <2>2 DEF Store!SaveBegin, Store!Vault!BeginSave, Store!Vault!Busy
<1>6. storePc = "writing" => saving = next.record /\ saving # NoRecord
    BY DEF NextIsNewest, Store!Valid
<1>7. ASSUME Store!CutWrite, storePc = "writing"
      PROVE  Found' \in {Found, next}
  <2>1. PICK left \in {slots[Store!Target], Store!Blank, next} :
            slots' = [slots EXCEPT ![Store!Target] = left]
      BY <1>7 DEF Store!CutWrite
  <2> QED
      BY <1>7, <2>1, WriteLemma
<1>8. CASE Store!PutBytes
  <2>1. Found' = next
      BY <1>8, WriteLemma DEF Store!PutBytes
  <2>2. saving' = NoRecord
      BY <1>8 DEF Store!PutBytes
  <2>3. Store!Vault!EndSave
      BY <1>1, <1>6, <1>8, <2>1, <2>2 DEF Store!PutBytes, Store!Vault!EndSave
  <2> QED
      BY <2>3 DEF Store!Vault!Next
<1>9. CASE Store!PutFails
  <2>1. Found' \in {Found, next} /\ saving' = NoRecord
      BY <1>7, <1>9 DEF Store!PutFails
  <2>2. Store!Vault!EndSave
      BY <1>1, <1>6, <1>9, <2>1 DEF Store!PutFails, Store!Vault!EndSave
  <2> QED
      BY <2>2 DEF Store!Vault!Next
<1>10. CASE Store!Verify
    BY <1>3, <1>10 DEF Store!Verify
<1>11. CASE Store!Commit
  <2>1. Found = next /\ Store!Valid(Found)
      BY <1>11, WrittenLemma DEF Store!Commit, NextIsNewest
  <2>2. vouched' = Found.record
      BY <1>11, <2>1 DEF Store!Commit
  <2>3. Store!Vault!Vouch
      BY <1>1, <1>2, <1>11, <2>1, <2>2
      DEF Store!Commit, Store!Vault!Vouch, Store!Vault!Busy, Store!Valid
  <2> QED
      BY <2>3 DEF Store!Vault!Next
<1>12. CASE Store!Reset
  <2>1. Store!Vault!BeginClear
      BY <1>1, <1>2, <1>12 DEF Store!Reset, Store!Vault!BeginClear, Store!Vault!Busy
  <2> QED
      BY <2>1 DEF Store!Vault!Next
<1>13. CASE Store!clearProvisioning
  <2>1. \A key \in Store!Keys : slots'[key] = Store!Blank
      BY <1>13 DEF Store!clearProvisioning
  <2>2. Found'.record = NoRecord
      BY <2>1 DEF Found, Store!load, Store!readSlot, Store!Newest, Store!Keys, Store!Blank
  <2>3. Store!Vault!EndClear
      BY <1>1, <1>13, <2>2 DEF Store!clearProvisioning, Store!Vault!EndClear
  <2> QED
      BY <2>3 DEF Store!Vault!Next
<1>14. Found'.record \in offered' \cup {NoRecord}
  <2>1. Found' = slots'["slot0"] \/ Found' = slots'["slot1"]
      BY DEF Found, Store!load, Store!readSlot, Store!Newest, Store!Keys
  <2>2. \A key \in Store!Keys : slots'[key].record \in offered' \cup {NoRecord}
      BY DEF StoredWasOffered, Store!Valid
  <2> QED
      BY <2>1, <2>2 DEF Store!Keys
<1>15. CASE Store!ClearFails
  <2>1. Store!Vault!EndClear
      BY <1>1, <1>14, <1>15 DEF Store!ClearFails, Store!Vault!EndClear
  <2> QED
      BY <2>1 DEF Store!Vault!Next
<1>16. CASE Store!PowerCycle
  <2>1. CASE storePc = "writing"
    <3>1. Found' \in {Found, next} /\ saving' = NoRecord
        BY <1>7, <1>16, <2>1 DEF Store!PowerCycle
    <3>2. Store!Vault!EndSave
        BY <1>1, <1>6, <1>16, <2>1, <3>1 DEF Store!PowerCycle, Store!Vault!EndSave
    <3> QED
        BY <3>2 DEF Store!Vault!Next
  <2>2. CASE storePc = "clearing"
    <3>1. Store!Vault!EndClear
        BY <1>1, <1>14, <1>16, <2>2 DEF Store!PowerCycle, Store!Vault!EndClear
    <3> QED
        BY <3>1 DEF Store!Vault!Next
  <2>3. CASE storePc \notin {"writing", "clearing"}
    <3>1. UNCHANGED <<slots, vouched, offered, saving, clearing>>
        BY <1>16, <2>3 DEF Store!PowerCycle
    <3> QED
        BY <1>3, <3>1
  <2> QED
      BY <2>1, <2>2, <2>3
<1>17. CASE UNCHANGED Store!vars
    BY <1>3, <1>17 DEF Store!vars
<1>18. (\E r \in Records : Store!SaveBegin(r)) => Store!Vault!Next
    BY <1>5 DEF Store!Vault!Next
<1> QED
    BY <1>4, <1>8, <1>9, <1>10, <1>11, <1>12, <1>13, <1>15, <1>16, <1>17, <1>18
    DEF Store!Next

\* The two slots are one record that a save replaces entirely or not at all,
\* wherever the power is cut (writeSlot and save, CredentialStore.cpp:196-229).
THEOREM StoreImplementsVault ==
    ASSUME AllReadable
    PROVE  Store!Spec => ImplementsVault
<1>1. Store!Init => Store!Vault!Init
  <2> SUFFICES ASSUME Store!Init PROVE Store!Vault!Init
      OBVIOUS
  <2> QED
      BY DEF Store!Init, Store!Vault!Init, Store!load, Store!readSlot, Store!Newest,
             Store!Keys, Store!Blank
<1>2. StoreInv /\ StoreInv' /\ [Store!Next]_Store!vars => [Store!Vault!Next]_Store!Vault!vars
    BY VaultStepLemma
<1> QED
    BY StoreInvariant, <1>1, <1>2, PTL DEF Store!Spec, ImplementsVault, Store!ImplementsVault,
       Store!Vault!Spec
================================================================================
