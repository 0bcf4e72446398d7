------------------------------ MODULE PortInbound ------------------------------
(***************************************************************************)
(* Values that the Hub sends to the ports of the device: a batch is checked *)
(* and committed by the I/O task (Runtime.cpp: processPortBatch), and taken *)
(* and applied by the application task (appHandlePorts, applyInbound),      *)
(* which sleeps on a semaphore in between (waitForAppWork, wakeApp).        *)
(*                                                                          *)
(* A sample carries, besides the port, sequence and value of the code, the  *)
(* session and the number of its batch, which nothing but the properties    *)
(* reads.  Port 0 is a handle that no input port has.  The wait has no      *)
(* timeout here, so that a lost wake-up shows.  External: the Hub.          *)
(***************************************************************************)
EXTENDS Integers, Sequences

CONSTANTS
    PortCount,      \* input ports, in the order of the registry
    SpecOf,         \* for each port the PortValueSpecs it may be registered with
    Values,         \* finite floats, as integers
    NoValue,        \* hasValue is false
    MaxSamples,     \* bound: samples of a batch
    MaxSequence,    \* bound: sequence numbers of the Hub
    MaxBatches,     \* bound: batches the Hub sends
    MaxSessions     \* bound: registrations

Unlimited == << >>
Ranges == {Unlimited} \cup Int \X Int
Policies == {"allow", "clamp", "reject"}

ASSUME InboundAssumption ==
    /\ PortCount \in Nat \ {0} /\ NoValue \notin Int
    /\ \A v \in Values : v \in Int
    /\ \A p \in 1 .. PortCount :
           SpecOf[p] \subseteq [policy : Policies, hard : Ranges, expected : Ranges,
                                default : Int \cup {NoValue}]
    /\ MaxSamples \in Nat /\ MaxSequence \in Nat
    /\ MaxBatches \in Nat /\ MaxSessions \in Nat

Ports == 1 .. PortCount
None == [batch |-> 0, session |-> 0, sequence |-> 0, value |-> NoValue]

VARIABLES
    link,              \* "active", "backoff" or "fatal"
    session,           \* number of the session, which resetSession advances
    batch,             \* samples of the batch being processed, or << >>
    checked, done,     \* samples of it that are validated, and committed
    appChanged,
    inboundSequence,
    inboundPending, inboundBits,   \* shared with the application task
    appWake,           \* the semaphore
    appPc, at,         \* where the application task stands, and its port index
    hand,              \* the sample it has taken
    entries,           \* the registry: limits and policy of each port
    in,                \* in.value of each port, or NoValue
    batches,           \* batches received
    refused,           \* history: the number of a batch that was refused, or 0
    applied            \* history: the last sample handled for each port

io == <<link, session, batch, checked, done, appChanged, inboundSequence, batches, refused>>
shared == <<inboundPending, inboundBits, appWake>>
app == <<appPc, at, hand, in, applied>>
vars == <<io, shared, app, entries>>
--------------------------------------------------------------------------------
\* Mutants: a batch taken in parts, values that survive their session, a sequence
\* twice, no wake-up, a default outside its limits.
ReadyToCommit_Partly(samples) == 1
InboundCleared_Forgotten == UNCHANGED inboundPending
OutOfOrder_Equal(p, s) == s.sequence < inboundSequence[p]
wakeApp_Never(changed) == UNCHANGED appWake
DefaultValue_AsGiven(spec) == spec.default

\* addEntry: limits that a policy enforces, and the ports it registers.
Within(v, limits) == limits # Unlimited => limits[1] <= v /\ v <= limits[2]
Constrain(v, limits) ==
    IF Within(v, limits) THEN v ELSE IF v < limits[1] THEN limits[1] ELSE limits[2]

Effective(spec) ==
    IF spec.hard = Unlimited /\ spec.policy # "allow" THEN spec.expected ELSE spec.hard

Ordered(limits) == limits # Unlimited => limits[1] <= limits[2]

Registered(spec) ==
    /\ Ordered(spec.expected) /\ Ordered(spec.hard)
    /\ spec.policy = "reject" /\ spec.default # NoValue => Within(spec.default, Effective(spec))

Entry(spec) == [limits |-> Effective(spec), policy |-> spec.policy]
DefaultValue(spec) ==
    IF spec.default # NoValue /\ spec.policy = "clamp"
    THEN Constrain(spec.default, Effective(spec)) ELSE spec.default

Init ==
    /\ link = "backoff" /\ session = 0
    /\ batch = << >> /\ checked = 0 /\ done = 0 /\ appChanged = FALSE
    /\ batches = 0 /\ refused = 0
    /\ inboundSequence = [p \in Ports |-> 0]
    /\ inboundPending = [p \in Ports |-> FALSE] /\ inboundBits = [p \in Ports |-> None]
    /\ appWake = FALSE /\ appPc = "poll" /\ at = 1 /\ hand = None
    /\ applied = [p \in Ports |-> None]
    /\ \E specs \in [Ports -> UNION {SpecOf[p] : p \in Ports}] :
           /\ \A p \in Ports : specs[p] \in SpecOf[p] /\ Registered(specs[p])
           /\ entries = [p \in Ports |-> Entry(specs[p])]
           /\ in = [p \in Ports |-> DefaultValue(specs[p])]
--------------------------------------------------------------------------------
\* The I/O task.

\* processRegisterAck: the session becomes active with every sequence at 0.
Activate ==
    /\ link = "backoff" /\ session < MaxSessions
    /\ link' = "active" /\ inboundSequence' = [p \in Ports |-> 0]
    /\ inboundPending' = [p \in Ports |-> FALSE]
    /\ UNCHANGED <<session, batch, checked, done, appChanged, batches, refused, inboundBits,
                   appWake, app, entries>>

InboundCleared == inboundPending' = [p \in Ports |-> FALSE]

\* disconnectAndBackoff with its resetSession.
EndSession(state) ==
    /\ link' = state /\ session' = session + 1
    /\ inboundSequence' = [p \in Ports |-> 0] /\ InboundCleared
    /\ batch' = << >> /\ checked' = 0 /\ done' = 0 /\ appChanged' = FALSE
    /\ UNCHANGED <<inboundBits, appWake, app, entries>>

\* An invalid message ends the session for good.
RefuseBatch(b) == EndSession("fatal") /\ batches' = b /\ refused' = b

LoseSession ==
    /\ link = "active" /\ batch = << >>
    /\ EndSession("backoff")
    /\ UNCHANGED <<batches, refused>>

Sample == [port : Ports \cup {0}, sequence : 0 .. MaxSequence, value : Values]

\* A PortBatch frame arrives.
ReceiveBatch ==
    /\ link = "active" /\ batch = << >> /\ batches < MaxBatches
    /\ \E n \in 1 .. MaxSamples : batch' \in [1 .. n -> Sample]
    /\ batches' = batches + 1
    /\ UNCHANGED <<link, session, checked, done, appChanged, inboundSequence, refused, shared,
                   app, entries>>

\* An empty batch, or one of more samples than there are ports.
RefuseSize ==
    /\ link = "active" /\ batch = << >> /\ batches < MaxBatches
    /\ RefuseBatch(batches + 1)

KnownHandle(p) == p # 0
Seen(p, i) == \E k \in 1 .. i : batch[k].port = p
SampleValid(i) ==
    /\ KnownHandle(batch[i].port) /\ ~Seen(batch[i].port, i - 1)
    /\ batch[i].sequence # 0

\* Nothing is committed before this many samples are valid.
ReadyToCommit(samples) == Len(samples)

ValidateSample ==
    /\ batch # << >> /\ checked < Len(batch)
    /\ \/ /\ SampleValid(checked + 1)
          /\ checked' = checked + 1
          /\ UNCHANGED <<link, session, batch, done, appChanged, inboundSequence, batches,
                         refused, shared, app, entries>>
       \/ ~SampleValid(checked + 1) /\ RefuseBatch(batches)

OutOfOrder(p, s) == s.sequence <= inboundSequence[p]

\* One round of the commit loop; the value and the flag change under portMux_.
CommitSample ==
    /\ batch # << >> /\ checked >= ReadyToCommit(batch) /\ done < checked
    /\ LET s == batch[done + 1]
       IN  IF OutOfOrder(s.port, s)
           THEN UNCHANGED <<inboundSequence, inboundPending, inboundBits, appChanged>>
           ELSE /\ inboundSequence' = [inboundSequence EXCEPT ![s.port] = s.sequence]
                /\ inboundPending' = [inboundPending EXCEPT ![s.port] = TRUE]
                /\ inboundBits' = [inboundBits EXCEPT ![s.port] =
                       [batch |-> batches, session |-> session,
                        sequence |-> s.sequence, value |-> s.value]]
                /\ appChanged' = TRUE
    /\ done' = done + 1
    /\ UNCHANGED <<link, session, batch, checked, batches, refused, appWake, app, entries>>

wakeApp(changed) == appWake' = (appWake \/ changed)

EndBatch ==
    /\ batch # << >> /\ done = Len(batch)
    /\ wakeApp(appChanged)
    /\ batch' = << >> /\ checked' = 0 /\ done' = 0 /\ appChanged' = FALSE
    /\ UNCHANGED <<link, session, inboundSequence, batches, refused, inboundPending,
                   inboundBits, app, entries>>
--------------------------------------------------------------------------------
\* The application task.

Scanned(i) == i >= PortCount
NextPort(then) ==
    IF Scanned(at) THEN at' = 1 /\ appPc' = then ELSE at' = at + 1 /\ UNCHANGED appPc

\* appHandlePorts takes the value of one port under portMux_ ...
TakePort ==
    /\ appPc = "poll"
    /\ IF inboundPending[at]
       THEN /\ hand' = inboundBits[at] /\ appPc' = "apply"
            /\ inboundPending' = [inboundPending EXCEPT ![at] = FALSE]
            /\ UNCHANGED at
       ELSE NextPort("wait") /\ UNCHANGED <<hand, inboundPending>>
    /\ UNCHANGED <<io, inboundBits, appWake, in, applied, entries>>

\* ... and applies it outside of it, within the limits of the port.
ApplyInbound ==
    /\ appPc = "apply"
    /\ LET limits == entries[at].limits
           policy == entries[at].policy
       IN  in' = [in EXCEPT ![at] =
               CASE policy = "clamp"                                -> Constrain(hand.value, limits)
                 [] policy = "reject" /\ ~Within(hand.value, limits) -> in[at]
                 [] OTHER                                           -> hand.value]
    /\ applied' = [applied EXCEPT ![at] = hand] /\ hand' = None
    /\ IF Scanned(at) THEN at' = 1 /\ appPc' = "wait" ELSE at' = at + 1 /\ appPc' = "poll"
    /\ UNCHANGED <<io, shared, entries>>

\* waitForAppWork: appWorkPending looks at each port, without the lock ...
CheckPort ==
    /\ appPc = "wait"
    /\ IF inboundPending[at] THEN at' = 1 /\ appPc' = "poll" ELSE NextPort("sleep")
    /\ UNCHANGED <<io, shared, hand, in, applied, entries>>

\* ... and the task sleeps until the semaphore is given.
WakeUp ==
    /\ appPc = "sleep" /\ appWake
    /\ appWake' = FALSE /\ appPc' = "poll"
    /\ UNCHANGED <<io, inboundPending, inboundBits, at, hand, in, applied, entries>>

IoStep == ValidateSample \/ CommitSample \/ EndBatch
AppStep == TakePort \/ ApplyInbound \/ CheckPort \/ WakeUp

Next == Activate \/ LoseSession \/ ReceiveBatch \/ RefuseSize \/ IoStep \/ AppStep

\* Both tasks run; a batch in hand is processed to its end.
Spec == Init /\ [][Next]_vars /\ WF_vars(IoStep) /\ WF_vars(AppStep)
--------------------------------------------------------------------------------
Tagged == [batch : 0 .. MaxBatches, session : 0 .. MaxSessions,
           sequence : 0 .. MaxSequence, value : Values \cup {NoValue}]

\* Types; a batch is committed in full, and only in an active session.
TypeOK ==
    /\ link \in {"active", "backoff", "fatal"} /\ session \in 0 .. MaxSessions + 1
    /\ Len(batch) \in 0 .. MaxSamples /\ checked \in 0 .. Len(batch) /\ done \in 0 .. checked
    /\ batch # << >> => link = "active"
    /\ appChanged \in BOOLEAN /\ appWake \in BOOLEAN /\ {batches, refused} \subseteq 0 .. MaxBatches
    /\ inboundSequence \in [Ports -> 0 .. MaxSequence]
    /\ inboundPending \in [Ports -> BOOLEAN] /\ inboundBits \in [Ports -> Tagged]
    /\ appPc \in {"poll", "apply", "wait", "sleep"} /\ at \in Ports
    /\ hand \in Tagged /\ applied \in [Ports -> Tagged]
    /\ \A p \in Ports : in[p] # NoValue => in[p] \in Int

\* What waits for the application is from the session that lasts (resetSession,
\* Runtime.cpp:1670), though the bits of an older one stay in the slot; and "Commit
\* only after every sample has passed validation. The app task can consume pending
\* values concurrently, so partial commit is not reversible" (Runtime.cpp:2244): no
\* value of a refused batch reaches the application.
OnlyCommittedIsTaken ==
    /\ \A p \in Ports : inboundPending[p] =>
           link = "active" /\ inboundBits[p].session = session
    /\ refused # 0 => refused # hand.batch /\ \A p \in Ports : applied[p].batch # refused

\* Values are applied to a port in the order of the Hub: never an older value, or
\* the same one again, after a newer one, in one session or across sessions.
AppliedInOrder ==
    [][\A p \in Ports : applied'[p] # applied[p] =>
           \/ applied'[p].session > applied[p].session
           \/ /\ applied'[p].session = applied[p].session
              /\ applied'[p].sequence > applied[p].sequence]_vars

\* What a port holds respects the limits that its policy enforces, from its
\* default on (addEntry and applyInbound, HampterPorts.cpp:88-145, 235-251).
LimitsHold ==
    \A p \in Ports : in[p] # NoValue /\ entries[p].policy # "allow" =>
        Within(in[p], entries[p].limits)

\* The newest value of a port is applied, or its session ends: the wake-up is not
\* lost between the last look at the ports and the sleep (Runtime.cpp:656-664).
NewestIsApplied ==
    \A p \in Ports :
        []<>(link = "active" /\ inboundSequence[p] # 0 =>
                 applied[p].session = session /\ applied[p].sequence = inboundSequence[p])
================================================================================
