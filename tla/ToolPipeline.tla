----------------------------- MODULE ToolPipeline ------------------------------
(***************************************************************************)
(* The path of a Tool call through the device (Runtime.cpp): the I/O task   *)
(* accepts a ToolDispatch frame, hands the job to the application task      *)
(* through toolJobs_ and toolArguments_, the application runs the handler   *)
(* and hands the result back through toolResults_ and toolResultBytes_, and *)
(* the I/O task sends it to the Hub.  Each pair of rings is filled and      *)
(* drained in two separate steps.  Meanwhile calls expire, sends fail, and  *)
(* the session is lost and rebuilt, which leaves stale entries in the rings.*)
(*                                                                          *)
(* The rings are FIFOs here (Storage_proofs shows that SpscRing is one).    *)
(* Work that only the I/O task sees is done in one step between two ring    *)
(* accesses.  The Hub is external: it dispatches any call at any time, as   *)
(* HubMaySend says, and a frame it sends is met by the device in receive.   *)
(***************************************************************************)
EXTENDS Integers, Sequences, FiniteSets

CONSTANTS
    Calls,            \* call ids the Hub uses
    Depth,            \* CONFIG_HAMPTER_TOOL_DESCRIPTOR_DEPTH
    ArgumentPool,     \* CONFIG_HAMPTER_TOOL_BYTE_POOL_BYTES
    ArgumentSizes,    \* encoded lengths of the arguments
    ResultPool,       \* CONFIG_HAMPTER_TOOL_RESULT_POOL_BYTES
    ResultSizes,      \* encoded lengths of the result envelopes
    kToolWireMax,     \* the longest envelope
    kFramesPerStep,   \* frames read in one pass of linkLoop
    Deadlines,        \* deadline_ms of the dispatches, 0 for none
    ServerTimes,      \* server_time_ms of ServerHello and of HeartbeatAck
    ClockSize,        \* 2^32: millis() is a uint32_t
    FirstTime,        \* how long the device has run when the model starts
    HubRepeats,       \* the Hub may dispatch a call it already had an answer to
    NoCall,           \* an unused slot
    MaxStream,        \* bound: dispatches that are queued
    MaxEpoch,         \* bound: sessions
    MaxTime           \* bound: how long the device runs

ASSUME PipelineAssumption ==
    /\ Depth \in Nat \ {0}
    /\ ArgumentPool \in Nat /\ ResultPool \in Nat
    /\ ArgumentSizes \subseteq Nat \ {0} /\ ResultSizes \subseteq Nat \ {0}
    /\ kToolWireMax \in Nat /\ \A n \in ResultSizes : n <= kToolWireMax
    /\ kFramesPerStep \in Nat \ {0}
    /\ Deadlines \subseteq Nat
    /\ ServerTimes \subseteq Nat \ {0} /\ ServerTimes # {}
    /\ HubRepeats \in BOOLEAN
    /\ ClockSize \in Nat /\ ClockSize >= 8
    /\ FirstTime \in Nat /\ MaxTime \in Nat /\ FirstTime <= MaxTime
    /\ MaxStream \in Nat /\ MaxEpoch \in Nat \ {0}

Streams == 1 .. MaxStream
Epochs == 1 .. MaxEpoch
Slots == 1 .. Depth

Times == FirstTime .. MaxTime

\* struct ToolJob; local is localDeadlineMs, and 0 none.  left is what the Hub's clock
\* left of the deadline when the dispatch was admitted, or 0 where no deadline is known;
\* since is a history of when local was told from it.
Jobs == [call : Calls, stream : Streams, epoch : Epochs, deadline : Deadlines,
         left : Nat, local : 0 .. ClockSize - 1, since : Times, length : ArgumentSizes]
\* struct InFlightCall.
InFlightCalls == [call : Calls, stream : Streams, epoch : Epochs, deadline : Deadlines]
\* struct ToolResultRecord, and what a record of the two byte rings holds.
Records == [call : Calls, stream : Streams, epoch : Epochs, length : ResultSizes]
Bytes(sizes) == [call : Calls, stream : Streams, length : sizes]

ASSUME NoCallAssumption ==
    NoCall \notin Calls \cup Jobs \cup InFlightCalls \cup Records \cup Bytes(ArgumentSizes)

VARIABLES
    link,             \* linkState_: "active", "down" (reconnecting) or "fault"
    epoch,            \* sessionEpoch_
    now,              \* monotonicMs(), of which millis() is the lowest 32 bits
    serverNow,        \* estimatedServerTimeMs(), or 0 while no time is known
    nextStream,       \* the stream number the Hub uses next
    ioPc,             \* where the I/O task stands in linkLoop
    frames,           \* frames received in this pass
    ioJob,            \* the job processToolDispatch is queueing
    ioRecord,         \* the result flushToolResults is sending
    inFlight,         \* inFlight_
    cachedResult,     \* call id of cachedResult_, or NoCall
    toolJobs, toolArguments, toolResults, toolResultBytes,
    appPc,            \* where the application task stands in appHandleTools
    appJob,           \* the job it popped
    appArguments,     \* the argument bytes it popped
    appLength,        \* length of the encoded result
    owed,             \* history: calls acknowledged "accepted" that have had
                      \* no ToolResult since, in this session
    answers,          \* history: ToolResult frames per call in this session
    sent              \* history: the ToolResult frame of the last I/O step

rings == <<toolJobs, toolArguments, toolResults, toolResultBytes>>
appVars == <<appPc, appJob, appArguments, appLength>>
vars == <<link, epoch, now, serverNow, nextStream, ioPc, frames, ioJob, ioRecord,
          inFlight, cachedResult, rings, appVars, owed, answers, sent>>

NoFrame == [call |-> NoCall, epoch |-> 0, body |-> NoCall, from |-> 0]
EmptyPool == [records |-> <<>>, used |-> 0]

Init ==
    /\ link = "down" /\ epoch = 1 /\ now = FirstTime /\ serverNow = 0 /\ nextStream = 1
    /\ ioPc = "receive" /\ frames = 0 /\ ioJob = NoCall /\ ioRecord = NoCall
    /\ inFlight = [s \in Slots |-> NoCall] /\ cachedResult = NoCall
    /\ toolJobs = <<>> /\ toolArguments = EmptyPool
    /\ toolResults = <<>> /\ toolResultBytes = EmptyPool
    /\ appPc = "idle" /\ appJob = NoCall /\ appArguments = NoCall /\ appLength = 0
    /\ owed = {} /\ answers = [c \in Calls |-> 0] /\ sent = NoFrame
--------------------------------------------------------------------------------
\* SpscByteRing as a queue of records: a record costs its length and a two-byte
\* prefix, and one byte of the ring is never used.
Cost(length) == length + 2
canPush(pool, capacity, length) == pool.used + Cost(length) <= capacity - 1
PutBytes(pool, record) == [records |-> Append(pool.records, record),
                           used |-> pool.used + Cost(record.length)]
TakeBytes(pool) == [records |-> Tail(pool.records),
                    used |-> pool.used - Cost(Head(pool.records).length)]

full(ring) == Len(ring) = Depth

UsedSlots == {s \in Slots : inFlight[s] # NoCall}
findInFlight(c) == {s \in UsedSlots : inFlight[s].call = c}

\* deadline_ms has passed; without a server time no deadline is enforced.
Reached(deadline) == deadline # 0 /\ serverNow # 0 /\ deadline <= serverNow

\* What is left of a deadline that has not passed.
Remaining(deadline) == IF deadline = 0 \/ serverNow = 0 THEN 0 ELSE deadline - serverNow

timeReached(t, deadline) == (t - deadline) % ClockSize < ClockSize \div 2

\* INT32_MAX - 1.
kLongestWait == (ClockSize \div 2) - 2

LocalDeadline_Unclamped(left) == IF left = 0 THEN 0 ELSE (now + left) % ClockSize

\* localDeadlineMs, a uint32_t: it may come out as 0.
LocalDeadline(left) ==
    IF left = 0 THEN 0
    ELSE (now + IF left < kLongestWait THEN left ELSE kLongestWait) % ClockSize

\* Mutants: guards dropped or wrong in the definitions below.
NoneInFlight_Kept == inFlight
releaseInFlight_All(c) == [s \in Slots |-> NoCall]
Deliverable_AnyEpoch(record) == findInFlight(record.call) # {}
Deliverable_NotInFlight(record) == record.epoch = epoch
Stale_FirstEpoch(job) == job.epoch # 1
ResultRoom_Dropped == ~full(toolResults)

\* resetSession: every slot is unused.
NoneInFlight == [s \in Slots |-> NoCall]

releaseInFlight(c) == [s \in Slots |-> IF s \in findInFlight(c) THEN NoCall
                                                               ELSE inFlight[s]]

\* The application drops a job of an earlier session; a job that waited until
\* its local deadline is answered without running the handler.
Stale(job) == job.epoch # epoch
TooLate(job) == job.local # 0 /\ timeReached(now, job.local)

\* appHandleTools takes no job unless the result rings can take any result.
ResultRoom == ~full(toolResults) /\ canPush(toolResultBytes, ResultPool, kToolWireMax)

\* flushToolResults sends only what the Hub still waits for in this session.
Deliverable(record) ==
    /\ record.epoch = epoch
    /\ \E s \in findInFlight(record.call) : inFlight[s].epoch = record.epoch

\* A ToolResult frame for call c was written: body is the call its payload
\* answers and from the session in which that payload was produced.
Answer(c, body, from) ==
    /\ sent' = [call |-> c, epoch |-> epoch, body |-> body, from |-> from]
    /\ owed' = owed \ {c}
    /\ answers' = [answers EXCEPT ![c] = IF @ = 2 THEN 2 ELSE @ + 1]

\* disconnectAndBackoff without fatal, with the resetSession it calls.  The
\* rings keep their entries.
disconnectAndBackoff ==
    /\ epoch < MaxEpoch
    /\ epoch' = epoch + 1
    /\ link' = "down"
    /\ serverNow' = 0
    /\ inFlight' = NoneInFlight
    /\ ioPc' = "receive" /\ frames' = 0 /\ ioJob' = NoCall /\ ioRecord' = NoCall
    /\ owed' = {} /\ answers' = [c \in Calls |-> 0] /\ sent' = NoFrame

--------------------------------------------------------------------------------
\* The handshake of a new session succeeds; ServerHello may carry the time.
Connect ==
    /\ link = "down"
    /\ link' = "active"
    /\ serverNow' \in {0} \cup ServerTimes
    /\ UNCHANGED <<epoch, now, nextStream, ioPc, frames, ioJob, ioRecord, inFlight,
                   cachedResult, rings, appVars, owed, answers, sent>>

\* The socket closes, the Hub says Goodbye or a heartbeat is missed.
Drop ==
    /\ link = "active" /\ ioPc = "receive"
    /\ disconnectAndBackoff
    /\ UNCHANGED <<now, nextStream, cachedResult, rings, appVars>>

\* A HeartbeatAck that carries the Hub's time sets the estimate anew.
HeartbeatAck ==
    /\ link = "active" /\ ioPc = "receive" /\ frames < kFramesPerStep
    /\ serverNow' \in ServerTimes
    /\ frames' = frames + 1
    /\ sent' = NoFrame
    /\ UNCHANGED <<link, epoch, now, nextStream, ioPc, ioJob, ioRecord, inFlight,
                   cachedResult, rings, appVars, owed, answers>>

\* A Hub that never repeats sends no second dispatch of a call in one session
\* while the first is pending or after it was answered.
HubMaySend(c) == HubRepeats \/ (c \notin owed /\ answers[c] = 0)

Receiving(c) ==
    /\ link = "active" /\ ioPc = "receive" /\ frames < kFramesPerStep
    /\ HubMaySend(c)

NextFrame ==
    frames' = frames + 1 /\ UNCHANGED <<link, epoch, serverNow, ioPc, ioJob, ioRecord>>

\* processToolDispatch of a call in flight: acknowledge it again.
DispatchDuplicate(c) ==
    /\ Receiving(c)
    /\ findInFlight(c) # {}
    /\ \/ NextFrame /\ owed' = owed \cup {c} /\ sent' = NoFrame
          /\ UNCHANGED <<inFlight, answers>>
       \/ disconnectAndBackoff
    /\ UNCHANGED <<now, nextStream, cachedResult, rings, appVars>>

\* processToolDispatch of the call answered last: acknowledge and answer again.
\* The cache outlives the session that filled it.
DispatchCached(c) ==
    /\ Receiving(c)
    /\ findInFlight(c) = {} /\ cachedResult = c
    /\ \/ NextFrame /\ Answer(c, c, 0) /\ UNCHANGED inFlight
       \/ disconnectAndBackoff
    /\ UNCHANGED <<now, nextStream, cachedResult, rings, appVars>>

QueueHasRoom(length) ==
    /\ ~full(toolJobs)
    /\ canPush(toolArguments, ArgumentPool, length)
    /\ UsedSlots # Slots

\* processToolDispatch refuses: malformed fields, a deadline in the past
\* ("rejected"), or no room in the job queue ("busy").
DispatchRefused(c, valid, deadline, length) ==
    /\ Receiving(c)
    /\ valid => /\ findInFlight(c) = {} /\ cachedResult # c
                /\ Reached(deadline) \/ ~QueueHasRoom(length)
    /\ \/ NextFrame /\ sent' = NoFrame /\ UNCHANGED <<inFlight, owed, answers>>
       \/ disconnectAndBackoff
    /\ UNCHANGED <<now, nextStream, cachedResult, rings, appVars>>

InFlightCall(job) == [call |-> job.call, stream |-> job.stream, epoch |-> job.epoch,
                      deadline |-> job.deadline]

\* The first free slot; QueueHasRoom says that there is one.
allocateInFlight(job) ==
    \E s \in Slots \ UsedSlots :
        /\ \A t \in Slots \ UsedSlots : s <= t
        /\ inFlight' = [inFlight EXCEPT ![s] = InFlightCall(job)]

\* processToolDispatch of a new call, up to where it tells the local deadline.  Time may
\* pass until then; the slot, which only this task sees, is allocated already.
DispatchAccept(c, deadline, length) ==
    /\ Receiving(c) /\ nextStream <= MaxStream
    /\ findInFlight(c) = {} /\ cachedResult # c
    /\ ~Reached(deadline) /\ QueueHasRoom(length)
    /\ LET job == [call |-> c, stream |-> nextStream, epoch |-> epoch,
                   deadline |-> deadline, left |-> Remaining(deadline),
                   local |-> 0, since |-> FirstTime, length |-> length]
       IN  ioJob' = job /\ allocateInFlight(job)
    /\ nextStream' = nextStream + 1
    /\ ioPc' = "queueArguments"
    /\ frames' = frames + 1
    /\ sent' = NoFrame
    /\ UNCHANGED <<link, epoch, now, serverNow, ioRecord, cachedResult, rings, appVars,
                   owed, answers>>

\* A push failed although there was room: give the slot back, answer "busy".
QueueBusy ==
    /\ inFlight' = releaseInFlight(ioJob.call)
    /\ ioPc' = "receive" /\ ioJob' = NoCall

Told(job) == [job EXCEPT !.local = LocalDeadline(job.left), !.since = now]

\* The local deadline and toolArguments_.tryPush.
QueueArguments ==
    /\ link = "active" /\ ioPc = "queueArguments"
    /\ IF canPush(toolArguments, ArgumentPool, ioJob.length)
       THEN /\ ioJob' = Told(ioJob)
            /\ toolArguments' = PutBytes(toolArguments,
                   [call |-> ioJob.call, stream |-> ioJob.stream,
                    length |-> ioJob.length])
            /\ ioPc' = "queueJob"
            /\ UNCHANGED inFlight
       ELSE QueueBusy /\ UNCHANGED toolArguments
    /\ UNCHANGED <<link, epoch, now, serverNow, nextStream, frames, ioRecord, cachedResult,
                   toolJobs, toolResults, toolResultBytes, appVars,
                   owed, answers, sent>>

\* toolJobs_.tryPush, wakeApp and the "accepted" acknowledgement.
QueueJob ==
    /\ link = "active" /\ ioPc = "queueJob"
    /\ toolJobs' = IF full(toolJobs) THEN toolJobs ELSE Append(toolJobs, ioJob)
    /\ \/ /\ IF full(toolJobs)
             THEN QueueBusy /\ UNCHANGED owed
             ELSE /\ ioPc' = "receive" /\ ioJob' = NoCall
                  /\ owed' = owed \cup {ioJob.call}
                  /\ UNCHANGED inFlight
          /\ UNCHANGED <<link, epoch, serverNow, frames, ioRecord, answers, sent>>
       \/ disconnectAndBackoff
    /\ UNCHANGED <<now, nextStream, cachedResult, toolArguments, toolResults,
                   toolResultBytes, appVars>>

\* receiveFrames returns: nothing more to read, or kFramesPerStep frames read.
ReceiveDone ==
    /\ link = "active" /\ ioPc = "receive"
    /\ ioPc' = "expire" /\ frames' = 0 /\ sent' = NoFrame
    /\ UNCHANGED <<link, epoch, now, serverNow, nextStream, ioJob, ioRecord, inFlight,
                   cachedResult, rings, appVars, owed, answers>>
--------------------------------------------------------------------------------
Due == {s \in UsedSlots : Reached(inFlight[s].deadline)}

\* expireToolCalls, one slot per step: report the first overdue call as timed
\* out, remember that answer, free the slot.
ExpireCall ==
    /\ link = "active" /\ ioPc = "expire" /\ Due # {}
    /\ \/ \E s \in Due :
              /\ \A t \in Due : s <= t
              /\ Answer(inFlight[s].call, inFlight[s].call, epoch)
              /\ cachedResult' = inFlight[s].call
              /\ inFlight' = releaseInFlight(inFlight[s].call)
          /\ UNCHANGED <<link, epoch, serverNow, ioPc, frames, ioJob, ioRecord>>
       \/ disconnectAndBackoff /\ UNCHANGED cachedResult
    /\ UNCHANGED <<now, nextStream, rings, appVars>>

ExpireDone ==
    /\ link = "active" /\ ioPc = "expire" /\ Due = {}
    /\ ioPc' = IF toolResults = <<>> THEN "receive" ELSE "flush"
    /\ sent' = NoFrame
    /\ UNCHANGED <<link, epoch, now, serverNow, nextStream, frames, ioJob, ioRecord,
                   inFlight, cachedResult, rings, appVars, owed, answers>>

\* flushToolResults, toolResults_.tryPop.
FlushRecord ==
    /\ link = "active" /\ ioPc = "flush"
    /\ ioRecord' = Head(toolResults)
    /\ toolResults' = Tail(toolResults)
    /\ ioPc' = "flushBytes"
    /\ UNCHANGED <<link, epoch, now, serverNow, nextStream, frames, ioJob, inFlight,
                   cachedResult, toolJobs, toolArguments, toolResultBytes, appVars,
                   owed, answers, sent>>

\* flushToolResults, toolResultBytes_.tryPop and what follows: contradicting
\* rings are fatal; the result of a lost session or of a call that is no longer
\* in flight is discarded; the others are sent, cached and released.
FlushBytes ==
    /\ link = "active" /\ ioPc = "flushBytes"
    /\ LET bytes == Head(toolResultBytes.records)
       IN  IF toolResultBytes.records = <<>> \/ bytes.length # ioRecord.length
           THEN /\ link' = "fault"
                /\ UNCHANGED <<epoch, serverNow, ioPc, frames, ioJob, ioRecord, inFlight,
                               cachedResult, toolResultBytes, owed, answers, sent>>
           ELSE /\ toolResultBytes' = TakeBytes(toolResultBytes)
                /\ \/ /\ IF ~Deliverable(ioRecord)
                         THEN UNCHANGED <<inFlight, cachedResult, owed, answers, sent>>
                         ELSE /\ Answer(ioRecord.call, bytes.call, ioRecord.epoch)
                              /\ cachedResult' = ioRecord.call
                              /\ inFlight' = releaseInFlight(ioRecord.call)
                      /\ ioPc' = "receive" /\ ioRecord' = NoCall
                      /\ UNCHANGED <<link, epoch, serverNow, frames, ioJob>>
                   \/ /\ Deliverable(ioRecord)
                      /\ disconnectAndBackoff
                      /\ UNCHANGED cachedResult
    /\ UNCHANGED <<now, nextStream, toolJobs, toolArguments, toolResults, appVars>>
--------------------------------------------------------------------------------
ioUnchanged == UNCHANGED <<epoch, now, serverNow, nextStream, ioPc, frames, ioJob,
                           ioRecord, inFlight, cachedResult, owed, answers, sent>>

\* appHandleTools, toolJobs_.tryPop.
TakeJob ==
    /\ link # "fault" /\ appPc = "idle"
    /\ ResultRoom
    /\ toolJobs # <<>>
    /\ appJob' = Head(toolJobs)
    /\ toolJobs' = Tail(toolJobs)
    /\ appPc' = "takeArguments"
    /\ UNCHANGED <<link, toolArguments, toolResults, toolResultBytes, appArguments,
                   appLength>>
    /\ ioUnchanged

ArgumentsTaken_UnlessStale(job) == IF Stale(job) THEN toolArguments
                                                 ELSE TakeBytes(toolArguments)

\* Arguments leave their ring with their job, also when the job is stale.
ArgumentsTaken(job) == TakeBytes(toolArguments)

\* appHandleTools, toolArguments_.tryPop; a job of an earlier session is dropped.
TakeArguments ==
    /\ link # "fault" /\ appPc = "takeArguments"
    /\ LET bytes == Head(toolArguments.records)
       IN  IF toolArguments.records = <<>> \/ bytes.length # appJob.length
           THEN link' = "fault" /\ UNCHANGED <<appVars, toolArguments>>
           ELSE /\ toolArguments' = ArgumentsTaken(appJob)
                /\ IF Stale(appJob)
                   THEN appPc' = "idle" /\ appJob' = NoCall /\ appArguments' = NoCall
                   ELSE appPc' = "decoded" /\ appArguments' = bytes /\ UNCHANGED appJob
                /\ UNCHANGED <<link, appLength>>
    /\ UNCHANGED <<toolJobs, toolResults, toolResultBytes>>
    /\ ioUnchanged

\* The arguments do not parse as an object, or the Tool is gone.
RejectArguments ==
    /\ link # "fault" /\ appPc = "decoded"
    /\ appPc' = "invalid"
    /\ UNCHANGED <<link, appJob, appArguments, appLength, rings>>
    /\ ioUnchanged

\* They do, and the local deadline is looked at.
TestDeadline ==
    /\ link # "fault" /\ appPc = "decoded"
    /\ appPc' = IF TooLate(appJob) THEN "withheld" ELSE "starting"
    /\ UNCHANGED <<link, appJob, appArguments, appLength, rings>>
    /\ ioUnchanged

\* Then the handler is called.
Invoke ==
    /\ link # "fault" /\ appPc = "starting"
    /\ appPc' = "running"
    /\ UNCHANGED <<link, appJob, appArguments, appLength, rings>>
    /\ ioUnchanged

\* The handler returns, or was not called: an envelope of some length is encoded;
\* toolResultBytes_.tryPush.
PutResultBytes ==
    /\ link # "fault" /\ appPc \in {"invalid", "withheld", "running"}
    /\ appLength' \in ResultSizes
    /\ IF canPush(toolResultBytes, ResultPool, appLength')
       THEN /\ toolResultBytes' = PutBytes(toolResultBytes,
                   [call |-> appArguments.call, stream |-> appJob.stream,
                    length |-> appLength'])
            /\ appPc' = "putRecord"
            /\ UNCHANGED link
       ELSE link' = "fault" /\ UNCHANGED <<toolResultBytes, appPc>>
    /\ UNCHANGED <<toolJobs, toolArguments, toolResults, appJob, appArguments>>
    /\ ioUnchanged

\* toolResults_.tryPush and wakeIo.
PutRecord ==
    /\ link # "fault" /\ appPc = "putRecord"
    /\ IF full(toolResults)
       THEN link' = "fault" /\ UNCHANGED <<toolResults, appVars>>
       ELSE /\ toolResults' = Append(toolResults,
                   [call |-> appJob.call, stream |-> appJob.stream,
                    epoch |-> appJob.epoch, length |-> appLength])
            /\ appPc' = "idle" /\ appJob' = NoCall /\ appArguments' = NoCall
            /\ appLength' = 0
            /\ UNCHANGED link
    /\ UNCHANGED <<toolJobs, toolArguments, toolResultBytes>>
    /\ ioUnchanged
--------------------------------------------------------------------------------
Tick ==
    /\ now < MaxTime /\ link # "fault"
    /\ now' = now + 1
    /\ serverNow' = IF serverNow = 0 THEN 0 ELSE serverNow + 1
    /\ UNCHANGED <<link, epoch, nextStream, ioPc, frames, ioJob, ioRecord, inFlight,
                   cachedResult, rings, appVars, owed, answers, sent>>

IoNext ==
    \/ Connect \/ Drop \/ HeartbeatAck
    \/ \E c \in Calls : DispatchDuplicate(c) \/ DispatchCached(c)
    \/ \E c \in Calls, valid \in BOOLEAN, d \in Deadlines, n \in ArgumentSizes :
           DispatchRefused(c, valid, d, n)
    \/ \E c \in Calls, d \in Deadlines, n \in ArgumentSizes : DispatchAccept(c, d, n)
    \/ QueueArguments \/ QueueJob \/ ReceiveDone
    \/ ExpireCall \/ ExpireDone \/ FlushRecord \/ FlushBytes

AppNext == \/ TakeJob \/ TakeArguments \/ RejectArguments \/ TestDeadline \/ Invoke
           \/ PutResultBytes \/ PutRecord

Next == IoNext \/ AppNext \/ Tick

Spec == Init /\ [][Next]_vars

\* linkLoop keeps running: what it received is queued, and it goes on to
\* expire and to flush.
IoPass == QueueArguments \/ QueueJob \/ ReceiveDone \/ ExpireCall \/ ExpireDone
          \/ FlushRecord \/ FlushBytes

\* Both tasks are scheduled, handlers return and the Hub can be reached again.
FairSpec == Spec /\ WF_vars(IoPass) /\ WF_vars(AppNext) /\ WF_vars(Connect)
--------------------------------------------------------------------------------
TypeOK ==
    /\ link \in {"active", "down", "fault"}
    /\ epoch \in Epochs /\ now \in Times /\ serverNow \in Nat
    /\ nextStream \in 1 .. MaxStream + 1
    /\ ioPc \in {"receive", "queueArguments", "queueJob", "expire", "flush", "flushBytes"}
    /\ frames \in 0 .. kFramesPerStep
    /\ ioJob \in Jobs \cup {NoCall} /\ ioRecord \in Records \cup {NoCall}
    /\ inFlight \in [Slots -> InFlightCalls \cup {NoCall}]
    /\ cachedResult \in Calls \cup {NoCall}
    /\ toolJobs \in Seq(Jobs) /\ toolResults \in Seq(Records)
    /\ toolArguments \in [records : Seq(Bytes(ArgumentSizes)), used : Int]
    /\ toolResultBytes \in [records : Seq(Bytes(ResultSizes)), used : Int]
    /\ appPc \in {"idle", "takeArguments", "decoded", "invalid", "withheld", "starting",
                 "running", "putRecord"}
    /\ appJob \in Jobs \cup {NoCall}
    /\ appArguments \in Bytes(ArgumentSizes) \cup {NoCall}
    /\ appLength \in ResultSizes \cup {0}
    /\ owed \subseteq Calls /\ answers \in [Calls -> 0 .. 2]

\* The length test of the two consumers never trips and the producers' second
\* push never fails: neither "Tool argument byte-pool order violation" nor
\* "Tool result byte pool unexpectedly saturated" (Runtime.cpp:757, 872, 2406)
\* can be raised, whatever stale entries a lost session leaves in the rings.
NoOrderViolation == link # "fault"

\* A handler runs on the arguments of its own dispatch.  The code compares
\* lengths only (Runtime.cpp:755), so two dispatches with arguments of one
\* length would be mixed up without a word.
OwnArguments ==
    appPc \in {"decoded", "invalid", "withheld", "starting", "running", "putRecord"} =>
        appArguments.stream = appJob.stream

\* A ToolResult frame carries the payload of its own call, and one produced
\* from a ring was produced in the session it is sent in (Runtime.cpp:2410).
ResultBelongs ==
    sent # NoFrame => sent.body = sent.call /\ sent.from \in {0, sent.epoch}

\* Jobs and results between the two tasks, wherever they are.
Carriers ==
    {<<"ring", i, toolJobs[i].stream>> : i \in DOMAIN toolJobs}
    \cup {<<"result", i, toolResults[i].stream>> : i \in DOMAIN toolResults}
    \cup {<<"hand", 0, x.stream>> : x \in {ioJob, appJob, ioRecord} \ {NoCall}}

\* A call is neither lost, nor run twice, nor left busy for ever: each call in
\* flight is there once and carried by exactly one job or result (Runtime.cpp:2273,
\* 2308-2313); until the session ends an accepted call is in flight as long as it has
\* had no answer (2411); and a job of this session that lost its slot belongs to a call
\* that the Hub has had an answer to, since nothing else releases a slot (2424, 2437).
InFlightIsCarried ==
    \A s \in UsedSlots :
        Cardinality({k \in Carriers : k[3] = inFlight[s].stream}) = 1
AcceptedIsInFlight ==
    /\ \A s, t \in UsedSlots : inFlight[s].call = inFlight[t].call => s = t
    /\ \A c \in owed : findInFlight(c) # {}
OrphanIsAnswered ==
    \A job \in {toolJobs[i] : i \in DOMAIN toolJobs} \cup ({appJob} \ {NoCall}) :
        job.epoch = epoch /\ link = "active" =>
            \/ answers[job.call] > 0
            \/ \E s \in UsedSlots : inFlight[s].stream = job.stream
CallsAreTracked == InFlightIsCarried /\ AcceptedIsInFlight /\ OrphanIsAnswered

\* A Hub that does not repeat itself gets one ToolResult per call and session,
\* although the expiry of a call races its late result (Runtime.cpp:2411, 2429).
SingleAnswer == \A c \in Calls : answers[c] <= 1

\* The application withholds a handler exactly when what the Hub's clock left of its
\* deadline is used up, although the deadline was told on the I/O task, from another
\* clock, at an earlier time, and on a scale that wraps and is compared by sign, for which
\* a far deadline has to be brought nearer (Runtime.cpp:774, 2303-2307).  It holds for jobs
\* that waited less than the longest wait (24 days) and whose deadline did not come out
\* as 0.
DeadlineDecides ==
    [][/\ appPc = "decoded" /\ appPc' \in {"withheld", "starting"}
       /\ appJob.local # 0 /\ now - appJob.since < kLongestWait
       => (appPc' = "withheld" <=> now >= appJob.since + appJob.left)]_vars

\* An accepted call is answered, or its session ends.
AcceptedIsAnswered == \A c \in Calls : c \in owed ~> c \notin owed
================================================================================
