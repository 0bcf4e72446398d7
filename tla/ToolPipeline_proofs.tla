-------------------------- MODULE ToolPipeline_proofs --------------------------
(***************************************************************************)
(* Proofs about ToolPipeline for any number of calls, ring depth, pool      *)
(* sizes, lengths, deadlines, sessions.  First the rings (PipeInv): the two *)
(* of each direction stay paired, so that neither order violation can be    *)
(* raised, a handler runs on its own arguments and a ToolResult carries its *)
(* own payload.  Then the calls (TrackInv): each is in one place of a line  *)
(* that runs from the dispatch to the answer, so that none is lost and none *)
(* is answered twice; and the application's test of a deadline decides as   *)
(* the Hub's clock left it, wherever the device's own clock wraps.          *)
(***************************************************************************)
EXTENDS ToolPipeline, SequenceTheorems, FiniteSetTheorems, TLAPS

\* A record of a byte ring belongs to a job or to a result record.
Match(item, bytes) ==
    bytes.call = item.call /\ bytes.stream = item.stream /\ bytes.length = item.length

One(b) == IF b THEN 1 ELSE 0

\* A ring of items and the ring of their bytes.  The consumer may have taken
\* the item "first" and not its bytes; the producer may have put the bytes of
\* "last" and not yet the item.
Paired(items, bytes, taken, first, put, last) ==
    /\ Len(bytes) = Len(items) + One(taken) + One(put)
    /\ \A i \in 1 .. Len(items) : Match(items[i], bytes[i + One(taken)])
    /\ taken => Match(first, bytes[1])
    /\ put => Match(last, bytes[Len(bytes)])

\* The result record the application is about to put.
ResultItem == [call |-> appJob.call, stream |-> appJob.stream, length |-> appLength]

Queueing == ioPc \in {"queueArguments", "queueJob"}
Owing ==
    appPc \in {"takeArguments", "decoded", "invalid", "withheld", "starting", "running"}
Holding == appPc \in {"decoded", "invalid", "withheld", "starting", "running", "putRecord"}

\* What the two tasks hold between two accesses to the rings.
HandsInv ==
    /\ Queueing => ioJob \in Jobs
    /\ ioPc = "flush" => toolResults # <<>>
    /\ ioPc = "flushBytes" => ioRecord \in Records
    /\ appPc # "idle" => appJob \in Jobs
    /\ Holding => appArguments \in Bytes(ArgumentSizes) /\ Match(appJob, appArguments)
    /\ appPc = "putRecord" => appLength \in ResultSizes

\* Room that was found stays until it is used.
RoomInv ==
    /\ Len(toolJobs) <= Depth /\ Len(toolResults) <= Depth
    /\ Queueing => Len(toolJobs) < Depth
    /\ appPc # "idle" => Len(toolResults) < Depth
    /\ Owing => canPush(toolResultBytes, ResultPool, kToolWireMax)

ArgumentsPaired ==
    Paired(toolJobs, toolArguments.records, appPc = "takeArguments", appJob,
           ioPc = "queueJob", ioJob)
ResultsPaired ==
    Paired(toolResults, toolResultBytes.records, ioPc = "flushBytes", ioRecord,
           appPc = "putRecord", ResultItem)

PipeInv ==
    /\ TypeOK /\ HandsInv /\ RoomInv
    /\ ArgumentsPaired /\ ResultsPaired
    /\ NoOrderViolation /\ ResultBelongs

--------------------------------------------------------------------------------
LEMMA PutBytesLemma ==
    ASSUME NEW I, NEW B, NEW items \in Seq(I), NEW bytes \in Seq(B), NEW taken \in BOOLEAN,
           NEW first, NEW last, NEW b \in B, NEW any,
           Paired(items, bytes, taken, first, FALSE, any), Match(last, b)
    PROVE  Paired(items, Append(bytes, b), taken, first, TRUE, last)
    BY DEF Paired, One

LEMMA PutItemLemma ==
    ASSUME NEW I, NEW B, NEW items \in Seq(I), NEW bytes \in Seq(B), NEW taken \in BOOLEAN,
           NEW first, NEW last \in I, NEW any,
           Paired(items, bytes, taken, first, TRUE, last)
    PROVE  Paired(Append(items, last), bytes, taken, first, FALSE, any)
    BY DEF Paired, One

LEMMA TakeItemLemma ==
    ASSUME NEW I, NEW B, NEW items \in Seq(I), NEW bytes \in Seq(B), NEW put \in BOOLEAN,
           NEW last, NEW any, items # <<>>,
           Paired(items, bytes, FALSE, any, put, last)
    PROVE  Paired(Tail(items), bytes, TRUE, Head(items), put, last)
    BY DEF Paired, One

LEMMA TakeBytesLemma ==
    ASSUME NEW I, NEW B, NEW items \in Seq(I), NEW bytes \in Seq(B), NEW put \in BOOLEAN,
           NEW first, NEW last, NEW any,
           Paired(items, bytes, TRUE, first, put, last)
    PROVE  /\ bytes # <<>> /\ Match(first, Head(bytes))
           /\ Paired(items, Tail(bytes), FALSE, any, put, last)
    BY DEF Paired, One

--------------------------------------------------------------------------------
LEMMA PutTypeLemma ==
    ASSUME NEW sizes, NEW pool \in [records : Seq(Bytes(sizes)), used : Int],
           \A n \in sizes : n \in Nat, NEW record \in Bytes(sizes)
    PROVE  PutBytes(pool, record) \in [records : Seq(Bytes(sizes)), used : Int]
<1>1. Append(pool.records, record) \in Seq(Bytes(sizes))
    BY AppendProperties
<1>2. record.length \in sizes
    BY DEF Bytes
<1>3. record.length \in Int
    BY <1>2
<1>4. pool.used \in Int
    OBVIOUS
<1>5. pool.used + Cost(record.length) \in Int
    BY <1>3, <1>4 DEF Cost
<1> QED
    BY <1>1, <1>5 DEF PutBytes

LEMMA TakeTypeLemma ==
    ASSUME NEW sizes, NEW pool \in [records : Seq(Bytes(sizes)), used : Int],
           \A n \in sizes : n \in Nat, pool.records # <<>>
    PROVE  TakeBytes(pool) \in [records : Seq(Bytes(sizes)), used : Int]
<1>1. Head(pool.records) \in Bytes(sizes) /\ Tail(pool.records) \in Seq(Bytes(sizes))
    BY HeadTailProperties
<1>2. Head(pool.records).length \in sizes
    BY <1>1 DEF Bytes
<1>3. Head(pool.records).length \in Int
    BY <1>2
<1>4. pool.used \in Int
    OBVIOUS
<1>5. pool.used - Cost(Head(pool.records).length) \in Int
    BY <1>3, <1>4 DEF Cost
<1> QED
    BY <1>1, <1>5 DEF TakeBytes

LEMMA TimesLemma == \A t \in Times : t \in Nat
    BY PipelineAssumption DEF Times

LEMMA SizesLemma == \A n \in ArgumentSizes \cup ResultSizes : n \in Nat
    BY PipelineAssumption

\* A lost session leaves well-typed variables and empties the table.
LEMMA DisconnectTypeLemma ==
    ASSUME TypeOK, disconnectAndBackoff
    PROVE  /\ link' = "down" /\ epoch' \in Epochs /\ serverNow' = 0
           /\ ioPc' = "receive" /\ frames' \in 0 .. kFramesPerStep
           /\ ioJob' = NoCall /\ ioRecord' = NoCall
           /\ inFlight' \in [Slots -> InFlightCalls \cup {NoCall}]
           /\ owed' \subseteq Calls /\ answers' \in [Calls -> 0 .. 2]
           /\ sent' = NoFrame
    BY PipelineAssumption DEF TypeOK, disconnectAndBackoff, NoneInFlight, Epochs

LEMMA ReleaseTypeLemma ==
    ASSUME TypeOK, NEW c
    PROVE  releaseInFlight(c) \in [Slots -> InFlightCalls \cup {NoCall}]
    BY DEF TypeOK, releaseInFlight

LEMMA AnswerTypeLemma ==
    ASSUME TypeOK, NEW c \in Calls, NEW body, NEW from, Answer(c, body, from)
    PROVE  owed' \subseteq Calls /\ answers' \in [Calls -> 0 .. 2]
<1>1. owed' \subseteq Calls
    BY DEF TypeOK, Answer
<1>2. answers \in [Calls -> 0 .. 2] /\ answers[c] \in 0 .. 2
    BY DEF TypeOK
<1>3. answers' = [answers EXCEPT ![c] = IF answers[c] = 2 THEN 2 ELSE answers[c] + 1]
    BY DEF Answer
<1> QED
    BY <1>1, <1>2, <1>3

LEMMA NextFrameLemma ==
    ASSUME TypeOK, NEW c, Receiving(c), frames' = frames + 1
    PROVE  frames' \in 0 .. kFramesPerStep
    BY PipelineAssumption DEF TypeOK, Receiving

LEMMA InitLemma == Init => PipeInv
<1> SUFFICES ASSUME Init PROVE PipeInv
    OBVIOUS
<1>1. TypeOK
  <2>1. EmptyPool \in [records : Seq(Bytes(ArgumentSizes)), used : Int]
    BY DEF EmptyPool
  <2>2. EmptyPool \in [records : Seq(Bytes(ResultSizes)), used : Int]
    BY DEF EmptyPool
  <2>3. toolJobs \in Seq(Jobs) /\ toolResults \in Seq(Records)
    BY DEF Init
  <2>4. /\ inFlight \in [Slots -> InFlightCalls \cup {NoCall}]
        /\ answers \in [Calls -> 0 .. 2]
    BY DEF Init
  <2>5. now \in Times /\ serverNow \in Nat
    BY PipelineAssumption DEF Init, Times
  <2> QED
    BY <2>1, <2>2, <2>3, <2>4, <2>5, PipelineAssumption DEF Init, TypeOK, Epochs
<1>2. ArgumentsPaired /\ ResultsPaired
    BY DEF Init, EmptyPool, ArgumentsPaired, ResultsPaired, Paired, One
<1> QED
    BY <1>1, <1>2, PipelineAssumption
    DEF Init, PipeInv, HandsInv, RoomInv, Queueing, Owing, Holding, NoOrderViolation,
        ResultBelongs

--------------------------------------------------------------------------------
\* The job of an accepted dispatch, whose local deadline is not told yet.
AcceptedJob(c, d, n) ==
    [call |-> c, stream |-> nextStream, epoch |-> epoch, deadline |-> d,
     left |-> Remaining(d), local |-> 0, since |-> FirstTime, length |-> n]

LEMMA AcceptLemma ==
    ASSUME TypeOK, NEW c \in Calls, NEW d \in Deadlines, NEW n \in ArgumentSizes,
           DispatchAccept(c, d, n)
    PROVE  /\ ioJob' = AcceptedJob(c, d, n) /\ ioJob' \in Jobs
           /\ InFlightCall(ioJob') \in InFlightCalls
           /\ \E s \in Slots \ UsedSlots :
                  inFlight' = [inFlight EXCEPT ![s] = InFlightCall(ioJob')]
<1>1. ioJob' = AcceptedJob(c, d, n)
    BY DEF DispatchAccept, AcceptedJob
<1>2. Remaining(d) \in Nat
  <2>1. d \in Nat /\ serverNow \in Nat /\ ~Reached(d)
    BY PipelineAssumption DEF DispatchAccept, TypeOK
  <2> QED
    BY <2>1 DEF Remaining, Reached
<1>3. nextStream \in Streams /\ epoch \in Epochs
    BY PipelineAssumption DEF DispatchAccept, TypeOK, Streams
<1>4. FirstTime \in Times /\ 0 \in 0 .. ClockSize - 1
    BY PipelineAssumption DEF Times
<1>5. ioJob' \in Jobs
    BY <1>1, <1>2, <1>3, <1>4 DEF AcceptedJob, Jobs
<1>6. InFlightCall(ioJob') \in InFlightCalls
    BY <1>5 DEF InFlightCall, InFlightCalls, Jobs
<1>7. \E s \in Slots \ UsedSlots :
          inFlight' = [inFlight EXCEPT ![s] = InFlightCall(ioJob')]
    BY DEF DispatchAccept, allocateInFlight
<1> QED
    BY <1>1, <1>5, <1>6, <1>7

\* Telling the local deadline changes neither the call nor the length of a job.
LEMMA ToldLemma ==
    ASSUME TypeOK, NEW job \in Jobs
    PROVE  /\ Told(job) \in Jobs
           /\ Told(job).call = job.call /\ Told(job).stream = job.stream
           /\ Told(job).epoch = job.epoch /\ Told(job).deadline = job.deadline
           /\ Told(job).left = job.left /\ Told(job).length = job.length
           /\ Told(job).local = LocalDeadline(job.left) /\ Told(job).since = now
           /\ InFlightCall(Told(job)) = InFlightCall(job)
<1>1. LocalDeadline(job.left) \in 0 .. ClockSize - 1
  <2>1. job.left \in Nat /\ now \in Nat /\ ClockSize \in Nat /\ ClockSize >= 8
    BY PipelineAssumption DEF TypeOK, Times, Jobs
  <2>2. kLongestWait \in Nat
    BY <2>1 DEF kLongestWait
  <2>3. \A m \in Nat : (now + m) % ClockSize \in 0 .. ClockSize - 1
    BY <2>1
  <2>4. CASE job.left < kLongestWait
    BY <2>1, <2>3, <2>4 DEF LocalDeadline
  <2>5. CASE ~(job.left < kLongestWait)
    BY <2>1, <2>2, <2>3, <2>5 DEF LocalDeadline
  <2> QED
    BY <2>4, <2>5
<1>2. now \in Times
    BY DEF TypeOK
<1>3. /\ Told(job).call = job.call /\ Told(job).stream = job.stream
      /\ Told(job).epoch = job.epoch /\ Told(job).deadline = job.deadline
      /\ Told(job).left = job.left /\ Told(job).length = job.length
      /\ Told(job).local = LocalDeadline(job.left) /\ Told(job).since = now
    BY DEF Told, Jobs
<1>4. Told(job) \in Jobs
    BY <1>1, <1>2 DEF Told, Jobs
<1> QED
    BY <1>3, <1>4 DEF InFlightCall

\* The consumers find the bytes that belong to what they took.
LEMMA HeadArgumentsLemma ==
    ASSUME PipeInv, appPc = "takeArguments"
    PROVE  /\ toolArguments.records # <<>>
           /\ Head(toolArguments.records) \in Bytes(ArgumentSizes)
           /\ Match(appJob, Head(toolArguments.records))
<1>1. toolArguments.records # <<>> /\ Match(appJob, Head(toolArguments.records))
    BY DEF PipeInv, TypeOK, ArgumentsPaired, Paired, One
<1> QED
    BY <1>1, HeadTailProperties DEF PipeInv, TypeOK

LEMMA HeadResultBytesLemma ==
    ASSUME PipeInv, ioPc = "flushBytes"
    PROVE  /\ toolResultBytes.records # <<>>
           /\ Match(ioRecord, Head(toolResultBytes.records))
    BY DEF PipeInv, TypeOK, ResultsPaired, Paired, One

\* Every step keeps the types.
LEMMA TypeStepLemma == TypeOK /\ HandsInv /\ [Next]_vars => TypeOK'
<1> SUFFICES ASSUME TypeOK, HandsInv, [Next]_vars PROVE TypeOK'
    OBVIOUS
<1> USE DEF rings, appVars
<1>1. CASE Connect
    BY <1>1, PipelineAssumption DEF TypeOK, Connect
<1>2. CASE Drop
    BY <1>2, DisconnectTypeLemma DEF TypeOK, Drop
<1>3. CASE HeartbeatAck
  <2>1. serverNow' \in Nat /\ frames' \in 0 .. kFramesPerStep
    BY <1>3, PipelineAssumption DEF TypeOK, HeartbeatAck
  <2> QED
    BY <1>3, <2>1 DEF TypeOK, HeartbeatAck
<1>4. ASSUME NEW c \in Calls, DispatchDuplicate(c) PROVE TypeOK'
  <2>1. CASE disconnectAndBackoff
    BY <1>4, <2>1, DisconnectTypeLemma DEF TypeOK, DispatchDuplicate
  <2>2. CASE NextFrame /\ owed' = owed \cup {c} /\ UNCHANGED <<inFlight, answers>>
    BY <1>4, <2>2, NextFrameLemma DEF TypeOK, DispatchDuplicate, NextFrame
  <2> QED
    BY <1>4, <2>1, <2>2 DEF DispatchDuplicate
<1>5. ASSUME NEW c \in Calls, DispatchCached(c) PROVE TypeOK'
  <2>1. CASE disconnectAndBackoff
    BY <1>5, <2>1, DisconnectTypeLemma DEF TypeOK, DispatchCached
  <2>2. CASE NextFrame /\ Answer(c, c, 0) /\ UNCHANGED inFlight
    BY <1>5, <2>2, NextFrameLemma, AnswerTypeLemma DEF TypeOK, DispatchCached, NextFrame
  <2> QED
    BY <1>5, <2>1, <2>2 DEF DispatchCached
<1>6. ASSUME NEW c \in Calls, NEW valid \in BOOLEAN, NEW d \in Deadlines,
             NEW n \in ArgumentSizes, DispatchRefused(c, valid, d, n)
      PROVE  TypeOK'
  <2>1. CASE disconnectAndBackoff
    BY <1>6, <2>1, DisconnectTypeLemma DEF TypeOK, DispatchRefused
  <2>2. CASE NextFrame /\ UNCHANGED <<inFlight, owed, answers>>
    BY <1>6, <2>2, NextFrameLemma DEF TypeOK, DispatchRefused, NextFrame
  <2> QED
    BY <1>6, <2>1, <2>2 DEF DispatchRefused
<1>7. ASSUME NEW c \in Calls, NEW d \in Deadlines, NEW n \in ArgumentSizes,
             DispatchAccept(c, d, n)
      PROVE  TypeOK'
  <2>1. /\ ioJob' \in Jobs /\ InFlightCall(ioJob') \in InFlightCalls
        /\ \E s \in Slots : inFlight' = [inFlight EXCEPT ![s] = InFlightCall(ioJob')]
    BY <1>7, AcceptLemma
  <2>2. inFlight' \in [Slots -> InFlightCalls \cup {NoCall}]
    BY <2>1 DEF TypeOK
  <2>3. frames' \in 0 .. kFramesPerStep
    BY <1>7, NextFrameLemma DEF DispatchAccept
  <2>4. nextStream' \in 1 .. MaxStream + 1
    <3>1. nextStream <= MaxStream /\ nextStream' = nextStream + 1
      BY <1>7 DEF DispatchAccept
    <3> QED
      BY <3>1, PipelineAssumption DEF TypeOK
  <2> QED
    BY <1>7, <2>1, <2>2, <2>3, <2>4 DEF TypeOK, DispatchAccept
<1>8. CASE QueueArguments
  <2>1. ioJob \in Jobs
    BY <1>8 DEF QueueArguments, HandsInv, Queueing
  <2>2. [call |-> ioJob.call, stream |-> ioJob.stream, length |-> ioJob.length]
            \in Bytes(ArgumentSizes)
    BY <2>1 DEF Jobs, Bytes
  <2>3. PutBytes(toolArguments, [call |-> ioJob.call, stream |-> ioJob.stream,
                                 length |-> ioJob.length])
            \in [records : Seq(Bytes(ArgumentSizes)), used : Int]
    BY <2>2, PutTypeLemma, SizesLemma DEF TypeOK
  <2>4. toolArguments' \in [records : Seq(Bytes(ArgumentSizes)), used : Int]
    BY <1>8, <2>3 DEF TypeOK, QueueArguments
  <2>5. Told(ioJob) \in Jobs
    BY <2>1, ToldLemma
  <2> QED
    BY <1>8, <2>4, <2>5, ReleaseTypeLemma DEF TypeOK, QueueArguments, QueueBusy
<1>9. CASE QueueJob
  <2>1. ioJob \in Jobs /\ ioJob.call \in Calls
    BY <1>9 DEF QueueJob, HandsInv, Queueing, Jobs
  <2>2. toolJobs' \in Seq(Jobs)
    BY <1>9, <2>1 DEF TypeOK, QueueJob
  <2>3. CASE disconnectAndBackoff
    BY <1>9, <2>2, <2>3, DisconnectTypeLemma DEF TypeOK, QueueJob
  <2>4. CASE ~disconnectAndBackoff
    <3>1. owed' \subseteq Calls /\ inFlight' \in [Slots -> InFlightCalls \cup {NoCall}]
      BY <1>9, <2>1, <2>4, ReleaseTypeLemma DEF TypeOK, QueueJob, QueueBusy
    <3>2. /\ ioPc' = "receive" /\ ioJob' = NoCall
          /\ UNCHANGED <<link, epoch, serverNow, frames, ioRecord, answers, sent>>
      BY <1>9, <2>4 DEF QueueJob, QueueBusy
    <3> QED
      BY <1>9, <2>2, <3>1, <3>2 DEF TypeOK, QueueJob
  <2> QED
    BY <2>3, <2>4
<1>10. CASE ReceiveDone
    BY <1>10, PipelineAssumption DEF TypeOK, ReceiveDone
<1>11. CASE ExpireCall
  <2>1. \A s \in UsedSlots : inFlight[s].call \in Calls /\ inFlight[s].stream \in Streams
    BY DEF TypeOK, UsedSlots, InFlightCalls
  <2>2. CASE disconnectAndBackoff /\ UNCHANGED cachedResult
    BY <1>11, <2>2, DisconnectTypeLemma DEF TypeOK, ExpireCall
  <2>3. ASSUME NEW s \in UsedSlots,
               Answer(inFlight[s].call, inFlight[s].call, epoch),
               cachedResult' = inFlight[s].call,
               inFlight' = releaseInFlight(inFlight[s].call),
               UNCHANGED <<link, epoch, serverNow, ioPc, frames, ioJob, ioRecord>>
        PROVE  TypeOK'
    BY <1>11, <2>1, <2>3, ReleaseTypeLemma, AnswerTypeLemma DEF TypeOK, ExpireCall
  <2> QED
    BY <1>11, <2>2, <2>3 DEF ExpireCall, Due
<1>12. CASE ExpireDone
    BY <1>12 DEF TypeOK, ExpireDone
<1>13. CASE FlushRecord
    BY <1>13 DEF TypeOK, FlushRecord, HandsInv
<1>14. CASE FlushBytes
  <2>1. ioRecord \in Records /\ ioRecord.call \in Calls
    BY <1>14 DEF FlushBytes, HandsInv, Records
  <2>2. toolResultBytes' \in [records : Seq(Bytes(ResultSizes)), used : Int]
    <3>1. toolResultBytes.records # <<>> =>
              TakeBytes(toolResultBytes) \in [records : Seq(Bytes(ResultSizes)), used : Int]
      BY TakeTypeLemma, SizesLemma DEF TypeOK
    <3> QED
      BY <1>14, <3>1 DEF TypeOK, FlushBytes
  <2>3. CASE link' = "fault"
    BY <1>14, <2>2, <2>3 DEF TypeOK, FlushBytes, disconnectAndBackoff
  <2>4. CASE disconnectAndBackoff /\ UNCHANGED cachedResult
    BY <1>14, <2>2, <2>4, DisconnectTypeLemma DEF TypeOK, FlushBytes
  <2>5. ASSUME Answer(ioRecord.call, Head(toolResultBytes.records).call, ioRecord.epoch),
               cachedResult' = ioRecord.call, inFlight' = releaseInFlight(ioRecord.call),
               ioPc' = "receive", ioRecord' = NoCall,
               UNCHANGED <<link, epoch, serverNow, frames, ioJob>>
        PROVE  TypeOK'
    BY <1>14, <2>1, <2>2, <2>5, ReleaseTypeLemma, AnswerTypeLemma DEF TypeOK, FlushBytes
  <2>6. CASE /\ UNCHANGED <<inFlight, cachedResult, owed, answers, sent>>
             /\ ioPc' = "receive" /\ ioRecord' = NoCall
             /\ UNCHANGED <<link, epoch, serverNow, frames, ioJob>>
    BY <1>14, <2>2, <2>6 DEF TypeOK, FlushBytes
  <2> QED
    BY <1>14, <2>3, <2>4, <2>5, <2>6 DEF FlushBytes
<1>15. CASE TakeJob
    BY <1>15 DEF TypeOK, TakeJob, ioUnchanged
<1>16. CASE TakeArguments
  <2>1. toolArguments' \in [records : Seq(Bytes(ArgumentSizes)), used : Int]
    BY <1>16, TakeTypeLemma, SizesLemma DEF TypeOK, TakeArguments, ArgumentsTaken
  <2> QED
    BY <1>16, <2>1 DEF TypeOK, TakeArguments, ioUnchanged
<1>17. CASE RejectArguments \/ TestDeadline \/ Invoke
    BY <1>17 DEF TypeOK, RejectArguments, TestDeadline, Invoke, ioUnchanged
<1>18. CASE PutResultBytes
  <2>1. [call |-> appArguments.call, stream |-> appJob.stream, length |-> appLength']
            \in Bytes(ResultSizes)
    BY <1>18 DEF PutResultBytes, HandsInv, Holding, Bytes, Jobs
  <2>2. toolResultBytes' \in [records : Seq(Bytes(ResultSizes)), used : Int]
    <3>1. PutBytes(toolResultBytes, [call |-> appArguments.call, stream |-> appJob.stream,
                                     length |-> appLength'])
              \in [records : Seq(Bytes(ResultSizes)), used : Int]
      BY <2>1, PutTypeLemma, SizesLemma DEF TypeOK
    <3> QED
      BY <1>18, <3>1 DEF TypeOK, PutResultBytes
  <2> QED
    BY <1>18, <2>2 DEF TypeOK, PutResultBytes, ioUnchanged
<1>19. CASE PutRecord
  <2>1. [call |-> appJob.call, stream |-> appJob.stream, epoch |-> appJob.epoch,
         length |-> appLength] \in Records
    BY <1>19 DEF PutRecord, HandsInv, Jobs, Records
  <2>2. toolResults' \in Seq(Records)
    <3> DEFINE record == [call |-> appJob.call, stream |-> appJob.stream,
                          epoch |-> appJob.epoch, length |-> appLength]
    <3>1. Append(toolResults, record) \in Seq(Records)
      BY <2>1, AppendProperties DEF TypeOK
    <3> QED
      BY <1>19, <3>1 DEF TypeOK, PutRecord
  <2> QED
    BY <1>19, <2>2 DEF TypeOK, PutRecord, ioUnchanged
<1>20. CASE Tick
  <2>1. now' \in Times /\ serverNow' \in Nat
    BY <1>20, PipelineAssumption DEF TypeOK, Times, Tick
  <2> QED
    BY <1>20, <2>1 DEF TypeOK, Tick
<1>21. CASE UNCHANGED vars
    BY <1>21 DEF TypeOK, vars
<1> QED
    BY <1>1, <1>2, <1>3, <1>4, <1>5, <1>6, <1>7, <1>8, <1>9, <1>10, <1>11, <1>12, <1>13,
       <1>14, <1>15, <1>16, <1>17, <1>18, <1>19, <1>20, <1>21
    DEF Next, IoNext, AppNext

\* What a task holds has the right type and belongs together.
LEMMA HandsStepLemma == PipeInv /\ [Next]_vars => HandsInv'
<1> SUFFICES ASSUME PipeInv, [Next]_vars PROVE HandsInv'
    OBVIOUS
<1> USE DEF PipeInv, TypeOK, HandsInv, Queueing, Holding, rings, appVars
<1>1. CASE Connect
    BY <1>1 DEF Connect
<1>2. CASE Drop
    BY <1>2 DEF Drop, disconnectAndBackoff
<1>3. CASE HeartbeatAck
    BY <1>3 DEF HeartbeatAck
<1>4. ASSUME NEW c \in Calls, DispatchDuplicate(c)
      PROVE  HandsInv'
    BY <1>4 DEF DispatchDuplicate, disconnectAndBackoff, NextFrame, Receiving
<1>5. ASSUME NEW c \in Calls, DispatchCached(c)
      PROVE  HandsInv'
    BY <1>5 DEF DispatchCached, disconnectAndBackoff, NextFrame, Receiving
<1>6. ASSUME NEW c \in Calls, NEW valid \in BOOLEAN, NEW d \in Deadlines,
             NEW n \in ArgumentSizes, DispatchRefused(c, valid, d, n)
      PROVE  HandsInv'
    BY <1>6 DEF DispatchRefused, disconnectAndBackoff, NextFrame, Receiving
<1>7. ASSUME NEW c \in Calls, NEW d \in Deadlines, NEW n \in ArgumentSizes,
             DispatchAccept(c, d, n)
      PROVE  HandsInv'
  <2>1. ioJob' \in Jobs /\ ioPc' = "queueArguments"
    BY <1>7, AcceptLemma DEF DispatchAccept
  <2> QED
    BY <1>7, <2>1 DEF DispatchAccept
<1>8. CASE QueueArguments
    BY <1>8, ToldLemma DEF QueueArguments, QueueBusy
<1>9. CASE QueueJob
    BY <1>9 DEF QueueJob, QueueBusy, disconnectAndBackoff
<1>10. CASE ReceiveDone
    BY <1>10 DEF ReceiveDone
<1>11. CASE ExpireCall
    BY <1>11 DEF ExpireCall, disconnectAndBackoff
<1>12. CASE ExpireDone
    BY <1>12 DEF ExpireDone
<1>13. CASE FlushRecord
    BY <1>13 DEF FlushRecord
<1>14. CASE FlushBytes
    BY <1>14 DEF FlushBytes, disconnectAndBackoff
<1>15. CASE TakeJob
    BY <1>15 DEF TakeJob, ioUnchanged
<1>16. CASE TakeArguments
  <2>1. /\ toolArguments.records # <<>>
        /\ Head(toolArguments.records) \in Bytes(ArgumentSizes)
        /\ Match(appJob, Head(toolArguments.records))
    BY <1>16, HeadArgumentsLemma DEF TakeArguments
  <2> QED
    BY <1>16, <2>1 DEF TakeArguments, ioUnchanged
<1>17. CASE RejectArguments \/ TestDeadline \/ Invoke
    BY <1>17 DEF RejectArguments, TestDeadline, Invoke, ioUnchanged
<1>18. CASE PutResultBytes
    BY <1>18 DEF PutResultBytes, ioUnchanged
<1>19. CASE PutRecord
    BY <1>19 DEF PutRecord, ioUnchanged
<1>20. CASE Tick
    BY <1>20 DEF Tick
<1>21. CASE UNCHANGED vars
    BY <1>21 DEF vars
<1> QED
    BY <1>1, <1>2, <1>3, <1>4, <1>5, <1>6, <1>7, <1>8, <1>9, <1>10, <1>11, <1>12, <1>13,
       <1>14, <1>15, <1>16, <1>17, <1>18, <1>19, <1>20, <1>21
    DEF Next, IoNext, AppNext

\* Taking a record makes room.
LEMMA TakeFreesLemma ==
    ASSUME NEW pool, pool.used \in Int, Head(pool.records).length \in Nat
    PROVE  TakeBytes(pool).used <= pool.used /\ TakeBytes(pool).used \in Int
BY DEF TakeBytes, Cost

\* The record of an accepted call finds the room that canAccept saw.
LEMMA QueueJobLemma ==
    ASSUME RoomInv, QueueJob
    PROVE  Len(toolJobs) < Depth /\ toolJobs' = Append(toolJobs, ioJob) /\ ioPc' = "receive"
<1>1. Len(toolJobs) < Depth
    BY DEF RoomInv, QueueJob, Queueing
<1>2. Depth \in Nat
    BY PipelineAssumption
<1>3. Len(toolJobs) # Depth
    BY <1>1, <1>2
<1>4. ~full(toolJobs)
    BY <1>3 DEF full
<1> QED
    BY <1>1, <1>4 DEF QueueJob, disconnectAndBackoff

\* Only the owner of a ring fills it, so the room it found stays.
LEMMA RoomStepLemma == PipeInv /\ [Next]_vars => RoomInv'
<1> SUFFICES ASSUME PipeInv, [Next]_vars PROVE RoomInv'
    OBVIOUS
<1> USE DEF PipeInv, TypeOK, HandsInv, RoomInv, Queueing, Owing, full, rings, appVars
<1>1. CASE Connect
    BY <1>1 DEF Connect
<1>2. CASE Drop
    BY <1>2 DEF Drop, disconnectAndBackoff
<1>3. CASE HeartbeatAck
    BY <1>3 DEF HeartbeatAck
<1>4. ASSUME NEW c \in Calls, DispatchDuplicate(c)
      PROVE  RoomInv'
    BY <1>4 DEF DispatchDuplicate, disconnectAndBackoff, NextFrame, Receiving
<1>5. ASSUME NEW c \in Calls, DispatchCached(c)
      PROVE  RoomInv'
    BY <1>5 DEF DispatchCached, disconnectAndBackoff, NextFrame, Receiving
<1>6. ASSUME NEW c \in Calls, NEW valid \in BOOLEAN, NEW d \in Deadlines,
             NEW n \in ArgumentSizes, DispatchRefused(c, valid, d, n)
      PROVE  RoomInv'
    BY <1>6 DEF DispatchRefused, disconnectAndBackoff, NextFrame, Receiving
<1>7. ASSUME NEW c \in Calls, NEW d \in Deadlines, NEW n \in ArgumentSizes,
             DispatchAccept(c, d, n)
      PROVE  RoomInv'
  <2>1. Len(toolJobs) < Depth
    BY <1>7, PipelineAssumption DEF DispatchAccept, QueueHasRoom
  <2> QED
    BY <1>7, <2>1 DEF DispatchAccept
<1>8. CASE QueueArguments
    BY <1>8 DEF QueueArguments, QueueBusy
<1>9. CASE QueueJob
  <2>1. Len(toolJobs) < Depth /\ toolJobs' = Append(toolJobs, ioJob) /\ ioPc' = "receive"
    BY <1>9, QueueJobLemma
  <2>2. Len(toolJobs') = Len(toolJobs) + 1
    BY <1>9, <2>1, AppendProperties DEF QueueJob
  <2>3. Len(toolJobs') <= Depth /\ ~Queueing'
    BY <2>1, <2>2, PipelineAssumption
  <2>4. UNCHANGED <<toolResults, toolResultBytes, appPc>>
    BY <1>9 DEF QueueJob
  <2> QED
    BY <2>3, <2>4
<1>10. CASE ReceiveDone
    BY <1>10 DEF ReceiveDone
<1>11. CASE ExpireCall
    BY <1>11 DEF ExpireCall, disconnectAndBackoff
<1>12. CASE ExpireDone
    BY <1>12 DEF ExpireDone
<1>13. CASE FlushRecord
  <2>1. Len(toolResults') = Len(toolResults) - 1
    BY <1>13, HeadTailProperties DEF FlushRecord
  <2> QED
    BY <1>13, <2>1, PipelineAssumption DEF FlushRecord
<1>14. CASE FlushBytes
  <2>1. CASE toolResultBytes' = toolResultBytes
    BY <1>14, <2>1 DEF FlushBytes, disconnectAndBackoff
  <2>2. CASE toolResultBytes.records # <<>> /\ toolResultBytes' = TakeBytes(toolResultBytes)
    <3>1. Head(toolResultBytes.records).length \in Nat
      <4>1. Head(toolResultBytes.records) \in Bytes(ResultSizes)
        BY <2>2, HeadTailProperties
      <4>2. Head(toolResultBytes.records).length \in ResultSizes
        BY <4>1 DEF Bytes
      <4> QED
        BY <4>2, SizesLemma
    <3>2. toolResultBytes'.used <= toolResultBytes.used /\ toolResultBytes'.used \in Int
      BY <2>2, <3>1, TakeFreesLemma
    <3>3. canPush(toolResultBytes, ResultPool, kToolWireMax) =>
              canPush(toolResultBytes, ResultPool, kToolWireMax)'
      BY <3>2, PipelineAssumption DEF canPush, Cost
    <3> QED
      BY <1>14, <3>3 DEF FlushBytes, disconnectAndBackoff
  <2> QED
    BY <1>14, <2>1, <2>2 DEF FlushBytes
<1>15. CASE TakeJob
  <2>1. Len(toolJobs') = Len(toolJobs) - 1
    BY <1>15, HeadTailProperties DEF TakeJob
  <2>2. Len(toolResults) < Depth /\ canPush(toolResultBytes, ResultPool, kToolWireMax)
    BY <1>15, PipelineAssumption DEF TakeJob, ResultRoom
  <2> QED
    BY <1>15, <2>1, <2>2, PipelineAssumption DEF TakeJob, ioUnchanged
<1>16. CASE TakeArguments
    BY <1>16 DEF TakeArguments, ioUnchanged
<1>17. CASE RejectArguments \/ TestDeadline \/ Invoke
    BY <1>17 DEF RejectArguments, TestDeadline, Invoke, ioUnchanged
<1>18. CASE PutResultBytes
    BY <1>18 DEF PutResultBytes, ioUnchanged
<1>19. CASE PutRecord
  <2> DEFINE record == [call |-> appJob.call, stream |-> appJob.stream,
                        epoch |-> appJob.epoch, length |-> appLength]
  <2>1. record \in Records
    BY <1>19 DEF PutRecord, Jobs, Records
  <2>2. toolResults' = Append(toolResults, record) /\ appPc' = "idle"
    BY <1>19, PipelineAssumption DEF PutRecord
  <2>3. Len(toolResults') = Len(toolResults) + 1
    BY <2>1, <2>2, AppendProperties
  <2> QED
    BY <1>19, <2>2, <2>3, PipelineAssumption DEF PutRecord, ioUnchanged
<1>20. CASE Tick
    BY <1>20 DEF Tick
<1>21. CASE UNCHANGED vars
    BY <1>21 DEF vars
<1> QED
    BY <1>1, <1>2, <1>3, <1>4, <1>5, <1>6, <1>7, <1>8, <1>9, <1>10, <1>11, <1>12, <1>13,
       <1>14, <1>15, <1>16, <1>17, <1>18, <1>19, <1>20, <1>21
    DEF Next, IoNext, AppNext

\* Jobs and arguments stay paired, whatever happens to the session.
LEMMA ArgumentsStepLemma == PipeInv /\ [Next]_vars => ArgumentsPaired'
<1> SUFFICES ASSUME PipeInv, [Next]_vars PROVE ArgumentsPaired'
    OBVIOUS
<1> USE DEF PipeInv, TypeOK, ArgumentsPaired, rings, appVars
<1>1. CASE Connect
    BY <1>1 DEF Connect
<1>2. CASE Drop
    BY <1>2 DEF Drop, disconnectAndBackoff, Paired
<1>3. CASE HeartbeatAck
    BY <1>3 DEF HeartbeatAck
<1>4. ASSUME NEW c \in Calls, DispatchDuplicate(c)
      PROVE  ArgumentsPaired'
    BY <1>4 DEF DispatchDuplicate, disconnectAndBackoff, NextFrame, Receiving, Paired
<1>5. ASSUME NEW c \in Calls, DispatchCached(c)
      PROVE  ArgumentsPaired'
    BY <1>5 DEF DispatchCached, disconnectAndBackoff, NextFrame, Receiving, Paired
<1>6. ASSUME NEW c \in Calls, NEW valid \in BOOLEAN, NEW d \in Deadlines,
             NEW n \in ArgumentSizes, DispatchRefused(c, valid, d, n)
      PROVE  ArgumentsPaired'
    BY <1>6 DEF DispatchRefused, disconnectAndBackoff, NextFrame, Receiving, Paired
<1>7. ASSUME NEW c \in Calls, NEW d \in Deadlines, NEW n \in ArgumentSizes,
             DispatchAccept(c, d, n)
      PROVE  ArgumentsPaired'
    BY <1>7 DEF DispatchAccept, Receiving, Paired
<1>8. CASE QueueArguments
  <2> DEFINE b == [call |-> ioJob.call, stream |-> ioJob.stream, length |-> ioJob.length]
  <2>1. CASE ioPc' = "receive"
    BY <1>8, <2>1 DEF QueueArguments, QueueBusy, Paired
  <2>2. CASE ioPc' = "queueJob"
    <3>1. /\ toolArguments'.records = Append(toolArguments.records, b)
          /\ ioJob' = Told(ioJob) /\ UNCHANGED <<toolJobs, appPc, appJob>>
      BY <1>8, <2>2 DEF QueueArguments, QueueBusy, PutBytes
    <3>2. b \in Bytes(ArgumentSizes) /\ Match(Told(ioJob), b)
      BY <1>8, ToldLemma DEF QueueArguments, HandsInv, Queueing, Jobs, Bytes, Match
    <3>3. Paired(toolJobs, toolArguments.records, appPc = "takeArguments", appJob, FALSE, ioJob)
      BY <1>8 DEF QueueArguments
    <3>4. Paired(toolJobs, Append(toolArguments.records, b), appPc = "takeArguments", appJob,
                 TRUE, Told(ioJob))
      BY <3>2, <3>3, PutBytesLemma
    <3> QED
      BY <2>2, <3>1, <3>4
  <2> QED
    BY <1>8, <2>1, <2>2 DEF QueueArguments, QueueBusy
<1>9. CASE QueueJob
  <2>1. /\ toolJobs' = Append(toolJobs, ioJob) /\ ioPc' = "receive"
        /\ UNCHANGED <<toolArguments, appPc, appJob>>
    BY <1>9, QueueJobLemma DEF QueueJob
  <2>2. ioJob \in Jobs
    BY <1>9 DEF QueueJob, HandsInv, Queueing
  <2>3. Paired(toolJobs, toolArguments.records, appPc = "takeArguments", appJob, TRUE, ioJob)
    BY <1>9 DEF QueueJob
  <2>4. Paired(Append(toolJobs, ioJob), toolArguments.records, appPc = "takeArguments", appJob,
               FALSE, ioJob')
    BY <2>2, <2>3, PutItemLemma
  <2> QED
    BY <2>1, <2>4
<1>10. CASE ReceiveDone
    BY <1>10 DEF ReceiveDone
<1>11. CASE ExpireCall
    BY <1>11 DEF ExpireCall, disconnectAndBackoff, Paired
<1>12. CASE ExpireDone
    BY <1>12 DEF ExpireDone
<1>13. CASE FlushRecord
    BY <1>13 DEF FlushRecord
<1>14. CASE FlushBytes
    BY <1>14 DEF FlushBytes, disconnectAndBackoff, Paired
<1>15. CASE TakeJob
  <2>1. /\ toolJobs # <<>> /\ toolJobs' = Tail(toolJobs) /\ appJob' = Head(toolJobs)
        /\ appPc' = "takeArguments" /\ UNCHANGED <<toolArguments, ioPc, ioJob>>
    BY <1>15 DEF TakeJob, ioUnchanged
  <2>2. Paired(toolJobs, toolArguments.records, FALSE, appJob, ioPc = "queueJob", ioJob)
    BY <1>15 DEF TakeJob
  <2>3. Paired(Tail(toolJobs), toolArguments.records, TRUE, Head(toolJobs),
               ioPc = "queueJob", ioJob)
    BY <2>1, <2>2, TakeItemLemma
  <2> QED
    BY <2>1, <2>3
<1>16. CASE TakeArguments
  <2>1. Paired(toolJobs, toolArguments.records, TRUE, appJob, ioPc = "queueJob", ioJob)
    BY <1>16 DEF TakeArguments
  <2>2. Paired(toolJobs, Tail(toolArguments.records), FALSE, appJob', ioPc = "queueJob", ioJob)
    BY <2>1, TakeBytesLemma
  <2>3. toolArguments.records # <<>> /\ Head(toolArguments.records).length = appJob.length
    BY <1>16, HeadArgumentsLemma DEF TakeArguments, Match, PipeInv, TypeOK, ArgumentsPaired
  <2>4. /\ toolArguments'.records = Tail(toolArguments.records)
        /\ appPc' # "takeArguments" /\ UNCHANGED <<toolJobs, ioPc, ioJob>>
    BY <1>16, <2>3 DEF TakeArguments, ArgumentsTaken, TakeBytes, ioUnchanged
  <2> QED
    BY <2>2, <2>4
<1>17. CASE RejectArguments \/ TestDeadline \/ Invoke
    BY <1>17 DEF RejectArguments, TestDeadline, Invoke, ioUnchanged
<1>18. CASE PutResultBytes
    BY <1>18 DEF PutResultBytes, ioUnchanged
<1>19. CASE PutRecord
    BY <1>19 DEF PutRecord, ioUnchanged, Paired
<1>20. CASE Tick
    BY <1>20 DEF Tick
<1>21. CASE UNCHANGED vars
    BY <1>21 DEF vars
<1> QED
    BY <1>1, <1>2, <1>3, <1>4, <1>5, <1>6, <1>7, <1>8, <1>9, <1>10, <1>11, <1>12, <1>13,
       <1>14, <1>15, <1>16, <1>17, <1>18, <1>19, <1>20, <1>21
    DEF Next, IoNext, AppNext

\* The longest envelope fits, so the one that is encoded does.
LEMMA RoomLemma ==
    ASSUME PipeInv, appPc \in {"invalid", "withheld", "running"}, NEW n \in ResultSizes
    PROVE  canPush(toolResultBytes, ResultPool, n)
<1>1. canPush(toolResultBytes, ResultPool, kToolWireMax)
    BY DEF PipeInv, RoomInv, Owing
<1>2. n \in Nat /\ n <= kToolWireMax
    BY PipelineAssumption, SizesLemma
<1>3. toolResultBytes.used \in Int
    BY DEF PipeInv, TypeOK
<1> QED
    BY <1>1, <1>2, <1>3, PipelineAssumption DEF canPush, Cost

\* Result records and envelopes stay paired.
LEMMA ResultsStepLemma == PipeInv /\ [Next]_vars => ResultsPaired'
<1> SUFFICES ASSUME PipeInv, [Next]_vars PROVE ResultsPaired'
    OBVIOUS
<1> USE DEF PipeInv, TypeOK, ResultsPaired, ResultItem, rings, appVars
<1>1. CASE Connect
    BY <1>1 DEF Connect
<1>2. CASE Drop
    BY <1>2 DEF Drop, disconnectAndBackoff, Paired
<1>3. CASE HeartbeatAck
    BY <1>3 DEF HeartbeatAck
<1>4. ASSUME NEW c \in Calls, DispatchDuplicate(c)
      PROVE  ResultsPaired'
    BY <1>4 DEF DispatchDuplicate, disconnectAndBackoff, NextFrame, Receiving, Paired
<1>5. ASSUME NEW c \in Calls, DispatchCached(c)
      PROVE  ResultsPaired'
    BY <1>5 DEF DispatchCached, disconnectAndBackoff, NextFrame, Receiving, Paired
<1>6. ASSUME NEW c \in Calls, NEW valid \in BOOLEAN, NEW d \in Deadlines,
             NEW n \in ArgumentSizes, DispatchRefused(c, valid, d, n)
      PROVE  ResultsPaired'
    BY <1>6 DEF DispatchRefused, disconnectAndBackoff, NextFrame, Receiving, Paired
<1>7. ASSUME NEW c \in Calls, NEW d \in Deadlines, NEW n \in ArgumentSizes,
             DispatchAccept(c, d, n)
      PROVE  ResultsPaired'
    BY <1>7 DEF DispatchAccept, Receiving, Paired
<1>8. CASE QueueArguments
    BY <1>8 DEF QueueArguments, QueueBusy
<1>9. CASE QueueJob
    BY <1>9 DEF QueueJob, QueueBusy, disconnectAndBackoff, Paired
<1>10. CASE ReceiveDone
    BY <1>10 DEF ReceiveDone
<1>11. CASE ExpireCall
    BY <1>11 DEF ExpireCall, disconnectAndBackoff, Paired
<1>12. CASE ExpireDone
    BY <1>12 DEF ExpireDone, Paired
<1>13. CASE FlushRecord
  <2>1. /\ toolResults # <<>> /\ toolResults' = Tail(toolResults)
        /\ ioRecord' = Head(toolResults) /\ ioPc' = "flushBytes"
        /\ UNCHANGED <<toolResultBytes, appPc, ResultItem>>
    BY <1>13 DEF FlushRecord, HandsInv, ResultItem
  <2>2. Paired(toolResults, toolResultBytes.records, FALSE, ioRecord, appPc = "putRecord",
               ResultItem)
    BY <1>13 DEF FlushRecord
  <2>3. Paired(Tail(toolResults), toolResultBytes.records, TRUE, Head(toolResults),
               appPc = "putRecord", ResultItem)
    BY <2>1, <2>2, TakeItemLemma
  <2> QED
    BY <2>1, <2>3
<1>14. CASE FlushBytes
  <2>1. toolResultBytes.records # <<>> /\ Head(toolResultBytes.records).length = ioRecord.length
    BY <1>14, HeadResultBytesLemma DEF FlushBytes, Match, PipeInv, TypeOK, ResultsPaired
  <2>2. /\ toolResultBytes'.records = Tail(toolResultBytes.records) /\ ioPc' = "receive"
        /\ UNCHANGED <<toolResults, appPc, ResultItem>>
    BY <1>14, <2>1 DEF FlushBytes, TakeBytes, disconnectAndBackoff, ResultItem
  <2>3. Paired(toolResults, toolResultBytes.records, TRUE, ioRecord, appPc = "putRecord",
               ResultItem)
    BY <1>14 DEF FlushBytes
  <2>4. Paired(toolResults, Tail(toolResultBytes.records), FALSE, ioRecord',
               appPc = "putRecord", ResultItem)
    BY <2>3, TakeBytesLemma
  <2> QED
    BY <2>2, <2>4
<1>15. CASE TakeJob
    BY <1>15 DEF TakeJob, ioUnchanged, Paired
<1>16. CASE TakeArguments
    BY <1>16 DEF TakeArguments, ioUnchanged, Paired
<1>17. CASE RejectArguments \/ TestDeadline \/ Invoke
    BY <1>17 DEF RejectArguments, TestDeadline, Invoke, ioUnchanged, Paired
<1>18. CASE PutResultBytes
  <2> DEFINE b == [call |-> appArguments.call, stream |-> appJob.stream,
                   length |-> appLength']
  <2>1. canPush(toolResultBytes, ResultPool, appLength')
    BY <1>18, RoomLemma DEF PutResultBytes
  <2>2. /\ toolResultBytes'.records = Append(toolResultBytes.records, b)
        /\ appPc' = "putRecord" /\ UNCHANGED <<toolResults, ioPc, ioRecord>>
    BY <1>18, <2>1 DEF PutResultBytes, PutBytes, ioUnchanged
  <2>3. b \in Bytes(ResultSizes) /\ Match(ResultItem', b)
    BY <1>18 DEF PutResultBytes, HandsInv, Holding, Bytes, Jobs, Match, ResultItem
  <2>4. Paired(toolResults, toolResultBytes.records, ioPc = "flushBytes", ioRecord, FALSE,
               ResultItem)
    BY <1>18 DEF PutResultBytes
  <2>5. Paired(toolResults, Append(toolResultBytes.records, b), ioPc = "flushBytes", ioRecord,
               TRUE, ResultItem')
    BY <2>3, <2>4, PutBytesLemma
  <2> QED
    BY <2>2, <2>5
<1>19. CASE PutRecord
  <2> DEFINE record == [call |-> appJob.call, stream |-> appJob.stream,
                        epoch |-> appJob.epoch, length |-> appLength]
  <2>1. record \in Records
    BY <1>19 DEF PutRecord, HandsInv, Jobs, Records
  <2>2. /\ toolResults' = Append(toolResults, record) /\ appPc' = "idle"
        /\ UNCHANGED <<toolResultBytes, ioPc, ioRecord>>
    BY <1>19, PipelineAssumption DEF PutRecord, RoomInv, full, ioUnchanged
  <2>3. Paired(toolResults, toolResultBytes.records, ioPc = "flushBytes", ioRecord, TRUE,
               ResultItem)
    BY <1>19 DEF PutRecord
  <2>4. Paired(toolResults, toolResultBytes.records, ioPc = "flushBytes", ioRecord, TRUE,
               record)
    BY <2>3 DEF Paired, Match, ResultItem
  <2>5. Paired(Append(toolResults, record), toolResultBytes.records, ioPc = "flushBytes",
               ioRecord, FALSE, ResultItem')
    BY <2>1, <2>4, PutItemLemma
  <2> QED
    BY <2>2, <2>5
<1>20. CASE Tick
    BY <1>20 DEF Tick
<1>21. CASE UNCHANGED vars
    BY <1>21 DEF vars
<1> QED
    BY <1>1, <1>2, <1>3, <1>4, <1>5, <1>6, <1>7, <1>8, <1>9, <1>10, <1>11, <1>12, <1>13,
       <1>14, <1>15, <1>16, <1>17, <1>18, <1>19, <1>20, <1>21
    DEF Next, IoNext, AppNext

\* No consumer meets bytes of the wrong length and no producer a full ring.
LEMMA FaultStepLemma == PipeInv /\ [Next]_vars => NoOrderViolation'
<1> SUFFICES ASSUME PipeInv, [Next]_vars PROVE NoOrderViolation'
    OBVIOUS
<1>0. NoOrderViolation
    BY DEF PipeInv
<1> USE <1>0
<1> USE DEF NoOrderViolation, rings, appVars
<1>1. CASE Connect
    BY <1>1 DEF Connect
<1>2. CASE Drop
    BY <1>2 DEF Drop, disconnectAndBackoff
<1>3. CASE HeartbeatAck
    BY <1>3 DEF HeartbeatAck
<1>4. ASSUME NEW c \in Calls, DispatchDuplicate(c)
      PROVE  NoOrderViolation'
    BY <1>4 DEF DispatchDuplicate, disconnectAndBackoff, NextFrame, Receiving
<1>5. ASSUME NEW c \in Calls, DispatchCached(c)
      PROVE  NoOrderViolation'
    BY <1>5 DEF DispatchCached, disconnectAndBackoff, NextFrame, Receiving
<1>6. ASSUME NEW c \in Calls, NEW valid \in BOOLEAN, NEW d \in Deadlines,
             NEW n \in ArgumentSizes, DispatchRefused(c, valid, d, n)
      PROVE  NoOrderViolation'
    BY <1>6 DEF DispatchRefused, disconnectAndBackoff, NextFrame, Receiving
<1>7. ASSUME NEW c \in Calls, NEW d \in Deadlines, NEW n \in ArgumentSizes,
             DispatchAccept(c, d, n)
      PROVE  NoOrderViolation'
    BY <1>7 DEF DispatchAccept, Receiving
<1>8. CASE QueueArguments
    BY <1>8 DEF QueueArguments, QueueBusy
<1>9. CASE QueueJob
    BY <1>9 DEF QueueJob, QueueBusy, disconnectAndBackoff
<1>10. CASE ReceiveDone
    BY <1>10 DEF ReceiveDone
<1>11. CASE ExpireCall
    BY <1>11 DEF ExpireCall, disconnectAndBackoff
<1>12. CASE ExpireDone
    BY <1>12 DEF ExpireDone
<1>13. CASE FlushRecord
    BY <1>13 DEF FlushRecord
<1>14. CASE FlushBytes
    BY <1>14, HeadResultBytesLemma DEF FlushBytes, Match, disconnectAndBackoff, PipeInv
<1>15. CASE TakeJob
    BY <1>15 DEF TakeJob, ioUnchanged
<1>16. CASE TakeArguments
    BY <1>16, HeadArgumentsLemma DEF TakeArguments, Match, PipeInv
<1>17. CASE RejectArguments \/ TestDeadline \/ Invoke
    BY <1>17 DEF RejectArguments, TestDeadline, Invoke, ioUnchanged
<1>18. CASE PutResultBytes
    BY <1>18, RoomLemma DEF PutResultBytes, PipeInv
<1>19. CASE PutRecord
    BY <1>19, PipelineAssumption DEF PutRecord, PipeInv, RoomInv, full
<1>20. CASE Tick
    BY <1>20 DEF Tick
<1>21. CASE UNCHANGED vars
    BY <1>21 DEF vars
<1> QED
    BY <1>1, <1>2, <1>3, <1>4, <1>5, <1>6, <1>7, <1>8, <1>9, <1>10, <1>11, <1>12, <1>13,
       <1>14, <1>15, <1>16, <1>17, <1>18, <1>19, <1>20, <1>21
    DEF Next, IoNext, AppNext

\* A ToolResult frame carries the payload of its call and session.
LEMMA BelongsStepLemma == PipeInv /\ [Next]_vars => ResultBelongs'
<1> SUFFICES ASSUME PipeInv, [Next]_vars PROVE ResultBelongs'
    OBVIOUS
<1>0. ResultBelongs
    BY DEF PipeInv
<1> USE <1>0
<1> USE DEF ResultBelongs, rings, appVars
<1>1. CASE Connect
    BY <1>1 DEF Connect
<1>2. CASE Drop
    BY <1>2 DEF Drop, disconnectAndBackoff
<1>3. CASE HeartbeatAck
    BY <1>3 DEF HeartbeatAck
<1>4. ASSUME NEW c \in Calls, DispatchDuplicate(c)
      PROVE  ResultBelongs'
    BY <1>4 DEF DispatchDuplicate, disconnectAndBackoff, NextFrame, Receiving
<1>5. ASSUME NEW c \in Calls, DispatchCached(c)
      PROVE  ResultBelongs'
    BY <1>5 DEF DispatchCached, disconnectAndBackoff, NextFrame, Answer
<1>6. ASSUME NEW c \in Calls, NEW valid \in BOOLEAN, NEW d \in Deadlines,
             NEW n \in ArgumentSizes, DispatchRefused(c, valid, d, n)
      PROVE  ResultBelongs'
    BY <1>6 DEF DispatchRefused, disconnectAndBackoff, NextFrame, Receiving
<1>7. ASSUME NEW c \in Calls, NEW d \in Deadlines, NEW n \in ArgumentSizes,
             DispatchAccept(c, d, n)
      PROVE  ResultBelongs'
    BY <1>7 DEF DispatchAccept, Receiving
<1>8. CASE QueueArguments
    BY <1>8 DEF QueueArguments, QueueBusy
<1>9. CASE QueueJob
    BY <1>9 DEF QueueJob, QueueBusy, disconnectAndBackoff
<1>10. CASE ReceiveDone
    BY <1>10 DEF ReceiveDone
<1>11. CASE ExpireCall
    BY <1>11 DEF ExpireCall, disconnectAndBackoff, Answer
<1>12. CASE ExpireDone
    BY <1>12 DEF ExpireDone
<1>13. CASE FlushRecord
    BY <1>13 DEF FlushRecord
<1>14. CASE FlushBytes
  <2>1. Head(toolResultBytes.records).call = ioRecord.call
    BY <1>14, HeadResultBytesLemma DEF FlushBytes, Match, PipeInv
  <2> QED
    BY <1>14, <2>1 DEF FlushBytes, disconnectAndBackoff, Answer, Deliverable
<1>15. CASE TakeJob
    BY <1>15 DEF TakeJob, ioUnchanged
<1>16. CASE TakeArguments
    BY <1>16 DEF TakeArguments, ioUnchanged
<1>17. CASE RejectArguments \/ TestDeadline \/ Invoke
    BY <1>17 DEF RejectArguments, TestDeadline, Invoke, ioUnchanged
<1>18. CASE PutResultBytes
    BY <1>18 DEF PutResultBytes, ioUnchanged
<1>19. CASE PutRecord
    BY <1>19 DEF PutRecord, ioUnchanged
<1>20. CASE Tick
    BY <1>20 DEF Tick
<1>21. CASE UNCHANGED vars
    BY <1>21 DEF vars
<1> QED
    BY <1>1, <1>2, <1>3, <1>4, <1>5, <1>6, <1>7, <1>8, <1>9, <1>10, <1>11, <1>12, <1>13,
       <1>14, <1>15, <1>16, <1>17, <1>18, <1>19, <1>20, <1>21
    DEF Next, IoNext, AppNext

--------------------------------------------------------------------------------
\* PipeInv is an invariant.
LEMMA PipeStepLemma == PipeInv /\ [Next]_vars => PipeInv'
<1> SUFFICES ASSUME PipeInv, [Next]_vars PROVE PipeInv'
    OBVIOUS
<1>1. TypeOK'
    BY TypeStepLemma DEF PipeInv
<1> QED
    BY <1>1, HandsStepLemma, RoomStepLemma, ArgumentsStepLemma, ResultsStepLemma,
       FaultStepLemma, BelongsStepLemma
    DEF PipeInv

LEMMA Pipeline == Spec => []PipeInv
    BY InitLemma, PipeStepLemma, PTL DEF Spec

\* Types, for all bounds.
THEOREM TypeCorrect == Spec => []TypeOK
<1>1. PipeInv => TypeOK
    BY DEF PipeInv
<1> QED
    BY Pipeline, <1>1, PTL

\* Neither "Tool argument byte-pool order violation" nor "Tool result byte pool
\* unexpectedly saturated" (Runtime.cpp:757, 872, 2406) is ever raised.
THEOREM RingsStayPaired == Spec => []NoOrderViolation
<1>1. PipeInv => NoOrderViolation
    BY DEF PipeInv
<1> QED
    BY Pipeline, <1>1, PTL

\* A handler runs on the arguments of its own dispatch, although the code
\* compares nothing but their length (Runtime.cpp:755).
THEOREM HandlerHasItsArguments == Spec => []OwnArguments
<1>1. PipeInv => OwnArguments
    BY DEF PipeInv, HandsInv, Holding, Match, OwnArguments
<1> QED
    BY Pipeline, <1>1, PTL

\* A ToolResult frame carries the payload of its own call, produced in the
\* session it is sent in (Runtime.cpp:2410).
THEOREM ResultsReachTheirCall == Spec => []ResultBelongs
<1>1. PipeInv => ResultBelongs
    BY DEF PipeInv
<1> QED
    BY Pipeline, <1>1, PTL
--------------------------------------------------------------------------------
\* The places of the line that calls pass through, the oldest calls first: the streams
\* of the record being sent, the records in their ring, the job of the application, the
\* jobs in their ring and the job being queued.
StreamsOf(queue) == {queue[i].stream : i \in 1 .. Len(queue)}
HeldIn(item) == IF item = NoCall THEN {} ELSE {item.stream}
ToSend == HeldIn(ioRecord)
Finished == StreamsOf(toolResults)
Running == HeldIn(appJob)
Waiting == StreamsOf(toolJobs)
Queued == HeldIn(ioJob)
AllStreams == ToSend \cup Finished \cup Running \cup Waiting \cup Queued

Rising(queue) == \A i, j \in 1 .. Len(queue) : i < j => queue[i].stream < queue[j].stream
Before(S, T) == \A x \in S, y \in T : x < y

\* Calls stay in line, each stream number in one place.
LineInv ==
    /\ Rising(toolResults) /\ Rising(toolJobs)
    /\ Before(ToSend, Finished) /\ Before(ToSend \cup Finished, Running)
    /\ Before(ToSend \cup Finished \cup Running, Waiting)
    /\ Before(ToSend \cup Finished \cup Running \cup Waiting, Queued)
    /\ Before(AllStreams, {nextStream})

\* Nobody holds what he does not work on.
IdleInv ==
    /\ ioJob # NoCall => Queueing
    /\ ioRecord # NoCall => ioPc = "flushBytes"
    /\ appJob # NoCall => appPc # "idle"

Elements(queue) == {queue[i] : i \in 1 .. Len(queue)}
JobsAround == Elements(toolJobs) \cup ({ioJob, appJob} \ {NoCall})
RecordsAround == Elements(toolResults) \cup ({ioRecord} \ {NoCall})

\* A slot is of this session and its call is in the line, as the job that was accepted
\* or as a result of it.
SlotInv ==
    /\ \A s \in UsedSlots : inFlight[s].epoch = epoch /\ inFlight[s].stream \in AllStreams
    /\ \A s \in UsedSlots : \A job \in JobsAround :
           job.stream = inFlight[s].stream => InFlightCall(job) = inFlight[s]
    /\ \A s \in UsedSlots : \A record \in RecordsAround :
           record.stream = inFlight[s].stream =>
               record.call = inFlight[s].call /\ record.epoch = epoch
    /\ Queueing => \E s \in UsedSlots : inFlight[s] = InFlightCall(ioJob)

\* A call being queued is not acknowledged yet.
OwedInv == AcceptedIsInFlight /\ (Queueing => ioJob.call \notin owed)

\* A job of this session is in flight, or its call has been answered.
OrphanInv ==
    \A job \in JobsAround :
        /\ job.epoch <= epoch
        /\ job.epoch = epoch =>
               \/ answers[job.call] > 0
               \/ \E s \in UsedSlots : inFlight[s].stream = job.stream

\* A local deadline is what was left when it was told, brought nearer where it was far.
Wait(left) == IF left < kLongestWait THEN left ELSE kLongestWait
LocalInv ==
    \A job \in JobsAround :
        job.local # 0 => /\ job.left # 0 /\ job.since <= now
                         /\ job.local = (job.since + Wait(job.left)) % ClockSize

\* A Hub that does not repeat itself has had no answer to a call in flight.
OnceInv ==
    ~HubRepeats => SingleAnswer /\ \A s \in UsedSlots : answers[inFlight[s].call] = 0

TableInv == SlotInv /\ OwedInv /\ OrphanInv /\ LocalInv /\ OnceInv

TrackInv == LineInv /\ IdleInv /\ TableInv
--------------------------------------------------------------------------------
\* A queue that grows or shrinks by one.
LEMMA AppendLemma ==
    ASSUME NEW S, NEW queue \in Seq(S), NEW x \in S
    PROVE  /\ Elements(Append(queue, x)) = Elements(queue) \cup {x}
           /\ StreamsOf(Append(queue, x)) = StreamsOf(queue) \cup {x.stream}
           /\ Rising(queue) /\ Before(StreamsOf(queue), {x.stream}) => Rising(Append(queue, x))
<1> DEFINE longer == Append(queue, x)
<1>1. /\ Len(longer) = Len(queue) + 1 /\ Len(queue) \in Nat
      /\ \A i \in 1 .. Len(queue) : longer[i] = queue[i]
      /\ longer[Len(queue) + 1] = x
    OBVIOUS
<1> HIDE DEF longer
<1>2. Elements(longer) = Elements(queue) \cup {x}
    BY <1>1 DEF Elements
<1>3. StreamsOf(longer) = StreamsOf(queue) \cup {x.stream}
    BY <1>1 DEF StreamsOf
<1>4. ASSUME Rising(queue), Before(StreamsOf(queue), {x.stream}) PROVE Rising(longer)
  <2>1. \A i \in 1 .. Len(queue) : queue[i].stream < x.stream
    BY <1>4 DEF Before, StreamsOf
  <2> QED
    BY <1>1, <1>4, <2>1 DEF Rising
<1> QED
    BY <1>2, <1>3, <1>4 DEF longer

LEMMA TailLemma ==
    ASSUME NEW S, NEW queue \in Seq(S), queue # <<>>
    PROVE  /\ Head(queue) \in S
           /\ Elements(queue) = {Head(queue)} \cup Elements(Tail(queue))
           /\ StreamsOf(queue) = {Head(queue).stream} \cup StreamsOf(Tail(queue))
           /\ Rising(queue) => /\ Rising(Tail(queue))
                               /\ Before({Head(queue).stream}, StreamsOf(Tail(queue)))
<1> DEFINE rest == Tail(queue)
           first == Head(queue)
<1>1. /\ Len(rest) = Len(queue) - 1 /\ Len(queue) \in Nat \ {0}
      /\ \A i \in 1 .. Len(rest) : rest[i] = queue[i + 1]
      /\ first = queue[1] /\ first \in S
    OBVIOUS
<1> HIDE DEF rest, first
<1>2. \A i \in 1 .. Len(queue) : i = 1 \/ (i - 1 \in 1 .. Len(rest) /\ queue[i] = rest[i - 1])
    BY <1>1
<1>3. \A i \in 1 .. Len(rest) : i + 1 \in 1 .. Len(queue)
    BY <1>1
<1>4. Elements(queue) = {first} \cup Elements(rest)
    BY <1>1, <1>2, <1>3 DEF Elements
<1>5. StreamsOf(queue) = {first.stream} \cup StreamsOf(rest)
    BY <1>1, <1>2, <1>3 DEF StreamsOf
<1>6. ASSUME Rising(queue) PROVE Rising(rest) /\ Before({first.stream}, StreamsOf(rest))
  <2>1. ASSUME NEW i \in 1 .. Len(rest), NEW j \in 1 .. Len(rest), i < j
        PROVE  rest[i].stream < rest[j].stream
    <3>1. i + 1 \in 1 .. Len(queue) /\ j + 1 \in 1 .. Len(queue) /\ i + 1 < j + 1
      BY <1>1, <2>1
    <3>2. rest[i] = queue[i + 1] /\ rest[j] = queue[j + 1]
      BY <1>1
    <3> QED
      BY <1>6, <3>1, <3>2 DEF Rising
  <2>2. \A i \in 1 .. Len(rest) : first.stream < rest[i].stream
    BY <1>1, <1>3, <1>6 DEF Rising
  <2> QED
    BY <2>1, <2>2 DEF Rising, Before, StreamsOf
<1> QED
    BY <1>1, <1>4, <1>5, <1>6 DEF rest, first

\* The streams are numbers.
LEMMA StreamsLemma ==
    ASSUME TypeOK
    PROVE  /\ AllStreams \subseteq Nat /\ nextStream \in Nat
           /\ \A job \in JobsAround : job \in Jobs
           /\ \A record \in RecordsAround : record \in Records
           /\ AllStreams = {x.stream : x \in JobsAround \cup RecordsAround}
<1>1. /\ \A i \in 1 .. Len(toolJobs) : toolJobs[i] \in Jobs
      /\ \A i \in 1 .. Len(toolResults) : toolResults[i] \in Records
    BY DEF TypeOK
<1>2. /\ \A job \in JobsAround : job \in Jobs
      /\ \A record \in RecordsAround : record \in Records
    BY <1>1 DEF TypeOK, JobsAround, RecordsAround, Elements
<1>3. AllStreams = {x.stream : x \in JobsAround \cup RecordsAround}
    BY DEF AllStreams, JobsAround, RecordsAround, Elements, StreamsOf, HeldIn, ToSend,
           Finished, Running, Waiting, Queued
<1>4. \A x \in JobsAround \cup RecordsAround : x.stream \in Nat
    BY <1>2, PipelineAssumption DEF Jobs, Records, Streams
<1> QED
    BY <1>2, <1>3, <1>4, PipelineAssumption DEF TypeOK
--------------------------------------------------------------------------------
\* The line when nothing moves, except that a task drops what it holds.
LEMMA LineShrinks ==
    ASSUME LineInv, UNCHANGED <<toolJobs, toolResults, nextStream>>,
           ioJob' \in {ioJob, NoCall}, ioRecord' \in {ioRecord, NoCall},
           appJob' \in {appJob, NoCall}
    PROVE  LineInv'
<1>1. /\ Queued' \subseteq Queued /\ ToSend' \subseteq ToSend /\ Running' \subseteq Running
      /\ Finished' = Finished /\ Waiting' = Waiting
    BY DEF Queued, ToSend, Running, Finished, Waiting, HeldIn, StreamsOf
<1>2. Rising(toolResults)' /\ Rising(toolJobs)'
    BY DEF LineInv, Rising
<1> QED
    BY <1>1, <1>2 DEF LineInv, AllStreams, Before

\* A dispatch that is accepted is the last of the line.
LEMMA LineGrows ==
    ASSUME TypeOK, LineInv, ioJob = NoCall, ioJob' # NoCall, ioJob'.stream = nextStream,
           nextStream' = nextStream + 1,
           UNCHANGED <<toolJobs, toolResults, ioRecord, appJob>>
    PROVE  LineInv'
<1>1. /\ Queued = {} /\ Queued' = {nextStream} /\ ToSend' = ToSend /\ Running' = Running
      /\ Finished' = Finished /\ Waiting' = Waiting
    BY DEF Queued, ToSend, Running, Finished, Waiting, HeldIn, StreamsOf
<1>2. Rising(toolResults)' /\ Rising(toolJobs)'
    BY DEF LineInv, Rising
<1>3. AllStreams \subseteq Nat /\ nextStream \in Nat
    BY StreamsLemma
<1>4. AllStreams' = AllStreams \cup {nextStream}
    BY <1>1 DEF AllStreams
<1>5. Before(AllStreams', {nextStream'})
    BY <1>3, <1>4 DEF LineInv, Before
<1> QED
    BY <1>1, <1>2, <1>5 DEF LineInv, AllStreams, Before

\* A job that is queued goes to the end of its ring; the session may be lost meanwhile.
LEMMA LineQueues ==
    ASSUME TypeOK, LineInv, ioJob \in Jobs, toolJobs' = Append(toolJobs, ioJob),
           ioJob' = NoCall, ioRecord' \in {ioRecord, NoCall},
           UNCHANGED <<toolResults, appJob, nextStream>>
    PROVE  /\ LineInv' /\ JobsAround' = JobsAround /\ RecordsAround' \subseteq RecordsAround
           /\ ioRecord' = ioRecord => RecordsAround' = RecordsAround
<1>0. ioJob # NoCall
    BY NoCallAssumption
<1>1. /\ Waiting' = Waiting \cup {ioJob.stream}
      /\ Elements(toolJobs)' = Elements(toolJobs) \cup {ioJob}
      /\ Rising(toolJobs) /\ Before(Waiting, {ioJob.stream}) => Rising(toolJobs)'
  <2>1. toolJobs \in Seq(Jobs)
    BY DEF TypeOK
  <2>2. /\ Elements(Append(toolJobs, ioJob)) = Elements(toolJobs) \cup {ioJob}
        /\ StreamsOf(Append(toolJobs, ioJob)) = StreamsOf(toolJobs) \cup {ioJob.stream}
        /\ Rising(toolJobs) /\ Before(StreamsOf(toolJobs), {ioJob.stream}) =>
               Rising(Append(toolJobs, ioJob))
    BY <2>1, AppendLemma
  <2> QED
    BY <2>2 DEF Waiting
<1>2. /\ Queued = {ioJob.stream} /\ Queued' = {} /\ ToSend' \subseteq ToSend
      /\ Running' = Running /\ Finished' = Finished
    BY <1>0 DEF Queued, ToSend, Running, Finished, HeldIn, StreamsOf
<1>3. Rising(toolResults)' /\ Rising(toolJobs)'
    BY <1>1, <1>2 DEF LineInv, Rising, Before
<1>4. JobsAround' = JobsAround /\ RecordsAround' \subseteq RecordsAround
      /\ (ioRecord' = ioRecord => RecordsAround' = RecordsAround)
    BY <1>0, <1>1 DEF JobsAround, RecordsAround, Elements
<1>6. LineInv'
  <2>1. Before(ToSend', Finished') /\ Before(ToSend' \cup Finished', Running')
    BY <1>1, <1>2 DEF LineInv, Before
  <2>2. Before(ToSend' \cup Finished' \cup Running', Waiting')
    BY <1>1, <1>2 DEF LineInv, Before
  <2>3. Before(ToSend' \cup Finished' \cup Running' \cup Waiting', Queued')
    BY <1>1, <1>2 DEF LineInv, Before
  <2>4. AllStreams' \subseteq AllStreams
    BY <1>1, <1>2 DEF AllStreams
  <2>5. Before(AllStreams', {nextStream}')
    BY <2>4 DEF LineInv, Before
  <2> QED
    BY <1>3, <2>1, <2>2, <2>3, <2>5 DEF LineInv, Before
<1> QED
    BY <1>4, <1>6

\* The application takes the first job.
LEMMA LineTakes ==
    ASSUME TypeOK, LineInv, toolJobs # <<>>, appJob = NoCall,
           appJob' = Head(toolJobs), toolJobs' = Tail(toolJobs),
           UNCHANGED <<toolResults, ioJob, ioRecord, nextStream>>
    PROVE  LineInv' /\ JobsAround' = JobsAround /\ RecordsAround' = RecordsAround
<1>1. /\ Head(toolJobs) \in Jobs
      /\ Elements(toolJobs) = {Head(toolJobs)} \cup Elements(toolJobs)'
      /\ Waiting = {Head(toolJobs).stream} \cup Waiting'
      /\ Rising(toolJobs) => Rising(toolJobs)' /\ Before({Head(toolJobs).stream}, Waiting')
  <2>1. toolJobs \in Seq(Jobs)
    BY DEF TypeOK
  <2>2. /\ Head(toolJobs) \in Jobs
        /\ Elements(toolJobs) = {Head(toolJobs)} \cup Elements(Tail(toolJobs))
        /\ StreamsOf(toolJobs) = {Head(toolJobs).stream} \cup StreamsOf(Tail(toolJobs))
        /\ Rising(toolJobs) => /\ Rising(Tail(toolJobs))
                         /\ Before({Head(toolJobs).stream}, StreamsOf(Tail(toolJobs)))
    BY <2>1, TailLemma
  <2> QED
    BY <2>2 DEF Waiting
<1>2. appJob' # NoCall
    BY <1>1, NoCallAssumption
<1>3. /\ Queued' = Queued /\ ToSend' = ToSend /\ Finished' = Finished
      /\ Running = {} /\ Running' = {Head(toolJobs).stream}
    BY <1>2 DEF Queued, ToSend, Running, Finished, HeldIn, StreamsOf
<1>4. Rising(toolResults)' /\ Rising(toolJobs)'
    BY <1>1 DEF LineInv, Rising
<1>5. JobsAround' = JobsAround /\ RecordsAround' = RecordsAround
    BY <1>1, <1>2 DEF JobsAround, RecordsAround, Elements
<1>6. LineInv'
  <2>1. Before(ToSend', Finished') /\ Before(ToSend' \cup Finished', Running')
    BY <1>1, <1>3 DEF LineInv, Before
  <2>2. Before(ToSend' \cup Finished' \cup Running', Waiting')
    BY <1>1, <1>3 DEF LineInv, Before
  <2>3. Before(ToSend' \cup Finished' \cup Running' \cup Waiting', Queued')
    BY <1>1, <1>3 DEF LineInv, Before
  <2>4. AllStreams' \subseteq AllStreams
    BY <1>1, <1>3 DEF AllStreams
  <2>5. Before(AllStreams', {nextStream}')
    BY <2>4 DEF LineInv, Before
  <2> QED
    BY <1>4, <2>1, <2>2, <2>3, <2>5 DEF LineInv, Before
<1> QED
    BY <1>5, <1>6

\* The result of the application's job goes to the end of its ring.
LEMMA LineFinishes ==
    ASSUME TypeOK, LineInv, appJob \in Jobs, NEW record \in Records,
           record.stream = appJob.stream, toolResults' = Append(toolResults, record),
           appJob' = NoCall, UNCHANGED <<toolJobs, ioJob, ioRecord, nextStream>>
    PROVE  /\ LineInv' /\ JobsAround' \subseteq JobsAround /\ AllStreams' = AllStreams
           /\ RecordsAround' = RecordsAround \cup {record}
<1>0. appJob # NoCall
    BY NoCallAssumption
<1>1. /\ Finished' = Finished \cup {record.stream}
      /\ Elements(toolResults)' = Elements(toolResults) \cup {record}
      /\ Rising(toolResults) /\ Before(Finished, {record.stream}) => Rising(toolResults)'
  <2>1. toolResults \in Seq(Records)
    BY DEF TypeOK
  <2>2. /\ Elements(Append(toolResults, record)) = Elements(toolResults) \cup {record}
        /\ StreamsOf(Append(toolResults, record)) = StreamsOf(toolResults) \cup {record.stream}
        /\ Rising(toolResults) /\ Before(StreamsOf(toolResults), {record.stream}) =>
               Rising(Append(toolResults, record))
    BY <2>1, AppendLemma
  <2> QED
    BY <2>2 DEF Finished
<1>2. /\ Running = {record.stream} /\ Running' = {} /\ ToSend' = ToSend
      /\ Queued' = Queued /\ Waiting' = Waiting
    BY <1>0 DEF Queued, ToSend, Running, Waiting, HeldIn, StreamsOf
<1>3. Rising(toolResults)' /\ Rising(toolJobs)'
    BY <1>1, <1>2 DEF LineInv, Rising, Before
<1>4. JobsAround' \subseteq JobsAround /\ RecordsAround' = RecordsAround \cup {record}
    BY <1>1 DEF JobsAround, RecordsAround, Elements
<1>5. AllStreams' = AllStreams
    BY <1>1, <1>2 DEF AllStreams
<1>6. LineInv'
  <2>1. Before(ToSend', Finished') /\ Before(ToSend' \cup Finished', Running')
    BY <1>1, <1>2 DEF LineInv, Before
  <2>2. Before(ToSend' \cup Finished' \cup Running', Waiting')
    BY <1>1, <1>2 DEF LineInv, Before
  <2>3. Before(ToSend' \cup Finished' \cup Running' \cup Waiting', Queued')
    BY <1>1, <1>2 DEF LineInv, Before
  <2>4. AllStreams' \subseteq AllStreams
    BY <1>1, <1>2 DEF AllStreams
  <2>5. Before(AllStreams', {nextStream}')
    BY <2>4 DEF LineInv, Before
  <2> QED
    BY <1>3, <2>1, <2>2, <2>3, <2>5 DEF LineInv, Before
<1> QED
    BY <1>4, <1>5, <1>6

\* The I/O task takes the first record.
LEMMA LineFlushes ==
    ASSUME TypeOK, LineInv, toolResults # <<>>, ioRecord = NoCall,
           ioRecord' = Head(toolResults), toolResults' = Tail(toolResults),
           UNCHANGED <<toolJobs, ioJob, appJob, nextStream>>
    PROVE  LineInv' /\ JobsAround' = JobsAround /\ RecordsAround' = RecordsAround
<1>1. /\ Head(toolResults) \in Records
      /\ Elements(toolResults) = {Head(toolResults)} \cup Elements(toolResults)'
      /\ Finished = {Head(toolResults).stream} \cup Finished'
      /\ Rising(toolResults) =>
             Rising(toolResults)' /\ Before({Head(toolResults).stream}, Finished')
  <2>1. toolResults \in Seq(Records)
    BY DEF TypeOK
  <2>2. /\ Head(toolResults) \in Records
        /\ Elements(toolResults) = {Head(toolResults)} \cup Elements(Tail(toolResults))
        /\ StreamsOf(toolResults) = {Head(toolResults).stream} \cup StreamsOf(Tail(toolResults))
        /\ Rising(toolResults) => /\ Rising(Tail(toolResults))
                         /\ Before({Head(toolResults).stream}, StreamsOf(Tail(toolResults)))
    BY <2>1, TailLemma
  <2> QED
    BY <2>2 DEF Finished
<1>2. ioRecord' # NoCall
    BY <1>1, NoCallAssumption
<1>3. /\ Queued' = Queued /\ Running' = Running /\ Waiting' = Waiting
      /\ ToSend = {} /\ ToSend' = {Head(toolResults).stream}
    BY <1>2 DEF Queued, ToSend, Running, Waiting, HeldIn, StreamsOf
<1>4. Rising(toolResults)' /\ Rising(toolJobs)'
    BY <1>1 DEF LineInv, Rising
<1>5. JobsAround' = JobsAround /\ RecordsAround' = RecordsAround
    BY <1>1, <1>2 DEF JobsAround, RecordsAround, Elements
<1>6. LineInv'
  <2>1. Before(ToSend', Finished') /\ Before(ToSend' \cup Finished', Running')
    BY <1>1, <1>3 DEF LineInv, Before
  <2>2. Before(ToSend' \cup Finished' \cup Running', Waiting')
    BY <1>1, <1>3 DEF LineInv, Before
  <2>3. Before(ToSend' \cup Finished' \cup Running' \cup Waiting', Queued')
    BY <1>1, <1>3 DEF LineInv, Before
  <2>4. AllStreams' \subseteq AllStreams
    BY <1>1, <1>3 DEF AllStreams
  <2>5. Before(AllStreams', {nextStream}')
    BY <2>4 DEF LineInv, Before
  <2> QED
    BY <1>4, <2>1, <2>2, <2>3, <2>5 DEF LineInv, Before
<1> QED
    BY <1>5, <1>6
--------------------------------------------------------------------------------
\* The slots in use hold calls.
LEMMA SlotsLemma ==
    ASSUME TypeOK
    PROVE  /\ \A s \in UsedSlots : s \in Slots /\ inFlight[s] \in InFlightCalls
           /\ \A s \in UsedSlots : inFlight[s].call \in Calls
           /\ inFlight' = inFlight => UsedSlots' = UsedSlots
    BY DEF TypeOK, UsedSlots, InFlightCalls

\* The answers are counted in numbers.
LEMMA AnswersLemma ==
    ASSUME TypeOK
    PROVE  /\ answers \in [Calls -> 0 .. 2] /\ answers \in [Calls -> Nat]
           /\ \A c \in Calls : answers[c] \in Nat
<1>1. answers \in [Calls -> 0 .. 2]
    BY DEF TypeOK
<1> QED
    BY <1>1

\* What releaseInFlight leaves.
LEMMA ReleaseLemma ==
    ASSUME TypeOK, NEW c, inFlight' = releaseInFlight(c)
    PROVE  /\ UsedSlots' = {s \in UsedSlots : inFlight[s].call # c}
           /\ \A s \in UsedSlots' : inFlight'[s] = inFlight[s]
    BY DEF TypeOK, UsedSlots, releaseInFlight, findInFlight

\* The table of calls in flight when slots are only released, and jobs and records only
\* leave.  A slot that stays has its call in the line; one that is released has been
\* answered, or nobody works on its call any more.
LEMMA TableShrinks ==
    ASSUME TypeOK, TableInv, UNCHANGED epoch,
           UsedSlots' \subseteq UsedSlots, \A s \in UsedSlots' : inFlight'[s] = inFlight[s],
           JobsAround' \subseteq JobsAround, RecordsAround' \subseteq RecordsAround,
           \A s \in UsedSlots' : inFlight[s].stream \in AllStreams',
           Queueing' => Queueing /\ ioJob' = ioJob /\ UsedSlots' = UsedSlots,
           answers' \in [Calls -> Nat], \A c \in Calls : answers[c] <= answers'[c],
           \A s \in UsedSlots \ UsedSlots' :
               \/ answers'[inFlight[s].call] > 0
               \/ \A job \in JobsAround' : job.stream # inFlight[s].stream
    PROVE  SlotInv' /\ OrphanInv'
<1> USE DEF TableInv
<1>1. SlotInv'
  <2>1. \A s \in UsedSlots' : s \in UsedSlots /\ inFlight'[s] = inFlight[s]
    OBVIOUS
  <2>2. \A s \in UsedSlots' :
            inFlight'[s].epoch = epoch' /\ inFlight'[s].stream \in AllStreams'
    BY <2>1 DEF SlotInv
  <2>3. \A s \in UsedSlots' : \A job \in JobsAround' :
            job.stream = inFlight'[s].stream => InFlightCall(job) = inFlight'[s]
    BY <2>1 DEF SlotInv
  <2>4. \A s \in UsedSlots' : \A record \in RecordsAround' :
            record.stream = inFlight'[s].stream =>
                record.call = inFlight'[s].call /\ record.epoch = epoch'
    BY <2>1 DEF SlotInv
  <2>5. Queueing' => \E s \in UsedSlots' : inFlight'[s] = InFlightCall(ioJob')
    BY <2>1 DEF SlotInv
  <2> QED
    BY <2>2, <2>3, <2>4, <2>5 DEF SlotInv
<1>2. OrphanInv'
  <2> SUFFICES ASSUME NEW job \in JobsAround'
               PROVE  /\ job.epoch <= epoch
                      /\ job.epoch = epoch =>
                             \/ answers'[job.call] > 0
                             \/ \E s \in UsedSlots' : inFlight'[s].stream = job.stream
    BY DEF OrphanInv
  <2>1. job \in JobsAround /\ job.epoch <= epoch
    BY DEF OrphanInv
  <2>2. job \in Jobs /\ job.call \in Calls
    BY <2>1, StreamsLemma DEF Jobs
  <2>3. CASE answers[job.call] > 0
    <3>1. answers[job.call] \in Nat /\ answers'[job.call] \in Nat
          /\ answers[job.call] <= answers'[job.call]
      BY <2>2, AnswersLemma
    <3> QED
      BY <2>1, <2>3, <3>1
  <2>4. ASSUME NEW s \in UsedSlots, inFlight[s].stream = job.stream
        PROVE  answers'[job.call] > 0 \/ \E t \in UsedSlots' : inFlight'[t].stream = job.stream
    <3>1. InFlightCall(job) = inFlight[s]
      BY <2>1, <2>4 DEF SlotInv
    <3>2. job.call = inFlight[s].call
      BY <3>1 DEF InFlightCall
    <3> QED
      BY <2>4, <3>2
  <2> QED
    BY <2>1, <2>3, <2>4 DEF OrphanInv
<1> QED
    BY <1>1, <1>2

\* Time goes on; the local deadlines stay.
LEMMA LocalKept ==
    ASSUME TypeOK, LocalInv, now' \in Nat, now <= now', JobsAround' \subseteq JobsAround
    PROVE  LocalInv'
<1> SUFFICES ASSUME NEW job \in JobsAround, job.local # 0
             PROVE  /\ job.left # 0 /\ job.since <= now'
                    /\ job.local = (job.since + Wait(job.left)) % ClockSize
    BY DEF LocalInv, Wait, kLongestWait
<1>1. /\ job.left # 0 /\ job.since <= now
      /\ job.local = (job.since + Wait(job.left)) % ClockSize
    BY DEF LocalInv
<1>2. job.since \in Nat /\ now \in Nat
    BY StreamsLemma, TimesLemma DEF TypeOK, Jobs
<1> QED
    BY <1>1, <1>2

\* The table when nothing happens to it.
LEMMA TableKept ==
    ASSUME TypeOK, TableInv, now' \in Nat, now <= now',
           UNCHANGED <<epoch, nextStream, inFlight, owed, answers, ioJob>>,
           JobsAround' \subseteq JobsAround, RecordsAround' \subseteq RecordsAround,
           \A s \in UsedSlots : inFlight[s].stream \in AllStreams',
           Queueing' = Queueing
    PROVE  TableInv'
<1>1. UsedSlots' = UsedSlots
    BY SlotsLemma
<1>2. answers' \in [Calls -> Nat] /\ \A c \in Calls : answers[c] <= answers'[c]
    BY AnswersLemma
<1>3. SlotInv' /\ OrphanInv'
    BY <1>1, <1>2, TableShrinks DEF TableInv, SlotInv
<1>6. LocalInv'
    BY <1>1, LocalKept DEF TableInv
<1>4. OwedInv'
    BY <1>1 DEF TableInv, OwedInv, AcceptedIsInFlight, findInFlight
<1>5. OnceInv'
    BY <1>1 DEF TableInv, OnceInv, SingleAnswer
<1> QED
    BY <1>3, <1>4, <1>5, <1>6 DEF TableInv

\* The table when a ToolResult is sent and the slot of its call is released.
LEMMA TableAnswers ==
    ASSUME TypeOK, TableInv, UNCHANGED epoch,
           NEW c \in Calls, NEW body, NEW from, Answer(c, body, from),
           inFlight' = releaseInFlight(c), findInFlight(c) # {},
           JobsAround' \subseteq JobsAround, RecordsAround' \subseteq RecordsAround,
           \A s \in UsedSlots : inFlight[s].call # c => inFlight[s].stream \in AllStreams',
           ~Queueing'
    PROVE  SlotInv' /\ OrphanInv' /\ OwedInv' /\ OnceInv'
<1>1. /\ UsedSlots' = {s \in UsedSlots : inFlight[s].call # c}
      /\ \A s \in UsedSlots' : inFlight'[s] = inFlight[s]
    BY ReleaseLemma
<1>2. answers \in [Calls -> 0 .. 2]
    BY DEF TypeOK
<1>3. answers' = [answers EXCEPT ![c] = IF answers[c] = 2 THEN 2 ELSE answers[c] + 1]
    BY DEF Answer
<1>4. /\ answers' \in [Calls -> Nat] /\ \A x \in Calls : answers[x] <= answers'[x]
      /\ answers'[c] > 0
      /\ answers[c] = 0 => answers'[c] = 1
      /\ \A x \in Calls \ {c} : answers'[x] = answers[x]
    BY <1>2, <1>3
<1>5. SlotInv' /\ OrphanInv'
  <2>1. UsedSlots' \subseteq UsedSlots
    BY <1>1
  <2>2. \A s \in UsedSlots \ UsedSlots' :
            \/ answers'[inFlight[s].call] > 0
            \/ \A job \in JobsAround' : job.stream # inFlight[s].stream
    BY <1>1, <1>4
  <2>3. \A s \in UsedSlots' : inFlight[s].stream \in AllStreams'
    BY <1>1
  <2>4. Queueing' => Queueing /\ ioJob' = ioJob /\ UsedSlots' = UsedSlots
    OBVIOUS
  <2> QED
    BY <1>1, <1>4, <2>1, <2>2, <2>3, <2>4, TableShrinks
<1>6. OwedInv'
  <2>1. owed' = owed \ {c}
    BY DEF Answer
  <2>2. \A s, t \in UsedSlots' : inFlight'[s].call = inFlight'[t].call => s = t
    BY <1>1 DEF TableInv, OwedInv, AcceptedIsInFlight
  <2>3. \A x \in owed' : findInFlight(x)' # {}
    <3> SUFFICES ASSUME NEW x \in owed' PROVE \E s \in UsedSlots' : inFlight'[s].call = x
      BY DEF findInFlight
    <3>1. \E s \in UsedSlots : inFlight[s].call = x /\ x # c
      BY <2>1 DEF TableInv, OwedInv, AcceptedIsInFlight, findInFlight
    <3> QED
      BY <1>1, <3>1
  <2> QED
    BY <2>2, <2>3 DEF OwedInv, AcceptedIsInFlight
<1>7. OnceInv'
  <2> SUFFICES ASSUME ~HubRepeats
               PROVE  SingleAnswer' /\ \A s \in UsedSlots' : answers'[inFlight'[s].call] = 0
    BY DEF OnceInv
  <2>1. answers[c] = 0
    BY DEF findInFlight, TableInv, OnceInv
  <2>2. \A x \in Calls : answers'[x] <= 1
    BY <1>4, <2>1 DEF TableInv, OnceInv, SingleAnswer
  <2>3. \A s \in UsedSlots' : answers'[inFlight'[s].call] = 0
    BY <1>1, <1>4, SlotsLemma DEF TableInv, OnceInv
  <2> QED
    BY <2>2, <2>3 DEF SingleAnswer
<1> QED
    BY <1>5, <1>6, <1>7

\* A lost session empties the table; what is left in the rings is of earlier sessions.
LEMMA TableEmptied ==
    ASSUME TypeOK, TableInv, disconnectAndBackoff, UNCHANGED <<now, nextStream>>,
           JobsAround' \subseteq JobsAround
    PROVE  TableInv'
<1>1. /\ UsedSlots' = {} /\ owed' = {} /\ \A c \in Calls : answers'[c] = 0
      /\ epoch' = epoch + 1 /\ ~Queueing'
    BY DEF disconnectAndBackoff, NoneInFlight, UsedSlots, Queueing
<1>2. SlotInv' /\ OwedInv' /\ OnceInv'
    BY <1>1 DEF SlotInv, OwedInv, OnceInv, AcceptedIsInFlight, SingleAnswer
<1>3. OrphanInv'
  <2>1. \A job \in JobsAround' : job.epoch \in Nat /\ job.epoch <= epoch
    BY StreamsLemma, PipelineAssumption DEF Jobs, Epochs, TableInv, OrphanInv
  <2>2. epoch \in Nat
    BY PipelineAssumption DEF TypeOK, Epochs
  <2>3. \A job \in JobsAround' : job.epoch <= epoch' /\ job.epoch # epoch'
    BY <1>1, <2>1, <2>2
  <2> QED
    BY <2>3 DEF OrphanInv
<1>4. LocalInv'
    BY TimesLemma, LocalKept DEF TypeOK, TableInv
<1> QED
    BY <1>2, <1>3, <1>4 DEF TableInv
--------------------------------------------------------------------------------
\* A task holds nothing when it begins to look for work.
LEMMA IdleStepLemma == PipeInv /\ TrackInv /\ [Next]_vars => IdleInv'
<1> SUFFICES ASSUME PipeInv, IdleInv, [Next]_vars PROVE IdleInv'
    BY DEF TrackInv
<1> USE DEF IdleInv, Queueing, rings, appVars
<1>1. CASE Connect
    BY <1>1 DEF Connect
<1>2. CASE Drop
    BY <1>2 DEF Drop, disconnectAndBackoff
<1>3. CASE HeartbeatAck
    BY <1>3 DEF HeartbeatAck
<1>4. ASSUME NEW c \in Calls, DispatchDuplicate(c)
      PROVE  IdleInv'
    BY <1>4 DEF DispatchDuplicate, disconnectAndBackoff, NextFrame
<1>5. ASSUME NEW c \in Calls, DispatchCached(c)
      PROVE  IdleInv'
    BY <1>5 DEF DispatchCached, disconnectAndBackoff, NextFrame
<1>6. ASSUME NEW c \in Calls, NEW valid \in BOOLEAN, NEW d \in Deadlines,
             NEW n \in ArgumentSizes, DispatchRefused(c, valid, d, n)
      PROVE  IdleInv'
    BY <1>6 DEF DispatchRefused, disconnectAndBackoff, NextFrame
<1>7. ASSUME NEW c \in Calls, NEW d \in Deadlines, NEW n \in ArgumentSizes,
             DispatchAccept(c, d, n)
      PROVE  IdleInv'
    BY <1>7 DEF DispatchAccept, Receiving
<1>8. CASE QueueArguments
    BY <1>8 DEF QueueArguments, QueueBusy
<1>9. CASE QueueJob
    BY <1>9 DEF QueueJob, QueueBusy, disconnectAndBackoff
<1>10. CASE ReceiveDone
    BY <1>10 DEF ReceiveDone
<1>11. CASE ExpireCall
    BY <1>11 DEF ExpireCall, disconnectAndBackoff
<1>12. CASE ExpireDone
    BY <1>12 DEF ExpireDone
<1>13. CASE FlushRecord
    BY <1>13 DEF FlushRecord
<1>14. CASE FlushBytes
    BY <1>14 DEF FlushBytes, disconnectAndBackoff
<1>15. CASE TakeJob
    BY <1>15 DEF TakeJob, ioUnchanged
<1>16. CASE TakeArguments
    BY <1>16 DEF TakeArguments, ioUnchanged
<1>17. CASE RejectArguments \/ TestDeadline \/ Invoke
    BY <1>17 DEF RejectArguments, TestDeadline, Invoke, ioUnchanged
<1>18. CASE PutResultBytes
    BY <1>18 DEF PutResultBytes, ioUnchanged
<1>19. CASE PutRecord
    BY <1>19 DEF PutRecord, ioUnchanged
<1>20. CASE Tick
    BY <1>20 DEF Tick
<1>21. CASE UNCHANGED vars
    BY <1>21 DEF vars
<1> QED
    BY <1>1, <1>2, <1>3, <1>4, <1>5, <1>6, <1>7, <1>8, <1>9, <1>10, <1>11, <1>12, <1>13,
       <1>14, <1>15, <1>16, <1>17, <1>18, <1>19, <1>20, <1>21
    DEF Next, IoNext, AppNext

\* The line and the table.
Tracks == LineInv /\ TableInv

\* A step that neither moves a call nor touches the table.
LEMMA QuietKeeps ==
    ASSUME TypeOK, TrackInv, now' \in Nat, now <= now', Queueing' = Queueing,
           UNCHANGED <<epoch, nextStream, inFlight, owed, answers, ioJob, ioRecord,
                       appJob, toolJobs, toolResults>>
    PROVE  Tracks'
<1>1. LineInv'
    BY LineShrinks DEF TrackInv
<1>2. JobsAround' = JobsAround /\ RecordsAround' = RecordsAround /\ AllStreams' = AllStreams
    BY DEF JobsAround, RecordsAround, Elements, StreamsOf, HeldIn, AllStreams, ToSend,
           Finished, Running, Waiting, Queued
<1>3. \A s \in UsedSlots : inFlight[s].stream \in AllStreams'
    BY <1>2 DEF TrackInv, TableInv, SlotInv
<1>4. TableInv'
    BY <1>2, <1>3, TableKept DEF TrackInv
<1> QED
    BY <1>1, <1>4 DEF Tracks

\* The session is lost while nothing is being queued, or what was queued is given up.
LEMMA DisconnectKeeps ==
    ASSUME TypeOK, TrackInv, disconnectAndBackoff,
           UNCHANGED <<now, nextStream, appJob, toolJobs, toolResults>>
    PROVE  Tracks'
<1>1. ioJob' = NoCall /\ ioRecord' = NoCall
    BY DEF disconnectAndBackoff
<1>2. LineInv'
    BY <1>1, LineShrinks DEF TrackInv
<1>3. JobsAround' \subseteq JobsAround
    BY <1>1 DEF JobsAround, Elements
<1>4. TableInv'
    BY <1>3, TableEmptied DEF TrackInv
<1> QED
    BY <1>2, <1>4 DEF Tracks

\* A duplicate is acknowledged once more.
LEMMA DuplicateKeeps ==
    ASSUME PipeInv, TrackInv, NEW c \in Calls, DispatchDuplicate(c)
    PROVE  Tracks'
<1> USE DEF rings, appVars
<1>1. CASE disconnectAndBackoff
    BY <1>1, DisconnectKeeps DEF DispatchDuplicate, PipeInv
<1>2. CASE NextFrame /\ owed' = owed \cup {c} /\ sent' = NoFrame
           /\ UNCHANGED <<inFlight, answers>>
  <2>1. /\ now' = now /\ now \in Nat /\ ~Queueing /\ ~Queueing'
        /\ UNCHANGED <<epoch, nextStream, inFlight, answers, ioJob, ioRecord,
                       appJob, toolJobs, toolResults>>
    BY <1>2, PipelineAssumption, TimesLemma
    DEF DispatchDuplicate, Receiving, NextFrame, Queueing, PipeInv, TypeOK
  <2>2. LineInv'
    BY <2>1, LineShrinks DEF TrackInv
  <2>3. JobsAround' = JobsAround /\ RecordsAround' = RecordsAround /\ AllStreams' = AllStreams
        /\ UsedSlots' = UsedSlots
    BY <2>1 DEF JobsAround, RecordsAround, Elements, StreamsOf, HeldIn, AllStreams, ToSend,
           Finished, Running, Waiting, Queued, UsedSlots
  <2>4. SlotInv' /\ OrphanInv' /\ LocalInv'
    BY <2>1, <2>3 DEF TrackInv, TableInv, SlotInv, OrphanInv, LocalInv
  <2>5. OwedInv'
    BY <1>2, <2>1, <2>3 DEF TrackInv, TableInv, OwedInv, AcceptedIsInFlight, findInFlight,
       DispatchDuplicate
  <2>6. OnceInv'
    BY <2>1, <2>3 DEF TrackInv, TableInv, OnceInv, SingleAnswer
  <2> QED
    BY <2>2, <2>4, <2>5, <2>6 DEF Tracks, TableInv
<1> QED
    BY <1>1, <1>2 DEF DispatchDuplicate

\* The answer in the cache is sent again; its call is not in flight.
LEMMA CachedKeeps ==
    ASSUME PipeInv, TrackInv, NEW c \in Calls, DispatchCached(c)
    PROVE  Tracks'
<1> USE DEF rings, appVars
<1>1. CASE disconnectAndBackoff
    BY <1>1, DisconnectKeeps DEF DispatchCached, PipeInv
<1>2. CASE NextFrame /\ Answer(c, c, 0) /\ UNCHANGED inFlight
  <2>1. /\ now' = now /\ now \in Nat /\ ~Queueing /\ ~Queueing'
        /\ UNCHANGED <<epoch, nextStream, inFlight, ioJob, ioRecord,
                       appJob, toolJobs, toolResults>>
        /\ findInFlight(c) = {} /\ owed' = owed \ {c}
        /\ ~HubRepeats => answers[c] = 0
    BY <1>2, PipelineAssumption, TimesLemma
    DEF DispatchCached, Receiving, HubMaySend, NextFrame, Answer, Queueing, PipeInv, TypeOK
  <2>2. LineInv'
    BY <2>1, LineShrinks DEF TrackInv
  <2>3. JobsAround' = JobsAround /\ RecordsAround' = RecordsAround /\ AllStreams' = AllStreams
        /\ UsedSlots' = UsedSlots
    BY <2>1 DEF JobsAround, RecordsAround, Elements, StreamsOf, HeldIn, AllStreams, ToSend,
           Finished, Running, Waiting, Queued, UsedSlots
  <2>4. /\ answers' \in [Calls -> Nat] /\ \A x \in Calls : answers[x] <= answers'[x]
        /\ answers[c] = 0 => answers'[c] = 1
        /\ \A x \in Calls \ {c} : answers'[x] = answers[x]
    <3>1. answers \in [Calls -> 0 .. 2]
      BY AnswersLemma DEF PipeInv
    <3>2. answers' = [answers EXCEPT ![c] = IF answers[c] = 2 THEN 2 ELSE answers[c] + 1]
      BY <1>2 DEF Answer
    <3> QED
      BY <3>1, <3>2
  <2>5. SlotInv' /\ LocalInv'
    BY <2>1, <2>3 DEF TrackInv, TableInv, SlotInv, LocalInv
  <2>6. OrphanInv'
    <3> SUFFICES ASSUME NEW job \in JobsAround
                 PROVE  /\ job.epoch <= epoch
                        /\ job.epoch = epoch =>
                               \/ answers'[job.call] > 0
                               \/ \E s \in UsedSlots : inFlight[s].stream = job.stream
      BY <2>1, <2>3 DEF OrphanInv
    <3>1. job.call \in Calls
      BY StreamsLemma DEF PipeInv, Jobs
    <3>2. answers[job.call] \in Nat /\ answers'[job.call] \in Nat
          /\ answers[job.call] <= answers'[job.call]
      BY <2>4, <3>1, AnswersLemma DEF PipeInv
    <3> QED
      BY <3>2 DEF TrackInv, TableInv, OrphanInv
  <2>7. OwedInv'
    BY <2>1, <2>3 DEF TrackInv, TableInv, OwedInv, AcceptedIsInFlight, findInFlight
  <2>8. OnceInv'
    <3> SUFFICES ASSUME ~HubRepeats
                 PROVE  SingleAnswer' /\ \A s \in UsedSlots : answers'[inFlight[s].call] = 0
      BY <2>1, <2>3 DEF OnceInv
    <3>1. \A x \in Calls : answers'[x] <= 1
      BY <2>1, <2>4 DEF TrackInv, TableInv, OnceInv, SingleAnswer
    <3>2. \A s \in UsedSlots : inFlight[s].call \in Calls \ {c}
      BY <2>1, SlotsLemma DEF findInFlight, PipeInv
    <3> QED
      BY <2>4, <3>1, <3>2 DEF TrackInv, TableInv, OnceInv, SingleAnswer
  <2> QED
    BY <2>2, <2>5, <2>6, <2>7, <2>8 DEF Tracks, TableInv
<1> QED
    BY <1>1, <1>2 DEF DispatchCached

\* A refused dispatch leaves no trace but its answer.
LEMMA RefusedKeeps ==
    ASSUME PipeInv, TrackInv, NEW c \in Calls, NEW valid \in BOOLEAN, NEW d \in Deadlines,
           NEW n \in ArgumentSizes, DispatchRefused(c, valid, d, n)
    PROVE  Tracks'
<1> USE DEF rings, appVars
<1>1. CASE disconnectAndBackoff
    BY <1>1, DisconnectKeeps DEF DispatchRefused, PipeInv
<1>2. CASE NextFrame /\ sent' = NoFrame /\ UNCHANGED <<inFlight, owed, answers>>
    BY <1>2, PipelineAssumption, TimesLemma, QuietKeeps
    DEF DispatchRefused, Receiving, NextFrame, Queueing, PipeInv, TypeOK
<1> QED
    BY <1>1, <1>2 DEF DispatchRefused

\* A dispatch that is accepted gets a slot and the next stream number.
LEMMA AcceptKeeps ==
    ASSUME PipeInv, TrackInv, NEW c \in Calls, NEW d \in Deadlines, NEW n \in ArgumentSizes,
           DispatchAccept(c, d, n)
    PROVE  Tracks'
<1> USE DEF rings, appVars
<1> DEFINE job == AcceptedJob(c, d, n)
           slot == InFlightCall(job)
<1>1. PICK s \in Slots \ UsedSlots : inFlight' = [inFlight EXCEPT ![s] = slot]
    BY AcceptLemma DEF PipeInv
<1>2. /\ ioJob' = job /\ nextStream' = nextStream + 1 /\ Queueing' /\ ~Queueing
      /\ findInFlight(c) = {} /\ (~HubRepeats => answers[c] = 0)
      /\ UNCHANGED <<epoch, now, owed, answers, ioRecord, appJob, toolJobs, toolResults>>
    BY DEF DispatchAccept, Receiving, HubMaySend, Queueing, AcceptedJob
<1>3. job \in Jobs /\ job # NoCall /\ slot \in InFlightCalls /\ slot # NoCall
    BY AcceptLemma, <1>2, NoCallAssumption DEF PipeInv
<1>4. /\ job.call = c /\ job.stream = nextStream /\ job.epoch = epoch /\ job.local = 0
      /\ slot.call = c /\ slot.stream = nextStream /\ slot.epoch = epoch
    BY DEF AcceptedJob, InFlightCall
<1> HIDE DEF job
<1>0. slot = InFlightCall(job)
    OBVIOUS
<1> HIDE DEF slot
<1>5. ioJob = NoCall
    BY <1>2 DEF TrackInv, IdleInv
<1>6. LineInv'
    BY <1>2, <1>3, <1>4, <1>5, LineGrows DEF TrackInv, PipeInv
<1>7. /\ JobsAround' = JobsAround \cup {job} /\ RecordsAround' = RecordsAround
      /\ AllStreams' = AllStreams \cup {nextStream}
    BY <1>2, <1>3, <1>4, <1>5 DEF JobsAround, RecordsAround, Elements, StreamsOf, HeldIn,
       AllStreams, ToSend, Finished, Running, Waiting, Queued
<1>8. /\ UsedSlots' = UsedSlots \cup {s} /\ inFlight'[s] = slot
      /\ \A t \in UsedSlots : inFlight'[t] = inFlight[t]
    BY <1>1, <1>3 DEF UsedSlots, PipeInv, TypeOK
<1>9. /\ \A x \in JobsAround \cup RecordsAround : x.stream # nextStream
      /\ \A t \in UsedSlots : inFlight[t].stream # nextStream
  <2>1. AllStreams \subseteq Nat /\ nextStream \in Nat
        /\ AllStreams = {x.stream : x \in JobsAround \cup RecordsAround}
    BY StreamsLemma DEF PipeInv
  <2>2. nextStream \notin AllStreams
    BY <2>1 DEF TrackInv, LineInv, Before
  <2> QED
    BY <2>1, <2>2 DEF TrackInv, TableInv, SlotInv
<1>10. SlotInv'
  <2>1. \A t \in UsedSlots' : inFlight'[t].epoch = epoch' /\ inFlight'[t].stream \in AllStreams'
    BY <1>2, <1>4, <1>7, <1>8 DEF TrackInv, TableInv, SlotInv
  <2>2. \A t \in UsedSlots' : \A x \in JobsAround' :
            x.stream = inFlight'[t].stream => InFlightCall(x) = inFlight'[t]
    BY <1>0, <1>4, <1>7, <1>8, <1>9 DEF TrackInv, TableInv, SlotInv
  <2>3. \A t \in UsedSlots' : \A x \in RecordsAround' :
            x.stream = inFlight'[t].stream => x.call = inFlight'[t].call /\ x.epoch = epoch'
    BY <1>2, <1>4, <1>7, <1>8, <1>9 DEF TrackInv, TableInv, SlotInv
  <2>4. \E t \in UsedSlots' : inFlight'[t] = InFlightCall(ioJob')
    BY <1>0, <1>2, <1>8
  <2> QED
    BY <2>1, <2>2, <2>3, <2>4 DEF SlotInv
<1>11. OwedInv'
  <2>1. \A t \in UsedSlots : inFlight[t].call # c
    BY <1>2 DEF findInFlight
  <2>2. c \notin owed
    BY <1>2 DEF TrackInv, TableInv, OwedInv, AcceptedIsInFlight
  <2>3. \A t, u \in UsedSlots' : inFlight'[t].call = inFlight'[u].call => t = u
    BY <1>4, <1>8, <2>1 DEF TrackInv, TableInv, OwedInv, AcceptedIsInFlight
  <2>4. \A x \in owed' : findInFlight(x)' # {}
    BY <1>2, <1>8 DEF TrackInv, TableInv, OwedInv, AcceptedIsInFlight, findInFlight
  <2> QED
    BY <1>2, <1>4, <2>2, <2>3, <2>4 DEF OwedInv, AcceptedIsInFlight
<1>12. OrphanInv'
  <2>1. epoch \in Nat
    BY PipelineAssumption DEF PipeInv, TypeOK, Epochs
  <2>2. job.epoch <= epoch
    BY <1>4, <2>1
  <2>3. \A x \in JobsAround : x.epoch <= epoch /\
            (x.epoch = epoch => \/ answers[x.call] > 0
                                \/ \E t \in UsedSlots : inFlight'[t].stream = x.stream)
    BY <1>8 DEF TrackInv, TableInv, OrphanInv
  <2>4. inFlight'[s].stream = job.stream
    BY <1>4, <1>8
  <2> QED
    BY <1>2, <1>7, <1>8, <2>2, <2>3, <2>4 DEF OrphanInv
<1>13. LocalInv'
  <2>1. \A x \in JobsAround' : x.local # 0 => x \in JobsAround
    BY <1>4, <1>7
  <2> QED
    BY <1>2, <2>1 DEF TrackInv, TableInv, LocalInv, Wait, kLongestWait
<1>14. OnceInv'
    BY <1>2, <1>4, <1>8 DEF TrackInv, TableInv, OnceInv, SingleAnswer
<1> QED
    BY <1>6, <1>10, <1>11, <1>12, <1>13, <1>14 DEF Tracks, TableInv

\* The arguments are put in their ring, or, without room for them, the call is given up.
LEMMA QueueArgumentsKeeps ==
    ASSUME PipeInv, TrackInv, QueueArguments
    PROVE  Tracks'
<1> USE DEF rings, appVars
<1>0. /\ now' = now /\ now \in Nat /\ Queueing
      /\ UNCHANGED <<epoch, nextStream, owed, answers, ioRecord, appJob, toolJobs,
                     toolResults>>
    BY PipelineAssumption, TimesLemma DEF QueueArguments, Queueing, PipeInv, TypeOK
<1>1. CASE ioPc' = "queueJob" /\ ioJob' = Told(ioJob) /\ UNCHANGED inFlight
  <2>1. ioJob \in Jobs /\ ioJob # NoCall /\ ioJob' \in Jobs /\ ioJob' # NoCall
    BY <1>0, <1>1, ToldLemma, NoCallAssumption DEF PipeInv, HandsInv
  <2>2. /\ ioJob'.call = ioJob.call /\ ioJob'.stream = ioJob.stream
        /\ ioJob'.epoch = ioJob.epoch /\ ioJob'.left = ioJob.left
        /\ ioJob'.local = LocalDeadline(ioJob.left) /\ ioJob'.since = now
        /\ InFlightCall(ioJob') = InFlightCall(ioJob)
    BY <1>1, <2>1, ToldLemma DEF PipeInv
  <2>3. /\ Queued' = Queued /\ ToSend' = ToSend /\ Running' = Running
        /\ Finished' = Finished /\ Waiting' = Waiting
    BY <1>0, <2>1, <2>2 DEF Queued, ToSend, Running, Finished, Waiting, HeldIn, StreamsOf
  <2>4. LineInv'
    BY <1>0, <2>3 DEF TrackInv, LineInv, AllStreams, Before, Rising
  <2>5. /\ ioJob \in JobsAround /\ \A job \in JobsAround' : job \in JobsAround \/ job = ioJob'
        /\ RecordsAround' = RecordsAround /\ UsedSlots' = UsedSlots /\ Queueing'
        /\ AllStreams' = AllStreams
    BY <1>0, <1>1, <2>1, <2>3
    DEF JobsAround, RecordsAround, Elements, UsedSlots, Queueing, AllStreams
  <2>6. SlotInv'
    <3>1. \A s \in UsedSlots : \A job \in JobsAround' :
              job.stream = inFlight[s].stream => InFlightCall(job) = inFlight[s]
      BY <2>2, <2>5 DEF TrackInv, TableInv, SlotInv
    <3>2. \E s \in UsedSlots : inFlight[s] = InFlightCall(ioJob')
      BY <1>0, <2>2 DEF TrackInv, TableInv, SlotInv
    <3> QED
      BY <1>0, <1>1, <2>5, <3>1, <3>2 DEF TrackInv, TableInv, SlotInv
  <2>7. OrphanInv'
    BY <1>0, <1>1, <2>2, <2>5 DEF TrackInv, TableInv, OrphanInv
  <2>8. OwedInv' /\ OnceInv'
    BY <1>0, <1>1, <2>2, <2>5
    DEF TrackInv, TableInv, OwedInv, AcceptedIsInFlight, findInFlight, OnceInv, SingleAnswer
  <2>9. LocalInv'
    <3>1. ioJob'.local # 0 =>
              ioJob'.left # 0 /\ ioJob'.local = (now + Wait(ioJob'.left)) % ClockSize
      BY <2>2 DEF LocalDeadline, Wait
    <3>2. ioJob'.since <= now
      BY <1>0, <2>2
    <3> QED
      BY <1>0, <2>2, <2>5, <3>1, <3>2 DEF TrackInv, TableInv, LocalInv, Wait, kLongestWait
  <2> QED
    BY <2>4, <2>6, <2>7, <2>8, <2>9 DEF Tracks, TableInv
<1>2. CASE QueueBusy
  <2>1. /\ inFlight' = releaseInFlight(ioJob.call) /\ ioJob' = NoCall /\ ~Queueing'
        /\ ioJob \in Jobs /\ ioJob # NoCall
    BY <1>0, <1>2, NoCallAssumption DEF QueueBusy, Queueing, PipeInv, HandsInv
  <2>2. LineInv'
    BY <1>0, <2>1, LineShrinks DEF TrackInv
  <2>3. /\ UsedSlots' = {s \in UsedSlots : inFlight[s].call # ioJob.call}
        /\ \A s \in UsedSlots' : inFlight'[s] = inFlight[s]
    BY <2>1, ReleaseLemma DEF PipeInv
  <2>4. JobsAround' \subseteq JobsAround /\ RecordsAround' = RecordsAround
    BY <1>0, <2>1 DEF JobsAround, RecordsAround, Elements
  <2>5. \A x \in AllStreams : x # ioJob.stream => x \in AllStreams'
    BY <1>0, <2>1 DEF AllStreams, StreamsOf, HeldIn, ToSend, Finished, Running, Waiting, Queued
  <2>6. ioJob \in JobsAround
    BY <2>1 DEF JobsAround
  <2>7. \A job \in JobsAround' : job.stream < ioJob.stream
    BY <1>0, <2>1
    DEF JobsAround, Elements, TrackInv, LineInv, Before, Running, Waiting, Queued, HeldIn,
        StreamsOf
  <2>8. \A s \in UsedSlots' : inFlight[s].stream \in AllStreams'
    BY <2>3, <2>5, <2>6 DEF TrackInv, TableInv, SlotInv, InFlightCall
  <2>9. \A s \in UsedSlots \ UsedSlots' : \A job \in JobsAround' :
            job.stream # inFlight[s].stream
    <3> SUFFICES ASSUME NEW s \in UsedSlots \ UsedSlots', NEW job \in JobsAround'
                 PROVE  job.stream # inFlight[s].stream
      OBVIOUS
    <3>1. PICK t \in UsedSlots : inFlight[t] = InFlightCall(ioJob)
      BY <1>0 DEF TrackInv, TableInv, SlotInv
    <3>4. inFlight[t].call = ioJob.call /\ inFlight[t].stream = ioJob.stream
      BY <3>1 DEF InFlightCall
    <3>2. s = t
      BY <2>3, <3>4 DEF TrackInv, TableInv, OwedInv, AcceptedIsInFlight
    <3>3. ioJob.stream \in Nat
      BY <2>6, StreamsLemma DEF PipeInv
    <3> QED
      BY <2>7, <3>2, <3>3, <3>4
  <2>10. /\ answers' \in [Calls -> Nat] /\ \A c \in Calls : answers[c] <= answers'[c]
    BY <1>0, AnswersLemma DEF PipeInv
  <2>11. SlotInv' /\ OrphanInv'
    <3>1. TypeOK /\ TableInv /\ UNCHANGED epoch
      BY <1>0 DEF PipeInv, TrackInv
    <3>2. UsedSlots' \subseteq UsedSlots
      BY <2>3
    <3>3. Queueing' => Queueing /\ ioJob' = ioJob /\ UsedSlots' = UsedSlots
      BY <2>1
    <3>4. \A s \in UsedSlots \ UsedSlots' :
              \/ answers'[inFlight[s].call] > 0
              \/ \A job \in JobsAround' : job.stream # inFlight[s].stream
      BY <2>9
    <3>5. \A s \in UsedSlots' : inFlight'[s] = inFlight[s]
      BY <2>3
    <3> QED
      BY <2>4, <2>8, <2>10, <3>1, <3>2, <3>3, <3>4, <3>5, TableShrinks
  <2>12. OwedInv'
    <3>1. ioJob.call \notin owed
      BY <1>0 DEF TrackInv, TableInv, OwedInv
    <3>2. \A x \in owed : \E s \in UsedSlots' : inFlight'[s].call = x
      BY <2>3, <3>1 DEF TrackInv, TableInv, OwedInv, AcceptedIsInFlight, findInFlight
    <3>3. \A s, t \in UsedSlots' : inFlight'[s].call = inFlight'[t].call => s = t
      BY <2>3 DEF TrackInv, TableInv, OwedInv, AcceptedIsInFlight
    <3> QED
      BY <1>0, <2>1, <3>2, <3>3 DEF OwedInv, AcceptedIsInFlight, findInFlight
  <2>13. LocalInv'
    <3>1. UsedSlots' \subseteq UsedSlots /\ now <= now'
      BY <1>0, <2>3
    <3> QED
      BY <1>0, <2>3, <2>4, <3>1, LocalKept DEF PipeInv, TrackInv, TableInv
  <2>14. OnceInv'
    BY <1>0, <2>3 DEF TrackInv, TableInv, OnceInv, SingleAnswer
  <2> QED
    BY <2>2, <2>11, <2>12, <2>13, <2>14 DEF Tracks, TableInv
<1> QED
    BY <1>1, <1>2 DEF QueueArguments

\* The job is put in its ring and acknowledged, unless the acknowledgement fails.
LEMMA QueueJobKeeps ==
    ASSUME PipeInv, TrackInv, QueueJob
    PROVE  Tracks'
<1> USE DEF rings, appVars
<1>0. /\ toolJobs' = Append(toolJobs, ioJob) /\ ~full(toolJobs)
      /\ now' = now /\ now \in Nat /\ Queueing /\ ioJob \in Jobs
      /\ UNCHANGED <<nextStream, appJob, toolResults>>
  <2>1. toolJobs' = Append(toolJobs, ioJob) /\ Len(toolJobs) < Depth
    BY QueueJobLemma DEF PipeInv
  <2>2. Queueing /\ now' = now /\ UNCHANGED <<nextStream, appJob, toolResults>>
    BY DEF QueueJob, Queueing
  <2>3. ioJob \in Jobs /\ now \in Nat
    BY <2>2, TimesLemma DEF PipeInv, HandsInv, TypeOK
  <2>4. ~full(toolJobs)
    BY <2>1, PipelineAssumption DEF full
  <2> QED
    BY <2>1, <2>2, <2>3, <2>4
<1>1. /\ ioJob' = NoCall /\ ioRecord' \in {ioRecord, NoCall} /\ ~Queueing'
    BY <1>0 DEF QueueJob, disconnectAndBackoff, Queueing
<1>2. /\ LineInv' /\ JobsAround' = JobsAround
      /\ ioRecord' = ioRecord => RecordsAround' = RecordsAround
    BY <1>0, <1>1, LineQueues DEF PipeInv, TrackInv
<1>3. CASE disconnectAndBackoff
  <2>1. TableInv'
    BY <1>0, <1>2, <1>3, TableEmptied DEF PipeInv, TrackInv
  <2> QED
    BY <1>2, <2>1 DEF Tracks
<1>4. CASE /\ owed' = owed \cup {ioJob.call}
           /\ UNCHANGED <<inFlight, epoch, answers, ioRecord>>
  <2>1. RecordsAround' = RecordsAround /\ UsedSlots' = UsedSlots
    BY <1>2, <1>4 DEF UsedSlots
  <2>2. AllStreams' = AllStreams
    <3>1. AllStreams' = {x.stream : x \in JobsAround' \cup RecordsAround'}
      BY DEF AllStreams, JobsAround, RecordsAround, Elements, StreamsOf, HeldIn, ToSend,
             Finished, Running, Waiting, Queued
    <3>2. AllStreams = {x.stream : x \in JobsAround \cup RecordsAround}
      BY DEF AllStreams, JobsAround, RecordsAround, Elements, StreamsOf, HeldIn, ToSend,
             Finished, Running, Waiting, Queued
    <3> QED
      BY <1>2, <2>1, <3>1, <3>2
  <2>3. SlotInv' /\ OrphanInv'
    BY <1>1, <1>2, <1>4, <2>1, <2>2 DEF TrackInv, TableInv, SlotInv, OrphanInv
  <2>4. LocalInv'
    BY <1>0, <1>2, LocalKept DEF TrackInv, TableInv, PipeInv
  <2>5. OwedInv'
    <3>1. \E s \in UsedSlots : inFlight[s].call = ioJob.call
      BY <1>0 DEF TrackInv, TableInv, SlotInv, InFlightCall
    <3>2. \A x \in owed' : \E s \in UsedSlots : inFlight[s].call = x
      BY <1>4, <3>1 DEF TrackInv, TableInv, OwedInv, AcceptedIsInFlight, findInFlight
    <3>3. \A s, t \in UsedSlots : inFlight[s].call = inFlight[t].call => s = t
      BY DEF TrackInv, TableInv, OwedInv, AcceptedIsInFlight
    <3> QED
      BY <1>1, <1>4, <2>1, <3>2, <3>3 DEF OwedInv, AcceptedIsInFlight, findInFlight
  <2>6. OnceInv'
    BY <1>4, <2>1 DEF TrackInv, TableInv, OnceInv, SingleAnswer
  <2> QED
    BY <1>2, <2>3, <2>4, <2>5, <2>6 DEF Tracks, TableInv
<1> QED
    BY <1>0, <1>3, <1>4 DEF QueueJob

\* A call that is overdue is reported as timed out and leaves the table.
LEMMA ExpireCallKeeps ==
    ASSUME PipeInv, TrackInv, ExpireCall
    PROVE  Tracks'
<1> USE DEF rings, appVars
<1>1. CASE disconnectAndBackoff /\ UNCHANGED cachedResult
    BY <1>1, DisconnectKeeps DEF ExpireCall, PipeInv
<1>2. ASSUME NEW s \in Due,
             Answer(inFlight[s].call, inFlight[s].call, epoch),
             inFlight' = releaseInFlight(inFlight[s].call),
             UNCHANGED <<epoch, ioPc, ioJob, ioRecord>>
      PROVE  Tracks'
  <2> DEFINE c == inFlight[s].call
  <2>1. s \in UsedSlots /\ c \in Calls /\ findInFlight(c) # {}
    BY <1>2, SlotsLemma DEF Due, findInFlight, PipeInv
  <2>2. /\ now' = now /\ now \in Nat /\ ~Queueing'
        /\ UNCHANGED <<nextStream, appJob, toolJobs, toolResults>>
    <3>1. ioPc = "expire" /\ now' = now
          /\ UNCHANGED <<nextStream, appJob, toolJobs, toolResults>>
      BY DEF ExpireCall
    <3>2. now \in Nat
      BY PipelineAssumption, TimesLemma DEF PipeInv, TypeOK
    <3>3. ~Queueing'
      BY <1>2, <3>1 DEF Queueing
    <3> QED
      BY <3>1, <3>2, <3>3
  <2>3. LineInv'
    BY <1>2, <2>2, LineShrinks DEF TrackInv
  <2>4. /\ JobsAround' = JobsAround /\ RecordsAround' = RecordsAround
        /\ AllStreams' = AllStreams
    BY <1>2, <2>2 DEF JobsAround, RecordsAround, Elements, StreamsOf, HeldIn, AllStreams,
       ToSend, Finished, Running, Waiting, Queued
  <2>5. \A t \in UsedSlots : inFlight[t].stream \in AllStreams'
    BY <2>4 DEF TrackInv, TableInv, SlotInv
  <2>6. SlotInv' /\ OrphanInv' /\ OwedInv' /\ OnceInv'
    <3>1. TypeOK /\ TableInv
      BY DEF PipeInv, TrackInv
    <3>2. \A t \in UsedSlots : inFlight[t].call # c => inFlight[t].stream \in AllStreams'
      BY <2>5
    <3> QED
      BY <1>2, <2>1, <2>2, <2>4, <3>1, <3>2, TableAnswers
  <2>7. LocalInv'
    BY <2>2, <2>4, LocalKept DEF PipeInv, TrackInv, TableInv
  <2> QED
    BY <2>3, <2>6, <2>7 DEF Tracks, TableInv
<1> QED
    BY <1>1, <1>2 DEF ExpireCall

\* The I/O task takes a record.
LEMMA FlushRecordKeeps ==
    ASSUME PipeInv, TrackInv, FlushRecord
    PROVE  Tracks'
<1> USE DEF rings, appVars
<1>1. /\ toolResults # <<>> /\ ioRecord = NoCall /\ now' = now /\ now \in Nat
      /\ ~Queueing /\ ~Queueing' /\ ioRecord' = Head(toolResults)
      /\ toolResults' = Tail(toolResults)
      /\ UNCHANGED <<epoch, nextStream, inFlight, owed, answers, ioJob, appJob,
                     toolJobs>>
    BY PipelineAssumption, TimesLemma
    DEF FlushRecord, PipeInv, HandsInv, TypeOK, TrackInv, IdleInv, Queueing
<1>2. LineInv' /\ JobsAround' = JobsAround /\ RecordsAround' = RecordsAround
    BY <1>1, LineFlushes DEF PipeInv, TrackInv
<1>3. AllStreams' = AllStreams
  <2>1. /\ AllStreams' = {x.stream : x \in JobsAround' \cup RecordsAround'}
        /\ AllStreams = {x.stream : x \in JobsAround \cup RecordsAround}
    BY DEF AllStreams, JobsAround, RecordsAround, Elements, StreamsOf, HeldIn, ToSend,
           Finished, Running, Waiting, Queued
  <2> QED
    BY <1>2, <2>1
<1>4. \A s \in UsedSlots : inFlight[s].stream \in AllStreams'
    BY <1>3 DEF TrackInv, TableInv, SlotInv
<1>5. TableInv'
  <2>1. TypeOK /\ TableInv /\ now <= now' /\ Queueing' = Queueing
    BY <1>1 DEF PipeInv, TrackInv, Queueing
  <2> QED
    BY <1>1, <1>2, <1>4, <2>1, TableKept
<1> QED
    BY <1>2, <1>5 DEF Tracks

\* The result is sent and its call leaves the table, or nobody waits for it.
LEMMA FlushBytesKeeps ==
    ASSUME PipeInv, TrackInv, FlushBytes
    PROVE  Tracks'
<1> USE DEF rings, appVars
<1>1. /\ now' = now /\ now \in Nat /\ ~Queueing /\ ioRecord \in Records /\ ioRecord # NoCall
      /\ UNCHANGED <<nextStream, appJob, toolJobs, toolResults>>
    BY PipelineAssumption, TimesLemma, NoCallAssumption
    DEF FlushBytes, PipeInv, HandsInv, TypeOK, Queueing
<1>2. ~(toolResultBytes.records = <<>> \/ Head(toolResultBytes.records).length # ioRecord.length)
    BY HeadResultBytesLemma DEF FlushBytes, Match
<1>3. CASE disconnectAndBackoff
    BY <1>1, <1>3, DisconnectKeeps DEF PipeInv
<1>4. ASSUME ioPc' = "receive", ioRecord' = NoCall, UNCHANGED <<epoch, ioJob>>
      PROVE  /\ LineInv' /\ JobsAround' = JobsAround /\ RecordsAround' \subseteq RecordsAround
             /\ \A x \in AllStreams : x # ioRecord.stream => x \in AllStreams'
             /\ ~Queueing'
  <2>1. LineInv'
    BY <1>1, <1>4, LineShrinks DEF TrackInv
  <2>2. JobsAround' = JobsAround /\ RecordsAround' \subseteq RecordsAround /\ ~Queueing'
    BY <1>1, <1>4 DEF JobsAround, RecordsAround, Elements, Queueing
  <2>3. \A x \in AllStreams : x # ioRecord.stream => x \in AllStreams'
    BY <1>1, <1>4 DEF AllStreams, StreamsOf, HeldIn, ToSend, Finished, Running, Waiting, Queued
  <2> QED
    BY <2>1, <2>2, <2>3
<1>5. ioRecord \in RecordsAround
    BY <1>1 DEF RecordsAround
<1>6. ASSUME ~Deliverable(ioRecord), UNCHANGED <<inFlight, owed, answers>>,
             ioPc' = "receive", ioRecord' = NoCall, UNCHANGED <<epoch, ioJob>>
      PROVE  Tracks'
  <2>1. \A s \in UsedSlots : inFlight[s].stream # ioRecord.stream
    BY <1>5, <1>6 DEF Deliverable, findInFlight, TrackInv, TableInv, SlotInv
  <2>2. \A s \in UsedSlots : inFlight[s].stream \in AllStreams'
    BY <1>4, <1>6, <2>1 DEF TrackInv, TableInv, SlotInv
  <2>3. TypeOK /\ TableInv /\ now <= now' /\ Queueing' = Queueing
    BY <1>1, <1>4, <1>6 DEF PipeInv, TrackInv, Queueing
  <2>4. TableInv'
    BY <1>1, <1>4, <1>6, <2>2, <2>3, TableKept
  <2> QED
    BY <1>4, <1>6, <2>4 DEF Tracks
<1>7. ASSUME Deliverable(ioRecord), inFlight' = releaseInFlight(ioRecord.call),
             Answer(ioRecord.call, Head(toolResultBytes.records).call, ioRecord.epoch),
             ioPc' = "receive", ioRecord' = NoCall, UNCHANGED <<epoch, ioJob>>
      PROVE  Tracks'
  <2>1. \A s \in UsedSlots :
            inFlight[s].call # ioRecord.call => inFlight[s].stream \in AllStreams'
    BY <1>4, <1>5, <1>7 DEF TrackInv, TableInv, SlotInv
  <2>2. ioRecord.call \in Calls /\ findInFlight(ioRecord.call) # {}
    BY <1>1, <1>7 DEF Records, Deliverable
  <2>3. SlotInv' /\ OrphanInv' /\ OwedInv' /\ OnceInv'
    <3>1. TypeOK /\ TableInv
      BY DEF PipeInv, TrackInv
    <3> QED
      BY <1>4, <1>7, <2>1, <2>2, <3>1, TableAnswers
  <2>4. LocalInv'
    <3>1. UsedSlots' \subseteq UsedSlots /\ \A s \in UsedSlots' : inFlight'[s] = inFlight[s]
      BY <1>7, ReleaseLemma DEF PipeInv
    <3>2. now <= now' /\ JobsAround' \subseteq JobsAround
      BY <1>1, <1>4, <1>7
    <3> QED
      BY <1>1, <3>1, <3>2, LocalKept DEF PipeInv, TrackInv, TableInv
  <2> QED
    BY <1>4, <1>7, <2>3, <2>4 DEF Tracks, TableInv
<1> QED
    BY <1>2, <1>3, <1>6, <1>7 DEF FlushBytes

\* The application takes a job.
LEMMA TakeJobKeeps ==
    ASSUME PipeInv, TrackInv, TakeJob
    PROVE  Tracks'
<1> USE DEF rings, appVars
<1>1. /\ toolJobs # <<>> /\ appJob = NoCall /\ now' = now /\ now \in Nat
      /\ Queueing' = Queueing /\ appJob' = Head(toolJobs) /\ toolJobs' = Tail(toolJobs)
      /\ UNCHANGED <<epoch, nextStream, inFlight, owed, answers, ioJob, ioRecord,
                     toolResults>>
    BY PipelineAssumption, TimesLemma
    DEF TakeJob, ioUnchanged, PipeInv, TypeOK, TrackInv, IdleInv, Queueing
<1>2. LineInv' /\ JobsAround' = JobsAround /\ RecordsAround' = RecordsAround
    BY <1>1, LineTakes DEF PipeInv, TrackInv
<1>3. AllStreams' = AllStreams
  <2>1. /\ AllStreams' = {x.stream : x \in JobsAround' \cup RecordsAround'}
        /\ AllStreams = {x.stream : x \in JobsAround \cup RecordsAround}
    BY DEF AllStreams, JobsAround, RecordsAround, Elements, StreamsOf, HeldIn, ToSend,
           Finished, Running, Waiting, Queued
  <2> QED
    BY <1>2, <2>1
<1>4. \A s \in UsedSlots : inFlight[s].stream \in AllStreams'
    BY <1>3 DEF TrackInv, TableInv, SlotInv
<1>5. TableInv'
  <2>1. TypeOK /\ TableInv /\ now <= now'
    BY <1>1 DEF PipeInv, TrackInv
  <2> QED
    BY <1>1, <1>2, <1>4, <2>1, TableKept
<1> QED
    BY <1>2, <1>5 DEF Tracks

\* A job of an earlier session is dropped; nobody waits for it.
LEMMA TakeArgumentsKeeps ==
    ASSUME PipeInv, TrackInv, TakeArguments
    PROVE  Tracks'
<1> USE DEF rings, appVars
<1>1. /\ now' = now /\ now \in Nat /\ now <= now' /\ Queueing' = Queueing
      /\ UNCHANGED <<epoch, nextStream, inFlight, owed, answers, ioJob, ioRecord,
                     toolJobs, toolResults>>
    BY PipelineAssumption, TimesLemma DEF TakeArguments, ioUnchanged, PipeInv, TypeOK, Queueing
<1>2. CASE appJob' = appJob
    BY <1>1, <1>2, QuietKeeps DEF PipeInv
<1>3. CASE Stale(appJob) /\ appJob' = NoCall
  <2>1. LineInv'
    BY <1>1, <1>3, LineShrinks DEF TrackInv
  <2>2. appJob \in JobsAround
    BY NoCallAssumption DEF JobsAround, TakeArguments, PipeInv, HandsInv
  <2>3. ASSUME NEW s \in UsedSlots PROVE inFlight[s].stream # appJob.stream
    <3>1. appJob.stream = inFlight[s].stream => InFlightCall(appJob) = inFlight[s]
      BY <2>2 DEF TrackInv, TableInv, SlotInv
    <3>2. inFlight[s].epoch = epoch /\ InFlightCall(appJob).epoch = appJob.epoch
      BY DEF TrackInv, TableInv, SlotInv, InFlightCall
    <3> QED
      BY <1>3, <3>1, <3>2 DEF Stale
  <2>4. /\ \A x \in AllStreams : x # appJob.stream => x \in AllStreams'
        /\ JobsAround' \subseteq JobsAround /\ RecordsAround' = RecordsAround
    BY <1>1, <1>3 DEF AllStreams, JobsAround, RecordsAround, Elements, StreamsOf, HeldIn,
       ToSend, Finished, Running, Waiting, Queued
  <2>5. \A s \in UsedSlots : inFlight[s].stream \in AllStreams'
    BY <2>3, <2>4 DEF TrackInv, TableInv, SlotInv
  <2>6. TableInv'
    BY <1>1, <2>4, <2>5, TableKept DEF PipeInv, TrackInv
  <2> QED
    BY <2>1, <2>6 DEF Tracks
<1> QED
    BY <1>2, <1>3 DEF TakeArguments

\* The result of a job takes the place of the job.
LEMMA PutRecordKeeps ==
    ASSUME PipeInv, TrackInv, PutRecord
    PROVE  Tracks'
<1> USE DEF rings, appVars
<1> DEFINE record == [call |-> appJob.call, stream |-> appJob.stream,
                      epoch |-> appJob.epoch, length |-> appLength]
<1>1. /\ now' = now /\ now \in Nat /\ Queueing' = Queueing
      /\ UNCHANGED <<epoch, nextStream, inFlight, owed, answers, ioJob, ioRecord,
                     toolJobs>>
    BY PipelineAssumption, TimesLemma DEF PutRecord, ioUnchanged, PipeInv, TypeOK, Queueing
<1>2. toolResults' = Append(toolResults, record) /\ appJob' = NoCall
    BY PipelineAssumption DEF PutRecord, PipeInv, RoomInv, full
<1>3. appJob \in Jobs /\ record \in Records
    BY DEF PutRecord, PipeInv, HandsInv, Jobs, Records
<1>4. record.stream = appJob.stream /\ record.call = appJob.call /\ record.epoch = appJob.epoch
    OBVIOUS
<1> HIDE DEF record
<1>5. /\ LineInv' /\ JobsAround' \subseteq JobsAround /\ AllStreams' = AllStreams
      /\ RecordsAround' = RecordsAround \cup {record}
    BY <1>1, <1>2, <1>3, <1>4, LineFinishes DEF PipeInv, TrackInv
<1>6. appJob \in JobsAround /\ UsedSlots' = UsedSlots
    BY <1>1, <1>3, NoCallAssumption DEF JobsAround, UsedSlots
<1>7. SlotInv'
  <2>1. \A s \in UsedSlots : record.stream = inFlight[s].stream =>
            record.call = inFlight[s].call /\ record.epoch = epoch
    <3>1. \A s \in UsedSlots : inFlight[s].epoch = epoch
      BY DEF TrackInv, TableInv, SlotInv
    <3>2. \A s \in UsedSlots :
              appJob.stream = inFlight[s].stream => InFlightCall(appJob) = inFlight[s]
      BY <1>6 DEF TrackInv, TableInv, SlotInv
    <3> QED
      BY <1>4, <3>1, <3>2 DEF InFlightCall
  <2>2. \A s \in UsedSlots : \A x \in RecordsAround' :
            x.stream = inFlight[s].stream => x.call = inFlight[s].call /\ x.epoch = epoch
    BY <1>5, <2>1 DEF TrackInv, TableInv, SlotInv
  <2>3. /\ \A s \in UsedSlots : inFlight[s].epoch = epoch /\ inFlight[s].stream \in AllStreams'
        /\ \A s \in UsedSlots : \A job \in JobsAround' :
               job.stream = inFlight[s].stream => InFlightCall(job) = inFlight[s]
    BY <1>5 DEF TrackInv, TableInv, SlotInv
  <2>4. Queueing => \E s \in UsedSlots : inFlight[s] = InFlightCall(ioJob)
    BY DEF TrackInv, TableInv, SlotInv
  <2> QED
    BY <1>1, <1>6, <2>2, <2>3, <2>4 DEF SlotInv
<1>8. OwedInv' /\ OnceInv'
    BY <1>1, <1>6 DEF TrackInv, TableInv, OwedInv, AcceptedIsInFlight, findInFlight, OnceInv,
       SingleAnswer
<1>9. OrphanInv' /\ LocalInv'
    BY <1>1, <1>5, <1>6, LocalKept DEF PipeInv, TrackInv, TableInv, OrphanInv
<1> QED
    BY <1>5, <1>7, <1>8, <1>9 DEF Tracks, TableInv

--------------------------------------------------------------------------------
LEMMA TrackInitLemma == Init => TrackInv
<1> SUFFICES ASSUME Init PROVE TrackInv
    OBVIOUS
<1>1. toolJobs = <<>> /\ toolResults = <<>> /\ ioJob = NoCall /\ appJob = NoCall
      /\ ioRecord = NoCall /\ ioPc = "receive" /\ owed = {}
    BY DEF Init
<1>2. UsedSlots = {} /\ \A c \in Calls : answers[c] = 0
    BY DEF Init, UsedSlots
<1>3. JobsAround = {} /\ RecordsAround = {} /\ AllStreams = {}
    BY <1>1 DEF JobsAround, RecordsAround, Elements, StreamsOf, HeldIn, AllStreams, ToSend,
       Finished, Running, Waiting, Queued
<1>4. LineInv
    BY <1>1, <1>3 DEF LineInv, Rising, Before, AllStreams
<1>5. IdleInv
    BY <1>1 DEF IdleInv
<1>6. TableInv
    BY <1>1, <1>2, <1>3
    DEF TableInv, SlotInv, OwedInv, AcceptedIsInFlight, OrphanInv, LocalInv, OnceInv,
        SingleAnswer, Queueing, Before
<1> QED
    BY <1>4, <1>5, <1>6 DEF TrackInv

\* A step that neither moves a call nor touches the table.
Quiet ==
    /\ now' \in Nat /\ now <= now' /\ Queueing' = Queueing
    /\ UNCHANGED <<epoch, nextStream, inFlight, owed, answers, ioJob, ioRecord,
                   appJob, toolJobs, toolResults>>

LEMMA QuietStepLemma ==
    ASSUME PipeInv, TrackInv,
           \/ Connect \/ HeartbeatAck \/ ReceiveDone \/ ExpireDone
           \/ RejectArguments \/ TestDeadline \/ Invoke \/ PutResultBytes \/ Tick
           \/ UNCHANGED vars
    PROVE  Tracks'
<1> USE DEF Queueing, rings, appVars
<1>0. now \in Nat /\ now <= now + 1 /\ now <= now /\ now + 1 \in Nat
    BY PipelineAssumption, TimesLemma DEF PipeInv, TypeOK
<1>1. ASSUME Connect PROVE Quiet
    BY <1>0, <1>1 DEF Quiet, Connect
<1>2. ASSUME HeartbeatAck PROVE Quiet
    BY <1>0, <1>2 DEF Quiet, HeartbeatAck
<1>3. ASSUME ReceiveDone PROVE Quiet
    BY <1>0, <1>3 DEF Quiet, ReceiveDone, PipeInv, HandsInv
<1>4. ASSUME ExpireDone PROVE Quiet
    BY <1>0, <1>4 DEF Quiet, ExpireDone, PipeInv, HandsInv
<1>5. ASSUME RejectArguments \/ TestDeadline \/ Invoke PROVE Quiet
    BY <1>0, <1>5 DEF Quiet, RejectArguments, TestDeadline, Invoke, ioUnchanged
<1>6. ASSUME PutResultBytes PROVE Quiet
    BY <1>0, <1>6 DEF Quiet, PutResultBytes, ioUnchanged
<1>7. ASSUME Tick PROVE Quiet
    BY <1>0, <1>7 DEF Quiet, Tick
<1>8. ASSUME UNCHANGED vars PROVE Quiet
    BY <1>0, <1>8 DEF Quiet, vars
<1>9. Quiet
    BY <1>1, <1>2, <1>3, <1>4, <1>5, <1>6, <1>7, <1>8
<1> QED
    BY <1>9, QuietKeeps DEF Quiet, PipeInv

\* Every step keeps the line and the table.
LEMMA TrackStepLemma == PipeInv /\ TrackInv /\ [Next]_vars => TrackInv'
<1> SUFFICES ASSUME PipeInv, TrackInv, [Next]_vars PROVE TrackInv'
    OBVIOUS
<1>1. CASE \/ Connect \/ HeartbeatAck \/ ReceiveDone \/ ExpireDone
           \/ RejectArguments \/ TestDeadline \/ Invoke \/ PutResultBytes \/ Tick
           \/ UNCHANGED vars
    BY <1>1, QuietStepLemma, IdleStepLemma DEF Tracks, TrackInv
<1>2. CASE Drop
  <2>1. Tracks'
    BY <1>2, DisconnectKeeps DEF Drop, PipeInv, rings, appVars
  <2> QED
    BY <2>1, IdleStepLemma DEF Tracks, TrackInv
<1>3. ASSUME NEW c \in Calls, DispatchDuplicate(c) \/ DispatchCached(c)
      PROVE  TrackInv'
    BY <1>3, DuplicateKeeps, CachedKeeps, IdleStepLemma DEF Tracks, TrackInv
<1>4. ASSUME NEW c \in Calls, NEW valid \in BOOLEAN, NEW d \in Deadlines,
             NEW n \in ArgumentSizes, DispatchRefused(c, valid, d, n)
      PROVE  TrackInv'
    BY <1>4, RefusedKeeps, IdleStepLemma DEF Tracks, TrackInv
<1>5. ASSUME NEW c \in Calls, NEW d \in Deadlines, NEW n \in ArgumentSizes,
             DispatchAccept(c, d, n)
      PROVE  TrackInv'
    BY <1>5, AcceptKeeps, IdleStepLemma DEF Tracks, TrackInv
<1>6. CASE QueueArguments \/ QueueJob
    BY <1>6, QueueArgumentsKeeps, QueueJobKeeps, IdleStepLemma DEF Tracks, TrackInv
<1>7. CASE ExpireCall
    BY <1>7, ExpireCallKeeps, IdleStepLemma DEF Tracks, TrackInv
<1>8. CASE FlushRecord \/ FlushBytes
    BY <1>8, FlushRecordKeeps, FlushBytesKeeps, IdleStepLemma DEF Tracks, TrackInv
<1>9. CASE TakeJob \/ TakeArguments \/ PutRecord
    BY <1>9, TakeJobKeeps, TakeArgumentsKeeps, PutRecordKeeps, IdleStepLemma
    DEF Tracks, TrackInv
<1> QED
    BY <1>1, <1>2, <1>3, <1>4, <1>5, <1>6, <1>7, <1>8, <1>9 DEF Next, IoNext, AppNext

LEMMA Tracking == Spec => [](PipeInv /\ TrackInv)
<1>1. Init => PipeInv /\ TrackInv
    BY InitLemma, TrackInitLemma
<1> QED
    BY <1>1, PipeStepLemma, TrackStepLemma, PTL DEF Spec

\* No two places of the line hold one stream.
LEMMA CarriersLemma ==
    ASSUME TypeOK, LineInv, NEW k \in Carriers, NEW m \in Carriers, k[3] = m[3]
    PROVE  k = m
<1> DEFINE InRing(c) == \E i \in 1 .. Len(toolJobs) : c = <<"ring", i, toolJobs[i].stream>>
           InResults(c) ==
               \E i \in 1 .. Len(toolResults) : c = <<"result", i, toolResults[i].stream>>
           InHand(c) == \E x \in ToSend \cup Running \cup Queued : c = <<"hand", 0, x>>
<1>1. /\ DOMAIN toolJobs = 1 .. Len(toolJobs) /\ DOMAIN toolResults = 1 .. Len(toolResults)
      /\ Len(toolJobs) \in Nat /\ Len(toolResults) \in Nat
    BY DEF TypeOK
<1>2. \A c \in Carriers : InRing(c) \/ InResults(c) \/ InHand(c)
    BY <1>1 DEF Carriers, ToSend, Running, Queued, HeldIn
<1>3. AllStreams \subseteq Nat
    BY StreamsLemma
<1>4. /\ \A i \in 1 .. Len(toolJobs) : toolJobs[i].stream \in Waiting
      /\ \A i \in 1 .. Len(toolResults) : toolResults[i].stream \in Finished
    BY DEF Waiting, Finished, StreamsOf
<1>5. /\ \A x \in ToSend, y \in Finished : x < y
      /\ \A x \in Finished, y \in Running \cup Waiting \cup Queued : x < y
      /\ \A x \in ToSend \cup Running, y \in Waiting : x < y
      /\ \A x \in Waiting, y \in Queued : x < y
    BY DEF LineInv, Before
<1>6. \A x \in Waiting \cup Finished : x \in Nat /\ x \notin ToSend \cup Running \cup Queued
    BY <1>3, <1>5 DEF AllStreams
<1>7. \A x \in Waiting : x \notin Finished
    BY <1>3, <1>5 DEF AllStreams
<1>8. CASE InRing(k) /\ InRing(m)
  <2>1. PICK i \in 1 .. Len(toolJobs) : k = <<"ring", i, toolJobs[i].stream>>
    BY <1>8
  <2>2. PICK j \in 1 .. Len(toolJobs) : m = <<"ring", j, toolJobs[j].stream>>
    BY <1>8
  <2>3. toolJobs[i].stream = toolJobs[j].stream /\ toolJobs[i].stream \in Nat
    BY <1>4, <1>6, <2>1, <2>2
  <2>4. ~(i < j) /\ ~(j < i)
    BY <2>3 DEF LineInv, Rising
  <2> QED
    BY <1>1, <2>1, <2>2, <2>4
<1>9. CASE InResults(k) /\ InResults(m)
  <2>1. PICK i \in 1 .. Len(toolResults) : k = <<"result", i, toolResults[i].stream>>
    BY <1>9
  <2>2. PICK j \in 1 .. Len(toolResults) : m = <<"result", j, toolResults[j].stream>>
    BY <1>9
  <2>3. toolResults[i].stream = toolResults[j].stream /\ toolResults[i].stream \in Nat
    BY <1>4, <1>6, <2>1, <2>2
  <2>4. ~(i < j) /\ ~(j < i)
    BY <2>3 DEF LineInv, Rising
  <2> QED
    BY <1>1, <2>1, <2>2, <2>4
<1>10. CASE InHand(k) /\ InHand(m)
    BY <1>10
<1>11. /\ \A c : InRing(c) => c[3] \in Waiting
       /\ \A c : InResults(c) => c[3] \in Finished
       /\ \A c : InHand(c) => c[3] \in ToSend \cup Running \cup Queued
    BY <1>4
<1> QED
    BY <1>2, <1>6, <1>7, <1>8, <1>9, <1>10, <1>11

\* What TrackInv says of the calls in flight.
LEMMA TrackedLemma == PipeInv /\ TrackInv => CallsAreTracked
<1> SUFFICES ASSUME PipeInv, TrackInv PROVE CallsAreTracked
    OBVIOUS
<1>1. DOMAIN toolJobs = 1 .. Len(toolJobs) /\ DOMAIN toolResults = 1 .. Len(toolResults)
    BY DEF PipeInv, TypeOK
<1>2. ASSUME NEW s \in UsedSlots
      PROVE  Cardinality({k \in Carriers : k[3] = inFlight[s].stream}) = 1
  <2> DEFINE x == inFlight[s].stream
             carriers == {k \in Carriers : k[3] = x}
  <2>1. x \in AllStreams
    BY DEF TrackInv, TableInv, SlotInv
  <2>2. \E k \in Carriers : k[3] = x
    <3>1. CASE x \in Waiting
      <4>1. PICK i \in DOMAIN toolJobs : toolJobs[i].stream = x
        BY <1>1, <3>1 DEF Waiting, StreamsOf
      <4>2. <<"ring", i, x>> \in Carriers
        BY <4>1 DEF Carriers
      <4> QED
        BY <4>2
    <3>2. CASE x \in Finished
      <4>1. PICK i \in DOMAIN toolResults : toolResults[i].stream = x
        BY <1>1, <3>2 DEF Finished, StreamsOf
      <4>2. <<"result", i, x>> \in Carriers
        BY <4>1 DEF Carriers
      <4> QED
        BY <4>2
    <3>3. CASE x \in ToSend \cup Running \cup Queued
      <4>1. \E item \in {ioJob, appJob, ioRecord} \ {NoCall} : x = item.stream
        BY <3>3 DEF ToSend, Running, Queued, HeldIn
      <4>2. <<"hand", 0, x>> \in Carriers
        BY <4>1 DEF Carriers
      <4> QED
        BY <4>2
    <3> QED
      BY <2>1, <3>1, <3>2, <3>3 DEF AllStreams
  <2>3. PICK k \in Carriers : k[3] = x
    BY <2>2
  <2>4. carriers = {k}
    BY <2>3, CarriersLemma DEF PipeInv, TrackInv
  <2> QED
    BY <2>4, FS_Singleton
<1>3. OrphanIsAnswered
    BY <1>1 DEF OrphanIsAnswered, TrackInv, TableInv, OrphanInv, JobsAround, Elements
<1>4. AcceptedIsInFlight
    BY DEF TrackInv, TableInv, OwedInv
<1> QED
    BY <1>2, <1>3, <1>4 DEF CallsAreTracked, InFlightIsCarried

\* A call in flight is carried by one job or result, an accepted one is in flight until it
\* is answered, and a job without a slot is one the Hub has had an answer to
\* (Runtime.cpp:2273, 2308-2313, 2411, 2424, 2437).
THEOREM NoCallIsLost == Spec => []CallsAreTracked
    BY Tracking, TrackedLemma, PTL

\* A Hub that does not repeat itself gets one ToolResult per call and session
\* (Runtime.cpp:2411, 2429).
THEOREM OneAnswerPerCall == ASSUME ~HubRepeats PROVE Spec => []SingleAnswer
<1>1. PipeInv /\ TrackInv => SingleAnswer
    BY DEF TrackInv, TableInv, OnceInv
<1> QED
    BY Tracking, <1>1, PTL

--------------------------------------------------------------------------------
\* The remainder of a number that is q times the divisor and r.
LEMMA RemainderLemma ==
    ASSUME NEW C \in Nat, C > 0, NEW q \in Int, NEW r \in 0 .. C - 1
    PROVE  ((q * C) + r) % C = r
    OBVIOUS

\* A deadline m ahead of time a is met by time t on the clock that wraps exactly when
\* t is m later, if neither is far from a.
LEMMA ClockLemma ==
    ASSUME NEW a \in Nat, NEW t \in Nat, a <= t, t - a < kLongestWait,
           NEW m \in Nat, m # 0, m <= kLongestWait
    PROVE  timeReached(t, (a + m) % ClockSize) <=> t - a >= m
<1> DEFINE half == ClockSize \div 2
           q == (a + m) \div ClockSize
           r == (a + m) % ClockSize
           x == t - a - m
           back == x + ClockSize
<1>1. /\ ClockSize \in Nat /\ 0 < ClockSize /\ half \in Nat /\ 2 * half <= ClockSize
      /\ kLongestWait = half - 2
    BY PipelineAssumption DEF kLongestWait
<1>2. q \in Int /\ r \in Nat /\ a + m = (q * ClockSize) + r
    BY <1>1
<1>3. x \in Int /\ -half < x /\ x < half
    BY <1>1
<1>6. x = t - a - m /\ back = x + ClockSize /\ t - r = (q * ClockSize) + x
    BY <1>1, <1>2
<1> HIDE DEF half, q, r, x, back
<1>4. CASE t - a >= m
  <2>1. x \in 0 .. ClockSize - 1
    BY <1>1, <1>3, <1>4, <1>6
  <2>2. ((q * ClockSize) + x) % ClockSize = x
    BY <1>1, <1>2, <2>1, RemainderLemma
  <2> QED
    BY <1>3, <1>4, <1>6, <2>2 DEF timeReached, half, r
<1>5. CASE ~(t - a >= m)
  <2>1. /\ back \in 0 .. ClockSize - 1 /\ q - 1 \in Int
        /\ t - r = ((q - 1) * ClockSize) + back
    BY <1>1, <1>2, <1>3, <1>5, <1>6
  <2>2. (((q - 1) * ClockSize) + back) % ClockSize = back
    BY <1>1, <2>1, RemainderLemma
  <2>3. ~(back < half)
    BY <1>1, <1>3, <1>6
  <2> QED
    BY <1>5, <2>1, <2>2, <2>3 DEF timeReached, half, r
<1> QED
    BY <1>4, <1>5

\* The application withholds a handler exactly when what was left of the deadline is used
\* up (Runtime.cpp:773-774, 2303-2307).
THEOREM DeadlinesDecide == Spec => DeadlineDecides
<1> DEFINE Decided ==
        /\ appPc = "decoded" /\ appPc' \in {"withheld", "starting"}
        /\ appJob.local # 0 /\ now - appJob.since < kLongestWait
        => (appPc' = "withheld" <=> now >= appJob.since + appJob.left)
<1>1. PipeInv /\ TrackInv /\ [Next]_vars => [Decided]_vars
  <2> SUFFICES ASSUME PipeInv, TrackInv, Next, appPc = "decoded",
                      appPc' \in {"withheld", "starting"}, appJob.local # 0,
                      now - appJob.since < kLongestWait
               PROVE  appPc' = "withheld" <=> now >= appJob.since + appJob.left
    OBVIOUS
  <2> USE DEF rings, appVars
  <2>1. appPc' = IF TooLate(appJob) THEN "withheld" ELSE "starting"
    BY DEF Next, IoNext, AppNext, Connect, Drop, HeartbeatAck, DispatchDuplicate,
       DispatchCached, DispatchRefused, DispatchAccept, QueueArguments, QueueJob, ReceiveDone,
       ExpireCall, ExpireDone, FlushRecord, FlushBytes, TakeJob, TakeArguments,
       RejectArguments, TestDeadline, Invoke, PutResultBytes, PutRecord, Tick
  <2>2. appJob \in JobsAround /\ appJob \in Jobs
    BY NoCallAssumption DEF JobsAround, PipeInv, HandsInv
  <2>3. /\ appJob.since \in Nat /\ appJob.left \in Nat /\ now \in Nat
        /\ appJob.left # 0 /\ appJob.since <= now
        /\ appJob.local = (appJob.since + Wait(appJob.left)) % ClockSize
    BY <2>2, TimesLemma DEF Jobs, PipeInv, TypeOK, TrackInv, TableInv, LocalInv
  <2>4. /\ Wait(appJob.left) \in Nat /\ Wait(appJob.left) # 0
        /\ Wait(appJob.left) <= kLongestWait
    BY <2>3, PipelineAssumption DEF Wait, kLongestWait
  <2>5. TooLate(appJob) <=> now - appJob.since >= Wait(appJob.left)
    BY <2>3, <2>4, ClockLemma DEF TooLate
  <2>6. now - appJob.since >= Wait(appJob.left) <=> now >= appJob.since + appJob.left
    BY <2>3, PipelineAssumption DEF Wait, kLongestWait
  <2> QED
    BY <2>1, <2>5, <2>6
<1> QED
    BY Tracking, <1>1, PTL DEF DeadlineDecides, Spec
================================================================================
