------------------------------- MODULE SpscRing --------------------------------
(***************************************************************************)
(* hampter/internal/SpscRing.h, one memory access at a time.  The producer *)
(* task runs tryPush and full, the consumer task runs tryPop and empty; no *)
(* lock is taken.  The copy of a value into or out of a slot is not atomic *)
(* and has a begin and an end step, and a slot holds Torn in between.      *)
(*                                                                         *)
(* head_ is stored only by the producer and tail_ only by the consumer, so *)
(* a task's load of its own index is merged with its load of the other     *)
(* one.  The interleaving semantics of TLA+ stands for the acquire/release *)
(* pairs of the source, which order the slot copy with the index store.    *)
(***************************************************************************)
EXTENDS Naturals, Sequences

CONSTANTS Values,      \* the entries the two tasks exchange
          Capacity,    \* template parameter Capacity
          Torn         \* content of a slot that is being overwritten

ASSUME RingAssumption == Capacity \in Nat \ {0} /\ Torn \notin Values

kSlots == Capacity + 1
Slots == 0 .. Capacity

VARIABLES entries,     \* entries_
          head, tail,  \* head_ and tail_
          producer,    \* "idle", or "writing" between the check and the store
          pushing,     \* the argument of the tryPush in progress
          pushResult,  \* what the last tryPush returned
          room,        \* full() returned false and no push has completed since
          consumer,    \* "idle", or "reading" between the check and the store
          popping,     \* what the copy out of the slot has read so far
          received,    \* the value of the last successful tryPop
          popResult,   \* what the last tryPop returned
          avail        \* empty() returned false and no pop has completed since

producerVars == <<producer, pushing, pushResult, room>>
consumerVars == <<consumer, popping, received, popResult, avail>>
vars == <<entries, head, tail, producerVars, consumerVars>>

\* Mutants: checks that are dropped or off by one.
PushBlocked_Dropped == FALSE
PopBlocked_Dropped == FALSE
full_OffByOne == head = tail

increment(value) == IF value + 1 = kSlots THEN 0 ELSE value + 1

\* The checks of tryPush and tryPop, and the two questions a caller may ask.
PushBlocked == increment(head) = tail
PopBlocked == tail = head
full == increment(head) = tail
empty == head = tail

Init ==
    /\ entries = [s \in Slots |-> Torn]
    /\ head = 0 /\ tail = 0
    /\ producer = "idle" /\ pushing = Torn /\ pushResult = "none" /\ room = FALSE
    /\ consumer = "idle" /\ popping = Torn /\ received = Torn
    /\ popResult = "none" /\ avail = FALSE
--------------------------------------------------------------------------------
\* tryPush, the check: the ring is full and the call returns false.
PushRefused ==
    /\ producer = "idle"
    /\ PushBlocked
    /\ pushResult' = "false"
    /\ UNCHANGED <<entries, head, tail, producer, pushing, room, consumerVars>>

\* tryPush, the check passed: the copy into entries_[head] starts.
PushBegin(v) ==
    /\ producer = "idle"
    /\ ~PushBlocked
    /\ producer' = "writing"
    /\ pushing' = v
    /\ pushResult' = "none"
    /\ entries' = [entries EXCEPT ![head] = Torn]
    /\ UNCHANGED <<head, tail, room, consumerVars>>

\* The copy is complete.
PushWrite ==
    /\ producer = "writing"
    /\ entries' = [entries EXCEPT ![head] = pushing]
    /\ producer' = "written"
    /\ UNCHANGED <<head, tail, pushing, pushResult, room, consumerVars>>

\* head_.store(next): the value becomes visible to the consumer.
PushPublish ==
    /\ producer = "written"
    /\ head' = increment(head)
    /\ producer' = "idle"
    /\ pushing' = Torn
    /\ pushResult' = "true"
    /\ room' = FALSE
    /\ UNCHANGED <<entries, tail, consumerVars>>

\* full() called by the producer, which plans its next push on the answer.
CheckFull ==
    /\ producer = "idle"
    /\ room' = ~full
    /\ pushResult' = "none"
    /\ UNCHANGED <<entries, head, tail, producer, pushing, consumerVars>>
--------------------------------------------------------------------------------
\* tryPop, the check: nothing to read and the call returns false.
PopRefused ==
    /\ consumer = "idle"
    /\ PopBlocked
    /\ popResult' = "false"
    /\ UNCHANGED <<entries, head, tail, producerVars,
                   consumer, popping, received, avail>>

\* tryPop, the check passed: the copy out of entries_[tail] starts.
PopBegin ==
    /\ consumer = "idle"
    /\ ~PopBlocked
    /\ consumer' = "reading"
    /\ popping' = entries[tail]
    /\ popResult' = "none"
    /\ UNCHANGED <<entries, head, tail, producerVars, received, avail>>

\* The copy ends and tail_.store(increment(tail)) releases the slot.  A copy
\* during which the slot changed is torn.
PopRelease ==
    /\ consumer = "reading"
    /\ received' = IF entries[tail] = popping THEN popping ELSE Torn
    /\ tail' = increment(tail)
    /\ consumer' = "idle"
    /\ popping' = Torn
    /\ popResult' = "true"
    /\ avail' = FALSE
    /\ UNCHANGED <<entries, head, producerVars>>

\* empty() called by the consumer.
CheckEmpty ==
    /\ consumer = "idle"
    /\ avail' = ~empty
    /\ popResult' = "none"
    /\ UNCHANGED <<entries, head, tail, producerVars,
                   consumer, popping, received>>
--------------------------------------------------------------------------------
tryPush == PushRefused \/ (\E v \in Values : PushBegin(v)) \/ PushWrite \/ PushPublish
tryPop == PopBegin \/ PopRelease

Next ==
    \/ PushRefused \/ (\E v \in Values : PushBegin(v)) \/ PushWrite
    \/ PushPublish \/ CheckFull
    \/ PopRefused \/ PopBegin \/ PopRelease \/ CheckEmpty

Spec == Init /\ [][Next]_vars
--------------------------------------------------------------------------------
TypeOK ==
    /\ entries \in [Slots -> Values \cup {Torn}]
    /\ head \in Slots /\ tail \in Slots
    /\ producer \in {"idle", "writing", "written"}
    /\ pushing \in Values \cup {Torn}
    /\ pushResult \in {"none", "true", "false"}
    /\ room \in BOOLEAN
    /\ consumer \in {"idle", "reading"}
    /\ popping \in Values \cup {Torn}
    /\ received \in Values \cup {Torn}
    /\ popResult \in {"none", "true", "false"}
    /\ avail \in BOOLEAN

\* The two copies never touch one slot: the producer decides to write on an old
\* value of tail_, the consumer to read on an old value of head_, and neither
\* index can overtake the other meanwhile (SpscRing.h:18-33, no lock).
NoDataRace ==
    ~(producer \in {"writing", "written"} /\ consumer = "reading" /\ head = tail)

\* What a task was told about the ring holds until it acts on it.  A producer
\* that saw full() false may still push, however much later it does: only it fills
\* the ring.  processToolDispatch and appHandleTools rely on it (Runtime.cpp:749,
\* 870, 2289, 2309).  A consumer that saw empty() false finds an entry when it
\* pops (appWorkPending, Runtime.cpp:638-650).
AnswersHold == ~(room /\ pushResult = "false") /\ ~(avail /\ popResult = "false")
--------------------------------------------------------------------------------
\* The values between tail_ and head_, oldest first.
Used == IF head >= tail THEN head - tail ELSE head + kSlots - tail
Position(i) == IF tail + i - 1 < kSlots THEN tail + i - 1 ELSE tail + i - 1 - kSlots
Content == [i \in 1 .. Used |-> entries[Position(i)]]

Fifo == INSTANCE BoundedFifo WITH queue <- Content, NoValue <- Torn

\* The ring is a FIFO of Capacity values: tryPush takes effect when it stores
\* head_, tryPop when it stores tail_, nothing is lost, doubled, reordered or
\* torn (SpscRing.h:18-33).
ImplementsFifo == Fifo!Spec
================================================================================
