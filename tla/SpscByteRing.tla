------------------------------ MODULE SpscByteRing ------------------------------
(***************************************************************************)
(* hampter/internal/SpscByteRing.h, one byte at a time.  Records of any     *)
(* length share one array; a record is its length in two bytes and its      *)
(* bytes, and may go round the end of the array anywhere.  The producer     *)
(* task runs canPush and tryPush, the consumer task tryPop; no lock is      *)
(* taken.  head_ and tail_ are each stored by one task, after the last byte *)
(* of a record was written or read (release/acquire in the source).         *)
(***************************************************************************)
EXTENDS Naturals, Sequences

CONSTANTS Records,       \* what the program stores: sequences of bytes
          Capacity,      \* template parameter Capacity, at least 8
          OutputBytes,   \* the capacity tryPop is called with
          NoRecord       \* where there is no record

ByteRingAssumption ==
    /\ Records \subseteq Seq(0 .. 255) /\ NoRecord \notin Seq(0 .. 255)
    /\ Capacity \in Nat /\ Capacity >= 8 /\ OutputBytes \in Nat

kPrefix == 2
kMaxLength == 65535

VARIABLES
    bytes,        \* bytes_
    head, tail,   \* head_ and tail_
    pushing,      \* the record tryPush writes, or NoRecord
    putAt, toPut, \* where its next byte goes, and what is left to write
    popping,      \* what tryPop has copied, or NoRecord
    takeAt, toTake,   \* where its next byte is, and how many are left
    received      \* the record the last successful tryPop returned

producerVars == <<pushing, putAt, toPut>>
consumerVars == <<popping, takeAt, toTake, received>>
vars == <<bytes, head, tail, producerVars, consumerVars>>

Slots == 0 .. Capacity - 1

Init ==
    /\ bytes = [s \in Slots |-> 0] /\ head = 0 /\ tail = 0
    /\ pushing = NoRecord /\ putAt = 0 /\ toPut = <<>>
    /\ popping = NoRecord /\ takeAt = 0 /\ toTake = 0 /\ received = NoRecord
--------------------------------------------------------------------------------
\* Mutant: the byte that must stay free is forgotten.
freeBytes_NoGap == Capacity - (IF head >= tail THEN head - tail ELSE Capacity - tail + head)

increment(value) == IF value + 1 = Capacity THEN 0 ELSE value + 1
distance(from, to) == IF to >= from THEN to - from ELSE Capacity - from + to
freeBytes == Capacity - 1 - distance(tail, head)
canPush(n) == n <= kMaxLength /\ freeBytes >= n + kPrefix

\* A call that is refused changes nothing.
PushBegin(r) ==
    /\ pushing = NoRecord /\ canPush(Len(r))
    /\ pushing' = r /\ putAt' = head
    /\ toPut' = <<Len(r) \div 256, Len(r) % 256>> \o r
    /\ UNCHANGED <<bytes, head, tail, consumerVars>>

Put ==
    /\ toPut # <<>>
    /\ bytes' = [bytes EXCEPT ![putAt] = toPut[1]]
    /\ putAt' = increment(putAt) /\ toPut' = Tail(toPut)
    /\ UNCHANGED <<head, tail, pushing, consumerVars>>

PushPublish ==
    /\ pushing # NoRecord /\ toPut = <<>>
    /\ head' = putAt
    /\ pushing' = NoRecord /\ putAt' = 0
    /\ UNCHANGED <<bytes, tail, toPut, consumerVars>>
--------------------------------------------------------------------------------
\* tryPop: what is stored, and the length of the first record.
Used == distance(tail, head)
recordLength == 256 * bytes[tail] + bytes[increment(tail)]
HasRecord == Used >= kPrefix /\ Used >= recordLength + kPrefix
Skip(value) == increment(increment(value))

\* A record too long for the output stays, and so do those behind it.
PopBegin ==
    /\ popping = NoRecord
    /\ HasRecord /\ recordLength <= OutputBytes
    /\ popping' = <<>> /\ takeAt' = Skip(tail) /\ toTake' = recordLength
    /\ UNCHANGED <<bytes, head, tail, producerVars, received>>

Take ==
    /\ toTake > 0
    /\ popping' = Append(popping, bytes[takeAt])
    /\ takeAt' = increment(takeAt) /\ toTake' = toTake - 1
    /\ UNCHANGED <<bytes, head, tail, producerVars, received>>

PopRelease ==
    /\ popping # NoRecord /\ toTake = 0
    /\ tail' = takeAt
    /\ received' = popping /\ popping' = NoRecord /\ takeAt' = 0
    /\ UNCHANGED <<bytes, head, producerVars, toTake>>
--------------------------------------------------------------------------------
tryPush == (\E r \in Records : PushBegin(r)) \/ Put \/ PushPublish
tryPop == PopBegin \/ Take \/ PopRelease

Next == tryPush \/ tryPop
Spec == Init /\ [][Next]_vars
--------------------------------------------------------------------------------
\* The records between tail_ and head_, oldest first, and those from the i-th
\* byte on.
Byte(i) == bytes[(tail + i) % Capacity]
LengthAt(i) == 256 * Byte(i) + Byte(i + 1)
RecordsFrom[i \in Nat] ==
    IF i >= Used THEN <<>>
    ELSE <<[j \in 1 .. LengthAt(i) |-> Byte(i + kPrefix + j - 1)]>>
             \o RecordsFrom[i + kPrefix + LengthAt(i)]
Content == RecordsFrom[0]

Fifo == INSTANCE ByteFifo WITH queue <- Content, stored <- Used, NoValue <- NoRecord

\* The ring is a FIFO of records with exact byte accounting: tryPush takes effect
\* when it stores head_, tryPop when it stores tail_; no byte is lost, doubled or
\* taken from a neighbour, wherever a record goes round the end (SpscByteRing.h).
ImplementsByteFifo == Fifo!Spec
================================================================================
