----------------------------- MODULE Storage_proofs -----------------------------
(***************************************************************************)
(* Proofs about the places where the SDK keeps bytes, but for the frame     *)
(* buffer: that the ring of SpscRing is free of data races and implements   *)
(* the bounded FIFO, for every set of values and every capacity; that the   *)
(* arenas of MCStorage implement BlockStore, and the one of the setup       *)
(* portal leaves no text behind, for every capacity, alignment and size;    *)
(* and that the byte ring is a FIFO of whole records, for every capacity    *)
(* and every set of records.                                                *)
(***************************************************************************)
EXTENDS MCStorage, SequenceTheorems, WellFoundedInduction, TLAPS

\* The slots that hold values the consumer has not released yet.
InUse(s) == IF head >= tail THEN tail <= s /\ s < head
                            ELSE tail <= s \/ s < head

\* What makes NoDataRace inductive: a check that passed stays true until the
\* task that made it acts on it.
RingInv ==
    /\ TypeOK
    /\ producer \in {"writing", "written"} => ~full /\ pushing \in Values
    /\ producer = "written" => entries[head] = pushing
    /\ consumer = "reading" => ~empty /\ popping = entries[tail]
    /\ \A s \in Slots : InUse(s) => entries[s] \in Values
    /\ room => ~full /\ pushResult # "false"
    /\ avail => ~empty /\ popResult # "false"

--------------------------------------------------------------------------------
\* The slots are numbered by naturals and increment stays among them.
LEMMA IncrementLemma ==
    ASSUME NEW s \in Slots
    PROVE  /\ increment(s) \in Slots
           /\ increment(s) # s
    BY RingAssumption DEF increment, Slots, kSlots

LEMMA InitLemma == Init => RingInv
<1> SUFFICES ASSUME Init PROVE RingInv
    OBVIOUS
<1>1. TypeOK
  <2>1. head \in Slots /\ tail \in Slots
    BY RingAssumption, SMT DEF Init, Slots
  <2>2. room \in BOOLEAN /\ avail \in BOOLEAN
    BY Zenon DEF Init
  <2>3. entries \in [Slots -> Values \cup {Torn}]
    BY Zenon DEF Init
  <2> QED
    BY <2>1, <2>2, <2>3, Zenon DEF Init, TypeOK
<1>2. \A s \in Slots : ~InUse(s)
    BY RingAssumption DEF Init, InUse, Slots
<1> QED
    BY <1>1, <1>2 DEF Init, RingInv

\* Every step of either task keeps RingInv.
LEMMA StepLemma == RingInv /\ [Next]_vars => RingInv'
<1> SUFFICES ASSUME RingInv, [Next]_vars PROVE RingInv'
    OBVIOUS
<1> USE RingAssumption DEF RingInv, TypeOK, full, empty, PushBlocked, PopBlocked
<1>0. /\ head \in Nat /\ tail \in Nat /\ Capacity \in Nat
      /\ head <= Capacity /\ tail <= Capacity
    BY DEF Slots
<1>1. CASE PushRefused
    BY <1>1 DEF PushRefused, consumerVars, InUse
<1>2. ASSUME NEW v \in Values, PushBegin(v) PROVE RingInv'
  <2>1. ~InUse(head)
    BY <1>0 DEF InUse
  <2>2. consumer = "reading" => head # tail
    OBVIOUS
  <2>3. \A s \in Slots : s # head => entries'[s] = entries[s]
    BY <1>2 DEF PushBegin
  <2>4. \A s \in Slots : InUse(s)' <=> InUse(s)
    BY <1>2 DEF PushBegin, InUse
  <2> QED
    BY <1>0, <1>2, <2>1, <2>2, <2>3, <2>4 DEF PushBegin, consumerVars
<1>3. CASE PushWrite
  <2>1. ~InUse(head)
    BY <1>0 DEF InUse
  <2>2. \A s \in Slots : s # head => entries'[s] = entries[s]
    BY <1>3 DEF PushWrite
  <2>3. \A s \in Slots : InUse(s)' <=> InUse(s)
    BY <1>3 DEF PushWrite, InUse
  <2> QED
    BY <1>0, <1>3, <2>1, <2>2, <2>3 DEF PushWrite, consumerVars
<1>4. CASE PushPublish
  <2>1. increment(head) \in Slots /\ increment(head) # tail
    BY <1>4, IncrementLemma DEF PushPublish
  <2>2. \A s \in Slots : InUse(s)' => InUse(s) \/ s = head
    BY <1>0, <1>4, <2>1 DEF PushPublish, InUse, increment, kSlots, Slots
  <2>3. \A s \in Slots : InUse(s)' => entries'[s] \in Values
    BY <1>4, <2>2 DEF PushPublish
  <2> QED
    BY <1>0, <1>4, <2>1, <2>3 DEF PushPublish, consumerVars
<1>5. CASE CheckFull
    BY <1>5 DEF CheckFull, consumerVars, InUse
<1>6. CASE PopRefused
    BY <1>6 DEF PopRefused, producerVars, InUse
<1>7. CASE PopBegin
    BY <1>7 DEF PopBegin, producerVars, InUse
<1>8. CASE PopRelease
  <2>1. increment(tail) \in Slots /\ increment(tail) # tail
    BY IncrementLemma
  <2>2. \A s \in Slots : InUse(s)' => InUse(s)
    BY <1>0, <1>8, <2>1 DEF PopRelease, InUse, increment, kSlots, Slots
  <2>3. increment(head) # increment(tail)
    BY <1>0, <1>8 DEF PopRelease, increment, kSlots
  <2>4. ~full => increment(head) # tail'
    BY <1>8, <2>3 DEF PopRelease
  <2>5. entries[tail] \in Values \cup {Torn}
    BY <1>0
  <2> QED
    BY <1>0, <1>8, <2>1, <2>2, <2>3, <2>4, <2>5 DEF PopRelease, producerVars
<1>9. CASE CheckEmpty
    BY <1>9 DEF CheckEmpty, producerVars, InUse
<1>10. CASE UNCHANGED vars
    BY <1>10 DEF vars, producerVars, consumerVars, InUse
<1> QED
    BY <1>1, <1>2, <1>3, <1>4, <1>5, <1>6, <1>7, <1>8, <1>9, <1>10 DEF Next

LEMMA InvariantLemma == Spec => []RingInv
    BY InitLemma, StepLemma, PTL DEF Spec

--------------------------------------------------------------------------------
\* Both indices stay inside the ring and the two tasks in their own protocol.
THEOREM TypeCorrect == Spec => []TypeOK
<1>1. RingInv => TypeOK
    BY DEF RingInv
<1> QED
    BY <1>1, InvariantLemma, PTL

\* The lock-free copies of SpscRing.h:22 and :30 never touch one slot.
THEOREM RaceFree == Spec => []NoDataRace
<1>1. RingInv => NoDataRace
    BY DEF RingInv, NoDataRace, empty
<1> QED
    BY <1>1, InvariantLemma, PTL

\* full() false is a reservation for the producer, empty() false a promise to the
\* consumer.
THEOREM AnswersKept == Spec => []AnswersHold
<1>1. RingInv => AnswersHold
    BY DEF RingInv, AnswersHold
<1> QED
    BY <1>1, InvariantLemma, PTL

--------------------------------------------------------------------------------
\* The i-th oldest value lies in a slot in use, and no two of them share one.
LEMMA PositionLemma ==
    ASSUME RingInv
    PROVE  /\ Used \in 0 .. Capacity
           /\ Used = 0 <=> head = tail
           /\ \A i \in 1 .. Used : Position(i) \in Slots /\ InUse(Position(i))
           /\ Used < Capacity => Position(Used + 1) = head
           /\ Used = Capacity <=> full
    BY RingAssumption
    DEF RingInv, TypeOK, Slots, kSlots, Used, Position, InUse, full, increment

LEMMA ContentLemma ==
    RingInv => /\ Content \in Seq(Values)
               /\ Len(Content) = Used
               /\ \A i \in 1 .. Used : Content[i] = entries[Position(i)]
<1> SUFFICES ASSUME RingInv
             PROVE  /\ Content \in Seq(Values)
                    /\ Len(Content) = Used
                    /\ \A i \in 1 .. Used : Content[i] = entries[Position(i)]
    OBVIOUS
<1>1. \A i \in 1 .. Used : entries[Position(i)] \in Values
    BY PositionLemma DEF RingInv
<1>2. Used \in Nat
    BY PositionLemma, RingAssumption
<1>3. Content \in [1 .. Used -> Values]
    BY <1>1, Zenon DEF Content
<1> QED
    BY <1>2, <1>3 DEF Content

LEMMA ContentPrimeLemma ==
    RingInv' => (/\ Content \in Seq(Values)
                 /\ Len(Content) = Used
                 /\ \A i \in 1 .. Used : Content[i] = entries[Position(i)])'
    BY ContentLemma, PTL

\* A step that leaves the indices and the slots in use alone leaves the queue alone.
LEMMA SameContent ==
    ASSUME RingInv, head' = head, tail' = tail,
           \A s \in Slots : InUse(s) => entries'[s] = entries[s]
    PROVE  Content' = Content
<1>1. Used' = Used /\ \A i : Position(i)' = Position(i)
    BY DEF Used, Position
<1>2. \A i \in 1 .. Used : entries'[Position(i)] = entries[Position(i)]
    BY PositionLemma
<1> QED
    BY <1>1, <1>2, Zenon DEF Content

\* head_.store: the queue grows by the value pushed.
LEMMA PublishPushes == RingInv /\ RingInv' /\ PushPublish => Fifo!Push(pushing)
<1> SUFFICES ASSUME RingInv, RingInv', PushPublish PROVE Fifo!Push(pushing)
    OBVIOUS
<1>1. Used < Capacity
    BY PositionLemma, RingAssumption DEF PushPublish, RingInv
<1>2. Used' = Used + 1
    BY <1>1, RingAssumption
    DEF PushPublish, RingInv, TypeOK, Slots, kSlots, Used, increment
<1>3. \A i : Position(i)' = Position(i)
    BY DEF PushPublish, Position
<1>4. entries' = entries
    BY DEF PushPublish
<1>5. pushing \in Values /\ entries[head] = pushing
    BY DEF RingInv, PushPublish
<1>6. /\ Content' \in Seq(Values) /\ Len(Content') = Used'
      /\ \A i \in 1 .. Used' : Content'[i] = entries'[Position(i)']
    BY ContentPrimeLemma
<1>7. /\ Append(Content, pushing) \in Seq(Values)
      /\ Len(Append(Content, pushing)) = Used + 1
      /\ \A i \in 1 .. Used : Append(Content, pushing)[i] = Content[i]
      /\ Append(Content, pushing)[Used + 1] = pushing
    BY <1>5, ContentLemma, AppendProperties
<1>8. \A i \in 1 .. Used + 1 : Content'[i] = Append(Content, pushing)[i]
  <2> TAKE i \in 1 .. Used + 1
  <2>1. CASE i = Used + 1
    BY <1>1, <1>2, <1>3, <1>4, <1>5, <1>6, <1>7, <2>1, PositionLemma
  <2>2. CASE i \in 1 .. Used
    BY <1>2, <1>3, <1>4, <1>6, <1>7, <2>2, ContentLemma
  <2>3. Used \in Nat
    BY PositionLemma, RingAssumption
  <2>4. i = Used + 1 \/ i \in 1 .. Used
    BY <2>3
  <2> QED
    BY <2>1, <2>2, <2>4
<1>9. Content' = Append(Content, pushing)
    BY <1>2, <1>6, <1>7, <1>8, SeqEqual
<1> QED
    BY <1>1, <1>9, ContentLemma DEF Fifo!Push, PushPublish, consumerVars

\* tail_.store: the queue loses its oldest value, which is the one returned.
LEMMA ReleasePops == RingInv /\ RingInv' /\ PopRelease => Fifo!Pop
<1> SUFFICES ASSUME RingInv, RingInv', PopRelease PROVE Fifo!Pop
    OBVIOUS
<1>1. Used > 0
    BY PositionLemma, RingAssumption DEF PopRelease, RingInv, empty
<1>2. Used' = Used - 1
    BY <1>1, RingAssumption
    DEF PopRelease, RingInv, TypeOK, Slots, kSlots, Used, increment
<1>3. \A i \in 1 .. Used - 1 : Position(i)' = Position(i + 1)
    BY <1>1, RingAssumption, PositionLemma
    DEF PopRelease, RingInv, TypeOK, Slots, kSlots, Position, increment, Used
<1>4. entries' = entries
    BY DEF PopRelease
<1>5. Position(1) = tail
    BY RingAssumption DEF RingInv, TypeOK, Slots, kSlots, Position
<1>6. /\ Content' \in Seq(Values) /\ Len(Content') = Used'
      /\ \A i \in 1 .. Used' : Content'[i] = entries'[Position(i)']
    BY ContentPrimeLemma
<1>7. Content # <<>> /\ Head(Content) = entries[tail]
  <2>1. 1 \in 1 .. Used
    BY <1>1, PositionLemma, RingAssumption
  <2>2. Content[1] = entries[tail] /\ Len(Content) > 0
    BY <1>1, <1>5, <2>1, ContentLemma
  <2> QED
    BY <2>2, ContentLemma
<1>8. /\ Tail(Content) \in Seq(Values)
      /\ Len(Tail(Content)) = Used - 1
      /\ \A i \in 1 .. Used - 1 : Tail(Content)[i] = Content[i + 1]
    BY <1>7, ContentLemma, HeadTailProperties
<1>9. \A i \in 1 .. Used - 1 : Content'[i] = Tail(Content)[i]
  <2> TAKE i \in 1 .. Used - 1
  <2>1. i + 1 \in 1 .. Used
    BY PositionLemma, RingAssumption
  <2> QED
    BY <1>2, <1>3, <1>4, <1>6, <1>8, <2>1, ContentLemma
<1>10. Content' = Tail(Content)
    BY <1>2, <1>6, <1>8, <1>9, SeqEqual
<1>11. received' = entries[tail]
    BY DEF PopRelease, RingInv
<1> QED
    BY <1>7, <1>10, <1>11 DEF Fifo!Pop

\* Every step of the two tasks is a step of the FIFO or none.
LEMMA RefinementStep ==
    RingInv /\ RingInv' /\ [Next]_vars => [Fifo!Next]_(Fifo!fifoVars)
<1> SUFFICES ASSUME RingInv, RingInv', [Next]_vars PROVE [Fifo!Next]_(Fifo!fifoVars)
    OBVIOUS
<1>a. CASE PushPublish
  <2>1. pushing \in Values
    BY <1>a DEF RingInv, PushPublish
  <2> QED
    BY <1>a, <2>1, PublishPushes DEF Fifo!Next
<1>b. CASE PopRelease
    BY <1>b, ReleasePops DEF Fifo!Next
<1>c. SUFFICES ASSUME ~PushPublish, ~PopRelease PROVE UNCHANGED <<Content, received>>
    BY <1>a, <1>b DEF Fifo!fifoVars
<1>1. ~InUse(head) /\ head \in Slots
    BY RingAssumption DEF RingInv, TypeOK, Slots, InUse
<1>2. entries' = entries \/ \E v : entries' = [entries EXCEPT ![head] = v]
    BY <1>c DEF Next, vars, producerVars, consumerVars, PushRefused, PushBegin,
           PushWrite, CheckFull, PopRefused, PopBegin, CheckEmpty
<1>3. \A s \in Slots : InUse(s) => entries'[s] = entries[s]
    BY <1>1, <1>2 DEF RingInv, TypeOK
<1>4. UNCHANGED <<head, tail, received>>
    BY <1>c DEF Next, vars, producerVars, consumerVars, PushRefused, PushBegin,
           PushWrite, CheckFull, PopRefused, PopBegin, CheckEmpty
<1> QED
    BY <1>3, <1>4, SameContent

\* SpscRing.h is a bounded FIFO although its two tasks take no lock.
THEOREM RingImplementsFifo == Spec => ImplementsFifo
<1>1. Init => Fifo!Init
  <2> SUFFICES ASSUME Init PROVE Fifo!Init
    OBVIOUS
  <2>1. Used = 0 /\ RingInv
    BY InitLemma DEF Init, Used
  <2> QED
    BY <2>1, ContentLemma DEF Fifo!Init, Init
<1> QED
    BY <1>1, RefinementStep, InvariantLemma, PTL DEF Spec, ImplementsFifo, Fifo!Spec
--------------------------------------------------------------------------------
(***************************************************************************)
(* The arenas.  A step is described by what it does to the cells of storage *)
(* and to held; one family of lemmas concludes from that that the step is   *)
(* one of BlockStore, another that the invariant is kept.                   *)
(***************************************************************************)

\* The first cell behind the block that p points into, of the arena of the portal.
JsonEnd(p) == p - kAlignment + Json!Header(p).spanBytes

\* A block that is held has a header that findHeader accepts, with the size the
\* document asked for and room for it.
JsonBlock(p) ==
    /\ Json!IsBlock(p)
    /\ Json!Header(p).payloadBytes = held[p]
    /\ Json!Header(p).spanBytes >= Json!Span(held[p])

\* What makes NothingLeftBehind inductive: the blocks that are held lie behind one
\* another, each with its header intact, so that a wipe or a write of one is outside
\* of the others.
JsonInv ==
    /\ used \in 0 .. JsonCapacity
    /\ DOMAIN storage = Json!Offsets
    /\ \A p \in DOMAIN held : JsonBlock(p)
    /\ \A p, q \in DOMAIN held : p < q => JsonEnd(p) <= q - kAlignment
    /\ Json!NothingLeftBehind

\* The block of p is held as before.
Same(p) ==
    /\ held'[p] = held[p]
    /\ \A i \in p .. p + held[p] - 1 : storage'[i] = storage[i]

\* Rounding up to an alignment: not below the size, and monotone.
LEMMA AlignLemma ==
    ASSUME NEW a \in Nat \ {0}, NEW m \in Nat, NEW n \in Nat, m <= n
    PROVE  /\ a * ((n + a - 1) \div a) \in Nat
           /\ n <= a * ((n + a - 1) \div a)
           /\ a * ((m + a - 1) \div a) <= a * ((n + a - 1) \div a)
  OBVIOUS

LEMMA SpanLemma ==
    ASSUME NEW m \in Nat, NEW n \in Nat, m <= n
    PROVE  /\ Json!Span(n) \in Nat
           /\ kAlignment + n <= Json!Span(n)
           /\ Json!Span(m) <= Json!Span(n)
  BY ArenaAssumption, AlignLemma DEF Json!ArenaAssumption, Json!Span, Json!alignedSize

LEMMA OffsetLemma ==
    ASSUME NEW n \in Nat
    PROVE  Result!alignUp(n) \in Nat /\ n <= Result!alignUp(n)
  BY ArenaAssumption, AlignLemma DEF Result!ArenaAssumption, Result!alignUp

\* What the two writes to the array do, cell by cell.
LEMMA WipedLemma ==
    ASSUME NEW b, NEW from, NEW n
    PROVE  /\ DOMAIN Json!Wiped(b, from, n) = Json!Offsets
           /\ \A i \in Json!Offsets : 
                Json!Wiped(b, from, n)[i] = IF i \in from .. from + n - 1 THEN Zero ELSE b[i]
  BY DEF Json!Wiped

LEMMA HeaderLemma ==
    ASSUME NEW b, DOMAIN b = Json!Offsets, NEW p, p - kAlignment \in Json!Offsets, NEW h
    PROVE  /\ DOMAIN Json!WithHeader(b, p, h) = Json!Offsets
           /\ Json!WithHeader(b, p, h)[p - kAlignment] = h
           /\ \A i \in Json!Offsets \ {p - kAlignment} : Json!WithHeader(b, p, h)[i] = b[i]
  BY DEF Json!WithHeader

--------------------------------------------------------------------------------
\* From what becomes of held and of the cells to the steps of BlockStore.
LEMMA KeptLemma ==
    ASSUME NEW P, (DOMAIN held') \ P = (DOMAIN held) \ P,
           \A p \in (DOMAIN held) \ P : p \in Nat /\ held[p] \in Nat /\ Same(p)
    PROVE  Json!Store!KeepsAllBut(P)
<1> USE DEF Json!Store!Held
<1> SUFFICES ASSUME NEW p \in (DOMAIN held) \ P
             PROVE  [q \in DOMAIN held' |-> [i \in 1 .. held'[q] |-> storage'[q + i - 1]]][p]
                  = [q \in DOMAIN held |-> [i \in 1 .. held[q] |-> storage[q + i - 1]]][p]
  BY DEF Json!Store!KeepsAllBut
<1>1. p \in DOMAIN held' /\ p \in DOMAIN held
  OBVIOUS
<1>2. \A i \in 1 .. held[p] : storage'[p + i - 1] = storage[p + i - 1]
  <2> TAKE i \in 1 .. held[p]
  <2>1. p + i - 1 \in p .. p + held[p] - 1
    OBVIOUS
  <2> QED BY <2>1 DEF Same
<1>3. held'[p] = held[p]
  BY DEF Same
<1> QED BY <1>1, <1>2, <1>3

LEMMA FreeLemma ==
    ASSUME NEW P \in SUBSET DOMAIN held, DOMAIN held' = (DOMAIN held) \ P,
           \A p \in (DOMAIN held) \ P : p \in Nat /\ held[p] \in Nat /\ Same(p)
    PROVE  Json!Store!Next
<1>1. Json!Store!KeepsAllBut(P)
  BY KeptLemma
<1>2. Json!Store!Free(P)
  BY <1>1 DEF Json!Store!Free, Json!Store!Held
<1> QED BY <1>2 DEF Json!Store!Next, Json!Store!Held

LEMMA AllocateLemma ==
    ASSUME NEW n \in Sizes, NEW q, q \notin DOMAIN held, DOMAIN held' = (DOMAIN held) \cup {q},
           held'[q] = n, n \in Nat,
           \A p \in DOMAIN held : p \in Nat /\ held[p] \in Nat /\ Same(p)
    PROVE  Json!Store!Next
<1>1. Json!Store!KeepsAllBut({q})
  BY KeptLemma
<1>2. Len([r \in DOMAIN held' |-> [i \in 1 .. held'[r] |-> storage'[r + i - 1]]][q]) = n
  OBVIOUS
<1>3. Json!Store!Allocate(n)
  BY <1>1, <1>2 DEF Json!Store!Allocate, Json!Store!Held
<1> QED BY <1>3 DEF Json!Store!Next

LEMMA WriteLemma ==
    ASSUME NEW q \in DOMAIN held, held[q] \in Nat, held' = held,
           \A p \in (DOMAIN held) \ {q} : p \in Nat /\ held[p] \in Nat /\ Same(p)
    PROVE  Json!Store!Next
<1>1. Json!Store!KeepsAllBut({q})
  BY KeptLemma
<1>2. /\ Len([r \in DOMAIN held' |-> [i \in 1 .. held'[r] |-> storage'[r + i - 1]]][q]) = held[q]
      /\ Len([r \in DOMAIN held |-> [i \in 1 .. held[r] |-> storage[r + i - 1]]][q]) = held[q]
  OBVIOUS
<1>3. Json!Store!Write(q)
  BY <1>1, <1>2 DEF Json!Store!Write, Json!Store!Held
<1> QED BY <1>3 DEF Json!Store!Next, Json!Store!Held

LEMMA ResizeLemma ==
    ASSUME NEW n \in Sizes, n \in Nat, NEW p \in DOMAIN held, p \in Nat, held[p] \in Nat,
           NEW q \in Nat, q = p \/ q \notin DOMAIN held,
           DOMAIN held' = ((DOMAIN held) \ {p}) \cup {q}, held'[q] = n,
           \A k \in 0 .. Json!Store!Shorter(n, held[p]) - 1 : storage'[q + k] = storage[p + k],
           \A r \in (DOMAIN held) \ {p} : r \in Nat /\ held[r] \in Nat /\ Same(r)
    PROVE  Json!Store!Next
<1> DEFINE before == [r \in DOMAIN held |-> [i \in 1 .. held[r] |-> storage[r + i - 1]]]
           after == [r \in DOMAIN held' |-> [i \in 1 .. held'[r] |-> storage'[r + i - 1]]]
<1>1. Json!Store!KeepsAllBut({p, q})
  BY KeptLemma
<1>2. Len(after[q]) = n /\ Len(before[p]) = held[p]
  OBVIOUS
<1>3. \A i \in 1 .. Json!Store!Shorter(n, held[p]) : after[q][i] = before[p][i]
  <2> TAKE i \in 1 .. Json!Store!Shorter(n, held[p])
  <2>1. i \in 1 .. n /\ i \in 1 .. held[p] /\ i - 1 \in 0 .. Json!Store!Shorter(n, held[p]) - 1
    BY DEF Json!Store!Shorter
  <2>2. after[q][i] = storage'[q + i - 1] /\ before[p][i] = storage[p + i - 1]
    BY <2>1
  <2>3. storage'[q + (i - 1)] = storage[p + (i - 1)]
    BY <2>1
  <2>4. q + (i - 1) = q + i - 1 /\ p + (i - 1) = p + i - 1
    BY <2>1
  <2> QED BY <2>2, <2>3, <2>4
<1> HIDE DEF before, after
<1>4. Json!Store!Resize(p, n)
  <2>1. q \in DOMAIN held' \ (DOMAIN held \ {p}) /\ (p # q => p \notin DOMAIN held')
    OBVIOUS
  <2> QED BY <1>1, <1>2, <1>3, <2>1 DEF Json!Store!Resize, Json!Store!Held, before, after
<1> QED BY <1>4 DEF Json!Store!Next, Json!Store!Held
--------------------------------------------------------------------------------
\* What the invariant says of the numbers in it.
LEMMA JsonTypes ==
    ASSUME JsonInv
    PROVE  /\ used \in Nat /\ used <= JsonCapacity /\ DOMAIN storage = Json!Offsets
           /\ \A p \in DOMAIN held :
                 /\ p \in Nat /\ p >= kAlignment /\ p - kAlignment \in Json!Offsets
                 /\ held[p] \in 1 .. kMaxPayload
                 /\ Json!IsBlock(p)
                 /\ Json!Header(p) \in Json!Headers
                 /\ Json!Header(p).payloadBytes = held[p]
                 /\ Json!Header(p).spanBytes \in Nat
                 /\ Json!Header(p).spanBytes >= Json!Span(held[p])
                 /\ kAlignment + held[p] <= Json!Header(p).spanBytes
                 /\ p + held[p] <= JsonEnd(p) /\ JsonEnd(p) <= used
                 /\ JsonEnd(p) = p - kAlignment + Json!Header(p).spanBytes
           /\ \A p, q \in DOMAIN held : p < q => JsonEnd(p) <= q - kAlignment
<1> USE ArenaAssumption DEF Json!ArenaAssumption
<1>1. used \in Nat /\ used <= JsonCapacity /\ DOMAIN storage = Json!Offsets
  BY DEF JsonInv
<1>2. \A p, q \in DOMAIN held : p < q => JsonEnd(p) <= q - kAlignment
  BY DEF JsonInv
<1>3. ASSUME NEW p \in DOMAIN held
      PROVE  /\ p \in Nat /\ p >= kAlignment /\ p - kAlignment \in Json!Offsets
             /\ held[p] \in 1 .. kMaxPayload
             /\ Json!IsBlock(p)
             /\ Json!Header(p) \in Json!Headers
             /\ Json!Header(p).payloadBytes = held[p]
             /\ Json!Header(p).spanBytes \in Nat
             /\ Json!Header(p).spanBytes >= Json!Span(held[p])
             /\ kAlignment + held[p] <= Json!Header(p).spanBytes
             /\ p + held[p] <= JsonEnd(p) /\ JsonEnd(p) <= used
             /\ JsonEnd(p) = p - kAlignment + Json!Header(p).spanBytes
  <2>1. JsonBlock(p) /\ Json!IsBlock(p)
    BY DEF JsonInv, JsonBlock
  <2>2. /\ p \in kAlignment .. JsonCapacity - 1
        /\ Json!Header(p) \in Json!Headers
        /\ JsonEnd(p) <= used
    BY <2>1 DEF Json!IsBlock, JsonEnd
  <2>3. /\ Json!Header(p).payloadBytes \in 1 .. kMaxPayload
        /\ Json!Header(p).spanBytes \in 1 .. kMaxPayload
    BY <2>2 DEF Json!Headers
  <2>4. p \in Nat /\ p >= kAlignment /\ p - kAlignment \in Json!Offsets
    BY <2>2 DEF Json!Offsets
  <2>5. held[p] \in 1 .. kMaxPayload /\ Json!Header(p).payloadBytes = held[p]
        /\ Json!Header(p).spanBytes >= Json!Span(held[p])
    BY <2>1, <2>3 DEF JsonBlock
  <2>6. kAlignment + held[p] <= Json!Header(p).spanBytes
    BY <2>3, <2>5, SpanLemma
  <2>7. p + held[p] <= JsonEnd(p)
    BY <2>2, <2>3, <2>5, <2>6 DEF JsonEnd
  <2> QED BY <2>1, <2>2, <2>3, <2>4, <2>5, <2>6, <2>7 DEF JsonEnd
<1> QED BY <1>1, <1>2, <1>3

\* What a block is once its header is written.
LEMMA JsonBlockLemma ==
    ASSUME NEW p \in Nat, p >= kAlignment, p < JsonCapacity, NEW n \in 1 .. kMaxPayload,
               NEW s \in Nat,
           s >= Json!Span(n), used' \in Nat, used' <= JsonCapacity, p - kAlignment + s <= used',
           held'[p] = n,
           storage'[p - kAlignment] = [payloadBytes |-> n, spanBytes |-> s, active |-> TRUE]
    PROVE  JsonBlock(p)' /\ Json!Header(p)'.spanBytes = s
<1> USE ArenaAssumption DEF Json!ArenaAssumption
<1>1. Json!Header(p)' = [payloadBytes |-> n, spanBytes |-> s, active |-> TRUE]
  BY DEF Json!Header
<1>2. kAlignment + n <= s /\ s \in 1 .. kMaxPayload
  BY SpanLemma
<1>3. Json!Header(p)' \in Json!Headers
  BY <1>1, <1>2 DEF Json!Headers
<1>4. /\ Json!Header(p)'.payloadBytes = n /\ Json!Header(p)'.spanBytes = s /\ Json!Header(p)'.active
  BY <1>1
<1>5. p \in kAlignment .. JsonCapacity - 1
  OBVIOUS
<1>6. Json!IsBlock(p)'
  BY <1>2, <1>3, <1>4, <1>5 DEF Json!IsBlock
<1>7. Json!Span(n)' = Json!Span(n)
  BY DEF Json!Span, Json!alignedSize
<1> QED BY <1>3, <1>4, <1>6, <1>7 DEF JsonBlock

\* An operation gives the block P up, if there is one, and cuts the block Q; the
\* others stay as they are.
LEMMA JsonStep ==
    ASSUME JsonInv, NEW P, NEW Q,
           DOMAIN held' = ((DOMAIN held) \ P) \cup Q,
           used' \in 0 .. JsonCapacity, DOMAIN storage' = Json!Offsets,
           \A r \in (DOMAIN held) \ P :
              /\ r \notin Q /\ held'[r] = held[r]
              /\ storage'[r - kAlignment] = storage[r - kAlignment]
              /\ JsonEnd(r) <= used',
           \A q, r \in Q : q = r,
           \A q \in Q : q \in Nat /\ JsonBlock(q)',
           \A q \in Q : \A r \in (DOMAIN held) \ P :
              \/ r < q /\ JsonEnd(r) <= q - kAlignment
              \/ q < r /\ JsonEnd(q)' <= r - kAlignment,
           Json!NothingLeftBehind'
    PROVE  JsonInv'
<1>1. ASSUME NEW r \in (DOMAIN held) \ P
      PROVE  Json!Header(r)' = Json!Header(r) /\ JsonEnd(r)' = JsonEnd(r) /\ JsonBlock(r)'
  <2>1. Json!Header(r)' = Json!Header(r)
    BY DEF Json!Header
  <2>2. JsonEnd(r)' = JsonEnd(r)
    BY <2>1 DEF JsonEnd
  <2>3. JsonBlock(r) /\ Json!IsBlock(r)
    BY DEF JsonInv, JsonBlock
  <2>4. Json!IsBlock(r)'
    BY <2>1, <2>3 DEF Json!IsBlock, JsonEnd
  <2>5. Json!Span(held[r])' = Json!Span(held'[r])
    BY DEF Json!Span, Json!alignedSize
  <2> QED BY <2>1, <2>2, <2>3, <2>4, <2>5 DEF JsonBlock, Json!Span, Json!alignedSize
<1>2. \A p \in DOMAIN held' : JsonBlock(p)'
  BY <1>1
<1>3. ASSUME NEW p \in DOMAIN held', NEW q \in DOMAIN held', p < q
      PROVE  JsonEnd(p)' <= q - kAlignment
  <2>1. CASE p \in Q /\ q \in Q
    BY <1>3, <2>1
  <2>2. CASE p \in (DOMAIN held) \ P /\ q \in (DOMAIN held) \ P
    BY <1>1, <1>3, <2>2 DEF JsonInv
  <2>3. CASE p \in (DOMAIN held) \ P /\ q \in Q
    BY <1>1, <1>3, <2>3, JsonTypes
  <2>4. CASE p \in Q /\ q \in (DOMAIN held) \ P
    BY <1>1, <1>3, <2>4, JsonTypes
  <2> QED BY <2>1, <2>2, <2>3, <2>4
<1> QED BY <1>2, <1>3 DEF JsonInv, Json!Offsets
--------------------------------------------------------------------------------
\* What becomes of the array when a block is placed.
LEMMA PlacedLemma ==
    ASSUME JsonInv, NEW n \in Nat, Json!Fits(n)
    PROVE  /\ n \in 1 .. kMaxPayload /\ Json!Span(n) \in Nat /\ kAlignment + n <= Json!Span(n)
           /\ Json!NewPointer = used + kAlignment /\ used + Json!Span(n) <= JsonCapacity
           /\ DOMAIN Json!Placed(n) = Json!Offsets
           /\ Json!Placed(n)[used] = [payloadBytes |-> n, spanBytes |-> Json!Span(n),
                  active |-> TRUE]
           /\ \A i \in Json!Offsets : used < i /\ i < used + Json!Span(n) =>
                  Json!Placed(n)[i] = Zero
           /\ \A i \in Json!Offsets : i < used \/ used + Json!Span(n) <= i =>
                  Json!Placed(n)[i] = storage[i]
<1> USE ArenaAssumption DEF Json!ArenaAssumption
<1>1. n \in 1 .. kMaxPayload /\ Json!Span(n) <= JsonCapacity - used
  BY DEF Json!Fits
<1>2. Json!Span(n) \in Nat /\ kAlignment + n <= Json!Span(n)
  BY SpanLemma
<1>3. used \in Nat /\ used + Json!Span(n) <= JsonCapacity
  BY <1>1, <1>2, JsonTypes
<1>4. used \in Json!Offsets /\ Json!NewPointer = used + kAlignment
      /\ Json!NewPointer - kAlignment = used
  BY <1>1, <1>2, <1>3 DEF Json!Offsets, Json!NewPointer
<1> DEFINE h == [payloadBytes |-> n, spanBytes |-> Json!Span(n), active |-> TRUE]
           w == Json!Wiped(storage, used, Json!Span(n))
<1>5. Json!Placed(n) = Json!WithHeader(w, Json!NewPointer, h)
  BY DEF Json!Placed
<1>6. DOMAIN w = Json!Offsets /\ \A i \in Json!Offsets : w[i] =
          IF i \in used .. used + Json!Span(n) - 1 THEN Zero ELSE storage[i]
  BY WipedLemma
<1> HIDE DEF h, w
<1>7. /\ DOMAIN Json!Placed(n) = Json!Offsets
      /\ Json!Placed(n)[used] = h
      /\ \A i \in Json!Offsets \ {used} : Json!Placed(n)[i] = w[i]
  BY <1>4, <1>5, <1>6, HeaderLemma
<1>8. ASSUME NEW i \in Json!Offsets
      PROVE  /\ used < i /\ i < used + Json!Span(n) => Json!Placed(n)[i] = Zero
             /\ i < used \/ used + Json!Span(n) <= i => Json!Placed(n)[i] = storage[i]
  <2>1. i \in Nat
    BY DEF Json!Offsets
  <2>2. used < i /\ i < used + Json!Span(n) => i # used /\ i \in used .. used + Json!Span(n) - 1
    BY <2>1, <1>2, <1>3
  <2>3. i < used \/ used + Json!Span(n) <= i => i # used /\ i \notin used .. used + Json!Span(n) - 1
    BY <2>1, <1>2, <1>3
  <2> QED BY <1>6, <1>7, <2>2, <2>3
<1> QED BY <1>1, <1>2, <1>3, <1>4, <1>7, <1>8 DEF h

\* Nothing of Text is where it was not, but in blocks that are held.
LEMMA TextLemma ==
    ASSUME JsonInv,
           \A i \in Json!Offsets : storage'[i] \in Text =>
              \/ \E p \in DOMAIN held' : i \in p .. p + held'[p] - 1
              \/ /\ storage[i] \in Text
                 /\ \A p \in DOMAIN held : i \in p .. p + held[p] - 1 =>
                        p \in DOMAIN held' /\ held'[p] = held[p]
    PROVE  Json!NothingLeftBehind'
  BY DEF JsonInv, Json!NothingLeftBehind, Json!Offsets

\* What the arena writes is told from the text of the document.
LEMMA NotText ==
    /\ Zero \notin Text
    /\ \A h \in Json!Headers : h \notin Text
  BY ArenaAssumption DEF Json!ArenaAssumption

\* A new block lies behind all that are held.
LEMMA JsonAllocate ==
    ASSUME JsonInv, NEW n \in Sizes, Json!Allocate(n)
    PROVE  JsonInv' /\ Json!Store!Next
<1> USE ArenaAssumption DEF Json!ArenaAssumption
<1>0. PICK q : q = Json!NewPointer
  OBVIOUS
<1> DEFINE s == Json!Span(n)
           h == [payloadBytes |-> n, spanBytes |-> s, active |-> TRUE]
<1>1. /\ Json!Fits(n) /\ storage' = Json!Placed(n) /\ used' = used + s
      /\ held' = [p \in DOMAIN held \cup {q} |-> IF p = q THEN n ELSE held[p]]
  BY <1>0 DEF Json!Allocate, Json!Holding
<1>2. /\ n \in 1 .. kMaxPayload /\ s \in Nat /\ kAlignment + n <= s
      /\ q = used + kAlignment /\ used + s <= JsonCapacity
      /\ DOMAIN storage' = Json!Offsets /\ storage'[used] = h
      /\ \A i \in Json!Offsets : used < i /\ i < used + s => storage'[i] = Zero
      /\ \A i \in Json!Offsets : i < used \/ used + s <= i => storage'[i] = storage[i]
  BY <1>0, <1>1, PlacedLemma
<1>3. used \in Nat /\ used' \in Nat /\ used' <= JsonCapacity /\ q \in Nat /\ q - kAlignment = used
      /\ used' = q - kAlignment + s /\ q < JsonCapacity
  BY <1>1, <1>2, JsonTypes
<1> HIDE DEF s
<1>4. DOMAIN held' = (DOMAIN held) \cup {q} /\ held'[q] = n
  BY <1>1
<1>5. JsonBlock(q)' /\ Json!Header(q)'.spanBytes = s
  <2>1. s >= Json!Span(n) /\ q >= kAlignment
    BY <1>2, <1>3 DEF s
  <2> QED BY <1>2, <1>3, <1>4, <2>1, JsonBlockLemma
<1>6. ASSUME NEW p \in DOMAIN held
      PROVE  /\ p # q /\ held'[p] = held[p] /\ storage'[p - kAlignment] = storage[p - kAlignment]
             /\ JsonEnd(p) <= used' /\ p < q /\ JsonEnd(p) <= q - kAlignment
             /\ p \in Nat /\ held[p] \in Nat /\ Same(p)
  <2>1. /\ p \in Nat /\ held[p] \in Nat /\ p + held[p] <= used /\ JsonEnd(p) <= used
        /\ p - kAlignment \in Json!Offsets /\ held[p] > 0 /\ p >= kAlignment
    BY <1>3, JsonTypes DEF JsonEnd
  <2>2. p < used /\ p # q /\ p < q /\ p - kAlignment < used
    BY <1>2, <1>3, <2>1
  <2>3. held'[p] = held[p]
    BY <1>1, <2>2
  <2>4. storage'[p - kAlignment] = storage[p - kAlignment]
    BY <1>2, <2>1, <2>2
  <2>5. \A i \in p .. p + held[p] - 1 : i \in Json!Offsets /\ i < used
    BY <1>2, <1>3, <2>1 DEF Json!Offsets
  <2>6. JsonEnd(p) <= used' /\ JsonEnd(p) <= q - kAlignment
    BY <1>2, <1>3, <2>1, JsonTypes
  <2> QED BY <1>2, <2>1, <2>2, <2>3, <2>4, <2>5, <2>6 DEF Same
<1>7. Json!NothingLeftBehind'
  <2>1. ASSUME NEW i \in Json!Offsets, storage'[i] \in Text
        PROVE  storage[i] \in Text
    <3>1. h \in Json!Headers
      BY <1>2, <1>3 DEF Json!Headers
    <3>2. i # used
      BY <1>2, <2>1, <3>1, NotText
    <3>3. i \in Nat
      BY DEF Json!Offsets
    <3>4. ~(used < i /\ i < used + s)
      BY <1>2, <2>1, NotText
    <3> QED BY <1>2, <1>3, <2>1, <3>2, <3>3, <3>4
  <2> QED BY <1>4, <1>6, <2>1, TextLemma
<1>8. JsonInv'
  <2> DEFINE P == {}
             Q == {q}
  <2>1. DOMAIN held' = ((DOMAIN held) \ P) \cup Q /\ used' \in 0 .. JsonCapacity
    BY <1>3, <1>4
  <2>2. /\ \A r \in (DOMAIN held) \ P :
              /\ r \notin Q /\ held'[r] = held[r]
              /\ storage'[r - kAlignment] = storage[r - kAlignment]
              /\ JsonEnd(r) <= used'
        /\ \A x \in Q : \A r \in (DOMAIN held) \ P : r < x /\ JsonEnd(r) <= x - kAlignment
    BY <1>6
  <2>3. \A x \in Q : x \in Nat /\ JsonBlock(x)'
    BY <1>3, <1>5
  <2>4. \A x, y \in Q : x = y
    OBVIOUS
  <2> HIDE DEF P, Q
  <2> QED BY <1>2, <1>7, <2>1, <2>2, <2>3, <2>4, JsonStep
<1>9. Json!Store!Next
  BY <1>2, <1>4, <1>6, AllocateLemma
<1> QED BY <1>8, <1>9
--------------------------------------------------------------------------------
\* Two blocks that are held lie one behind the other, and the newest is the last.
LEMMA ApartLemma ==
    ASSUME JsonInv, NEW p \in DOMAIN held, NEW r \in DOMAIN held, r # p
    PROVE  /\ \/ r < p /\ JsonEnd(r) <= p - kAlignment
              \/ p < r /\ JsonEnd(p) <= r - kAlignment
           /\ JsonEnd(p) = used => r < p /\ JsonEnd(r) <= p - kAlignment
<1> USE ArenaAssumption DEF Json!ArenaAssumption
<1>1. /\ p \in Nat /\ r \in Nat /\ used \in Nat
      /\ held[r] \in Nat /\ held[r] > 0 /\ r + held[r] <= JsonEnd(r) /\ JsonEnd(r) <= used
      /\ Json!Header(r).spanBytes \in Nat /\ Json!Header(p).spanBytes \in Nat
  BY JsonTypes
<1>2. JsonEnd(p) \in Int /\ JsonEnd(r) \in Int
  BY <1>1 DEF JsonEnd
<1>3. p < r \/ r < p
  BY <1>1
<1>4. /\ p < r => JsonEnd(p) <= r - kAlignment
      /\ r < p => JsonEnd(r) <= p - kAlignment
  BY JsonTypes
<1> QED BY <1>1, <1>2, <1>3, <1>4

\* An operation that writes only inside of the block p, or behind all the blocks.
LEMMA OthersLemma ==
    ASSUME JsonInv, NEW p \in DOMAIN held,
           \A i \in Json!Offsets :
              i < p - kAlignment \/ (JsonEnd(p) <= i /\ i < used) => storage'[i] = storage[i],
           used' \in Nat,
           used <= used' \/ (JsonEnd(p) = used /\ p - kAlignment <= used'),
           NEW r \in DOMAIN held, r # p, held'[r] = held[r]
    PROVE  /\ storage'[r - kAlignment] = storage[r - kAlignment] /\ JsonEnd(r) <= used'
           /\ r \in Nat /\ held[r] \in Nat /\ Same(r)
<1> USE ArenaAssumption DEF Json!ArenaAssumption
<1>1. /\ p \in Nat /\ r \in Nat /\ used \in Nat /\ used <= JsonCapacity
      /\ held[r] \in Nat /\ held[r] > 0 /\ r + held[r] <= JsonEnd(r) /\ JsonEnd(r) <= used
      /\ r - kAlignment \in Json!Offsets /\ r >= kAlignment
      /\ Json!Header(r).spanBytes \in Nat /\ Json!Header(p).spanBytes \in Nat
  BY JsonTypes
<1>2. JsonEnd(p) \in Int /\ JsonEnd(r) \in Int
  BY <1>1 DEF JsonEnd
<1>3. /\ \/ JsonEnd(r) <= p - kAlignment
         \/ JsonEnd(p) <= r - kAlignment
      /\ JsonEnd(p) = used => JsonEnd(r) <= p - kAlignment
  BY ApartLemma
<1>4. JsonEnd(r) <= used'
  BY <1>1, <1>2, <1>3
<1>5. ASSUME NEW i \in Nat, r - kAlignment <= i, i < r + held[r]
      PROVE  storage'[i] = storage[i]
  <2>1. i \in Json!Offsets
    BY <1>1, <1>2, <1>5 DEF Json!Offsets
  <2>2. i < p - kAlignment \/ (JsonEnd(p) <= i /\ i < used)
    BY <1>1, <1>2, <1>3, <1>5
  <2> QED BY <2>1, <2>2
<1>6. storage'[r - kAlignment] = storage[r - kAlignment]
  <2>1. r - kAlignment \in Nat /\ r - kAlignment < r + held[r]
    BY <1>1
  <2> QED BY <1>5, <2>1
<1>7. Same(r)
  <2>1. \A i \in r .. r + held[r] - 1 : i \in Nat /\ r - kAlignment <= i /\ i < r + held[r]
    BY <1>1
  <2> QED BY <1>5, <2>1 DEF Same
<1> QED BY <1>1, <1>4, <1>6, <1>7

\* A block that changes its size where it is: the newest, and with it the end of what
\* is in use, or another inside of its span.
LEMMA InPlaceLemma ==
    ASSUME JsonInv, NEW p \in DOMAIN held, NEW n \in Sizes, n \in 1 .. kMaxPayload,
           NEW s \in Nat, s >= Json!Span(n), used' \in Nat, used' <= JsonCapacity,
           \/ JsonEnd(p) = used /\ used' = p - kAlignment + s
           \/ used' = used /\ s = Json!Header(p).spanBytes,
           held' = [held EXCEPT ![p] = n], DOMAIN storage' = Json!Offsets,
           storage'[p - kAlignment] = [payloadBytes |-> n, spanBytes |-> s, active |-> TRUE],
           \A i \in Json!Offsets :
              \/ i < p - kAlignment
              \/ JsonEnd(p) <= i /\ i < used
              \/ p <= i /\ i < p + n /\ i < p + held[p]
              => storage'[i] = storage[i],
           \A i \in Json!Offsets : storage'[i] \in Text =>
              \/ i \in p .. p + n - 1
              \/ storage[i] \in Text /\ i \notin p .. p + held[p] - 1
    PROVE  JsonInv' /\ Json!Store!Next
<1> USE ArenaAssumption DEF Json!ArenaAssumption
<1>1. /\ p \in Nat /\ p >= kAlignment /\ p < JsonCapacity /\ held[p] \in Nat
      /\ p + held[p] <= JsonEnd(p) /\ JsonEnd(p) <= used /\ used \in Nat /\ used <= JsonCapacity
      /\ JsonEnd(p) = p - kAlignment + Json!Header(p).spanBytes /\ Json!Header(p).spanBytes \in Nat
      /\ p + held[p] <= JsonCapacity
  <2>1. /\ p \in Nat /\ p >= kAlignment /\ held[p] \in Nat /\ held[p] > 0
        /\ p + held[p] <= JsonEnd(p) /\ JsonEnd(p) <= used /\ used \in Nat /\ used <= JsonCapacity
        /\ JsonEnd(p) = p - kAlignment + Json!Header(p).spanBytes
        /\ Json!Header(p).spanBytes \in Nat
    BY JsonTypes
  <2>2. JsonEnd(p) \in Int
    BY <2>1
  <2> QED BY <2>1, <2>2
<1>2. DOMAIN held' = DOMAIN held /\ held'[p] = n /\
          \A r \in (DOMAIN held) \ {p} : held'[r] = held[r]
  OBVIOUS
<1>3. p - kAlignment + s <= used'
  BY <1>1
<1>4. JsonBlock(p)' /\ Json!Header(p)'.spanBytes = s
  BY <1>1, <1>2, <1>3, JsonBlockLemma
<1>5. JsonEnd(p)' = p - kAlignment + s
  BY <1>4 DEF JsonEnd
<1>6. used <= used' \/ (JsonEnd(p) = used /\ p - kAlignment <= used')
  BY <1>1
<1>7. \A r \in (DOMAIN held) \ {p} :
         /\ held'[r] = held[r] /\ storage'[r - kAlignment] = storage[r - kAlignment]
         /\ JsonEnd(r) <= used' /\ r \in Nat /\ held[r] \in Nat /\ Same(r)
  BY <1>2, <1>6, OthersLemma
<1>8. \A r \in (DOMAIN held) \ {p} :
         \/ r < p /\ JsonEnd(r) <= p - kAlignment
         \/ p < r /\ JsonEnd(p)' <= r - kAlignment
  BY <1>1, <1>5, ApartLemma
<1>9. Json!NothingLeftBehind'
  BY <1>2, TextLemma
<1>10. JsonInv'
  <2> DEFINE P == {p}
             Q == {p}
  <2>1. DOMAIN held' = ((DOMAIN held) \ P) \cup Q /\ used' \in 0 .. JsonCapacity
    BY <1>2
  <2>2. \A r \in (DOMAIN held) \ P :
              /\ r \notin Q /\ held'[r] = held[r]
              /\ storage'[r - kAlignment] = storage[r - kAlignment]
              /\ JsonEnd(r) <= used'
    BY <1>7
  <2>3. \A x \in Q : x \in Nat /\ JsonBlock(x)'
    BY <1>1, <1>4
  <2>4. \A x, y \in Q : x = y
    OBVIOUS
  <2>5. \A q \in Q : \A r \in (DOMAIN held) \ P :
              \/ r < q /\ JsonEnd(r) <= q - kAlignment
              \/ q < r /\ JsonEnd(q)' <= r - kAlignment
    BY <1>8
  <2> HIDE DEF P, Q
  <2> QED BY <1>9, <2>1, <2>2, <2>3, <2>4, <2>5, JsonStep
<1>11. Json!Store!Next
  <2>1. ASSUME NEW k \in 0 .. Json!Store!Shorter(n, held[p]) - 1
        PROVE  storage'[p + k] = storage[p + k]
    <3>1. k \in Nat /\ k < n /\ k < held[p]
      BY <1>1 DEF Json!Store!Shorter
    <3>2. p \in Nat /\ held[p] \in Nat /\ p + held[p] <= JsonCapacity /\ JsonCapacity \in Nat
      BY <1>1
    <3>3. p + k \in Nat /\ p <= p + k /\ p + k < p + n /\ p + k < p + held[p]
      BY <3>1, <3>2
    <3>4. p + k \in Json!Offsets
      BY <3>2, <3>3 DEF Json!Offsets
    <3> QED BY <3>3, <3>4
  <2>2. DOMAIN held' = ((DOMAIN held) \ {p}) \cup {p}
    BY <1>2
  <2> QED BY <1>1, <1>2, <1>7, <2>1, <2>2, ResizeLemma
<1> QED BY <1>10, <1>11
--------------------------------------------------------------------------------
\* What the operations write in front of a block.
LEMMA RewrittenLemma ==
    ASSUME JsonInv, NEW p \in DOMAIN held, NEW b, DOMAIN b = Json!Offsets, NEW n, NEW s
    PROVE  /\ DOMAIN Json!Resized(b, p, n, s) = Json!Offsets
           /\ Json!Resized(b, p, n, s)[p - kAlignment]
                = [payloadBytes |-> n, spanBytes |-> s, active |-> TRUE]
           /\ \A i \in Json!Offsets \ {p - kAlignment} : Json!Resized(b, p, n, s)[i] = b[i]
<1>1. p - kAlignment \in Json!Offsets /\ Json!Header(p) \in Json!Headers /\ Json!IsBlock(p)
  BY JsonTypes
<1>2. Json!Header(p).active
  BY <1>1 DEF Json!IsBlock
<1>3. [Json!Header(p) EXCEPT !.payloadBytes = n, !.spanBytes = s]
        = [payloadBytes |-> n, spanBytes |-> s, active |-> TRUE]
  <2>1. PICK h \in [payloadBytes : 1 .. kMaxPayload, spanBytes : 1 .. kMaxPayload,
            active : BOOLEAN] :
            h = Json!Header(p)
    BY <1>1 DEF Json!Headers
  <2>2. [h EXCEPT !.payloadBytes = n, !.spanBytes = s]
          = [[h EXCEPT !.payloadBytes = n] EXCEPT !.spanBytes = s]
    OBVIOUS
  <2>3. [h EXCEPT !.payloadBytes = n]
          = [payloadBytes |-> n, spanBytes |-> h.spanBytes, active |-> h.active]
    BY <2>1
  <2>4. [[payloadBytes |-> n, spanBytes |-> h.spanBytes,
            active |-> h.active] EXCEPT !.spanBytes = s]
          = [payloadBytes |-> n, spanBytes |-> s, active |-> h.active]
    OBVIOUS
  <2>5. h.active = TRUE
    BY <1>2, <2>1
  <2> QED BY <2>1, <2>2, <2>3, <2>4, <2>5
<1> QED BY <1>1, <1>3, HeaderLemma DEF Json!Resized

\* The cells of a block of text are not those of its header.
LEMMA PlacesLemma ==
    ASSUME JsonInv, NEW p \in DOMAIN held
    PROVE  /\ p \in Nat /\ kAlignment \in Nat \ {0} /\ p - kAlignment \in Nat
           /\ held[p] \in Nat /\ held[p] > 0 /\ p + held[p] <= JsonEnd(p) /\ JsonEnd(p) <= used
           /\ JsonEnd(p) \in Nat /\ used \in Nat /\ used <= JsonCapacity /\ JsonCapacity \in Nat
           /\ JsonEnd(p) = p - kAlignment + Json!Header(p).spanBytes
           /\ Json!Header(p).spanBytes \in Nat /\ Json!Header(p).payloadBytes = held[p]
           /\ Json!Header(p).spanBytes >= Json!Span(held[p])
           /\ p - kAlignment \in Json!Offsets
<1> USE ArenaAssumption DEF Json!ArenaAssumption
<1>1. /\ p \in Nat /\ p >= kAlignment
      /\ held[p] \in 1 .. kMaxPayload /\ p + held[p] <= JsonEnd(p) /\ JsonEnd(p) <= used
      /\ used \in Nat /\ used <= JsonCapacity
      /\ JsonEnd(p) = p - kAlignment + Json!Header(p).spanBytes
      /\ Json!Header(p).spanBytes \in Nat /\ Json!Header(p).payloadBytes = held[p]
      /\ Json!Header(p).spanBytes >= Json!Span(held[p])
      /\ p - kAlignment \in Json!Offsets
  BY JsonTypes
<1>2. JsonEnd(p) \in Nat
  BY <1>1
<1> QED BY <1>1, <1>2

\* The three ways in which a block changes its size in place.
LEMMA JsonShrinkNewest ==
    ASSUME JsonInv, NEW p \in DOMAIN held, NEW n \in Sizes, Json!ShrinkNewest(p, n)
    PROVE  JsonInv' /\ Json!Store!Next
<1> USE ArenaAssumption DEF Json!ArenaAssumption
<1> DEFINE s == Json!Span(n)
           old == Json!Header(p).spanBytes
           b1 == Json!Wiped(storage, p + n, held[p] - n)
           b2 == Json!Wiped(b1, p - kAlignment + s, old - s)
<1>1. /\ p \in Nat /\ kAlignment \in Nat \ {0} /\ p - kAlignment \in Nat
      /\ held[p] \in Nat /\ p + held[p] <= JsonEnd(p) /\ JsonEnd(p) \in Nat
      /\ used \in Nat /\ used <= JsonCapacity
      /\ JsonEnd(p) = p - kAlignment + old /\ old \in Nat /\ old >= Json!Span(held[p])
      /\ Json!Header(p).payloadBytes = held[p]
  BY PlacesLemma
<1>2. /\ n \in 1 .. held[p] /\ JsonEnd(p) = used
      /\ storage' = Json!Resized(b2, p, n, s) /\ used' = p - kAlignment + s
      /\ held' = [held EXCEPT ![p] = n]
  BY <1>1 DEF Json!ShrinkNewest, Json!Shrinks, Json!IsNewest, Json!Shrunk, JsonEnd
<1>3. s \in Nat /\ kAlignment + n <= s /\ s <= old
  BY <1>1, <1>2, SpanLemma
<1>4. used' \in Nat /\ used' <= JsonCapacity
  BY <1>1, <1>2, <1>3
<1>5. n \in 1 .. kMaxPayload
  BY <1>2, JsonTypes
<1>6. /\ DOMAIN b2 = Json!Offsets
      /\ \A i \in Json!Offsets : b1[i] = IF i \in p + n .. p + n + (held[p] - n) - 1
             THEN Zero ELSE storage[i]
      /\ \A i \in Json!Offsets : b2[i] =
             IF i \in p - kAlignment + s .. p - kAlignment + s + (old - s) - 1
                                         THEN Zero ELSE b1[i]
  BY WipedLemma
<1> HIDE DEF s, old, b1, b2
<1>7. /\ DOMAIN storage' = Json!Offsets
      /\ storage'[p - kAlignment] = [payloadBytes |-> n, spanBytes |-> s, active |-> TRUE]
      /\ \A i \in Json!Offsets \ {p - kAlignment} : storage'[i] = b2[i]
  BY <1>2, <1>6, RewrittenLemma
<1>8. ASSUME NEW i \in Json!Offsets,
             \/ i < p - kAlignment
             \/ JsonEnd(p) <= i /\ i < used
             \/ p <= i /\ i < p + n /\ i < p + held[p]
      PROVE  storage'[i] = storage[i]
  <2>1. i \in Nat
    BY DEF Json!Offsets
  <2>2. i # p - kAlignment /\ i \notin p + n .. p + n + (held[p] - n) - 1
        /\ i \notin p - kAlignment + s .. p - kAlignment + s + (old - s) - 1
    BY <1>1, <1>2, <1>3, <1>8, <2>1
  <2> QED BY <1>6, <1>7, <2>2
<1>9. ASSUME NEW i \in Json!Offsets, storage'[i] \in Text
      PROVE  \/ i \in p .. p + n - 1
             \/ storage[i] \in Text /\ i \notin p .. p + held[p] - 1
  <2>1. i \in Nat
    BY DEF Json!Offsets
  <2>2. i # p - kAlignment
    <3>1. s \in 1 .. kMaxPayload
      BY <1>1, <1>2, <1>3
    <3>2. [payloadBytes |-> n, spanBytes |-> s, active |-> TRUE] \in Json!Headers
      BY <1>5, <3>1 DEF Json!Headers
    <3> QED BY <1>7, <1>9, <3>2, NotText
  <2>3. storage'[i] = b2[i] /\ b2[i] = b1[i] /\ b1[i] = storage[i]
        /\ i \notin p + n .. p + n + (held[p] - n) - 1
    BY <1>6, <1>7, <1>9, <2>2, NotText
  <2>4. i \in p .. p + held[p] - 1 => i \in p .. p + n - 1
    BY <1>1, <1>2, <2>1, <2>3
  <2> QED BY <1>9, <2>3, <2>4
<1>10. s >= Json!Span(n)
  BY <1>3 DEF s
<1> QED BY <1>2, <1>3, <1>4, <1>5, <1>7, <1>8, <1>9, <1>10, InPlaceLemma

LEMMA JsonShrink ==
    ASSUME JsonInv, NEW p \in DOMAIN held, NEW n \in Sizes, Json!Shrink(p, n)
    PROVE  JsonInv' /\ Json!Store!Next
<1> USE ArenaAssumption DEF Json!ArenaAssumption
<1> DEFINE s == Json!Header(p).spanBytes
           b1 == Json!Wiped(storage, p + n, held[p] - n)
<1>1. /\ p \in Nat /\ kAlignment \in Nat \ {0} /\ p - kAlignment \in Nat
      /\ held[p] \in Nat /\ p + held[p] <= JsonEnd(p) /\ JsonEnd(p) <= used /\ JsonEnd(p) \in Nat
      /\ used \in Nat /\ used <= JsonCapacity
      /\ JsonEnd(p) = p - kAlignment + s /\ s \in Nat /\ s >= Json!Span(held[p])
      /\ Json!Header(p).payloadBytes = held[p]
  BY PlacesLemma
<1>2. /\ n \in 1 .. held[p]
      /\ storage' = Json!Resized(b1, p, n, s) /\ used' = used
      /\ held' = [held EXCEPT ![p] = n]
  BY <1>1 DEF Json!Shrink, Json!Shrinks, Json!Shrunk
<1>3. s >= Json!Span(n) /\ s >= 1
  BY <1>1, <1>2, SpanLemma
<1>4. used' \in Nat /\ used' <= JsonCapacity
  BY <1>1, <1>2
<1>5. n \in 1 .. kMaxPayload
  BY <1>2, JsonTypes
<1>6. /\ DOMAIN b1 = Json!Offsets
      /\ \A i \in Json!Offsets : b1[i] = IF i \in p + n .. p + n + (held[p] - n) - 1
             THEN Zero ELSE storage[i]
  BY WipedLemma
<1>. s = Json!Header(p).spanBytes
  OBVIOUS
<1> HIDE DEF s, b1
<1>7. /\ DOMAIN storage' = Json!Offsets
      /\ storage'[p - kAlignment] = [payloadBytes |-> n, spanBytes |-> s, active |-> TRUE]
      /\ \A i \in Json!Offsets \ {p - kAlignment} : storage'[i] = b1[i]
  BY <1>2, <1>6, RewrittenLemma
<1>8. ASSUME NEW i \in Json!Offsets,
             \/ i < p - kAlignment
             \/ JsonEnd(p) <= i /\ i < used
             \/ p <= i /\ i < p + n /\ i < p + held[p]
      PROVE  storage'[i] = storage[i]
  <2>1. i \in Nat
    BY DEF Json!Offsets
  <2>2. i # p - kAlignment /\ i \notin p + n .. p + n + (held[p] - n) - 1
    BY <1>1, <1>2, <1>8, <2>1
  <2> QED BY <1>6, <1>7, <2>2
<1>9. ASSUME NEW i \in Json!Offsets, storage'[i] \in Text
      PROVE  \/ i \in p .. p + n - 1
             \/ storage[i] \in Text /\ i \notin p .. p + held[p] - 1
  <2>1. i \in Nat
    BY DEF Json!Offsets
  <2>2. i # p - kAlignment
    <3>1. s \in 1 .. kMaxPayload
      BY <1>1, <1>2, <1>3
    <3>2. [payloadBytes |-> n, spanBytes |-> s, active |-> TRUE] \in Json!Headers
      BY <1>5, <3>1 DEF Json!Headers
    <3> QED BY <1>7, <1>9, <3>2, NotText
  <2>3. storage'[i] = b1[i] /\ b1[i] = storage[i]
        /\ i \notin p + n .. p + n + (held[p] - n) - 1
    BY <1>6, <1>7, <1>9, <2>2, NotText
  <2>4. i \in p .. p + held[p] - 1 => i \in p .. p + n - 1
    BY <1>1, <1>2, <2>1, <2>3
  <2> QED BY <1>9, <2>3, <2>4
<1> QED BY <1>1, <1>2, <1>3, <1>4, <1>5, <1>7, <1>8, <1>9, InPlaceLemma

LEMMA JsonGrowNewest ==
    ASSUME JsonInv, NEW p \in DOMAIN held, NEW n \in Sizes, Json!GrowNewest(p, n)
    PROVE  JsonInv' /\ Json!Store!Next
<1> USE ArenaAssumption DEF Json!ArenaAssumption
<1> DEFINE s == Json!Span(n)
           old == Json!Header(p).spanBytes
           b1 == Json!Wiped(storage, p + held[p], n - held[p])
           b2 == Json!Wiped(b1, p - kAlignment + old, s - old)
<1>1. /\ p \in Nat /\ kAlignment \in Nat \ {0} /\ p - kAlignment \in Nat
      /\ held[p] \in Nat /\ p + held[p] <= JsonEnd(p) /\ JsonEnd(p) \in Nat
      /\ used \in Nat /\ used <= JsonCapacity
      /\ JsonEnd(p) = p - kAlignment + old /\ old \in Nat
      /\ Json!Header(p).payloadBytes = held[p]
  BY PlacesLemma
<1>2. /\ n \in held[p] + 1 .. kMaxPayload /\ JsonEnd(p) = used
      /\ s <= JsonCapacity - (p - kAlignment)
      /\ storage' = Json!Resized(b2, p, n, s) /\ used' = p - kAlignment + s
      /\ held' = [held EXCEPT ![p] = n]
  BY <1>1 DEF Json!GrowNewest, Json!Grows, Json!InPlace, Json!IsNewest, JsonEnd
<1>3. s \in Nat /\ kAlignment + n <= s
  BY <1>1, <1>2, SpanLemma
<1>4. used' \in Nat /\ used' <= JsonCapacity
  BY <1>1, <1>2, <1>3
<1>5. n \in 1 .. kMaxPayload
  BY <1>1, <1>2
<1>6. /\ DOMAIN b2 = Json!Offsets
      /\ \A i \in Json!Offsets : b1[i] = IF i \in p + held[p] .. p + held[p] + (n - held[p]) - 1
             THEN Zero ELSE storage[i]
      /\ \A i \in Json!Offsets : b2[i] =
             IF i \in p - kAlignment + old .. p - kAlignment + old + (s - old) - 1
                                         THEN Zero ELSE b1[i]
  BY WipedLemma
<1> HIDE DEF s, old, b1, b2
<1>7. /\ DOMAIN storage' = Json!Offsets
      /\ storage'[p - kAlignment] = [payloadBytes |-> n, spanBytes |-> s, active |-> TRUE]
      /\ \A i \in Json!Offsets \ {p - kAlignment} : storage'[i] = b2[i]
  BY <1>2, <1>6, RewrittenLemma
<1>8. ASSUME NEW i \in Json!Offsets,
             \/ i < p - kAlignment
             \/ JsonEnd(p) <= i /\ i < used
             \/ p <= i /\ i < p + n /\ i < p + held[p]
      PROVE  storage'[i] = storage[i]
  <2>1. i \in Nat
    BY DEF Json!Offsets
  <2>2. i # p - kAlignment /\ i \notin p + held[p] .. p + held[p] + (n - held[p]) - 1
        /\ i \notin p - kAlignment + old .. p - kAlignment + old + (s - old) - 1
    BY <1>1, <1>2, <1>3, <1>8, <2>1
  <2> QED BY <1>6, <1>7, <2>2
<1>9. ASSUME NEW i \in Json!Offsets, storage'[i] \in Text
      PROVE  \/ i \in p .. p + n - 1
             \/ storage[i] \in Text /\ i \notin p .. p + held[p] - 1
  <2>1. i \in Nat
    BY DEF Json!Offsets
  <2>2. i # p - kAlignment
    <3>1. s \in 1 .. kMaxPayload
      BY <1>1, <1>2, <1>3, <1>4
    <3>2. [payloadBytes |-> n, spanBytes |-> s, active |-> TRUE] \in Json!Headers
      BY <1>5, <3>1 DEF Json!Headers
    <3> QED BY <1>7, <1>9, <3>2, NotText
  <2>3. storage'[i] = b2[i] /\ b2[i] = b1[i] /\ b1[i] = storage[i]
    BY <1>6, <1>7, <1>9, <2>2, NotText
  <2>4. i \in p .. p + held[p] - 1 => i \in p .. p + n - 1
    BY <1>1, <1>2, <2>1
  <2> QED BY <1>9, <2>3, <2>4
<1>10. s >= Json!Span(n)
  BY <1>3 DEF s
<1> QED BY <1>2, <1>3, <1>4, <1>5, <1>7, <1>8, <1>9, <1>10, InPlaceLemma
--------------------------------------------------------------------------------
\* A block that is given up: its text goes, and its place if it was the newest.
LEMMA JsonDeallocate ==
    ASSUME JsonInv, NEW p \in DOMAIN held, Json!Deallocate(p)
    PROVE  JsonInv' /\ Json!Store!Next
<1> USE ArenaAssumption DEF Json!ArenaAssumption
<1> DEFINE old == Json!Header(p).spanBytes
           h == [Json!Header(p) EXCEPT !.active = FALSE]
           w == Json!Wiped(storage, p, held[p])
<1>1. /\ p \in Nat /\ kAlignment \in Nat \ {0} /\ p - kAlignment \in Nat
      /\ held[p] \in Nat /\ p + held[p] <= JsonEnd(p) /\ JsonEnd(p) <= used /\ JsonEnd(p) \in Nat
      /\ used \in Nat /\ used <= JsonCapacity
      /\ JsonEnd(p) = p - kAlignment + old /\ old \in Nat
      /\ Json!Header(p).payloadBytes = held[p] /\ p - kAlignment \in Json!Offsets
  BY PlacesLemma
<1>2. /\ held' = [q \in DOMAIN held \ {p} |-> held[q]]
      /\ \/ /\ JsonEnd(p) = used /\ used' = p - kAlignment
            /\ storage' = Json!Wiped(storage, p - kAlignment, old)
         \/ used' = used /\ storage' = Json!WithHeader(w, p, h)
  BY <1>1 DEF Json!Deallocate, Json!Forget, Json!IsNewest, Json!GivenBack, Json!Released, JsonEnd
<1>3. h \notin Text
  <2>1. Json!Header(p) \in Json!Headers
    BY JsonTypes
  <2>2. h \in Json!Headers
    BY <2>1 DEF Json!Headers
  <2> QED BY <2>2, NotText
<1>4. /\ DOMAIN w = Json!Offsets
      /\ \A i \in Json!Offsets : w[i] = IF i \in p .. p + held[p] - 1 THEN Zero ELSE storage[i]
  BY WipedLemma
<1> HIDE DEF old, h, w
<1>5. /\ DOMAIN storage' = Json!Offsets
      /\ \A i \in Json!Offsets :
           /\ i < p - kAlignment \/ JsonEnd(p) <= i => storage'[i] = storage[i]
           /\ storage'[i] \in Text => storage[i] \in Text /\ i \notin p .. p + held[p] - 1
  <2>1. CASE JsonEnd(p) = used /\ storage' = Json!Wiped(storage, p - kAlignment, old)
    <3>1. /\ DOMAIN storage' = Json!Offsets
          /\ \A i \in Json!Offsets : storage'[i] =
                 IF i \in p - kAlignment .. p - kAlignment + old - 1 THEN Zero ELSE storage[i]
      BY <2>1, WipedLemma
    <3>2. ASSUME NEW i \in Json!Offsets
          PROVE  /\ i < p - kAlignment \/ JsonEnd(p) <= i => storage'[i] = storage[i]
                 /\ storage'[i] \in Text => storage[i] \in Text /\ i \notin p .. p + held[p] - 1
      <4>1. i \in Nat
        BY DEF Json!Offsets
      <4>2. i < p - kAlignment \/ JsonEnd(p) <= i =>
                i \notin p - kAlignment .. p - kAlignment + old - 1
        BY <1>1, <4>1
      <4>3. i \in p .. p + held[p] - 1 => i \in p - kAlignment .. p - kAlignment + old - 1
        BY <1>1, <4>1
      <4> QED BY <3>1, <4>2, <4>3, NotText
    <3> QED BY <3>1, <3>2
  <2>2. CASE storage' = Json!WithHeader(w, p, h)
    <3>1. /\ DOMAIN storage' = Json!Offsets /\ storage'[p - kAlignment] = h
          /\ \A i \in Json!Offsets \ {p - kAlignment} : storage'[i] = w[i]
      BY <1>1, <1>4, <2>2, HeaderLemma
    <3>2. ASSUME NEW i \in Json!Offsets
          PROVE  /\ i < p - kAlignment \/ JsonEnd(p) <= i => storage'[i] = storage[i]
                 /\ storage'[i] \in Text => storage[i] \in Text /\ i \notin p .. p + held[p] - 1
      <4>1. i \in Nat
        BY DEF Json!Offsets
      <4>2. i < p - kAlignment \/ JsonEnd(p) <= i =>
                i # p - kAlignment /\ i \notin p .. p + held[p] - 1
        BY <1>1, <4>1, PlacesLemma
      <4> QED BY <1>3, <1>4, <3>1, <4>2, NotText
    <3> QED BY <3>1, <3>2
  <2> QED BY <1>2, <2>1, <2>2
<1>6. used' \in Nat /\ used' <= JsonCapacity
      /\ (used <= used' \/ (JsonEnd(p) = used /\ p - kAlignment <= used'))
  BY <1>1, <1>2
<1>7. DOMAIN held' = (DOMAIN held) \ {p} /\ \A r \in (DOMAIN held) \ {p} : held'[r] = held[r]
  BY <1>2
<1>8. \A r \in (DOMAIN held) \ {p} :
         /\ held'[r] = held[r] /\ storage'[r - kAlignment] = storage[r - kAlignment]
         /\ JsonEnd(r) <= used' /\ r \in Nat /\ held[r] \in Nat /\ Same(r)
  BY <1>5, <1>6, <1>7, OthersLemma
<1>9. Json!NothingLeftBehind'
  <2>1. ASSUME NEW i \in Json!Offsets, storage'[i] \in Text
        PROVE  /\ storage[i] \in Text
               /\ \A r \in DOMAIN held : i \in r .. r + held[r] - 1 =>
                      r \in DOMAIN held' /\ held'[r] = held[r]
    BY <1>5, <1>7, <2>1
  <2> QED BY <2>1, TextLemma
<1>10. JsonInv'
  <2> DEFINE P == {p}
             Q == {}
  <2>1. DOMAIN held' = ((DOMAIN held) \ P) \cup Q /\ used' \in 0 .. JsonCapacity
    BY <1>6, <1>7
  <2>2. \A r \in (DOMAIN held) \ P :
              /\ r \notin Q /\ held'[r] = held[r]
              /\ storage'[r - kAlignment] = storage[r - kAlignment]
              /\ JsonEnd(r) <= used'
    BY <1>8
  <2>3. Q = {}
    OBVIOUS
  <2> HIDE DEF P, Q
  <2> QED BY <1>5, <1>9, <2>1, <2>2, <2>3, JsonStep
<1>11. Json!Store!Next
  BY <1>7, <1>8, FreeLemma
<1> QED BY <1>10, <1>11

\* A block that is moved: the new one is cut, gets the text of the old one, and that
\* is given up.
LEMMA JsonMove ==
    ASSUME JsonInv, NEW p \in DOMAIN held, NEW n \in Sizes, Json!Move(p, n)
    PROVE  JsonInv' /\ Json!Store!Next
<1> USE ArenaAssumption DEF Json!ArenaAssumption
<1>0. PICK q : q = Json!NewPointer
  OBVIOUS
<1> DEFINE s == Json!Span(n)
           h == [payloadBytes |-> n, spanBytes |-> s, active |-> TRUE]
           gone == [Json!Header(p) EXCEPT !.active = FALSE]
           b == Json!Placed(n)
           c == Json!Copied(b, p, q)
           w == Json!Wiped(c, p, held[p])
<1>1. /\ p \in Nat /\ kAlignment \in Nat \ {0} /\ p - kAlignment \in Nat
      /\ held[p] \in Nat /\ p + held[p] <= JsonEnd(p) /\ JsonEnd(p) <= used /\ JsonEnd(p) \in Nat
      /\ used \in Nat /\ used <= JsonCapacity
      /\ Json!Header(p).payloadBytes = held[p] /\ p - kAlignment \in Json!Offsets
  BY PlacesLemma
<1>2. /\ n \in held[p] + 1 .. kMaxPayload /\ Json!Fits(n) /\ n \in Nat
      /\ held' = [x \in (DOMAIN held \ {p}) \cup {q} |-> IF x = q THEN n ELSE held[x]]
      /\ used' = used + s
      /\ storage' = Json!WithHeader(w, p, gone)
  BY <1>0, <1>1 DEF Json!Move, Json!Grows, Json!Holding, Json!Forget, Json!Released
<1>3. /\ n \in 1 .. kMaxPayload /\ s \in Nat /\ kAlignment + n <= s
      /\ q = used + kAlignment /\ used + s <= JsonCapacity
      /\ DOMAIN b = Json!Offsets /\ b[used] = h
      /\ \A i \in Json!Offsets : used < i /\ i < used + s => b[i] = Zero
      /\ \A i \in Json!Offsets : i < used \/ used + s <= i => b[i] = storage[i]
  BY <1>0, <1>2, PlacedLemma
<1>4. gone \notin Text /\ h \notin Text
  <2>1. Json!Header(p) \in Json!Headers
    BY JsonTypes
  <2>2. gone \in Json!Headers
    BY <2>1 DEF Json!Headers
  <2>3. h \in Json!Headers
    BY <1>1, <1>3 DEF Json!Headers
  <2> QED BY <2>2, <2>3, NotText
<1>5. \A i \in Json!Offsets : c[i] = IF i \in q .. q + held[p] - 1 THEN b[p + i - q] ELSE b[i]
  BY <1>1 DEF Json!Copied
<1>6. /\ DOMAIN w = Json!Offsets
      /\ \A i \in Json!Offsets : w[i] = IF i \in p .. p + held[p] - 1 THEN Zero ELSE c[i]
  BY WipedLemma
<1> HIDE DEF s, b, c, w, gone
<1>7. /\ DOMAIN storage' = Json!Offsets /\ storage'[p - kAlignment] = gone
      /\ \A i \in Json!Offsets \ {p - kAlignment} : storage'[i] = w[i]
  BY <1>1, <1>2, <1>6, HeaderLemma
<1>8. /\ used' \in Nat /\ used' <= JsonCapacity /\ used <= used' /\ q \in Nat
      /\ q - kAlignment = used
      /\ used' = q - kAlignment + s /\ q < JsonCapacity /\ p < used /\ p < q /\ q >= kAlignment
      /\ p + held[p] <= used /\ q + n <= JsonCapacity /\ JsonCapacity \in Nat
      /\ used \in Json!Offsets /\ q + held[p] < used + s
  <2>1. /\ used' = used + s /\ held[p] > 0 /\ n > held[p] /\ q = used + kAlignment
        /\ kAlignment + n <= s /\ used + s <= JsonCapacity /\ JsonCapacity \in Nat
        /\ p + held[p] <= used
    BY <1>1, <1>2, <1>3, PlacesLemma
  <2>2. /\ p \in Nat /\ held[p] \in Nat /\ n \in Nat /\ s \in Nat /\ used \in Nat
        /\ kAlignment \in Nat \ {0}
    BY <1>1, <1>2, <1>3
  <2>3. /\ used' \in Nat /\ used' <= JsonCapacity /\ used <= used'
        /\ q \in Nat /\ q - kAlignment = used /\ used' = q - kAlignment + s /\ q >= kAlignment
    BY <2>1, <2>2
  <2>4. p < used /\ p < q /\ q + n <= JsonCapacity /\ q < JsonCapacity /\ q + held[p] < used + s
    BY <2>1, <2>2
  <2>5. used \in Json!Offsets
    BY <2>1, <2>2 DEF Json!Offsets
  <2> QED BY <2>1, <2>3, <2>4, <2>5
<1>9. /\ DOMAIN held' = ((DOMAIN held) \ {p}) \cup {q} /\ held'[q] = n
      /\ q \notin DOMAIN held
      /\ \A r \in (DOMAIN held) \ {p} : held'[r] = held[r]
  <2>1. \A r \in DOMAIN held : r < q
    <3> TAKE r \in DOMAIN held
    <3>1. r \in Nat /\ held[r] \in Nat /\ r + held[r] <= JsonEnd(r) /\ JsonEnd(r) <= used /\
              JsonEnd(r) \in Nat
      BY PlacesLemma
    <3> QED BY <1>1, <1>3, <3>1
  <2> QED BY <1>2, <1>8, <2>1
<1>10. ASSUME NEW i \in Json!Offsets
       PROVE  /\ i < p - kAlignment \/ (JsonEnd(p) <= i /\ i < used) => storage'[i] = storage[i]
              /\ storage'[i] \in Text =>
                    \/ i \in q .. q + n - 1
                    \/ storage[i] \in Text /\ i \notin p .. p + held[p] - 1
  <2>1. i \in Nat
    BY DEF Json!Offsets
  <2>2. ASSUME i < p - kAlignment \/ (JsonEnd(p) <= i /\ i < used)
        PROVE  storage'[i] = storage[i]
    <3>1. i < used /\ i # p - kAlignment /\ i \notin p .. p + held[p] - 1 /\
              i \notin q .. q + held[p] - 1
      BY <1>1, <1>8, <2>1, <2>2, PlacesLemma
    <3> QED BY <1>3, <1>5, <1>6, <1>7, <3>1
  <2>3. ASSUME storage'[i] \in Text, i \notin q .. q + n - 1
        PROVE  storage[i] \in Text /\ i \notin p .. p + held[p] - 1
    <3>1. i # p - kAlignment
      BY <1>4, <1>7, <2>3
    <3>2. i \notin p .. p + held[p] - 1 /\ storage'[i] = c[i]
      BY <1>6, <1>7, <2>3, <3>1, NotText
    <3>3. i \notin q .. q + held[p] - 1
      BY <1>1, <1>2, <1>8, <2>1, <2>3
    <3>4. b[i] \in Text
      BY <1>5, <2>3, <3>2, <3>3
    <3>5. i # used
      BY <1>3, <1>4, <3>4
    <3>6. ~(used < i /\ i < used + s)
      BY <1>3, <3>4, NotText
    <3>7. i < used \/ used + s <= i
      BY <1>1, <1>3, <2>1, <3>5, <3>6
    <3> QED BY <1>3, <3>2, <3>4, <3>7
  <2> QED BY <2>2, <2>3
<1>11. JsonBlock(q)' /\ Json!Header(q)'.spanBytes = s
  <2>1. s >= Json!Span(n)
    BY <1>3 DEF s
  <2>2. storage'[q - kAlignment] = h
    <3>1. used # p - kAlignment /\ used \notin p .. p + held[p] - 1 /\
              used \notin q .. q + held[p] - 1
      BY <1>1, <1>3, <1>8
    <3>2. used \in Json!Offsets
      BY <1>8
    <3>3. storage'[used] = w[used]
      BY <1>7, <3>1, <3>2
    <3>4. w[used] = c[used]
      BY <1>6, <3>1, <3>2
    <3>5. c[used] = b[used]
      BY <1>5, <3>1, <3>2
    <3>6. b[used] = h /\ q - kAlignment = used
      BY <1>3, <1>8
    <3> QED BY <3>3, <3>4, <3>5, <3>6
  <2>3. /\ q \in Nat /\ q >= kAlignment /\ q < JsonCapacity /\ n \in 1 .. kMaxPayload /\ s \in Nat
        /\ used' \in Nat /\ used' <= JsonCapacity /\ q - kAlignment + s <= used' /\ held'[q] = n
    BY <1>3, <1>8, <1>9
  <2> QED BY <2>1, <2>2, <2>3, JsonBlockLemma
<1>12. ASSUME NEW r \in (DOMAIN held) \ {p}
       PROVE  /\ r # q /\ held'[r] = held[r] /\ storage'[r - kAlignment] = storage[r - kAlignment]
              /\ JsonEnd(r) <= used' /\ r < q /\ JsonEnd(r) <= q - kAlignment
              /\ r \in Nat /\ held[r] \in Nat /\ Same(r)
  <2>1. /\ storage'[r - kAlignment] = storage[r - kAlignment] /\ JsonEnd(r) <= used'
        /\ r \in Nat /\ held[r] \in Nat /\ Same(r)
    BY <1>8, <1>9, <1>10, OthersLemma
  <2>2. r + held[r] <= JsonEnd(r) /\ JsonEnd(r) <= used /\ JsonEnd(r) \in Nat
    BY PlacesLemma
  <2> QED BY <1>1, <1>3, <1>8, <1>9, <2>1, <2>2
<1>13. Json!NothingLeftBehind'
  <2>1. ASSUME NEW i \in Json!Offsets, storage'[i] \in Text
        PROVE  \/ \E x \in DOMAIN held' : i \in x .. x + held'[x] - 1
               \/ /\ storage[i] \in Text
                  /\ \A x \in DOMAIN held : i \in x .. x + held[x] - 1 =>
                         x \in DOMAIN held' /\ held'[x] = held[x]
    BY <1>9, <1>10, <2>1
  <2> QED BY <2>1, TextLemma
<1>14. JsonInv'
  <2> DEFINE P == {p}
             Q == {q}
  <2>1. DOMAIN held' = ((DOMAIN held) \ P) \cup Q /\ used' \in 0 .. JsonCapacity
    BY <1>8, <1>9
  <2>2. /\ \A r \in (DOMAIN held) \ P :
              /\ r \notin Q /\ held'[r] = held[r]
              /\ storage'[r - kAlignment] = storage[r - kAlignment]
              /\ JsonEnd(r) <= used'
        /\ \A x \in Q : \A r \in (DOMAIN held) \ P : r < x /\ JsonEnd(r) <= x - kAlignment
    BY <1>12
  <2>3. \A x \in Q : x \in Nat /\ JsonBlock(x)'
    BY <1>8, <1>11
  <2>4. \A x, y \in Q : x = y
    OBVIOUS
  <2> HIDE DEF P, Q
  <2> QED BY <1>7, <1>13, <2>1, <2>2, <2>3, <2>4, JsonStep
<1>15. Json!Store!Next
  <2>1. ASSUME NEW k \in 0 .. Json!Store!Shorter(n, held[p]) - 1
        PROVE  storage'[q + k] = storage[p + k]
    <3>1. k \in Nat /\ k < n /\ k < held[p]
      BY <1>1, <1>2 DEF Json!Store!Shorter
    <3>2. /\ q + k \in Nat /\ q + k < JsonCapacity /\ q + k \in q .. q + held[p] - 1
          /\ q + k \notin p .. p + held[p] - 1 /\ q + k # p - kAlignment
          /\ p + (q + k) - q = p + k /\ p + k \in Nat /\ p + k < used
      BY <1>1, <1>2, <1>8, <3>1
    <3>3. q + k \in Json!Offsets /\ p + k \in Json!Offsets
      BY <1>1, <1>8, <3>2 DEF Json!Offsets
    <3>4. storage'[q + k] = c[q + k]
      BY <1>6, <1>7, <3>2, <3>3
    <3>5. c[q + k] = b[p + k]
      BY <1>5, <3>2, <3>3
    <3>6. b[p + k] = storage[p + k]
      BY <1>3, <3>2, <3>3
    <3> QED BY <3>4, <3>5, <3>6
  <2> QED BY <1>1, <1>2, <1>8, <1>9, <1>12, <2>1, ResizeLemma
<1> QED BY <1>14, <1>15

\* What the document writes stays inside of its block.
LEMMA JsonWrite ==
    ASSUME JsonInv, NEW p \in DOMAIN held, NEW t \in Text, Json!Write(p, t)
    PROVE  JsonInv' /\ Json!Store!Next
<1> USE ArenaAssumption DEF Json!ArenaAssumption
<1>1. /\ p \in Nat /\ kAlignment \in Nat \ {0} /\ p - kAlignment \in Nat
      /\ held[p] \in Nat /\ p + held[p] <= JsonEnd(p) /\ JsonEnd(p) <= used /\ JsonEnd(p) \in Nat
      /\ used \in Nat /\ used <= JsonCapacity /\ p - kAlignment \in Json!Offsets
  BY PlacesLemma
<1>2. /\ used' = used /\ held' = held /\ DOMAIN storage' = Json!Offsets
      /\ \A i \in Json!Offsets : storage'[i] = IF i \in p .. p + held[p] - 1 THEN t ELSE storage[i]
  BY DEF Json!Write
<1>3. ASSUME NEW i \in Json!Offsets, i < p \/ JsonEnd(p) <= i
      PROVE  storage'[i] = storage[i]
  <2>1. i \in Nat
    BY DEF Json!Offsets
  <2>2. i \notin p .. p + held[p] - 1
    BY <1>1, <1>3, <2>1
  <2> QED BY <1>2, <2>2
<1>4. ASSUME NEW r \in (DOMAIN held) \ {p}
      PROVE  /\ storage'[r - kAlignment] = storage[r - kAlignment] /\ JsonEnd(r) <= used'
             /\ r \in Nat /\ held[r] \in Nat /\ Same(r)
  <2>1. \A i \in Json!Offsets : i < p - kAlignment \/ (JsonEnd(p) <= i /\ i < used) =>
            i < p \/ JsonEnd(p) <= i
    BY <1>1 DEF Json!Offsets
  <2>2. \A i \in Json!Offsets : i < p - kAlignment \/ (JsonEnd(p) <= i /\ i < used) =>
            storage'[i] = storage[i]
    BY <1>3, <2>1
  <2>3. used' \in Nat /\ used <= used'
    BY <1>1, <1>2
  <2> QED BY <1>2, <2>2, <2>3, OthersLemma
<1>5. storage'[p - kAlignment] = storage[p - kAlignment] /\ JsonEnd(p) <= used'
  <2>1. p - kAlignment < p
    BY <1>1
  <2> QED BY <1>1, <1>2, <1>3, <2>1
<1>6. Json!NothingLeftBehind'
  <2>1. ASSUME NEW i \in Json!Offsets, storage'[i] \in Text
        PROVE  \/ \E x \in DOMAIN held' : i \in x .. x + held'[x] - 1
               \/ /\ storage[i] \in Text
                  /\ \A x \in DOMAIN held : i \in x .. x + held[x] - 1 =>
                         x \in DOMAIN held' /\ held'[x] = held[x]
    BY <1>2, <2>1
  <2> QED BY <2>1, TextLemma
<1>7. JsonInv'
  <2> DEFINE P == {}
             Q == {}
  <2>1. DOMAIN held' = ((DOMAIN held) \ P) \cup Q /\ used' \in 0 .. JsonCapacity
    BY <1>1, <1>2
  <2>2. \A r \in (DOMAIN held) \ P :
              /\ r \notin Q /\ held'[r] = held[r]
              /\ storage'[r - kAlignment] = storage[r - kAlignment]
              /\ JsonEnd(r) <= used'
    BY <1>2, <1>4, <1>5
  <2>3. Q = {}
    OBVIOUS
  <2> HIDE DEF P, Q
  <2> QED BY <1>2, <1>6, <2>1, <2>2, <2>3, JsonStep
<1>8. Json!Store!Next
  BY <1>1, <1>2, <1>4, WriteLemma
<1> QED BY <1>7, <1>8

\* An operation that is refused, and one of another part, leaves the arena as it is.
LEMMA JsonUnchanged ==
    ASSUME JsonInv, UNCHANGED <<storage, used, held>>
    PROVE  JsonInv'
<1>1. used' = used /\ held' = held /\ storage' = storage
  OBVIOUS
<1>2. \A p : Json!Header(p)' = Json!Header(p) /\ JsonEnd(p)' = JsonEnd(p)
  BY <1>1 DEF Json!Header, JsonEnd
<1>3. \A p \in DOMAIN held : JsonBlock(p)'
  BY <1>1, <1>2 DEF JsonInv, JsonBlock, Json!IsBlock, Json!Span, Json!alignedSize
<1>4. Json!NothingLeftBehind'
  BY <1>1 DEF JsonInv, Json!NothingLeftBehind
<1> QED BY <1>1, <1>2, <1>3, <1>4 DEF JsonInv

\* Every step of the arena keeps the invariant and is one of BlockStore.
LEMMA JsonNext ==
    ASSUME JsonInv, Json!Next
    PROVE  JsonInv' /\ (Json!Store!Next \/ UNCHANGED <<storage, used, held>>)
<1>1. CASE \E n \in Sizes : Json!Allocate(n)
  BY <1>1, JsonAllocate
<1>2. CASE \E n \in Sizes : Json!AllocateRefused(n)
  BY <1>2, JsonUnchanged DEF Json!AllocateRefused, Json!Refused
<1>3. CASE \E p \in DOMAIN held : Json!Deallocate(p)
  BY <1>3, JsonDeallocate
<1>4. ASSUME NEW p \in DOMAIN held, NEW n \in Sizes, Json!Reallocate(p, n)
      PROVE  JsonInv' /\ (Json!Store!Next \/ UNCHANGED <<storage, used, held>>)
  <2>1. CASE Json!Deallocate(p)
    BY <2>1, JsonDeallocate
  <2>2. CASE Json!ShrinkNewest(p, n)
    BY <2>2, JsonShrinkNewest
  <2>3. CASE Json!Shrink(p, n)
    BY <2>3, JsonShrink
  <2>4. CASE Json!GrowNewest(p, n)
    BY <2>4, JsonGrowNewest
  <2>5. CASE Json!Move(p, n)
    BY <2>5, JsonMove
  <2>6. CASE Json!Refused
    BY <2>6, JsonUnchanged DEF Json!Refused
  <2> QED BY <1>4, <2>1, <2>2, <2>3, <2>4, <2>5, <2>6 DEF Json!Reallocate
<1>5. CASE \E p \in DOMAIN held : \E t \in Text : Json!Write(p, t)
  BY <1>5, JsonWrite
<1> QED BY <1>1, <1>2, <1>3, <1>4, <1>5 DEF Json!Next
--------------------------------------------------------------------------------
\* The same for ToolResultArena, where a block has its size in front of it, and what is
\* given up stays as it is until everything is.
ResultBlock(p) ==
    /\ p \in Nat \ {0} /\ held[p] \in Nat \ {0}
    /\ Result!Size(p) = held[p]
    /\ p + held[p] <= used

ResultInv ==
    /\ used \in 0 .. ResultCapacity
    /\ DOMAIN storage = Result!Offsets
    /\ \A p \in DOMAIN held : ResultBlock(p)
    /\ \A p, q \in DOMAIN held : p < q => p + held[p] < q

\* What the invariant says of the numbers in it.
LEMMA ResultTypes ==
    ASSUME ResultInv
    PROVE  /\ ResultCapacity \in Nat /\ used \in Nat /\ used <= ResultCapacity
           /\ DOMAIN storage = Result!Offsets
           /\ \A p \in DOMAIN held :
                 /\ p \in Nat /\ p > 0 /\ held[p] \in Nat /\ held[p] > 0
                 /\ Result!Size(p) = held[p] /\ p + held[p] <= used /\ p - 1 \in Result!Offsets
           /\ \A p, q \in DOMAIN held : p < q => p + held[p] < q
<1> USE ArenaAssumption DEF Result!ArenaAssumption
<1>1. /\ ResultCapacity \in Nat /\ used \in Nat /\ used <= ResultCapacity
      /\ DOMAIN storage = Result!Offsets
      /\ \A p, q \in DOMAIN held : p < q => p + held[p] < q
  BY DEF ResultInv
<1>2. ASSUME NEW p \in DOMAIN held
      PROVE  /\ p \in Nat /\ p > 0 /\ held[p] \in Nat /\ held[p] > 0
             /\ Result!Size(p) = held[p] /\ p + held[p] <= used /\ p - 1 \in Result!Offsets
  <2>1. /\ p \in Nat /\ p > 0 /\ held[p] \in Nat /\ held[p] > 0
        /\ Result!Size(p) = held[p] /\ p + held[p] <= used
    BY DEF ResultInv, ResultBlock
  <2> QED BY <1>1, <2>1 DEF Result!Offsets
<1> QED BY <1>1, <1>2

\* The places of two blocks that are held.
LEMMA ResultApart ==
    ASSUME ResultInv, NEW p \in DOMAIN held, NEW r \in DOMAIN held, r # p
    PROVE  /\ \/ r < p /\ r + held[r] < p
              \/ p < r /\ p + held[p] < r
           /\ p + held[p] = used => r < p /\ r + held[r] < p
<1>1. /\ p \in Nat /\ held[p] \in Nat /\ r \in Nat /\ held[r] \in Nat /\ held[r] > 0
      /\ r + held[r] <= used /\ used \in Nat
  BY ResultTypes
<1>2. (p < r => p + held[p] < r) /\ (r < p => r + held[r] < p)
  BY ResultTypes
<1> QED BY <1>1, <1>2

\* As JsonStep.
LEMMA ResultStep ==
    ASSUME ResultInv, NEW P, NEW Q,
           DOMAIN held' = ((DOMAIN held) \ P) \cup Q,
           used' \in 0 .. ResultCapacity, DOMAIN storage' = Result!Offsets,
           \A r \in (DOMAIN held) \ P :
              /\ r \notin Q /\ held'[r] = held[r] /\ storage'[r - 1] = storage[r - 1]
              /\ r + held[r] <= used',
           \A q, r \in Q : q = r,
           \A q \in Q :
              /\ q \in Nat \ {0} /\ held'[q] \in Nat \ {0}
              /\ storage'[q - 1] = [size |-> held'[q]] /\ q + held'[q] <= used',
           \A q \in Q : \A r \in (DOMAIN held) \ P :
              \/ r < q /\ r + held[r] < q
              \/ q < r /\ q + held'[q] < r
    PROVE  ResultInv'
<1>1. ASSUME NEW r \in (DOMAIN held) \ P
      PROVE  ResultBlock(r)'
  <2>1. ResultBlock(r)
    BY DEF ResultInv
  <2>2. Result!Size(r)' = Result!Size(r)
    BY DEF Result!Size
  <2> QED BY <2>1, <2>2 DEF ResultBlock
<1>2. ASSUME NEW q \in Q
      PROVE  ResultBlock(q)'
  <2>1. /\ q \in Nat \ {0} /\ held'[q] \in Nat \ {0} /\ q + held'[q] <= used'
        /\ storage'[q - 1] = [size |-> held'[q]]
    OBVIOUS
  <2>2. Result!Size(q)' = storage'[q - 1].size
    BY DEF Result!Size
  <2>3. Result!Size(q)' = held'[q]
    BY <2>1, <2>2
  <2> QED BY <2>1, <2>3 DEF ResultBlock
<1>3. \A p \in DOMAIN held' : ResultBlock(p)'
  BY <1>1, <1>2
<1>4. ASSUME NEW p \in DOMAIN held', NEW q \in DOMAIN held', p < q
      PROVE  p + held'[p] < q
  <2>1. CASE p \in Q /\ q \in Q
    <3>1. p = q /\ p \in Nat
      BY <2>1
    <3> QED BY <1>4, <3>1
  <2>2. CASE p \in (DOMAIN held) \ P /\ q \in (DOMAIN held) \ P
    <3>1. held'[p] = held[p]
      BY <2>2
    <3>2. p + held[p] < q
      BY <1>4, <2>2 DEF ResultInv
    <3> QED BY <3>1, <3>2
  <2>3. CASE p \in (DOMAIN held) \ P /\ q \in Q
    <3>1. held'[p] = held[p] /\ p \in Nat /\ q \in Nat
      BY <2>3, ResultTypes
    <3>2. (p < q /\ p + held[p] < q) \/ (q < p /\ q + held'[q] < p)
      BY <2>3
    <3> QED BY <1>4, <3>1, <3>2
  <2>4. CASE p \in Q /\ q \in (DOMAIN held) \ P
    <3>1. p \in Nat /\ q \in Nat
      BY <2>4, ResultTypes
    <3>2. (q < p /\ q + held[q] < p) \/ (p < q /\ p + held'[p] < q)
      BY <2>4
    <3> QED BY <1>4, <3>1, <3>2
  <2> QED BY <2>1, <2>2, <2>3, <2>4
<1> QED BY <1>3, <1>4 DEF ResultInv, Result!Offsets

\* What writing a size in front of a block does.
LEMMA SizedLemma ==
    ASSUME NEW p, p - 1 \in Result!Offsets, DOMAIN storage = Result!Offsets, NEW n
    PROVE  /\ DOMAIN Result!Sized(storage, p, n) = Result!Offsets
           /\ Result!Sized(storage, p, n)[p - 1] = [size |-> n]
           /\ \A i \in Result!Offsets \ {p - 1} : Result!Sized(storage, p, n)[i] = storage[i]
  BY DEF Result!Sized

\* The next block lies behind all of them.
LEMMA DataOffsetLemma ==
    ASSUME ResultInv, NEW n \in Sizes, Result!Fits(n)
    PROVE  /\ n \in Nat /\ n > 0 /\ Result!DataOffset \in Nat /\ Result!DataOffset > used
           /\ Result!DataOffset + n <= ResultCapacity /\ Result!DataOffset - 1 \in Result!Offsets
           /\ Result!DataOffset \notin DOMAIN held
           /\ \A r \in DOMAIN held : r < Result!DataOffset /\ r + held[r] < Result!DataOffset
<1>1. n \in Nat /\ n > 0 /\ Result!DataOffset + n <= ResultCapacity
  BY ArenaAssumption DEF Result!ArenaAssumption, Result!Fits
<1>2. used \in Nat /\ ResultCapacity \in Nat
  BY ResultTypes
<1>3. Result!DataOffset \in Nat /\ used + 1 <= Result!DataOffset
  <2>1. used + 1 \in Nat
    BY <1>2
  <2> QED BY <2>1, OffsetLemma DEF Result!DataOffset
<1>4. Result!DataOffset - 1 \in Result!Offsets
  BY <1>1, <1>2, <1>3 DEF Result!Offsets
<1>5. \A r \in DOMAIN held : r \in Nat /\ r < Result!DataOffset /\ r + held[r] < Result!DataOffset
  <2> TAKE r \in DOMAIN held
  <2>1. r \in Nat /\ held[r] \in Nat /\ r + held[r] <= used
    BY ResultTypes
  <2> QED BY <1>2, <1>3, <2>1
<1> QED BY <1>1, <1>2, <1>3, <1>4, <1>5

\* A new block lies behind all that are held.
LEMMA ResultAllocate ==
    ASSUME ResultInv, NEW n \in Sizes, Result!Allocate(n)
    PROVE  ResultInv' /\ Json!Store!Next
<1>0. PICK q : q = Result!DataOffset
  OBVIOUS
<1>1. /\ Result!Fits(n) /\ storage' = Result!Sized(storage, q, n) /\ used' = q + n
      /\ held' = [p \in (DOMAIN held) \cup {q} |-> IF p = q THEN n ELSE held[p]]
  BY <1>0 DEF Result!Allocate, Result!Holding
<1>2. /\ n \in Nat /\ n > 0 /\ q \in Nat /\ q > used /\ q + n <= ResultCapacity
      /\ q - 1 \in Result!Offsets /\ q \notin DOMAIN held
      /\ \A r \in DOMAIN held : r < q /\ r + held[r] < q
      /\ used \in Nat /\ ResultCapacity \in Nat /\ DOMAIN storage = Result!Offsets
  BY <1>0, <1>1, DataOffsetLemma, ResultTypes
<1>3. /\ DOMAIN storage' = Result!Offsets /\ storage'[q - 1] = [size |-> n]
      /\ \A i \in Result!Offsets \ {q - 1} : storage'[i] = storage[i]
  BY <1>1, <1>2, SizedLemma
<1>4. DOMAIN held' = (DOMAIN held) \cup {q} /\ held'[q] = n /\
          \A r \in DOMAIN held : held'[r] = held[r]
  BY <1>1, <1>2
<1>5. ASSUME NEW r \in DOMAIN held
      PROVE  /\ storage'[r - 1] = storage[r - 1] /\ r + held[r] <= used'
             /\ r \in Nat /\ held[r] \in Nat /\ Same(r)
  <2>1. /\ r \in Nat /\ r > 0 /\ held[r] \in Nat /\ held[r] > 0 /\ r + held[r] <= used
        /\ r - 1 \in Result!Offsets
    BY ResultTypes
  <2>2. \A i \in r - 1 .. r + held[r] - 1 : i \in Result!Offsets /\ i # q - 1
    BY <1>2, <2>1 DEF Result!Offsets
  <2>3. \A i \in r - 1 .. r + held[r] - 1 : storage'[i] = storage[i]
    BY <1>3, <2>2
  <2>4. r - 1 \in r - 1 .. r + held[r] - 1
        /\ \A i \in r .. r + held[r] - 1 : i \in r - 1 .. r + held[r] - 1
    BY <2>1
  <2>5. r + held[r] <= used'
    BY <1>1, <1>2, <2>1
  <2> QED BY <1>4, <2>1, <2>3, <2>4, <2>5 DEF Same
<1>6. ResultInv'
  <2> DEFINE P == {}
             Q == {q}
  <2>1. DOMAIN held' = ((DOMAIN held) \ P) \cup Q /\ used' \in 0 .. ResultCapacity
    BY <1>1, <1>2, <1>4
  <2>2. \A r \in (DOMAIN held) \ P :
           /\ r \notin Q /\ held'[r] = held[r] /\ storage'[r - 1] = storage[r - 1]
           /\ r + held[r] <= used'
    BY <1>2, <1>4, <1>5
  <2>3. \A x \in Q :
           /\ x \in Nat \ {0} /\ held'[x] \in Nat \ {0}
           /\ storage'[x - 1] = [size |-> held'[x]] /\ x + held'[x] <= used'
    BY <1>1, <1>2, <1>3, <1>4
  <2>4. \A x \in Q : \A r \in (DOMAIN held) \ P : r < x /\ r + held[r] < x
    BY <1>2
  <2>5. \A x, y \in Q : x = y
    OBVIOUS
  <2> HIDE DEF P, Q
  <2> QED BY <1>3, <2>1, <2>2, <2>3, <2>4, <2>5, ResultStep
<1>7. Json!Store!Next
  BY <1>2, <1>4, <1>5, AllocateLemma
<1> QED BY <1>6, <1>7

\* A block that changes its size where it is: the newest, or one that shrinks.
LEMMA ResultInPlace ==
    ASSUME ResultInv, NEW p \in DOMAIN held, NEW n \in Sizes, n > 0,
           \/ p + held[p] = used /\ used' = p + n /\ p + n <= ResultCapacity
           \/ n <= held[p] /\ used' = used,
           storage' = Result!Sized(storage, p, n), held' = [held EXCEPT ![p] = n]
    PROVE  ResultInv' /\ Json!Store!Next
<1>1. /\ ResultCapacity \in Nat /\ used \in Nat /\ used <= ResultCapacity /\ p \in Nat /\ p > 0
      /\ held[p] \in Nat /\ p + held[p] <= used /\ p - 1 \in Result!Offsets
      /\ DOMAIN storage = Result!Offsets
  BY ResultTypes
<1>2. n \in Nat
  BY ArenaAssumption DEF Result!ArenaAssumption
<1>3. used' \in Nat /\ used' <= ResultCapacity /\ p + n <= used'
  BY <1>1, <1>2
<1>4. /\ DOMAIN storage' = Result!Offsets /\ storage'[p - 1] = [size |-> n]
      /\ \A i \in Result!Offsets \ {p - 1} : storage'[i] = storage[i]
  BY <1>1, SizedLemma
<1>5. DOMAIN held' = DOMAIN held /\ held'[p] = n /\
          \A r \in (DOMAIN held) \ {p} : held'[r] = held[r]
  OBVIOUS
<1>6. ASSUME NEW r \in (DOMAIN held) \ {p}
      PROVE  /\ storage'[r - 1] = storage[r - 1] /\ r + held[r] <= used'
             /\ r \in Nat /\ held[r] \in Nat /\ Same(r)
             /\ \/ r < p /\ r + held[r] < p
                \/ p < r /\ p + n < r
  <2>1. /\ r \in Nat /\ r > 0 /\ held[r] \in Nat /\ held[r] > 0 /\ r + held[r] <= used
        /\ r - 1 \in Result!Offsets
    BY ResultTypes
  <2>2. /\ \/ r < p /\ r + held[r] < p
           \/ p < r /\ p + held[p] < r
        /\ p + held[p] = used => r < p /\ r + held[r] < p
    BY ResultApart
  <2>3. ASSUME NEW i \in r - 1 .. r + held[r] - 1
        PROVE  i \in Result!Offsets /\ i # p - 1
    <3>1. i \in Nat /\ r - 1 <= i /\ i < r + held[r]
      BY <2>1
    <3>2. i # p - 1
      BY <1>1, <2>1, <2>2, <3>1
    <3>3. i < ResultCapacity
      BY <1>1, <2>1, <3>1
    <3> QED BY <1>1, <3>1, <3>2, <3>3 DEF Result!Offsets
  <2>4. \A i \in r - 1 .. r + held[r] - 1 : storage'[i] = storage[i]
    BY <1>4, <2>3
  <2>5. r - 1 \in r - 1 .. r + held[r] - 1
        /\ \A i \in r .. r + held[r] - 1 : i \in r - 1 .. r + held[r] - 1
    BY <2>1
  <2>6. r + held[r] <= used'
    BY <1>1, <1>2, <1>3, <2>1, <2>2
  <2>7. \/ r < p /\ r + held[r] < p
        \/ p < r /\ p + n < r
    BY <1>1, <1>2, <2>1, <2>2
  <2> QED BY <1>5, <2>1, <2>4, <2>5, <2>6, <2>7 DEF Same
<1>7. ResultInv'
  <2> DEFINE P == {p}
             Q == {p}
  <2>1. DOMAIN held' = ((DOMAIN held) \ P) \cup Q /\ used' \in 0 .. ResultCapacity
    BY <1>1, <1>3, <1>5
  <2>2. \A r \in (DOMAIN held) \ P :
           /\ r \notin Q /\ held'[r] = held[r] /\ storage'[r - 1] = storage[r - 1]
           /\ r + held[r] <= used'
    BY <1>5, <1>6
  <2>3. \A x \in Q :
           /\ x \in Nat \ {0} /\ held'[x] \in Nat \ {0}
           /\ storage'[x - 1] = [size |-> held'[x]] /\ x + held'[x] <= used'
    BY <1>1, <1>2, <1>3, <1>4, <1>5
  <2>4. \A x \in Q : \A r \in (DOMAIN held) \ P :
           \/ r < x /\ r + held[r] < x
           \/ x < r /\ x + held'[x] < r
    BY <1>5, <1>6
  <2>5. \A x, y \in Q : x = y
    OBVIOUS
  <2> HIDE DEF P, Q
  <2> QED BY <1>4, <2>1, <2>2, <2>3, <2>4, <2>5, ResultStep
<1>8. Json!Store!Next
  <2>1. ASSUME NEW k \in 0 .. Json!Store!Shorter(n, held[p]) - 1
        PROVE  storage'[p + k] = storage[p + k]
    <3>1. k \in Nat /\ k < held[p]
      BY <1>1, <1>2 DEF Json!Store!Shorter
    <3>2. p + k \in Nat /\ p + k < ResultCapacity /\ p + k # p - 1
      BY <1>1, <3>1
    <3>3. p + k \in Result!Offsets
      BY <1>1, <3>2 DEF Result!Offsets
    <3> QED BY <1>4, <3>2, <3>3
  <2>2. DOMAIN held' = ((DOMAIN held) \ {p}) \cup {p}
    BY <1>5
  <2> QED BY <1>1, <1>2, <1>5, <1>6, <2>1, <2>2, ResizeLemma
<1> QED BY <1>7, <1>8

\* A block that is moved takes what is in it along; the old one stays as garbage.
LEMMA ResultMove ==
    ASSUME ResultInv, NEW p \in DOMAIN held, NEW n \in Sizes, Result!Move(p, n)
    PROVE  ResultInv' /\ Json!Store!Next
<1>0. PICK q : q = Result!DataOffset
  OBVIOUS
<1>a. PICK b : b = Result!Sized(storage, q, n)
  OBVIOUS
<1>1. /\ ResultCapacity \in Nat /\ used \in Nat /\ used <= ResultCapacity /\ p \in Nat /\ p > 0
      /\ held[p] \in Nat /\ p + held[p] <= used /\ Result!Size(p) = held[p]
      /\ DOMAIN storage = Result!Offsets
  BY ResultTypes
<1>2. /\ Result!Fits(n) /\ n > held[p] /\ used' = q + n
      /\ storage' = [i \in Result!Offsets |->
                        IF i \in q .. q + held[p] - 1 THEN b[p + i - q] ELSE b[i]]
      /\ held' = [x \in (DOMAIN held \ {p}) \cup {q} |-> IF x = q THEN n ELSE held[x]]
  BY <1>0, <1>1, <1>a DEF Result!Move, Result!Holding, Result!Forget
<1>3. /\ n \in Nat /\ n > 0 /\ q \in Nat /\ q > used /\ q + n <= ResultCapacity
      /\ q - 1 \in Result!Offsets /\ q \notin DOMAIN held
      /\ \A r \in DOMAIN held : r < q /\ r + held[r] < q
  BY <1>0, <1>2, DataOffsetLemma
<1>4. /\ b[q - 1] = [size |-> n]
      /\ \A i \in Result!Offsets \ {q - 1} : b[i] = storage[i]
  <2>1. q - 1 \in Result!Offsets /\ DOMAIN storage = Result!Offsets
    BY <1>1, <1>3
  <2> QED BY <1>a, <2>1, SizedLemma
<1>5. /\ DOMAIN storage' = Result!Offsets
      /\ \A i \in Result!Offsets : i < q => storage'[i] = b[i]
  <2>1. \A i \in Result!Offsets : i < q => i \notin q .. q + held[p] - 1
    BY <1>1, <1>3 DEF Result!Offsets
  <2> QED BY <1>2, <2>1
<1>6. storage'[q - 1] = [size |-> n] /\ \A i \in Result!Offsets : i < q - 1 =>
          storage'[i] = storage[i]
  <2>1. \A i \in Result!Offsets : i < q - 1 => i < q /\ i # q - 1
    BY <1>3 DEF Result!Offsets
  <2>2. q - 1 < q
    BY <1>3
  <2> QED BY <1>3, <1>4, <1>5, <2>1, <2>2
<1>7. /\ DOMAIN held' = ((DOMAIN held) \ {p}) \cup {q} /\ held'[q] = n
      /\ \A r \in (DOMAIN held) \ {p} : held'[r] = held[r]
  BY <1>2, <1>3
<1>8. ASSUME NEW r \in (DOMAIN held) \ {p}
      PROVE  /\ storage'[r - 1] = storage[r - 1] /\ r + held[r] <= used'
             /\ r \in Nat /\ held[r] \in Nat /\ Same(r)
  <2>1. /\ r \in Nat /\ r > 0 /\ held[r] \in Nat /\ held[r] > 0 /\ r + held[r] <= used
        /\ r - 1 \in Result!Offsets
    BY ResultTypes
  <2>2. \A i \in r - 1 .. r + held[r] - 1 : i \in Result!Offsets /\ i < q - 1
    BY <1>1, <1>3, <2>1 DEF Result!Offsets
  <2>3. \A i \in r - 1 .. r + held[r] - 1 : storage'[i] = storage[i]
    BY <1>6, <2>2
  <2>4. r - 1 \in r - 1 .. r + held[r] - 1
        /\ \A i \in r .. r + held[r] - 1 : i \in r - 1 .. r + held[r] - 1
    BY <2>1
  <2>5. r + held[r] <= used'
    BY <1>1, <1>2, <1>3, <2>1
  <2> QED BY <1>7, <2>1, <2>3, <2>4, <2>5 DEF Same
<1>9. ResultInv'
  <2> DEFINE P == {p}
             Q == {q}
  <2>1. DOMAIN held' = ((DOMAIN held) \ P) \cup Q /\ used' \in 0 .. ResultCapacity
    BY <1>1, <1>2, <1>3, <1>7
  <2>2. \A r \in (DOMAIN held) \ P :
           /\ r \notin Q /\ held'[r] = held[r] /\ storage'[r - 1] = storage[r - 1]
           /\ r + held[r] <= used'
    BY <1>3, <1>7, <1>8
  <2>3. \A x \in Q :
           /\ x \in Nat \ {0} /\ held'[x] \in Nat \ {0}
           /\ storage'[x - 1] = [size |-> held'[x]] /\ x + held'[x] <= used'
    BY <1>1, <1>2, <1>3, <1>6, <1>7
  <2>4. \A x \in Q : \A r \in (DOMAIN held) \ P : r < x /\ r + held[r] < x
    BY <1>3
  <2>5. \A x, y \in Q : x = y
    OBVIOUS
  <2> HIDE DEF P, Q
  <2> QED BY <1>5, <2>1, <2>2, <2>3, <2>4, <2>5, ResultStep
<1>10. Json!Store!Next
  <2>1. ASSUME NEW k \in 0 .. Json!Store!Shorter(n, held[p]) - 1
        PROVE  storage'[q + k] = storage[p + k]
    <3>1. k \in Nat /\ k < n /\ k < held[p]
      BY <1>1, <1>3 DEF Json!Store!Shorter
    <3>2. /\ q + k \in Nat /\ q + k < ResultCapacity /\ q + k \in q .. q + held[p] - 1
          /\ p + (q + k) - q = p + k /\ p + k \in Nat /\ p + k < used /\ p + k # q - 1
      BY <1>1, <1>3, <3>1
    <3>3. q + k \in Result!Offsets /\ p + k \in Result!Offsets
      BY <1>1, <3>2 DEF Result!Offsets
    <3>4. storage'[q + k] = b[p + k]
      BY <1>2, <3>2, <3>3
    <3> QED BY <1>4, <3>2, <3>3, <3>4
  <2> QED BY <1>1, <1>3, <1>7, <1>8, <2>1, ResizeLemma
<1> QED BY <1>9, <1>10

\* What the document writes stays inside of its block.
LEMMA ResultWrite ==
    ASSUME ResultInv, NEW p \in DOMAIN held, NEW t \in Text, Result!Write(p, t)
    PROVE  ResultInv' /\ Json!Store!Next
<1>1. /\ ResultCapacity \in Nat /\ used \in Nat /\ used <= ResultCapacity /\ p \in Nat /\ p > 0
      /\ held[p] \in Nat /\ p + held[p] <= used
  BY ResultTypes
<1>2. /\ used' = used /\ held' = held /\ DOMAIN storage' = Result!Offsets
      /\ \A i \in Result!Offsets : storage'[i] = IF i \in p .. p + held[p] - 1
             THEN t ELSE storage[i]
  BY DEF Result!Write
<1>3. ASSUME NEW r \in DOMAIN held
      PROVE  /\ storage'[r - 1] = storage[r - 1]
             /\ r \in Nat /\ held[r] \in Nat /\ r + held[r] <= used
             /\ r # p => Same(r)
  <2>1. /\ r \in Nat /\ r > 0 /\ held[r] \in Nat /\ held[r] > 0 /\ r + held[r] <= used
        /\ r - 1 \in Result!Offsets
    BY ResultTypes
  <2>2. r # p => \/ r < p /\ r + held[r] < p
                 \/ p < r /\ p + held[p] < r
    BY ResultApart
  <2>3. r - 1 \notin p .. p + held[p] - 1
    BY <1>1, <2>1, <2>2
  <2>4. ASSUME r # p
        PROVE  Same(r)
    <3>1. \A i \in r .. r + held[r] - 1 : i \in Result!Offsets /\ i \notin p .. p + held[p] - 1
      BY <1>1, <2>1, <2>2, <2>4 DEF Result!Offsets
    <3> QED BY <1>2, <3>1 DEF Same
  <2> QED BY <1>2, <2>1, <2>3, <2>4
<1>4. ResultInv'
  <2> DEFINE P == {}
             Q == {}
  <2>1. DOMAIN held' = ((DOMAIN held) \ P) \cup Q /\ used' \in 0 .. ResultCapacity
    BY <1>1, <1>2
  <2>2. \A r \in (DOMAIN held) \ P :
           /\ r \notin Q /\ held'[r] = held[r] /\ storage'[r - 1] = storage[r - 1]
           /\ r + held[r] <= used'
    BY <1>2, <1>3
  <2>3. Q = {}
    OBVIOUS
  <2> HIDE DEF P, Q
  <2> QED BY <1>2, <2>1, <2>2, <2>3, ResultStep
<1>5. Json!Store!Next
  BY <1>1, <1>2, <1>3, WriteLemma
<1> QED BY <1>4, <1>5

\* A block that is given up, or all of them.
LEMMA ResultFree ==
    ASSUME ResultInv, NEW P \in SUBSET DOMAIN held, used' \in 0 .. ResultCapacity,
           \A r \in (DOMAIN held) \ P : r + held[r] <= used',
           held' = [q \in (DOMAIN held) \ P |-> held[q]], storage' = storage
    PROVE  ResultInv' /\ Json!Store!Next
<1>1. DOMAIN held' = (DOMAIN held) \ P /\ \A r \in (DOMAIN held) \ P : held'[r] = held[r]
  OBVIOUS
<1>2. \A r \in (DOMAIN held) \ P : r \in Nat /\ held[r] \in Nat /\ Same(r)
  BY <1>1, ResultTypes DEF Same
<1>3. ResultInv'
  <2> DEFINE Q == {}
  <2>1. DOMAIN held' = ((DOMAIN held) \ P) \cup Q /\ DOMAIN storage' = Result!Offsets
    BY <1>1, ResultTypes
  <2>2. \A r \in (DOMAIN held) \ P :
           /\ r \notin Q /\ held'[r] = held[r] /\ storage'[r - 1] = storage[r - 1]
           /\ r + held[r] <= used'
    BY <1>1
  <2>3. Q = {}
    OBVIOUS
  <2> HIDE DEF Q
  <2> QED BY <2>1, <2>2, <2>3, ResultStep
<1>4. Json!Store!Next
  BY <1>1, <1>2, FreeLemma
<1> QED BY <1>3, <1>4

\* Every step of the arena keeps the invariant and is one of BlockStore.
LEMMA ResultNext ==
    ASSUME ResultInv, Result!Next
    PROVE  ResultInv' /\ Json!Store!Next
<1> USE DEF Result!vars
<1>1. CASE Result!Reset
  <2>1. held' = << >> /\ used' = 0 /\ storage' = storage /\ ResultCapacity \in Nat
    BY <1>1, ResultTypes DEF Result!Reset
  <2>2. DOMAIN held \in SUBSET DOMAIN held /\ (DOMAIN held) \ (DOMAIN held) = {}
    OBVIOUS
  <2>3. held' = [q \in (DOMAIN held) \ (DOMAIN held) |-> held[q]]
    BY <2>1
  <2> QED BY <2>1, <2>2, <2>3, ResultFree
<1>2. CASE \E n \in Sizes : Result!Allocate(n)
  BY <1>2, ResultAllocate
<1>3. ASSUME NEW p \in DOMAIN held, Result!Deallocate(p)
      PROVE  ResultInv' /\ Json!Store!Next
  <2>1. held' = [q \in (DOMAIN held) \ {p} |-> held[q]] /\ storage' = storage /\ used' = used
    BY <1>3 DEF Result!Deallocate, Result!Forget
  <2>2. used' \in 0 .. ResultCapacity /\ \A r \in (DOMAIN held) \ {p} : r + held[r] <= used'
    BY <2>1, ResultTypes
  <2> QED BY <2>1, <2>2, ResultFree
<1>4. ASSUME NEW p \in DOMAIN held, NEW n \in Sizes, Result!ResizeNewest(p, n)
      PROVE  ResultInv' /\ Json!Store!Next
  <2>1. /\ n > 0 /\ p + held[p] = used /\ p + n <= ResultCapacity /\ used' = p + n
        /\ storage' = Result!Sized(storage, p, n) /\ held' = [held EXCEPT ![p] = n]
    BY <1>4, ResultTypes DEF Result!ResizeNewest, Result!Newest
  <2> QED BY <2>1, ResultInPlace
<1>5. ASSUME NEW p \in DOMAIN held, NEW n \in Sizes, Result!Shrink(p, n)
      PROVE  ResultInv' /\ Json!Store!Next
  <2>1. /\ n > 0 /\ n <= held[p] /\ used' = used
        /\ storage' = Result!Sized(storage, p, n) /\ held' = [held EXCEPT ![p] = n]
    BY <1>5, ResultTypes DEF Result!Shrink
  <2> QED BY <2>1, ResultInPlace
<1>6. CASE \E p \in DOMAIN held : \E n \in Sizes : Result!Move(p, n)
  BY <1>6, ResultMove
<1>7. CASE \E p \in DOMAIN held : \E t \in Text : Result!Write(p, t)
  BY <1>7, ResultWrite
<1> QED BY <1>1, <1>2, <1>3, <1>4, <1>5, <1>6, <1>7 DEF Result!Next
--------------------------------------------------------------------------------
\* The invariant of whichever arena the behaviour is about.
ArenaInv ==
    /\ part = "json arena" => JsonInv
    /\ part = "result arena" => ResultInv

LEMMA JsonInitLemma == Json!Init => JsonInv
<1> SUFFICES ASSUME Json!Init PROVE JsonInv
  OBVIOUS
<1>1. /\ storage = [i \in Json!Offsets |-> Zero] /\ used = 0 /\ held = << >>
  BY DEF Json!Init
<1>2. DOMAIN held = {}
  BY <1>1
<1>3. Json!NothingLeftBehind
  BY <1>1, NotText DEF Json!NothingLeftBehind
<1>4. used \in 0 .. JsonCapacity /\ DOMAIN storage = Json!Offsets
  BY <1>1, ArenaAssumption DEF Json!ArenaAssumption
<1> QED BY <1>2, <1>3, <1>4 DEF JsonInv

LEMMA ResultInitLemma == Result!Init => ResultInv
<1> SUFFICES ASSUME Result!Init PROVE ResultInv
  OBVIOUS
<1>1. /\ storage = [i \in Result!Offsets |-> Zero] /\ used = 0 /\ held = << >>
  BY DEF Result!Init
<1>2. DOMAIN held = {}
  BY <1>1
<1>3. used \in 0 .. ResultCapacity /\ DOMAIN storage = Result!Offsets
  BY <1>1, ArenaAssumption DEF Result!ArenaAssumption
<1> QED BY <1>2, <1>3 DEF ResultInv

\* A document that holds nothing.
LEMMA EmptyLemma ==
    ASSUME held = << >>
    PROVE  Json!Store!Init
  BY DEF Json!Store!Init

LEMMA ArenaInitLemma == MCInit => ArenaInv /\ Json!Store!Init
<1> SUFFICES ASSUME MCInit PROVE ArenaInv /\ Json!Store!Init
  OBVIOUS
<1>1. CASE part \in {"item ring", "byte ring", "json arena", "frame buffer"} /\ Json!Init
  <2>1. JsonInv /\ part # "result arena"
    BY <1>1, JsonInitLemma
  <2>2. held = << >>
    BY <1>1 DEF Json!Init
  <2> QED BY <2>1, <2>2, EmptyLemma DEF ArenaInv
<1>2. CASE part = "result arena" /\ Result!Init
  <2>1. ResultInv /\ part # "json arena"
    BY <1>2, ResultInitLemma
  <2>2. held = << >>
    BY <1>2 DEF Result!Init
  <2> QED BY <2>1, <2>2, EmptyLemma DEF ArenaInv
<1> QED BY <1>1, <1>2 DEF MCInit

LEMMA ArenaNextLemma ==
    ASSUME ArenaInv, [MCNext]_mcVars
    PROVE  ArenaInv' /\ (Json!Store!Next \/ UNCHANGED <<storage, used, held>>)
<1> USE DEF mcVars, arenaVars
<1>1. ASSUME UNCHANGED part, UNCHANGED <<storage, used, held>>
      PROVE  ArenaInv'
  <2>1. part = "json arena" => JsonInv'
    BY <1>1, JsonUnchanged DEF ArenaInv
  <2>2. ASSUME part = "result arena"
        PROVE  ResultInv'
    <3>1. ResultInv /\ storage' = storage /\ used' = used /\ held' = held
      BY <1>1, <2>2 DEF ArenaInv
    <3> QED BY <3>1 DEF ResultInv, ResultBlock, Result!Size
  <2> QED BY <1>1, <2>1, <2>2 DEF ArenaInv
<1>2. CASE part = "json arena" /\ Json!Next /\ UNCHANGED <<part, vars, byteVars, frameVars>>
  <2>1. JsonInv' /\ (Json!Store!Next \/ UNCHANGED <<storage, used, held>>)
    BY <1>2, JsonNext DEF ArenaInv
  <2> QED BY <1>2, <2>1 DEF ArenaInv
<1>3. CASE /\ part = "result arena" /\ Result!Next
           /\ UNCHANGED <<part, vars, byteVars, overflowed, frameVars>>
  <2>1. ResultInv' /\ Json!Store!Next
    BY <1>3, ResultNext DEF ArenaInv
  <2> QED BY <1>3, <2>1 DEF ArenaInv
<1>4. CASE UNCHANGED part /\ UNCHANGED arenaVars
  BY <1>1, <1>4
<1> QED BY <1>2, <1>3, <1>4 DEF MCNext

LEMMA ArenaInvariance == MCSpec => []ArenaInv
<1>1. MCInit => ArenaInv
  BY ArenaInitLemma
<1>2. ArenaInv /\ [MCNext]_mcVars => ArenaInv'
  BY ArenaNextLemma
<1> QED BY <1>1, <1>2, PTL DEF MCSpec

\* NothingLeftBehind, for every size of the arena and of its blocks: what was written
\* to a block of a request is in blocks that are held and nowhere else.
THEOREM ReleasedIsWiped == MCSpec => []NothingLeftBehind
<1>1. ArenaInv => NothingLeftBehind
  BY DEF ArenaInv, JsonInv, NothingLeftBehind
<1> QED BY <1>1, ArenaInvariance, PTL

\* ImplementsBlockStore, for both arenas: a block that is held is its own.
THEOREM ArenasImplementBlockStore == MCSpec => ImplementsBlockStore
<1> DEFINE blocks == [p \in DOMAIN held |-> [i \in 1 .. held[p] |-> storage[p + i - 1]]]
<1>1. MCInit => Json!Store!Init
  BY ArenaInitLemma
<1>2. ArenaInv /\ [MCNext]_mcVars => [Json!Store!Next]_blocks
  <2> SUFFICES ASSUME ArenaInv, [MCNext]_mcVars PROVE [Json!Store!Next]_blocks
    OBVIOUS
  <2>1. Json!Store!Next \/ UNCHANGED <<storage, used, held>>
    BY ArenaNextLemma
  <2> QED BY <2>1
<1>3. Json!Store!Init => Result!Store!Init
  BY DEF Json!Store!Init, Result!Store!Init
<1>4. Json!Store!Next => Result!Store!Next
  BY DEF Json!Store!Next, Json!Store!Allocate, Json!Store!Resize, Json!Store!Free, Json!Store!Write,
         Json!Store!KeepsAllBut, Json!Store!Held, Json!Store!Shorter,
         Result!Store!Next, Result!Store!Allocate, Result!Store!Resize, Result!Store!Free,
         Result!Store!Write, Result!Store!KeepsAllBut, Result!Store!Held, Result!Store!Shorter
<1>5. MCSpec => Json!Store!Spec
  BY <1>1, <1>2, ArenaInvariance, PTL DEF MCSpec, Json!Store!Spec
<1>6. MCSpec => Result!Store!Spec
  BY <1>1, <1>2, <1>3, <1>4, ArenaInvariance, PTL DEF MCSpec, Result!Store!Spec
<1> QED BY <1>5, <1>6 DEF ImplementsBlockStore, Json!ImplementsBlockStore,
        Result!ImplementsBlockStore
--------------------------------------------------------------------------------
(***************************************************************************)
(* The byte ring.  What is stored is a sequence of bytes that is cut into   *)
(* records; a few lemmas about such sequences, by induction from the end,   *)
(* say what a byte more or a record less does to the records.  The rest     *)
(* follows the two tasks from step to step.                                 *)
(***************************************************************************)

\* A set of numbers has a least one.
LEMMA LeastLemma ==
    ASSUME NEW S, S \subseteq Nat, S # {}
    PROVE  \E least \in S : \A y \in S : least <= y
<1> DEFINE R == OpToRel(<, Nat)
<1>1. IsWellFoundedOn(R, Nat)
    BY NatLessThanWellFounded
<1>2. \A x, y \in Nat : y < x => <<y, x>> \in R
    BY DEF OpToRel
<1> HIDE DEF R
<1>3. PICK x \in S : \A y \in S : ~(<<y, x>> \in R)
    BY <1>1, WFMin, Zenon
<1>4. \A y \in S : ~(y < x)
    BY <1>2, <1>3
<1> QED
    BY <1>4

\* Induction downwards, for a set that is closed under the number before.
LEMMA DownLemma ==
    ASSUME NEW S, S \subseteq Nat, S # {}, \A m \in Nat : m + 1 \in S => m \in S
    PROVE  0 \in S
<1>1. PICK m \in S : \A y \in S : m <= y
    BY LeastLemma
<1>2. m > 0 => m - 1 \in Nat /\ (m - 1) + 1 = m
    OBVIOUS
<1>3. ~(m > 0)
    BY <1>1, <1>2
<1> QED
    BY <1>3

\* Records as a function of the bytes from tail_ on: the length that starts at the
\* i-th byte, where the next record starts, and the bytes of this one.
LengthIn(b, i) == 256 * b[i] + b[i + 1]
After(b, i) == i + 2 + LengthIn(b, i)
RecordIn(b, i) == [j \in 1 .. LengthIn(b, i) |-> b[i + 2 + j - 1]]
Parsed(f, b, u, i) == IF i >= u THEN <<>> ELSE <<RecordIn(b, i)>> \o f[After(b, i)]
Parses(f, b, u) == f = [i \in Nat |-> Parsed(f, b, u, i)]
RecordSeq == Seq(Seq(Nat))

\* A function on the first n numbers is a sequence of length n.
LEMMA FunctionSeq ==
    ASSUME NEW n \in Nat, NEW S, NEW f \in [1 .. n -> S]
    PROVE  f \in Seq(S) /\ Len(f) = n
  OBVIOUS

LEMMA RecordSeqAssociative ==
    ASSUME NEW s \in RecordSeq, NEW t \in RecordSeq, NEW w \in RecordSeq
    PROVE  (s \o t) \o w = s \o (t \o w)
<1> DEFINE S == Seq(Nat)
<1>1. s \in Seq(S) /\ t \in Seq(S) /\ w \in Seq(S)
    BY DEF RecordSeq
<1> HIDE DEF S
<1> QED
    BY <1>1, ConcatAssociative, SMTT(30)

LEMMA RecordLemma ==
    ASSUME NEW b \in [Nat -> Nat], NEW i \in Nat
    PROVE  /\ LengthIn(b, i) \in Nat /\ After(b, i) \in Nat /\ After(b, i) > i + 1
           /\ RecordIn(b, i) \in Seq(Nat) /\ Len(RecordIn(b, i)) = LengthIn(b, i)
<1>1. b[i] \in Nat /\ b[i + 1] \in Nat
    OBVIOUS
<1>2. LengthIn(b, i) \in Nat /\ After(b, i) \in Nat /\ After(b, i) > i + 1
    BY <1>1 DEF LengthIn, After
<1>3. \A j \in 1 .. LengthIn(b, i) : i + 2 + j - 1 \in Nat
    BY <1>2
<1>4. RecordIn(b, i) \in [1 .. LengthIn(b, i) -> Nat]
    BY <1>3 DEF RecordIn
<1>5. LengthIn(b, i) \in Nat
    BY <1>2
<1>6. RecordIn(b, i) \in Seq(Nat) /\ Len(RecordIn(b, i)) = LengthIn(b, i)
    BY <1>4, <1>5, FunctionSeq
<1> QED
    BY <1>2, <1>6

LEMMA ParsedType ==
    ASSUME NEW b \in [Nat -> Nat], NEW u \in Nat, NEW f, NEW i \in Nat,
           i < u => f[After(b, i)] \in RecordSeq
    PROVE  Parsed(f, b, u, i) \in RecordSeq
<1>1. CASE i >= u
    BY <1>1 DEF Parsed, RecordSeq
<1>2. CASE ~(i >= u)
  <2>1. f[After(b, i)] \in RecordSeq
    BY <1>2
  <2>2. <<RecordIn(b, i)>> \in RecordSeq
    BY RecordLemma DEF RecordSeq
  <2>3. <<RecordIn(b, i)>> \o f[After(b, i)] \in RecordSeq
    BY <2>1, <2>2, ConcatProperties DEF RecordSeq
  <2> QED
    BY <1>2, <2>3 DEF Parsed
<1> QED
    BY <1>1, <1>2

\* Every sequence of bytes is a sequence of records in one way.
LEMMA ParseExists ==
    ASSUME NEW b \in [Nat -> Nat], NEW u \in Nat
    PROVE  \E f : Parses(f, b, u)
<1> DEFINE Down(f, m) == \A i \in Nat : i >= m => f[i] = Parsed(f, b, u, i)
           S == {m \in Nat : \E f \in [Nat -> RecordSeq] : Down(f, m)}
<1>1. S # {}
  <2> DEFINE f == [i \in Nat |-> <<>>]
  <2>1. f \in [Nat -> RecordSeq]
    BY DEF RecordSeq
  <2>2. Down(f, u)
    BY DEF Parsed
  <2> QED
    BY <2>1, <2>2
<1>2. ASSUME NEW n \in Nat, n + 1 \in S
      PROVE  n \in S
  <2>1. PICK f \in [Nat -> RecordSeq] : Down(f, n + 1)
    BY <1>2
  <2> DEFINE g == [f EXCEPT ![n] = Parsed(f, b, u, n)]
  <2>3. \A i \in Nat : After(b, i) \in Nat /\ After(b, i) > i + 1
    BY RecordLemma
  <2>4. Parsed(f, b, u, n) \in RecordSeq
    BY <2>3, ParsedType
  <2>5. g \in [Nat -> RecordSeq]
    BY <2>4
  <2>7. g[n] = Parsed(f, b, u, n) /\ \A i \in Nat : i # n => g[i] = f[i]
    BY <2>4
  <2> HIDE DEF g
  <2>6. ASSUME NEW i \in Nat, i >= n
        PROVE  g[i] = Parsed(g, b, u, i)
    <3>1. g[After(b, i)] = f[After(b, i)]
      <4>1. After(b, i) \in Nat /\ After(b, i) # n
        BY <2>3, <2>6
      <4> QED
        BY <2>7, <4>1
    <3>2. Parsed(g, b, u, i) = Parsed(f, b, u, i)
      BY <3>1, Zenon DEF Parsed
    <3>3. CASE i = n
      BY <2>7, <3>2, <3>3
    <3>4. CASE i # n
      <4>1. i >= n + 1
        BY <2>6, <3>4
      <4>2. f[i] = Parsed(f, b, u, i) /\ g[i] = f[i]
        BY <2>1, <2>7, <3>4, <4>1
      <4> QED
        BY <3>2, <4>2
    <3> QED
      BY <3>3, <3>4
  <2> QED
    BY <2>5, <2>6
<1>3. 0 \in S
  <2> HIDE DEF S
  <2>1. S \subseteq Nat
    BY DEF S
  <2> QED
    BY <1>1, <1>2, <2>1, DownLemma
<1>4. PICK f \in [Nat -> RecordSeq] : Down(f, 0)
    BY <1>3
<1>5. f = [i \in Nat |-> Parsed(f, b, u, i)]
    BY <1>4
<1> QED
    BY <1>5 DEF Parses

LEMMA ParseType ==
    ASSUME NEW b \in [Nat -> Nat], NEW u \in Nat, NEW f, Parses(f, b, u)
    PROVE  /\ f \in [Nat -> RecordSeq]
           /\ \A i \in Nat : f[i] = Parsed(f, b, u, i)
<1> DEFINE S == {m \in Nat : \A i \in Nat : i >= m => f[i] \in RecordSeq}
<1>1. /\ f = [i \in Nat |-> f[i]]
      /\ \A i \in Nat : f[i] = Parsed(f, b, u, i)
    BY DEF Parses
<1>2. u \in S
  <2>1. \A i \in Nat : i >= u => f[i] = <<>>
    BY <1>1 DEF Parsed
  <2>2. <<>> \in RecordSeq
    BY DEF RecordSeq
  <2> QED
    BY <2>1, <2>2
<1>3. ASSUME NEW n \in Nat, n + 1 \in S
      PROVE  n \in S
  <2>3. After(b, n) \in Nat /\ After(b, n) >= n + 1
    <3>1. After(b, n) \in Nat /\ After(b, n) > n + 1
      BY RecordLemma
    <3> QED
      BY <3>1
  <2>4. f[After(b, n)] \in RecordSeq
    BY <1>3, <2>3
  <2>5. f[n] \in RecordSeq
    BY <1>1, <2>4, ParsedType
  <2>6. \A i \in Nat : i >= n => i = n \/ i >= n + 1
    OBVIOUS
  <2> QED
    BY <1>3, <2>5, <2>6
<1>4. 0 \in S
  <2> HIDE DEF S
  <2>1. S \subseteq Nat
    BY DEF S
  <2> QED
    BY <1>2, <1>3, <2>1, DownLemma
<1>5. \A i \in Nat : f[i] \in RecordSeq
    BY <1>4
<1> QED
    BY <1>1, <1>5

\* P is where records start, and their end.
Layout(P, b, u) ==
    /\ 0 \in P /\ P \subseteq 0 .. u
    /\ \A i \in P : i < u => After(b, i) \in P

Joined(s, t) == s \o t

\* c holds the bytes of b from the d-th one on.
Follows(c, v, b, u, d) == v >= u - d /\ \A i \in d .. u - 1 : c[i - d] = b[i]

\* f reads b, g reads c, and c holds what b does from the record at the d-th byte on.
Shifted(f, b, u, g, c, v, P, d) ==
    /\ b \in [Nat -> Nat] /\ u \in Nat /\ Parses(f, b, u)
    /\ c \in [Nat -> Nat] /\ v \in Nat /\ Parses(g, c, v)
    /\ Layout(P, b, u) /\ d \in P /\ Follows(c, v, b, u, d)

\* What follows from the d-th byte on is read the same, followed by what is behind.
LEMMA ShiftLemma ==
    ASSUME NEW f, NEW b, NEW u, NEW g, NEW c, NEW v, NEW P, NEW d,
           Shifted(f, b, u, g, c, v, P, d)
    PROVE  \A i \in P : i >= d => g[i - d] = Joined(f[i], g[u - d])
<1> SUFFICES ASSUME b \in [Nat -> Nat], u \in Nat, Parses(f, b, u),
                    c \in [Nat -> Nat], v \in Nat, Parses(g, c, v),
                    Layout(P, b, u), d \in P, Follows(c, v, b, u, d)
             PROVE  \A i \in P : i >= d => g[i - d] = Joined(f[i], g[u - d])
    BY DEF Shifted
<1> DEFINE Claim(i) == g[i - d] = Joined(f[i], g[u - d])
           S == {m \in Nat : \A i \in P : i >= d /\ i >= m => Claim(i)}
<1>1. /\ f \in [Nat -> RecordSeq] /\ g \in [Nat -> RecordSeq]
      /\ \A i \in Nat : f[i] = Parsed(f, b, u, i) /\ g[i] = Parsed(g, c, v, i)
    BY ParseType
<1>2. d \in Nat /\ d <= u /\ u - d \in Nat /\ \A i \in P : i \in Nat /\ i <= u
    BY DEF Layout
<1>0. v >= u - d /\ \A i \in d .. u - 1 : c[i - d] = b[i]
    BY DEF Follows
<1>3. Claim(u)
  <2>1. f[u] = <<>>
    BY <1>1, u >= u DEF Parsed
  <2>2. g[u - d] \in RecordSeq
    BY <1>1, <1>2
  <2> QED
    BY <2>1, <2>2, ConcatEmptySeq DEF RecordSeq, Joined
<1>4. ASSUME NEW n \in P, n >= d, n < u, Claim(After(b, n))
      PROVE  Claim(n)
    <3> DEFINE k == After(b, n)
    <3>a. n \in Nat
      BY <1>2
    <3>1. k \in P /\ k \in Nat /\ k <= u /\ n + 1 < k /\ k = n + 2 + LengthIn(b, n)
      <4>1. k \in P
        BY <1>4 DEF Layout
      <4> QED
        BY <1>2, <3>a, <4>1, RecordLemma DEF After
    <3>2. g[k - d] = f[k] \o g[u - d]
      BY <1>4 DEF Joined
    <3>b. LengthIn(b, n) \in Nat
      BY <3>a, RecordLemma
    <3> HIDE DEF k
    <3>3. c[n - d] = b[n] /\ c[n - d + 1] = b[n + 1]
      <4>1. n \in d .. u - 1 /\ n + 1 \in d .. u - 1 /\ (n + 1) - d = n - d + 1
        BY <1>2, <1>4, <3>a, <3>1
      <4> QED
        BY <1>0, <4>1
    <3>4. LengthIn(c, n - d) = LengthIn(b, n)
      BY <3>3 DEF LengthIn
    <3>5. After(c, n - d) = k - d
      BY <1>2, <1>4, <3>a, <3>b, <3>1, <3>4 DEF After
    <3>6. RecordIn(c, n - d) = RecordIn(b, n)
      <4>1. ASSUME NEW j \in 1 .. LengthIn(b, n)
            PROVE  c[n - d + 2 + j - 1] = b[n + 2 + j - 1]
        <5>1. /\ n + 2 + j - 1 \in d .. u - 1
              /\ (n + 2 + j - 1) - d = n - d + 2 + j - 1
          <6>1. j \in Nat /\ 1 <= j /\ n + 2 + j <= k
            BY <3>a, <3>b, <3>1
          <6> QED
            BY <1>2, <1>4, <3>a, <3>1, <6>1
        <5> QED
          BY <1>0, <5>1
      <4> QED
        BY <3>4, <4>1, Zenon DEF RecordIn
    <3>7. n - d \in Nat /\ n - d < v
      BY <1>0, <1>2, <1>4, <3>a
    <3>8. g[n - d] = <<RecordIn(b, n)>> \o g[k - d]
      <4>1. ~(n - d >= v) /\ g[n - d] = Parsed(g, c, v, n - d)
        BY <1>1, <3>7
      <4> QED
        BY <3>5, <3>6, <4>1, Zenon DEF Parsed
    <3>9. f[n] = <<RecordIn(b, n)>> \o f[k]
      <4>1. ~(n >= u) /\ f[n] = Parsed(f, b, u, n)
        BY <1>1, <1>2, <1>4, <3>a
      <4> QED
        BY <4>1, Zenon DEF Parsed, k
    <3>10. /\ <<RecordIn(b, n)>> \in RecordSeq /\ f[k] \in RecordSeq
           /\ g[u - d] \in RecordSeq
      <4>1. RecordIn(b, n) \in Seq(Nat)
        BY <3>a, RecordLemma
      <4> QED
        BY <1>1, <1>2, <3>1, <4>1 DEF RecordSeq
    <3>11. (<<RecordIn(b, n)>> \o f[k]) \o g[u - d] = <<RecordIn(b, n)>> \o (f[k] \o g[u - d])
      BY <3>10, RecordSeqAssociative
    <3> QED
      BY <3>2, <3>8, <3>9, <3>11, Zenon DEF Joined
<1>5. ASSUME NEW n \in Nat, n + 1 \in S
      PROVE  n \in S
  <2> SUFFICES ASSUME NEW i \in P, i >= d, i >= n
               PROVE  Claim(i)
    BY DEF S
  <2>1. \A j \in P : j >= d /\ j >= n + 1 => Claim(j)
    BY <1>5 DEF S
  <2> HIDE DEF S, Claim
  <2>2. i \in Nat /\ i <= u
    BY <1>2
  <2>3. CASE i >= n + 1
    BY <2>1, <2>3
  <2>4. CASE i = u
    BY <1>3, <2>4
  <2>5. CASE i = n /\ i < u
    <3>1. After(b, i) \in P
      BY <2>5 DEF Layout
    <3>2. After(b, i) >= i + 1
      <4>1. After(b, i) \in Nat /\ After(b, i) > i + 1
        BY <2>2, RecordLemma
      <4> QED
        BY <2>2, <4>1
    <3>3. After(b, i) >= d /\ After(b, i) >= n + 1
      <4>1. After(b, i) \in Nat
        BY <2>2, RecordLemma
      <4> QED
        BY <1>2, <2>2, <2>5, <3>2, <4>1
    <3> QED
      BY <1>4, <2>1, <2>5, <3>1, <3>3
  <2> QED
    BY <2>2, <2>3, <2>4, <2>5
<1>6. u \in S
  <2>1. \A i \in P : i >= u => i = u
    BY <1>2
  <2> HIDE DEF Claim
  <2> QED
    BY <1>3, <2>1
<1>7. 0 \in S
  <2> HIDE DEF S
  <2>1. S \subseteq Nat
    BY DEF S
  <2> QED
    BY <1>5, <1>6, <2>1, DownLemma
<1> HIDE DEF Claim
<1>8. \A i \in P : i >= d => Claim(i)
    BY <1>2, <1>7
<1> QED
    BY <1>8 DEF Claim

\* The bytes from tail_ on, as often round the ring as needed.
View == [i \in Nat |-> ByteRing!Byte(i)]

LEMMA ContentParsed ==
    ASSUME View \in [Nat -> Nat], ByteRing!Used \in Nat
    PROVE  Parses(ByteRing!RecordsFrom, View, ByteRing!Used)
<1> DEFINE u == ByteRing!Used
           Body(h, i) == IF i >= u THEN <<>>
                         ELSE <<[j \in 1 .. ByteRing!LengthAt(i) |->
                                     ByteRing!Byte(i + ByteRing!kPrefix + j - 1)]>>
                                \o h[i + ByteRing!kPrefix + ByteRing!LengthAt(i)]
<1>1. PICK f : Parses(f, View, u)
    BY ParseExists
<1>2. ASSUME NEW h, NEW i \in Nat
      PROVE  Parsed(h, View, u, i) = Body(h, i)
  <2>1. View[i] = ByteRing!Byte(i) /\ View[i + 1] = ByteRing!Byte(i + 1)
    BY DEF View
  <2>2. LengthIn(View, i) = ByteRing!LengthAt(i) /\ ByteRing!LengthAt(i) \in Nat
    <3>1. LengthIn(View, i) = ByteRing!LengthAt(i)
      BY <2>1, Zenon DEF LengthIn, ByteRing!LengthAt
    <3>2. LengthIn(View, i) \in Nat
      BY RecordLemma
    <3> QED
      BY <3>1, <3>2, Zenon
  <2>3. After(View, i) = i + ByteRing!kPrefix + ByteRing!LengthAt(i)
    BY <2>2 DEF After, ByteRing!kPrefix
  <2>4. ASSUME NEW j \in 1 .. ByteRing!LengthAt(i)
        PROVE  View[i + 2 + j - 1] = ByteRing!Byte(i + ByteRing!kPrefix + j - 1)
    <3>1. i + 2 + j - 1 \in Nat
      BY <2>2
    <3> QED
      BY <3>1 DEF View, ByteRing!kPrefix
  <2>5. RecordIn(View, i) = [j \in 1 .. ByteRing!LengthAt(i) |->
                                     ByteRing!Byte(i + ByteRing!kPrefix + j - 1)]
    BY <2>2, <2>4, Zenon DEF RecordIn
  <2> QED
    BY <2>3, <2>5, Zenon DEF Parsed
<1>3. ByteRing!RecordsFrom = CHOOSE h : h = [i \in Nat |-> Body(h, i)]
    BY Zenon DEF ByteRing!RecordsFrom
<1> HIDE DEF Body
<1>4. \A h : [i \in Nat |-> Parsed(h, View, u, i)] = [i \in Nat |-> Body(h, i)]
    BY <1>2, Zenon
<1>5. f = [i \in Nat |-> Body(f, i)]
    BY <1>1, <1>4, Zenon DEF Parses
<1>6. ByteRing!RecordsFrom = [i \in Nat |-> Body(ByteRing!RecordsFrom, i)]
    BY <1>3, <1>5, Zenon
<1> QED
    BY <1>4, <1>6, Zenon DEF Parses
--------------------------------------------------------------------------------
Stored == ByteRing!Used
Wrap(x) == IF x < ByteCapacity THEN x ELSE x - ByteCapacity
Encoded(r) == <<Len(r) \div 256, Len(r) % 256>> \o r

ByteTypes ==
    /\ bytes \in [0 .. ByteCapacity - 1 -> 0 .. 255]
    /\ byteHead \in 0 .. ByteCapacity - 1 /\ byteTail \in 0 .. ByteCapacity - 1

Written(d) ==
    /\ d + Len(toPut) = 2 + Len(bytePushing)
    /\ putAt = Wrap(byteHead + d)
    /\ \A i \in 0 .. d - 1 : bytes[Wrap(byteHead + i)] = Encoded(bytePushing)[i + 1]
    /\ \A i \in 1 .. Len(toPut) : toPut[i] = Encoded(bytePushing)[d + i]

\* tryPush between its two ends: d bytes of its record are written, from head_ on,
\* the others are still to come, and there is room for all of them.
PushInv ==
    \/ bytePushing = NoRecord /\ toPut = <<>>
    \/ /\ bytePushing \in ByteRecords /\ Len(bytePushing) <= 65535
       /\ Stored + 2 + Len(bytePushing) < ByteCapacity
       /\ toPut \in Seq(0 .. 255)
       /\ \E d \in Nat : Written(d)

\* tryPop between its two ends: it has copied the first d bytes of the record at
\* tail_, all of which is stored.
PopInv ==
    \/ bytePopping = NoRecord /\ toTake = 0
    \/ /\ bytePopping \in Seq(0 .. 255) /\ toTake \in Nat
       /\ Len(bytePopping) + toTake = LengthIn(View, 0)
       /\ 2 + LengthIn(View, 0) <= Stored
       /\ takeAt = Wrap(byteTail + 2 + Len(bytePopping))
       /\ \A j \in 1 .. Len(bytePopping) : bytePopping[j] = View[1 + j]

ByteInv ==
    /\ ByteTypes /\ PushInv /\ PopInv
    /\ \E P : Layout(P, View, Stored)

LEMMA WrapLemma ==
    ASSUME NEW x \in Nat
    PROVE  /\ x < 2 * ByteCapacity => Wrap(x) \in 0 .. ByteCapacity - 1
           /\ x + 1 < 2 * ByteCapacity => ByteRing!increment(Wrap(x)) = Wrap(x + 1)
    BY ByteRingAssumption DEF ByteRing!ByteRingAssumption, Wrap, ByteRing!increment

LEMMA ModLemma ==
    ASSUME NEW x \in Nat
    PROVE  /\ x % ByteCapacity \in 0 .. ByteCapacity - 1
           /\ x < 2 * ByteCapacity => x % ByteCapacity = Wrap(x)
<1>1. ByteCapacity \in Nat /\ ByteCapacity > 0
    BY ByteRingAssumption DEF ByteRing!ByteRingAssumption
<1>2. x % ByteCapacity \in 0 .. ByteCapacity - 1
    BY <1>1
<1>3. x < ByteCapacity => x % ByteCapacity = x
    BY <1>1
<1>4. x < 2 * ByteCapacity /\ ~(x < ByteCapacity) => x % ByteCapacity = x - ByteCapacity
    BY <1>1
<1> QED
    BY <1>2, <1>3, <1>4 DEF Wrap

\* The View of the ring, and where its two ends are.
LEMMA RingFacts ==
    ByteTypes =>
       /\ ByteCapacity \in Nat /\ ByteCapacity >= 8
       /\ Stored \in Nat /\ Stored < ByteCapacity
       /\ byteHead = Wrap(byteTail + Stored)
       /\ View \in [Nat -> Nat]
       /\ \A i \in Nat : i < ByteCapacity =>
             View[i] = bytes[Wrap(byteTail + i)] /\ View[i] \in 0 .. 255
<1> SUFFICES ASSUME ByteTypes
             PROVE  /\ ByteCapacity \in Nat /\ ByteCapacity >= 8
                    /\ Stored \in Nat /\ Stored < ByteCapacity
                    /\ byteHead = Wrap(byteTail + Stored)
                    /\ View \in [Nat -> Nat]
                    /\ \A i \in Nat : i < ByteCapacity =>
                          View[i] = bytes[Wrap(byteTail + i)] /\ View[i] \in 0 .. 255
    OBVIOUS
<1>1. ByteCapacity \in Nat /\ ByteCapacity >= 8
    BY ByteRingAssumption DEF ByteRing!ByteRingAssumption
<1>2. /\ Stored \in Nat /\ Stored < ByteCapacity
      /\ byteHead = Wrap(byteTail + Stored)
    BY <1>1 DEF ByteTypes, Stored, ByteRing!Used, ByteRing!distance, Wrap
<1>3. ASSUME NEW i \in Nat
      PROVE  /\ View[i] = bytes[(byteTail + i) % ByteCapacity] /\ View[i] \in 0 .. 255
             /\ i < ByteCapacity => (byteTail + i) % ByteCapacity = Wrap(byteTail + i)
  <2>1. byteTail + i \in Nat /\ byteTail \in Nat /\ byteTail < ByteCapacity
    BY <1>1 DEF ByteTypes
  <2>2. (byteTail + i) % ByteCapacity \in 0 .. ByteCapacity - 1
    BY <2>1, ModLemma
  <2>3. View[i] = bytes[(byteTail + i) % ByteCapacity]
    BY DEF View, ByteRing!Byte
  <2>4. i < ByteCapacity => byteTail + i < 2 * ByteCapacity
    BY <1>1, <2>1
  <2> QED
    BY <2>1, <2>2, <2>3, <2>4, ModLemma DEF ByteTypes
<1>4. View \in [Nat -> Nat]
  <2>1. \A i \in Nat : View[i] \in Nat
    BY <1>3
  <2> QED
    BY <2>1 DEF View
<1> QED
    BY <1>1, <1>2, <1>3, <1>4

LEMMA ContentFacts ==
    ByteTypes => /\ Parses(ByteRing!RecordsFrom, View, Stored)
                 /\ ByteRing!Content = ByteRing!RecordsFrom[0]
    BY RingFacts, ContentParsed DEF Stored, ByteRing!Content

LEMMA PrimedFacts ==
    ByteTypes' =>
       /\ Stored' \in Nat /\ Stored' < ByteCapacity
       /\ byteHead' = Wrap(byteTail' + Stored')
       /\ View' \in [Nat -> Nat]
       /\ \A i \in Nat : i < ByteCapacity =>
             View'[i] = bytes'[Wrap(byteTail' + i)] /\ View'[i] \in 0 .. 255
       /\ Parses(ByteRing!RecordsFrom', View', Stored')
       /\ ByteRing!Content' = ByteRing!RecordsFrom'[0]
<1>1. ByteTypes' =>
       (/\ ByteCapacity \in Nat /\ ByteCapacity >= 8
        /\ Stored \in Nat /\ Stored < ByteCapacity
        /\ byteHead = Wrap(byteTail + Stored)
        /\ View \in [Nat -> Nat]
        /\ \A i \in Nat : i < ByteCapacity =>
              View[i] = bytes[Wrap(byteTail + i)] /\ View[i] \in 0 .. 255)'
    BY RingFacts, PTL
<1>2. ByteTypes' => (/\ Parses(ByteRing!RecordsFrom, View, Stored)
                     /\ ByteRing!Content = ByteRing!RecordsFrom[0])'
    BY ContentFacts, PTL
<1> QED
    BY <1>1, <1>2 DEF Wrap, Parses, Parsed, After, RecordIn, LengthIn

\* Bytes below the end of what is stored decide where its records are.
LEMMA AfterLemma ==
    ASSUME NEW b \in [Nat -> Nat], NEW c \in [Nat -> Nat], NEW u \in Nat,
           NEW P, Layout(P, b, u), \A i \in 0 .. u - 1 : c[i] = b[i]
    PROVE  \A i \in P : i < u => After(c, i) = After(b, i)
<1> SUFFICES ASSUME NEW i \in P, i < u PROVE After(c, i) = After(b, i)
    OBVIOUS
<1>1. i \in Nat /\ After(b, i) \in P /\ \A k \in P : k \in Nat /\ k <= u
    BY DEF Layout
<1>2. i + 1 < After(b, i) /\ After(b, i) \in Nat
  <2>1. After(b, i) > i + 1 /\ After(b, i) \in Nat
    BY <1>1, RecordLemma
  <2> QED
    BY <1>1, <2>1
<1>3. i \in 0 .. u - 1 /\ i + 1 \in 0 .. u - 1
  <2>1. After(b, i) <= u
    BY <1>1
  <2> QED
    BY <1>1, <1>2, <2>1
<1> QED
    BY <1>3 DEF After, LengthIn

LEMMA GrowLemma ==
    ASSUME NEW f, NEW b, NEW u, NEW g, NEW c, NEW v, NEW P,
           Shifted(f, b, u, g, c, v, P, 0)
    PROVE  g[0] = Joined(f[0], g[u])
<1>1. 0 \in P /\ u \in Nat
    BY DEF Shifted
<1>2. \A i \in P : i >= 0 => g[i - 0] = Joined(f[i], g[u - 0])
    BY ShiftLemma
<1>3. g[0 - 0] = Joined(f[0], g[u - 0])
    BY <1>1, <1>2
<1>4. 0 - 0 = 0 /\ u - 0 = u
    BY <1>1
<1> QED
    BY <1>3, <1>4

\* A step that leaves the indices and the stored bytes alone leaves the queue alone.
LEMMA SameRecords ==
    ASSUME ByteTypes, ByteTypes', byteHead' = byteHead, byteTail' = byteTail,
           NEW P, Layout(P, View, Stored), \A i \in 0 .. Stored - 1 : View'[i] = View[i]
    PROVE  /\ Stored' = Stored /\ Layout(P, View', Stored')
           /\ ByteRing!Content' = ByteRing!Content
<1> DEFINE f == ByteRing!RecordsFrom
           g == ByteRing!RecordsFrom'
<1>1. Stored' = Stored /\ Stored \in Nat
    BY RingFacts DEF Stored, ByteRing!Used, ByteRing!distance
<1>2. View \in [Nat -> Nat] /\ View' \in [Nat -> Nat]
    BY RingFacts, PrimedFacts
<1>3. Layout(P, View', Stored')
  <2>1. \A i \in P : i < Stored => After(View', i) = After(View, i)
    BY <1>1, <1>2, AfterLemma
  <2> QED
    BY <1>1, <2>1 DEF Layout
<1>4. Parses(f, View, Stored) /\ Parses(g, View', Stored)
    BY <1>1, ContentFacts, PrimedFacts
<1> HIDE DEF f, g
<1>5. g[0] = Joined(f[0], g[Stored])
  <2>1. Follows(View', Stored, View, Stored, 0)
    BY <1>1 DEF Follows
  <2>2. 0 \in P
    BY DEF Layout
  <2>3. Shifted(f, View, Stored, g, View', Stored, P, 0)
    BY <1>1, <1>2, <1>4, <2>1, <2>2 DEF Shifted
  <2> QED
    BY <2>3, GrowLemma
<1>6. g[Stored] = <<>> /\ f[0] \in RecordSeq
  <2>1. /\ f \in [Nat -> RecordSeq]
        /\ \A i \in Nat : g[i] = Parsed(g, View', Stored, i)
    BY <1>1, <1>2, <1>4, ParseType
  <2>2. g[Stored] = Parsed(g, View', Stored, Stored) /\ Stored >= Stored
    BY <1>1, <2>1
  <2>3. Parsed(g, View', Stored, Stored) = <<>>
    BY <2>2, Zenon DEF Parsed
  <2> QED
    BY <2>1, <2>2, <2>3
<1>7. f[0] \o <<>> = f[0]
    BY <1>6, ConcatEmptySeq DEF RecordSeq
<1>8. g[0] = f[0]
    BY <1>5, <1>6, <1>7, Zenon DEF Joined
<1> QED
    BY <1>1, <1>3, <1>8, ContentFacts, PrimedFacts DEF f, g

LEMMA PopKept ==
    ASSUME ByteTypes, ByteTypes', PopInv, byteTail' = byteTail, Stored' >= Stored,
           \A i \in 0 .. Stored - 1 : View'[i] = View[i],
           UNCHANGED <<bytePopping, takeAt, toTake>>
    PROVE  PopInv'
<1>1. CASE bytePopping = NoRecord /\ toTake = 0
    BY <1>1 DEF PopInv
<1>2. CASE ~(bytePopping = NoRecord /\ toTake = 0)
  <2> DEFINE n == LengthIn(View, 0)
  <2>1. /\ bytePopping \in Seq(0 .. 255) /\ toTake \in Nat
        /\ Len(bytePopping) + toTake = n
        /\ 2 + n <= Stored
        /\ takeAt = Wrap(byteTail + 2 + Len(bytePopping))
        /\ \A j \in 1 .. Len(bytePopping) : bytePopping[j] = View[1 + j]
    BY <1>2 DEF PopInv
  <2>2. n \in Nat /\ Stored \in Nat /\ Stored' \in Nat /\ Len(bytePopping) \in Nat
    <3>1. View \in [Nat -> Nat] /\ Stored \in Nat /\ Stored' \in Nat
      BY RingFacts, PrimedFacts
    <3>2. LengthIn(View, 0) \in Nat
      BY <3>1, RecordLemma
    <3> QED
      BY <2>1, <3>1, <3>2
  <2>3. LengthIn(View', 0) = n
    <3>1. 0 \in 0 .. Stored - 1 /\ 1 \in 0 .. Stored - 1
      BY <2>1, <2>2
    <3> QED
      BY <3>1 DEF LengthIn
  <2> HIDE DEF n
  <2>4. \A j \in 1 .. Len(bytePopping) : bytePopping[j] = View'[1 + j]
    <3>1. \A j \in 1 .. Len(bytePopping) : 1 + j \in 0 .. Stored - 1
      BY <2>1, <2>2
    <3> QED
      BY <2>1, <3>1
  <2>5. 2 + n <= Stored'
    BY <2>1, <2>2
  <2>6. /\ bytePopping' \in Seq(0 .. 255) /\ toTake' \in Nat
        /\ Len(bytePopping') + toTake' = LengthIn(View', 0)
        /\ 2 + LengthIn(View', 0) <= Stored'
        /\ takeAt' = Wrap(byteTail' + 2 + Len(bytePopping'))
        /\ \A j \in 1 .. Len(bytePopping') : bytePopping'[j] = View'[1 + j]
    BY <2>1, <2>3, <2>4, <2>5
  <2> QED
    BY <2>6 DEF PopInv, LengthIn, Wrap
<1> QED
    BY <1>1, <1>2

LEMMA PushKept ==
    ASSUME PushInv, bytes' = bytes, byteHead' = byteHead, Stored' <= Stored,
           ByteTypes, ByteTypes', UNCHANGED <<bytePushing, putAt, toPut>>
    PROVE  PushInv'
<1>1. CASE bytePushing = NoRecord /\ toPut = <<>>
    BY <1>1 DEF PushInv
<1>2. CASE ~(bytePushing = NoRecord /\ toPut = <<>>)
  <2>1. /\ bytePushing \in ByteRecords /\ Len(bytePushing) <= 65535
        /\ Stored + 2 + Len(bytePushing) < ByteCapacity
        /\ toPut \in Seq(0 .. 255)
    BY <1>2 DEF PushInv
  <2>2. PICK d \in Nat : Written(d)
    BY <1>2 DEF PushInv
  <2>3. Len(bytePushing) \in Nat /\ Stored \in Nat /\ Stored' \in Nat /\ ByteCapacity \in Nat
    BY <2>1, RingFacts, PrimedFacts, ByteRingAssumption DEF ByteRing!ByteRingAssumption
  <2>4. Stored' + 2 + Len(bytePushing) < ByteCapacity
    BY <2>1, <2>3
  <2>5. Written(d)'
    <3>1. /\ d + Len(toPut) = 2 + Len(bytePushing) /\ putAt = Wrap(byteHead + d)
          /\ \A i \in 0 .. d - 1 : bytes[Wrap(byteHead + i)] = Encoded(bytePushing)[i + 1]
          /\ \A i \in 1 .. Len(toPut) : toPut[i] = Encoded(bytePushing)[d + i]
      BY <2>2 DEF Written
    <3>2. /\ d + Len(toPut') = 2 + Len(bytePushing') /\ putAt' = Wrap(byteHead' + d)
          /\ \A i \in 0 .. d - 1 : bytes'[Wrap(byteHead' + i)] = Encoded(bytePushing')[i + 1]
          /\ \A i \in 1 .. Len(toPut') : toPut'[i] = Encoded(bytePushing')[d + i]
      BY <3>1
    <3> QED
      BY <3>2, Zenon DEF Written, Wrap, Encoded
  <2> QED
    BY <2>1, <2>4, <2>5 DEF PushInv
<1> QED
    BY <1>1, <1>2
--------------------------------------------------------------------------------
\* The prefix holds the length, for every length that canPush admits.
LEMMA EncodedLemma ==
    ASSUME NEW r \in Seq(0 .. 255), Len(r) <= 65535
    PROVE  /\ Encoded(r) \in Seq(0 .. 255) /\ Len(Encoded(r)) = 2 + Len(r)
           /\ 256 * Encoded(r)[1] + Encoded(r)[2] = Len(r)
           /\ \A j \in 1 .. Len(r) : Encoded(r)[2 + j] = r[j]
<1> DEFINE high == Len(r) \div 256
           low == Len(r) % 256
           p == <<high, low>>
<1> DEFINE n == Len(r)
<1>0. n \in Nat /\ n <= 65535 /\ high = n \div 256 /\ low = n % 256
    OBVIOUS
<1> HIDE DEF high, low
<1>1. high \in 0 .. 255 /\ low \in 0 .. 255 /\ 256 * high + low = n
  <2> HIDE DEF n
  <2>1. high \in 0 .. 255 /\ low = n - 256 * high
    BY <1>0
  <2>2. low \in 0 .. 255
    BY <1>0
  <2>3. n \in Nat
    BY <1>0
  <2>4. 256 * high + low = n
    BY <2>1, <2>3
  <2> QED
    BY <2>1, <2>2, <2>4
<1>2. p \in Seq(0 .. 255) /\ Len(p) = 2 /\ p[1] = high /\ p[2] = low
    BY <1>0, <1>1
<1>3. Encoded(r) = p \o r
    BY DEF Encoded, high, low
<1> HIDE DEF p
<1>4. /\ p \o r \in Seq(0 .. 255) /\ Len(p \o r) = 2 + Len(r)
      /\ \A i \in 1 .. 2 + Len(r) : (p \o r)[i] = IF i <= 2 THEN p[i] ELSE r[i - 2]
  <2> DEFINE S == 0 .. 255
  <2>0. p \in Seq(S) /\ r \in Seq(S)
    BY <1>2
  <2> HIDE DEF S
  <2>1. /\ p \o r \in Seq(S) /\ Len(p \o r) = Len(p) + Len(r)
        /\ \A i \in 1 .. Len(p) + Len(r) : (p \o r)[i] = IF i <= Len(p) THEN p[i]
                                                        ELSE r[i - Len(p)]
    BY <2>0, ConcatProperties
  <2> QED
    BY <1>2, <2>1 DEF S
<1>5. ASSUME NEW j \in 1 .. Len(r)
      PROVE  (p \o r)[2 + j] = r[j]
  <2>1. 2 + j \in 1 .. 2 + Len(r) /\ ~(2 + j <= 2) /\ 2 + j - 2 = j
    BY <1>0, <1>1
  <2> QED
    BY <1>4, <2>1
<1>6. (p \o r)[1] = high /\ (p \o r)[2] = low
  <2>1. 1 \in 1 .. 2 + Len(r) /\ 2 \in 1 .. 2 + Len(r)
    BY <1>1
  <2> QED
    BY <1>2, <1>4, <2>1
<1> QED
    BY <1>1, <1>3, <1>4, <1>5, <1>6

LEMMA BytesAreNumbers ==
    ASSUME NEW r \in Seq(0 .. 255)
    PROVE  r \in Seq(Nat)
<1>1. Len(r) \in Nat /\ r \in [1 .. Len(r) -> 0 .. 255]
  <2> DEFINE S == 0 .. 255
  <2>1. r \in Seq(S)
    OBVIOUS
  <2> HIDE DEF S
  <2>2. Len(r) \in Nat /\ r \in [1 .. Len(r) -> S]
    BY <2>1, LenProperties
  <2> QED
    BY <2>2 DEF S
<1>2. \A i \in 1 .. Len(r) : r[i] \in Nat
  <2>1. \A i \in 1 .. Len(r) : r[i] \in 0 .. 255
    BY <1>1
  <2>2. \A x \in 0 .. 255 : x \in Nat
    OBVIOUS
  <2> QED
    BY <2>1, <2>2, Zenon
<1>3. r \in [1 .. Len(r) -> Nat]
    BY <1>1, <1>2
<1> QED
    BY <1>1, <1>3, FunctionSeq

LEMMA RecordsLemma ==
    /\ \A r \in ByteRecords : r \in Seq(0 .. 255) /\ Len(r) \in Nat /\ r # NoRecord
    /\ NoRecord \notin Seq(0 .. 255)
    BY ByteRingAssumption DEF ByteRing!ByteRingAssumption

\* A step that writes no byte and moves no index.
LEMMA BytesKept ==
    ASSUME ByteTypes, UNCHANGED <<bytes, byteHead, byteTail>>
    PROVE  /\ ByteTypes' /\ View' = View /\ Stored' = Stored
           /\ (\E P : Layout(P, View, Stored)) =>
                /\ (\E P : Layout(P, View, Stored))'
                /\ ByteRing!Content' = ByteRing!Content
<1>1. ByteTypes' /\ Stored' = Stored
    BY DEF ByteTypes, Stored, ByteRing!Used, ByteRing!distance
<1>2. View' = View
    BY DEF View, ByteRing!Byte
<1>3. ASSUME NEW P, Layout(P, View, Stored)
      PROVE  Layout(P, View', Stored') /\ ByteRing!Content' = ByteRing!Content
    BY <1>1, <1>2, <1>3, SameRecords
<1> QED
    BY <1>1, <1>2, <1>3 DEF Layout, After, LengthIn

LEMMA BytePushBegin ==
    ASSUME ByteInv, NEW r \in ByteRecords, ByteRing!PushBegin(r)
    PROVE  ByteInv' /\ UNCHANGED <<ByteRing!Content, Stored, byteReceived>>
<1> USE DEF ByteRing!PushBegin, ByteRing!consumerVars
<1>1. /\ ByteTypes' /\ View' = View /\ Stored' = Stored
      /\ (\E P : Layout(P, View, Stored))' /\ ByteRing!Content' = ByteRing!Content
    BY BytesKept DEF ByteInv
<1>2. PopInv'
  <2>1. Stored \in Nat /\ \A i \in 0 .. Stored - 1 : View'[i] = View[i]
    BY <1>1, RingFacts DEF ByteInv
  <2>2. Stored' >= Stored
    BY <1>1, <2>1
  <2> QED
    BY <1>1, <2>1, <2>2, PopKept DEF ByteInv
<1>3. PushInv'
  <2>1. r \in Seq(0 .. 255) /\ Len(r) \in Nat
    BY RecordsLemma
  <2>2. Len(r) <= 65535 /\ Stored + 2 + Len(r) < ByteCapacity
    <3>1. ByteCapacity \in Nat /\ Stored \in Nat
      BY RingFacts DEF ByteInv
    <3>2. Len(r) <= 65535 /\ ByteCapacity - 1 - Stored >= Len(r) + 2
      BY DEF ByteRing!canPush, ByteRing!freeBytes, Stored, ByteRing!Used,
         ByteRing!kMaxLength, ByteRing!kPrefix
    <3> QED
      BY <2>1, <3>1, <3>2
  <2>3. toPut' = Encoded(r) /\ bytePushing' = r /\ putAt' = byteHead /\ byteHead' = byteHead
    BY DEF Encoded
  <2>4. toPut' \in Seq(0 .. 255) /\ Len(toPut') = 2 + Len(r)
    <3>1. Encoded(r) \in Seq(0 .. 255) /\ Len(Encoded(r)) = 2 + Len(r)
      BY <2>1, <2>2, EncodedLemma
    <3> QED
      BY <2>3, <3>1
  <2>5. Written(0)'
    <3>1. byteHead = Wrap(byteHead + 0)
      <4>1. byteHead \in 0 .. ByteCapacity - 1 /\ ByteCapacity \in Nat
        BY RingFacts DEF ByteInv, ByteTypes
      <4> QED
        BY <4>1 DEF Wrap
    <3>2. 0 + Len(toPut') = 2 + Len(r)
      BY <2>1, <2>4
    <3>3. \A i \in 0 .. 0 - 1 : FALSE
      OBVIOUS
    <3>4. \A i \in 1 .. Len(toPut') : 0 + i = i
      OBVIOUS
    <3>5. \A i \in 1 .. Len(toPut') : toPut'[i] = Encoded(bytePushing')[0 + i]
      BY <2>3, <3>4
    <3> QED
      BY <2>3, <3>1, <3>2, <3>3, <3>5 DEF Written, Encoded, Wrap
  <2> QED
    BY <1>1, <2>2, <2>3, <2>4, <2>5 DEF PushInv
<1> QED
    BY <1>1, <1>2, <1>3 DEF ByteInv

LEMMA BytePopBegin ==
    ASSUME ByteInv, ByteRing!PopBegin
    PROVE  ByteInv' /\ UNCHANGED <<ByteRing!Content, Stored, byteReceived>>
<1> USE DEF ByteRing!PopBegin, ByteRing!producerVars
<1>1. /\ ByteTypes' /\ View' = View /\ Stored' = Stored /\ Stored \in Nat
      /\ (\E P : Layout(P, View, Stored))' /\ ByteRing!Content' = ByteRing!Content
    BY BytesKept, RingFacts DEF ByteInv
<1>2. PushInv'
  <2>1. Stored' <= Stored
    BY <1>1
  <2> QED
    BY <1>1, <2>1, PushKept DEF ByteInv
<1>3. ByteRing!recordLength = LengthIn(View, 0)
  <2>1. ByteTypes
    BY DEF ByteInv
  <2>2. 0 \in Nat /\ 1 \in Nat /\ 0 < ByteCapacity /\ 1 < ByteCapacity
    <3>1. ByteCapacity \in Nat /\ ByteCapacity >= 8
      BY <2>1, RingFacts
    <3> QED
      BY <3>1
  <2>3. View[0] = bytes[Wrap(byteTail + 0)] /\ View[1] = bytes[Wrap(byteTail + 1)]
    BY <2>1, <2>2, RingFacts
  <2>4. byteTail \in Nat /\ Wrap(byteTail + 0) = byteTail
    <3>1. byteTail \in 0 .. ByteCapacity - 1 /\ ByteCapacity \in Nat
      BY <2>1, RingFacts DEF ByteTypes
    <3> QED
      BY <3>1 DEF Wrap
  <2>5. ByteRing!increment(byteTail) = Wrap(byteTail + 1)
    <3>1. byteTail \in 0 .. ByteCapacity - 1 /\ ByteCapacity \in Nat
      BY <2>1, RingFacts DEF ByteTypes
    <3> QED
      BY <3>1 DEF ByteRing!increment, Wrap
  <2> QED
    BY <2>3, <2>4, <2>5 DEF ByteRing!recordLength, LengthIn
<1>4. PopInv'
  <2> DEFINE n == LengthIn(View, 0)
  <2>1. n \in Nat
    BY RingFacts, RecordLemma DEF ByteInv
  <2>2. 2 + n <= Stored /\ toTake' = n
    BY <1>1, <1>3, <2>1 DEF ByteRing!HasRecord, ByteRing!kPrefix, Stored
  <2>3. takeAt' = Wrap(byteTail + 2 + 0)
    <3>1. byteTail \in 0 .. ByteCapacity - 1 /\ ByteCapacity \in Nat /\ ByteCapacity >= 8
      BY RingFacts DEF ByteInv, ByteTypes
    <3> QED
      BY <3>1 DEF ByteRing!Skip, ByteRing!increment, Wrap
  <2>4. LengthIn(View', 0) = n
    BY <1>1
  <2> HIDE DEF n
  <2>5. bytePopping' \in Seq(0 .. 255) /\ Len(bytePopping') = 0 /\ bytePopping' = <<>>
    OBVIOUS
  <2>6. /\ Len(bytePopping') + toTake' = LengthIn(View', 0)
        /\ 2 + LengthIn(View', 0) <= Stored'
        /\ \A j \in 1 .. Len(bytePopping') : FALSE
    BY <1>1, <2>1, <2>2, <2>4, <2>5
  <2>7. takeAt' = Wrap(byteTail' + 2 + Len(bytePopping'))
    BY <2>3, <2>5 DEF Wrap
  <2> QED
    BY <2>1, <2>2, <2>5, <2>6, <2>7 DEF PopInv, LengthIn, Wrap
<1> QED
    BY <1>1, <1>2, <1>4 DEF ByteInv

LEMMA ByteTake ==
    ASSUME ByteInv, ByteRing!Take
    PROVE  ByteInv' /\ UNCHANGED <<ByteRing!Content, Stored, byteReceived>>
<1> USE DEF ByteRing!Take, ByteRing!producerVars
<1>1. /\ ByteTypes' /\ View' = View /\ Stored' = Stored /\ Stored \in Nat
      /\ (\E P : Layout(P, View, Stored))' /\ ByteRing!Content' = ByteRing!Content
    BY BytesKept, RingFacts DEF ByteInv
<1>2. PushInv'
  <2>1. Stored' <= Stored
    BY <1>1
  <2> QED
    BY <1>1, <2>1, PushKept DEF ByteInv
<1>3. PopInv'
  <2> DEFINE n == LengthIn(View, 0)
             d == Len(bytePopping)
  <2>1. /\ bytePopping \in Seq(0 .. 255) /\ toTake \in Nat /\ d + toTake = n
        /\ 2 + n <= Stored /\ takeAt = Wrap(byteTail + 2 + d)
        /\ \A j \in 1 .. d : bytePopping[j] = View[1 + j]
    BY DEF ByteInv, PopInv
  <2>2. n \in Nat /\ d \in Nat
    <3>1. n \in Nat
      BY RingFacts, RecordLemma DEF ByteInv
    <3> QED
      BY <2>1, <3>1
  <2> HIDE DEF n, d
  <2>3. /\ byteTail \in Nat /\ byteTail < ByteCapacity /\ ByteCapacity \in Nat
        /\ Stored < ByteCapacity /\ 2 + d \in Nat /\ 2 + d < ByteCapacity
    <3>1. /\ byteTail \in 0 .. ByteCapacity - 1 /\ ByteCapacity \in Nat
          /\ Stored < ByteCapacity
      BY RingFacts DEF ByteInv, ByteTypes
    <3> QED
      BY <1>1, <2>1, <2>2, <3>1
  <2>4. View[2 + d] = bytes[Wrap(byteTail + (2 + d))] /\ View[2 + d] \in 0 .. 255
    BY <2>3, RingFacts DEF ByteInv
  <2>5. bytes[takeAt] = View[2 + d]
    <3>1. byteTail + (2 + d) = byteTail + 2 + d
      BY <2>2, <2>3
    <3> QED
      BY <2>1, <2>4, <3>1
  <2>6. /\ bytePopping' \in Seq(0 .. 255) /\ Len(bytePopping') = d + 1
        /\ \A j \in 1 .. d : bytePopping'[j] = bytePopping[j]
        /\ bytePopping'[d + 1] = View[2 + d]
    BY <2>1, <2>4, <2>5, AppendProperties DEF d
  <2>7. \A j \in 1 .. Len(bytePopping') : bytePopping'[j] = View'[1 + j]
    <3>1. \A j \in 1 .. d + 1 : j \in 1 .. d \/ (j = d + 1 /\ 1 + j = 2 + d)
      BY <2>2
    <3> QED
      BY <1>1, <2>1, <2>6, <3>1
  <2>8. takeAt' = Wrap(byteTail' + 2 + Len(bytePopping'))
    <3>1. ByteRing!increment(Wrap(byteTail + 2 + d)) = Wrap(byteTail + 2 + d + 1)
      <4>1. byteTail + 2 + d \in Nat /\ byteTail + 2 + d + 1 < 2 * ByteCapacity
        BY <2>2, <2>3
      <4> QED
        BY <4>1, WrapLemma
    <3>2. byteTail + 2 + d + 1 = byteTail + 2 + (d + 1)
      BY <2>2, <2>3
    <3> QED
      BY <2>1, <2>6, <3>1, <3>2 DEF Wrap
  <2>9. toTake' \in Nat /\ Len(bytePopping') + toTake' = n
    <3>1. toTake > 0 /\ toTake' = toTake - 1
      OBVIOUS
    <3>2. toTake \in Nat /\ d + toTake = n /\ Len(bytePopping') = d + 1
      BY <2>1, <2>6
    <3> QED
      BY <2>2, <3>1, <3>2
  <2>10. LengthIn(View', 0) = n
    BY <1>1 DEF n
  <2>11. 2 + LengthIn(View', 0) <= Stored'
    BY <1>1, <2>1, <2>10
  <2> QED
    BY <2>6, <2>7, <2>8, <2>9, <2>10, <2>11 DEF PopInv, LengthIn, Wrap
<1> QED
    BY <1>1, <1>2, <1>3 DEF ByteInv
--------------------------------------------------------------------------------
\* One more record at the end.
LEMMA LayoutGrow ==
    ASSUME NEW b \in [Nat -> Nat], NEW u \in Nat, NEW v \in Nat,
           NEW P, Layout(P, b, u), After(b, u) = v
    PROVE  \E Q : Layout(Q, b, v)
<1> DEFINE Q == P \cup {v}
<1>1. 0 \in P /\ \A i \in P : i \in Nat /\ i <= u /\ (i < u => After(b, i) \in P)
    BY DEF Layout
<1>2. u < v
  <2>1. After(b, u) > u + 1
    BY RecordLemma
  <2> QED
    BY <2>1
<1>3. \A i \in Q : i \in 0 .. v
    BY <1>1, <1>2
<1>4. ASSUME NEW i \in Q, i < v
      PROVE  After(b, i) \in Q
  <2>1. i \in P
    BY <1>4
  <2>2. i < u \/ i = u
    BY <1>1, <2>1
  <2> QED
    BY <1>1, <2>1, <2>2
<1>5. 0 \in Q
    BY <1>1
<1> HIDE DEF Q
<1>6. Layout(Q, b, v)
    BY <1>3, <1>4, <1>5 DEF Layout
<1> QED
    BY <1>6

\* The records before the d-th byte are gone.
LEMMA LayoutShift ==
    ASSUME NEW b \in [Nat -> Nat], NEW u \in Nat, NEW c \in [Nat -> Nat], NEW v \in Nat,
           NEW P, Layout(P, b, u), NEW d \in P, Follows(c, v, b, u, d), v = u - d
    PROVE  \E Q : Layout(Q, c, v)
<1> DEFINE Q == {k \in Nat : k + d \in P}
<1>1. \A i \in P : i \in Nat /\ i <= u /\ (i < u => After(b, i) \in P)
    BY DEF Layout
<1>2. 0 \in Q
  <2>1. d \in Nat
    BY DEF Layout
  <2>2. 0 + d = d
    BY <2>1
  <2> QED
    BY <2>2
<1>3. \A k \in Q : k \in 0 .. v
  <2> SUFFICES ASSUME NEW k \in Q PROVE k \in 0 .. v
    OBVIOUS
  <2>1. k \in Nat /\ k + d \in P /\ d \in Nat
    BY <1>1
  <2>2. k + d <= u
    BY <1>1, <2>1
  <2> QED
    BY <2>1, <2>2
<1>4. ASSUME NEW k \in Q, k < v
      PROVE  After(c, k) \in Q
  <2> DEFINE i == k + d
  <2>1. k \in Nat /\ i \in P /\ d \in Nat /\ i \in Nat
    BY <1>1
  <2>2. i < u /\ i - d = k
    BY <1>4, <2>1
  <2>3. After(b, i) \in P
    BY <1>1, <2>1, <2>2
  <2>4. After(b, i) <= u /\ After(b, i) \in Nat
    BY <1>1, <2>3
  <2>5. After(b, i) > i + 1 /\ After(b, i) = i + 2 + LengthIn(b, i) /\ LengthIn(b, i) \in Nat
    BY <2>1, RecordLemma DEF After
  <2>6. i \in d .. u - 1 /\ i + 1 \in d .. u - 1 /\ (i + 1) - d = k + 1
    BY <2>1, <2>2, <2>4, <2>5
  <2>7. c[k] = b[i] /\ c[k + 1] = b[i + 1]
    <3>1. c[i - d] = b[i] /\ c[(i + 1) - d] = b[i + 1]
      BY <2>6 DEF Follows
    <3> QED
      BY <2>2, <2>6, <3>1
  <2>8. LengthIn(c, k) = LengthIn(b, i)
    BY <2>7 DEF LengthIn
  <2>9. After(c, k) = k + 2 + LengthIn(b, i)
    BY <2>8 DEF After
  <2>10. After(c, k) + d = After(b, i) /\ After(c, k) \in Nat
    BY <2>1, <2>5, <2>9
  <2> HIDE DEF i
  <2> QED
    BY <2>3, <2>10
<1> HIDE DEF Q
<1>5. Layout(Q, c, v)
    BY <1>2, <1>3, <1>4 DEF Layout
<1> QED
    BY <1>5

LEMMA BytePut ==
    ASSUME ByteInv, ByteRing!Put
    PROVE  ByteInv' /\ UNCHANGED <<ByteRing!Content, Stored, byteReceived>>
<1> USE DEF ByteRing!Put, ByteRing!consumerVars
<1>1. /\ bytePushing \in ByteRecords /\ Len(bytePushing) <= 65535
      /\ Stored + 2 + Len(bytePushing) < ByteCapacity
      /\ toPut \in Seq(0 .. 255) /\ \E d \in Nat : Written(d)
    BY DEF ByteInv, PushInv
<1>2. PICK d \in Nat : Written(d)
    BY <1>1
<1>3. /\ d + Len(toPut) = 2 + Len(bytePushing) /\ putAt = Wrap(byteHead + d)
      /\ \A i \in 0 .. d - 1 : bytes[Wrap(byteHead + i)] = Encoded(bytePushing)[i + 1]
      /\ \A i \in 1 .. Len(toPut) : toPut[i] = Encoded(bytePushing)[d + i]
    BY <1>2 DEF Written
<1>4. /\ Len(bytePushing) \in Nat /\ Len(toPut) \in Nat /\ Len(toPut) > 0
      /\ toPut[1] \in 0 .. 255 /\ 1 \in 1 .. Len(toPut)
  <2>1. Len(bytePushing) \in Nat
    BY <1>1, RecordsLemma
  <2>2. toPut \in Seq(0 .. 255) /\ toPut # <<>>
    BY <1>1
  <2>3. Len(toPut) \in Nat /\ Len(toPut) > 0
    BY <2>2
  <2>4. 1 \in 1 .. Len(toPut)
    BY <2>3
  <2>5. toPut[1] \in 0 .. 255
    BY <2>2, <2>4, ElementOfSeq
  <2> QED
    BY <2>1, <2>3, <2>4, <2>5
<1>5. /\ ByteCapacity \in Nat /\ Stored \in Nat /\ byteHead = Wrap(byteTail + Stored)
      /\ byteTail \in 0 .. ByteCapacity - 1 /\ byteHead \in 0 .. ByteCapacity - 1
    BY RingFacts DEF ByteInv, ByteTypes
<1>6. Stored + d < ByteCapacity
    BY <1>1, <1>3, <1>4, <1>5
<1>7. /\ bytes' = [bytes EXCEPT ![putAt] = toPut[1]] /\ byteHead' = byteHead
      /\ byteTail' = byteTail /\ bytes \in [0 .. ByteCapacity - 1 -> 0 .. 255]
    BY DEF ByteInv, ByteTypes
<1>8. ByteTypes'
  <2> DEFINE x == toPut[1]
  <2>1. x \in 0 .. 255
    BY <1>4
  <2> HIDE DEF x
  <2>2. [bytes EXCEPT ![putAt] = x] \in [0 .. ByteCapacity - 1 -> 0 .. 255]
    BY <1>7, <2>1
  <2> QED
    BY <1>5, <1>7, <2>2 DEF ByteTypes, x
<1>9. ASSUME NEW i \in Nat, i < Stored
      PROVE  View'[i] = View[i]
  <2>1. Wrap(byteTail + i) # putAt /\ Wrap(byteTail + i) \in 0 .. ByteCapacity - 1
    BY <1>3, <1>5, <1>6, <1>9 DEF Wrap
  <2>2. i < ByteCapacity
    BY <1>5, <1>6, <1>9
  <2>3. View[i] = bytes[Wrap(byteTail + i)]
    BY <2>2, RingFacts DEF ByteInv
  <2>4. View'[i] = bytes'[Wrap(byteTail' + i)]
    BY <1>8, <2>2, PrimedFacts
  <2>5. bytes'[Wrap(byteTail + i)] = bytes[Wrap(byteTail + i)]
    BY <1>7, <2>1
  <2> QED
    BY <1>7, <2>3, <2>4, <2>5 DEF Wrap
<1>10. \A i \in 0 .. Stored - 1 : View'[i] = View[i]
    BY <1>5, <1>9
<1>11. PICK P : Layout(P, View, Stored)
    BY DEF ByteInv
<1>12. Stored' = Stored /\ Layout(P, View', Stored') /\ ByteRing!Content' = ByteRing!Content
    BY <1>7, <1>8, <1>10, <1>11, SameRecords DEF ByteInv
<1>13. PopInv'
  <2>1. Stored' >= Stored
    BY <1>5, <1>12
  <2> QED
    BY <1>7, <1>8, <1>10, <2>1, PopKept DEF ByteInv
<1>14. PushInv'
  <2>1. toPut' = Tail(toPut) /\ bytePushing' = bytePushing
    OBVIOUS
  <2>2. /\ toPut' \in Seq(0 .. 255) /\ Len(toPut') = Len(toPut) - 1
        /\ \A i \in 1 .. Len(toPut) - 1 : toPut'[i] = toPut[i + 1]
    BY <1>1, <1>4, <2>1, HeadTailProperties
  <2>3. d + 1 \in Nat /\ (d + 1) + Len(toPut') = 2 + Len(bytePushing)
    BY <1>3, <1>4, <2>2
  <2>4. putAt' = Wrap(byteHead + (d + 1))
    <3>1. byteHead + d \in Nat /\ byteHead + d + 1 < 2 * ByteCapacity
          /\ byteHead + d + 1 = byteHead + (d + 1)
      BY <1>5, <1>6
    <3>2. ByteRing!increment(Wrap(byteHead + d)) = Wrap(byteHead + d + 1)
      BY <3>1, WrapLemma
    <3> QED
      BY <1>3, <3>1, <3>2
  <2>5. ASSUME NEW i \in 0 .. (d + 1) - 1
        PROVE  bytes'[Wrap(byteHead + i)] = Encoded(bytePushing)[i + 1]
    <3>1. Wrap(byteHead + i) \in 0 .. ByteCapacity - 1
      BY <1>5, <1>6 DEF Wrap
    <3>2. CASE i = d
      <4>1. bytes'[putAt] = toPut[1]
        BY <1>3, <1>7, <3>1, <3>2
      <4>2. toPut[1] = Encoded(bytePushing)[d + 1]
        BY <1>3, <1>4
      <4> QED
        BY <1>3, <3>2, <4>1, <4>2
    <3>3. CASE i # d
      <4>1. i \in 0 .. d - 1 /\ Wrap(byteHead + i) # putAt
        BY <1>3, <1>5, <1>6, <3>3 DEF Wrap
      <4> QED
        BY <1>3, <1>7, <3>1, <4>1
    <3> QED
      BY <3>2, <3>3
  <2>6. ASSUME NEW i \in 1 .. Len(toPut')
        PROVE  toPut'[i] = Encoded(bytePushing)[(d + 1) + i]
    <3>1. /\ i + 1 \in 1 .. Len(toPut) /\ d + (i + 1) = (d + 1) + i
          /\ i \in 1 .. Len(toPut) - 1
      BY <1>4, <2>2
    <3>2. toPut[i + 1] = Encoded(bytePushing)[d + (i + 1)]
      BY <1>3, <3>1
    <3> QED
      BY <2>2, <3>1, <3>2
  <2>7. Written(d + 1)'
    <3>1. (d + 1) + Len(toPut') = 2 + Len(bytePushing') /\ putAt' = Wrap(byteHead' + (d + 1))
      BY <1>7, <2>1, <2>3, <2>4
    <3>2. \A i \in 0 .. (d + 1) - 1 :
             bytes'[Wrap(byteHead' + i)] = Encoded(bytePushing')[i + 1]
      BY <1>7, <2>1, <2>5
    <3>3. \A i \in 1 .. Len(toPut') : toPut'[i] = Encoded(bytePushing')[(d + 1) + i]
      BY <2>1, <2>6
    <3> QED
      BY <3>1, <3>2, <3>3, Zenon DEF Written, Wrap, Encoded
  <2> QED
    BY <1>1, <1>12, <2>1, <2>2, <2>3, <2>7 DEF PushInv
<1> QED
    BY <1>8, <1>12, <1>13, <1>14 DEF ByteInv, Layout, After, LengthIn

\* head_.store: the queue grows by the record pushed.
LEMMA BytePublish ==
    ASSUME ByteInv, ByteRing!PushPublish
    PROVE  ByteInv' /\ bytePushing \in ByteRecords /\ ByteRing!Fifo!Push(bytePushing)
<1> USE DEF ByteRing!PushPublish, ByteRing!consumerVars
<1> DEFINE r == bytePushing
           f == ByteRing!RecordsFrom
           g == ByteRing!RecordsFrom'
<1>1. /\ r \in ByteRecords /\ Len(r) <= 65535 /\ Stored + 2 + Len(r) < ByteCapacity
      /\ r \in Seq(0 .. 255) /\ Len(r) \in Nat
    BY RecordsLemma DEF ByteInv, PushInv
<1>2. PICK d \in Nat : Written(d)
    BY DEF ByteInv, PushInv
<1>3. /\ d = 2 + Len(r) /\ putAt = Wrap(byteHead + d)
      /\ \A i \in 0 .. d - 1 : bytes[Wrap(byteHead + i)] = Encoded(r)[i + 1]
    BY <1>1, <1>2 DEF Written
<1>4. /\ ByteCapacity \in Nat /\ Stored \in Nat /\ byteHead = Wrap(byteTail + Stored)
      /\ byteTail \in 0 .. ByteCapacity - 1 /\ byteHead \in 0 .. ByteCapacity - 1
      /\ Stored + d < ByteCapacity /\ View \in [Nat -> Nat]
  <2>1. /\ ByteCapacity \in Nat /\ Stored \in Nat /\ byteHead = Wrap(byteTail + Stored)
        /\ byteTail \in 0 .. ByteCapacity - 1 /\ byteHead \in 0 .. ByteCapacity - 1
        /\ View \in [Nat -> Nat]
    BY RingFacts DEF ByteInv, ByteTypes
  <2>2. Stored + d < ByteCapacity
    BY <1>1, <1>3, <2>1
  <2> QED
    BY <2>1, <2>2
<1>5. byteHead' = Wrap(byteHead + d) /\ byteTail' = byteTail /\ bytes' = bytes
    BY <1>3
<1>6. ByteTypes' /\ View' = View /\ Stored' = Stored + d
  <2>1. byteHead' \in 0 .. ByteCapacity - 1
    BY <1>4, <1>5 DEF Wrap
  <2>2. ByteTypes'
    BY <1>4, <1>5, <2>1 DEF ByteInv, ByteTypes
  <2>3. View' = View
    BY <1>5 DEF View, ByteRing!Byte
  <2>4. Stored' = Stored + d
    <3>1. Stored = IF byteHead >= byteTail THEN byteHead - byteTail
                   ELSE ByteCapacity - byteTail + byteHead
      BY DEF Stored, ByteRing!Used, ByteRing!distance
    <3>2. Stored' = IF byteHead' >= byteTail THEN byteHead' - byteTail
                    ELSE ByteCapacity - byteTail + byteHead'
      BY <1>5 DEF Stored, ByteRing!Used, ByteRing!distance
    <3> QED
      BY <1>4, <1>5, <3>1, <3>2 DEF Wrap
  <2> QED
    BY <2>2, <2>3, <2>4
<1>7. ASSUME NEW i \in 0 .. d - 1
      PROVE  View[Stored + i] = Encoded(r)[i + 1]
  <2>1. Stored + i \in Nat /\ Stored + i < ByteCapacity
    BY <1>4
  <2>2. Wrap(byteTail + (Stored + i)) = Wrap(byteHead + i)
    BY <1>4, <2>1 DEF Wrap
  <2>3. View[Stored + i] = bytes[Wrap(byteTail + (Stored + i))]
    BY <2>1, RingFacts DEF ByteInv
  <2> QED
    BY <1>3, <2>2, <2>3
<1>8. /\ 256 * Encoded(r)[1] + Encoded(r)[2] = Len(r)
      /\ \A j \in 1 .. Len(r) : Encoded(r)[2 + j] = r[j]
    BY <1>1, EncodedLemma
<1> HIDE DEF r, f, g
<1>9. LengthIn(View, Stored) = Len(r)
  <2>1. 0 \in 0 .. d - 1 /\ 1 \in 0 .. d - 1
    BY <1>1, <1>3
  <2>2. View[Stored + 0] = Encoded(r)[0 + 1] /\ View[Stored + 1] = Encoded(r)[1 + 1]
    BY <1>7, <2>1
  <2>3. Stored + 0 = Stored
    BY <1>4
  <2>4. View[Stored] = Encoded(r)[1] /\ View[Stored + 1] = Encoded(r)[2]
    BY <2>2, <2>3
  <2> QED
    BY <1>8, <2>4 DEF LengthIn
<1>10. After(View, Stored) = Stored'
  <2>1. After(View, Stored) = Stored + 2 + Len(r)
    BY <1>9 DEF After
  <2> QED
    BY <1>1, <1>3, <1>4, <1>6, <2>1
<1>11. RecordIn(View, Stored) = r
  <2>1. RecordIn(View, Stored) \in Seq(Nat) /\ Len(RecordIn(View, Stored)) = Len(r)
    BY <1>4, <1>9, RecordLemma
  <2>2. r \in Seq(Nat)
    BY <1>1, BytesAreNumbers
  <2>3. ASSUME NEW j \in 1 .. Len(r)
        PROVE  RecordIn(View, Stored)[j] = r[j]
    <3>1. RecordIn(View, Stored)[j] = View[Stored + 2 + j - 1]
      BY <1>9 DEF RecordIn
    <3>2. /\ 2 + j - 1 \in 0 .. d - 1 /\ Stored + (2 + j - 1) = Stored + 2 + j - 1
          /\ (2 + j - 1) + 1 = 2 + j
      <4>1. d = 2 + Len(r) /\ Len(r) \in Nat /\ Stored \in Nat
        BY <1>1, <1>3, <1>4
      <4> QED
        BY <4>1
    <3>3. View[Stored + (2 + j - 1)] = Encoded(r)[(2 + j - 1) + 1]
      BY <1>7, <3>2
    <3> QED
      BY <1>8, <3>1, <3>2, <3>3
  <2> QED
    BY <2>1, <2>2, <2>3, SeqEqual
<1>12. PICK P : Layout(P, View, Stored)
    BY DEF ByteInv
<1>13. Stored' \in Nat /\ Stored' >= Stored /\ Stored \in Nat
    BY <1>4, <1>6
<1>14. /\ Parses(f, View, Stored) /\ ByteRing!Content = f[0]
       /\ Parses(g, View, Stored') /\ ByteRing!Content' = g[0]
    BY <1>6, ContentFacts, PrimedFacts DEF f, g, ByteInv
<1>15. g[0] = Joined(f[0], g[Stored])
  <2>1. Follows(View, Stored', View, Stored, 0)
    BY <1>13 DEF Follows
  <2>2. 0 \in P
    BY <1>12 DEF Layout
  <2>3. Shifted(f, View, Stored, g, View, Stored', P, 0)
    BY <1>4, <1>12, <1>13, <1>14, <2>1, <2>2 DEF Shifted
  <2> QED
    BY <2>3, GrowLemma
<1>16. g[Stored] = <<r>>
  <2>1. /\ g \in [Nat -> RecordSeq]
        /\ \A i \in Nat : g[i] = Parsed(g, View, Stored', i)
    <3>1. View \in [Nat -> Nat] /\ Stored' \in Nat /\ Parses(g, View, Stored')
      BY <1>4, <1>13, <1>14
    <3> QED
      BY <3>1, ParseType
  <2>2. g[Stored'] = <<>>
    <3>1. g[Stored'] = Parsed(g, View, Stored', Stored') /\ Stored' >= Stored'
      BY <1>13, <2>1
    <3>2. Parsed(g, View, Stored', Stored') = <<>>
      BY <3>1, Zenon DEF Parsed
    <3> QED
      BY <3>1, <3>2
  <2>3. ~(Stored >= Stored')
    BY <1>1, <1>3, <1>4, <1>6
  <2>4. Parsed(g, View, Stored', Stored) = <<r>> \o g[Stored']
    BY <1>10, <1>11, <2>3, Zenon DEF Parsed
  <2>5. <<r>> \o <<>> = <<r>>
    <3>1. <<r>> \in Seq({r})
      OBVIOUS
    <3> QED
      BY <3>1, ConcatEmptySeq
  <2> QED
    BY <1>13, <2>1, <2>2, <2>4, <2>5, Zenon
<1>17. f[0] \in RecordSeq
    BY <1>4, <1>14, ParseType
<1>18. Joined(f[0], <<r>>) = Append(f[0], r)
  <2>1. r \in Seq(Nat)
    BY <1>1, BytesAreNumbers
  <2> QED
    BY <1>17, <2>1, AppendIsConcat DEF Joined, RecordSeq
<1>19. ByteRing!Content' = Append(ByteRing!Content, r)
    BY <1>14, <1>15, <1>16, <1>18, Zenon
<1>20. (\E Q : Layout(Q, View, Stored))'
  <2>1. \E Q : Layout(Q, View, Stored')
    BY <1>4, <1>10, <1>12, <1>13, LayoutGrow
  <2>2. \E Q : Layout(Q, View', Stored')
    BY <1>6, <2>1
  <2> QED
    BY <2>2 DEF Layout, After, LengthIn
<1>21. PopInv'
  <2>1. \A i \in 0 .. Stored - 1 : View'[i] = View[i]
    BY <1>6
  <2> QED
    BY <1>5, <1>6, <1>13, <2>1, PopKept DEF ByteInv
<1>22. PushInv'
    BY DEF PushInv
<1>23. ByteRing!Fifo!Push(r)
  <2>1. /\ ByteRing!Used = Stored /\ ByteRing!Used' = Stored'
        /\ Stored + (2 + Len(r)) < ByteCapacity /\ Stored' = Stored + (2 + Len(r))
    BY <1>1, <1>3, <1>4, <1>6 DEF Stored
  <2> QED
    BY <1>19, <2>1 DEF ByteRing!Fifo!Push, ByteRing!Fifo!Cost, ByteRing!kPrefix
<1> QED
    BY <1>1, <1>6, <1>20, <1>21, <1>22, <1>23 DEF ByteInv, r

\* tail_.store: the queue loses its oldest record, which is the one returned.
LEMMA ByteRelease ==
    ASSUME ByteInv, ByteRing!PopRelease
    PROVE  ByteInv' /\ ByteRing!Fifo!Pop
<1> USE DEF ByteRing!PopRelease, ByteRing!producerVars
<1> DEFINE r == bytePopping
           n == LengthIn(View, 0)
           d == After(View, 0)
           f == ByteRing!RecordsFrom
           g == ByteRing!RecordsFrom'
<1>1. /\ r \in Seq(0 .. 255) /\ toTake = 0 /\ Len(r) + toTake = n /\ 2 + n <= Stored
      /\ takeAt = Wrap(byteTail + 2 + Len(r))
      /\ \A j \in 1 .. Len(r) : r[j] = View[1 + j]
    BY DEF ByteInv, PopInv
<1>2. /\ ByteCapacity \in Nat /\ Stored \in Nat /\ Stored < ByteCapacity
      /\ byteHead = Wrap(byteTail + Stored)
      /\ byteTail \in 0 .. ByteCapacity - 1 /\ byteHead \in 0 .. ByteCapacity - 1
      /\ View \in [Nat -> Nat]
    BY RingFacts DEF ByteInv, ByteTypes
<1>3. n \in Nat /\ d = 2 + n
  <2>1. n \in Nat
    BY <1>2, RecordLemma
  <2> QED
    BY <2>1 DEF After
<1> HIDE DEF r, n, d, f, g
<1>4. Len(r) = n /\ d \in Nat /\ d <= Stored /\ d > 0
  <2>1. Len(r) \in Nat /\ Len(r) + 0 = n
    BY <1>1
  <2> QED
    BY <1>1, <1>2, <1>3, <2>1
<1>5. byteTail' = Wrap(byteTail + d) /\ byteHead' = byteHead /\ bytes' = bytes
  <2>1. byteTail + 2 + n = byteTail + d
    BY <1>2, <1>3
  <2> QED
    BY <1>1, <1>4, <2>1
<1>6. ByteTypes' /\ Stored' = Stored - d
  <2>1. byteTail' \in 0 .. ByteCapacity - 1
    BY <1>2, <1>4, <1>5 DEF Wrap
  <2>2. ByteTypes'
    BY <1>2, <1>5, <2>1 DEF ByteInv, ByteTypes
  <2>3. Stored' = IF byteHead >= byteTail' THEN byteHead - byteTail'
                  ELSE ByteCapacity - byteTail' + byteHead
    BY <1>5 DEF Stored, ByteRing!Used, ByteRing!distance
  <2>4. Stored' = Stored - d
    BY <1>2, <1>4, <1>5, <2>3 DEF Wrap
  <2> QED
    BY <2>2, <2>4
<1>7. Stored' \in Nat /\ View' \in [Nat -> Nat]
    BY <1>6, PrimedFacts
<1>8. Follows(View', Stored', View, Stored, d)
  <2>1. ASSUME NEW i \in d .. Stored - 1
        PROVE  View'[i - d] = View[i]
    <3>1. i \in Nat /\ i < ByteCapacity /\ i - d \in Nat /\ i - d < ByteCapacity
      BY <1>2, <1>4
    <3>2. View[i] = bytes[Wrap(byteTail + i)]
      BY <3>1, RingFacts DEF ByteInv
    <3>3. View'[i - d] = bytes'[Wrap(byteTail' + (i - d))]
      BY <1>6, <3>1, PrimedFacts
    <3>4. Wrap(byteTail' + (i - d)) = Wrap(byteTail + i)
      BY <1>2, <1>4, <1>5, <3>1 DEF Wrap
    <3> QED
      BY <1>5, <3>2, <3>3, <3>4
  <2>2. Stored' >= Stored - d
    BY <1>6, <1>7
  <2> QED
    BY <2>1, <2>2 DEF Follows
<1>9. PICK P : Layout(P, View, Stored)
    BY DEF ByteInv
<1>10. d \in P
    BY <1>2, <1>4, <1>9 DEF Layout, d
<1>11. /\ Parses(f, View, Stored) /\ ByteRing!Content = f[0]
       /\ Parses(g, View', Stored') /\ ByteRing!Content' = g[0]
    BY <1>6, ContentFacts, PrimedFacts DEF f, g, ByteInv
<1>12. \A i \in P : i >= d => g[i - d] = Joined(f[i], g[Stored - d])
  <2>1. Shifted(f, View, Stored, g, View', Stored', P, d)
    BY <1>2, <1>7, <1>8, <1>9, <1>10, <1>11 DEF Shifted
  <2> QED
    BY <2>1, ShiftLemma
<1>13. g[0] = Joined(f[d], g[Stored'])
  <2>1. d >= d /\ d - d = 0
    BY <1>4
  <2> QED
    BY <1>6, <1>10, <1>12, <2>1
<1>14. /\ f \in [Nat -> RecordSeq]
       /\ \A i \in Nat : f[i] = Parsed(f, View, Stored, i)
    BY <1>2, <1>11, ParseType
<1>15. g[Stored'] = <<>>
  <2>1. \A i \in Nat : g[i] = Parsed(g, View', Stored', i)
    BY <1>7, <1>11, ParseType
  <2>2. g[Stored'] = Parsed(g, View', Stored', Stored') /\ Stored' >= Stored'
    BY <1>7, <2>1
  <2>3. Parsed(g, View', Stored', Stored') = <<>>
    BY <2>2, Zenon DEF Parsed
  <2> QED
    BY <2>2, <2>3
<1>16. f[d] \in RecordSeq
    BY <1>4, <1>14
<1>17. g[0] = f[d]
  <2>1. f[d] \o <<>> = f[d]
    BY <1>16, ConcatEmptySeq DEF RecordSeq
  <2> QED
    BY <1>13, <1>15, <2>1, Zenon DEF Joined
<1>18. RecordIn(View, 0) = r
  <2>1. RecordIn(View, 0) \in Seq(Nat) /\ Len(RecordIn(View, 0)) = n
    BY <1>2, RecordLemma DEF n
  <2>2. r \in Seq(Nat)
    BY <1>1, BytesAreNumbers
  <2>3. ASSUME NEW j \in 1 .. n
        PROVE  RecordIn(View, 0)[j] = r[j]
    <3>1. RecordIn(View, 0)[j] = View[0 + 2 + j - 1]
      BY DEF RecordIn, n
    <3>2. 0 + 2 + j - 1 = 1 + j
      BY <1>3
    <3> QED
      BY <1>1, <1>4, <3>1, <3>2
  <2> QED
    BY <1>4, <2>1, <2>2, <2>3, SeqEqual
<1>19. f[0] = <<r>> \o f[d]
  <2>1. ~(0 >= Stored) /\ f[0] = Parsed(f, View, Stored, 0)
    BY <1>2, <1>4, <1>14
  <2> QED
    BY <1>18, <2>1, Zenon DEF Parsed, d
<1>20. f[0] # <<>> /\ Head(f[0]) = r /\ Tail(f[0]) = f[d]
  <2> DEFINE t == f[d]
             S == Seq(Nat)
  <2>1. r \in S /\ t \in Seq(S)
    BY <1>1, <1>16, BytesAreNumbers DEF RecordSeq
  <2> HIDE DEF t, S
  <2>2. <<r>> \o t # <<>> /\ Head(<<r>> \o t) = r /\ Tail(<<r>> \o t) = t
    BY <2>1
  <2> QED
    BY <1>19, <2>2, Zenon DEF t
<1>21. (\E Q : Layout(Q, View, Stored))'
  <2>1. \E Q : Layout(Q, View', Stored')
    BY <1>2, <1>6, <1>7, <1>8, <1>9, <1>10, LayoutShift
  <2> QED
    BY <2>1 DEF Layout, After, LengthIn
<1>22. PushInv'
  <2>1. Stored' <= Stored
    BY <1>2, <1>4, <1>6
  <2> QED
    BY <1>5, <1>6, <2>1, PushKept DEF ByteInv
<1>23. PopInv'
    BY <1>1 DEF PopInv
<1>24. ByteRing!Fifo!Pop
  <2>1. ByteRing!Used = Stored /\ ByteRing!Used' = Stored - (2 + Len(r)) /\ byteReceived' = r
    BY <1>3, <1>4, <1>6 DEF Stored, r
  <2>2. ByteRing!Content # <<>> /\ Head(ByteRing!Content) = r
        /\ Tail(ByteRing!Content) = ByteRing!Content'
    BY <1>11, <1>17, <1>20, Zenon
  <2> QED
    BY <2>1, <2>2 DEF ByteRing!Fifo!Pop, ByteRing!Fifo!Cost, ByteRing!kPrefix, Stored
<1> QED
    BY <1>6, <1>21, <1>22, <1>23, <1>24 DEF ByteInv
--------------------------------------------------------------------------------
LEMMA ByteInitLemma == ByteRing!Init => ByteInv /\ ByteRing!Fifo!Init
<1> SUFFICES ASSUME ByteRing!Init PROVE ByteInv /\ ByteRing!Fifo!Init
    OBVIOUS
<1> USE DEF ByteRing!Init
<1>1. ByteCapacity \in Nat /\ ByteCapacity >= 8
    BY ByteRingAssumption DEF ByteRing!ByteRingAssumption
<1>2. ByteTypes /\ Stored = 0 /\ ByteRing!Used = 0
    BY <1>1 DEF ByteTypes, ByteRing!Slots, Stored, ByteRing!Used, ByteRing!distance
<1>3. Layout({0}, View, Stored)
    BY <1>2 DEF Layout
<1>4. PushInv /\ PopInv
    BY DEF PushInv, PopInv
<1>5. ByteRing!Content = <<>>
  <2> DEFINE f == ByteRing!RecordsFrom
  <2>1. Parses(f, View, 0) /\ ByteRing!Content = f[0]
    BY <1>2, ContentFacts
  <2>2. View \in [Nat -> Nat]
    BY <1>2, RingFacts
  <2> HIDE DEF f
  <2>3. \A i \in Nat : f[i] = Parsed(f, View, 0, i)
    BY <2>1, <2>2, ParseType
  <2>4. f[0] = Parsed(f, View, 0, 0) /\ 0 >= 0
    BY <2>3
  <2>5. Parsed(f, View, 0, 0) = <<>>
    BY <2>4, Zenon DEF Parsed
  <2> QED
    BY <2>1, <2>4, <2>5
<1> QED
    BY <1>2, <1>3, <1>4, <1>5 DEF ByteInv, ByteRing!Fifo!Init

LEMMA ByteNextLemma ==
    ASSUME ByteInv, [MCNext]_mcVars
    PROVE  ByteInv' /\ [ByteRing!Fifo!Next]_(ByteRing!Fifo!fifoVars)
<1>1. ASSUME ByteInv', UNCHANGED <<ByteRing!Content, Stored, byteReceived>>
      PROVE  ByteInv' /\ [ByteRing!Fifo!Next]_(ByteRing!Fifo!fifoVars)
    BY <1>1 DEF ByteRing!Fifo!fifoVars, Stored
<1>2. CASE ByteRing!Next
  <2>1. CASE \E r \in ByteRecords : ByteRing!PushBegin(r)
    BY <1>1, <2>1, BytePushBegin
  <2>2. CASE ByteRing!Put
    BY <1>1, <2>2, BytePut
  <2>3. CASE ByteRing!PushPublish
    BY <2>3, BytePublish DEF ByteRing!Fifo!Next
  <2>4. CASE ByteRing!PopBegin
    BY <1>1, <2>4, BytePopBegin
  <2>5. CASE ByteRing!Take
    BY <1>1, <2>5, ByteTake
  <2>6. CASE ByteRing!PopRelease
    BY <2>6, ByteRelease DEF ByteRing!Fifo!Next
  <2> QED
    BY <1>2, <2>1, <2>2, <2>3, <2>4, <2>5, <2>6 DEF ByteRing!Next, ByteRing!tryPush, ByteRing!tryPop
<1>3. CASE UNCHANGED byteVars
  <2>1. UNCHANGED <<bytes, byteHead, byteTail, bytePushing, putAt, toPut, bytePopping, takeAt,
                    toTake, byteReceived>>
    BY <1>3 DEF byteVars
  <2>2. /\ ByteTypes' /\ View' = View /\ Stored' = Stored /\ Stored \in Nat
        /\ (\E P : Layout(P, View, Stored))' /\ ByteRing!Content' = ByteRing!Content
    BY <2>1, BytesKept, RingFacts DEF ByteInv
  <2>3. Stored' <= Stored /\ Stored' >= Stored /\ \A i \in 0 .. Stored - 1 : View'[i] = View[i]
    BY <2>2
  <2>4. PushInv' /\ PopInv'
    BY <2>1, <2>2, <2>3, PushKept, PopKept DEF ByteInv
  <2> QED
    BY <1>1, <2>1, <2>2, <2>4 DEF ByteInv
<1> QED
    BY <1>2, <1>3 DEF MCNext, mcVars

\* ImplementsByteFifo, for every capacity and every set of records.
THEOREM ByteRingImplementsFifo == MCSpec => ImplementsByteFifo
<1>1. MCInit => ByteInv /\ ByteRing!Fifo!Init
    BY ByteInitLemma DEF MCInit
<1>2. ByteInv /\ [MCNext]_mcVars => ByteInv' /\ [ByteRing!Fifo!Next]_(ByteRing!Fifo!fifoVars)
    BY ByteNextLemma
<1> QED
    BY <1>1, <1>2, PTL DEF MCSpec, ImplementsByteFifo, ByteRing!ImplementsByteFifo,
       ByteRing!Fifo!Spec
================================================================================
