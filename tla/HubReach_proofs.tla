---------------------------- MODULE HubReach_proofs ----------------------------
(***************************************************************************)
(* Proofs about MdnsAnswer, for every datagram and every layout of records: *)
(* nothing is read outside of a datagram, the address taken is the one it   *)
(* means, and a query names the host; and about LinkTimers, for every clock *)
(* and all times that its assumptions allow.  MCHubReach joins the two; its *)
(* constants are not used.                                                  *)
(***************************************************************************)
EXTENDS MCHubReach, SequenceTheorems, WellFoundedInduction, TLAPS

Parsing == pc \in {"entry", "skip", "equals", "parsed"}

Walk == [position : Nat, step : Nat, expandedBytes : Nat, next : 0 .. length,
         expectedAt : Nat]

\* Where parseMdnsAnswer stands is inside of the datagram or at its end, and so is
\* where a walk that has met a pointer will go on.
ParseInv ==
    /\ pc \in {"idle", "receive", "entry", "skip", "equals", "parsed"}
    /\ ~Parsing => touched = {}
    /\ Parsing => packet \in Seq(Byte) /\ touched \subseteq 0 .. length - 1
    /\ pc \in {"entry", "skip", "equals"} => position \in 0 .. length
    /\ pc \in {"skip", "equals"} => walk \in Walk
    /\ pc = "equals" => dataLength = kAddressBytes /\ position + dataLength <= length
--------------------------------------------------------------------------------
\* The bytes of a datagram.
LEMMA ByteLemma ==
    ASSUME packet \in Seq(Byte)
    PROVE  /\ length \in Nat
           /\ \A i : At(i) \in Byte
<1>1. length \in Nat
    BY LenProperties DEF length
<1>2. ASSUME NEW i, i \in 0 .. length - 1
      PROVE  packet[i + 1] \in Byte
    <2>1. i + 1 \in 1 .. Len(packet)
        BY <1>1, <1>2 DEF length
    <2> QED
        BY <2>1, ElementOfSeq
<1> QED
    BY <1>1, <1>2 DEF At, Byte

\* The target of a pointer is a number.
LEMMA TargetLemma ==
    ASSUME NEW p \in Nat, At(p) \in 0 .. 255, At(p + 1) \in 0 .. 255, IsPointer(At(p))
    PROVE  Target(p) \in Nat
<1>1. \A a, b \in 0 .. 255 : a >= 192 => (a - 192) * 256 + b \in Nat
    OBVIOUS
<1> QED
    BY <1>1 DEF Target, IsPointer

\* A walk that moves is a walk.
LEMMA MoveLemma ==
    ASSUME NEW w \in Walk, NEW p \in Nat, NEW s \in Nat, NEW e \in Nat, NEW n \in 0 .. length
    PROVE  /\ [w EXCEPT !.position = p, !.step = s, !.next = n] \in Walk
           /\ [w EXCEPT !.position = p, !.step = s, !.expandedBytes = e] \in Walk
    BY DEF Walk

\* So is one that has matched more of the host.
LEMMA MatchLemma ==
    ASSUME NEW w \in Walk, NEW e \in Nat
    PROVE  [w EXCEPT !.expectedAt = e] \in Walk
    BY DEF Walk

\* One round of a walk reads inside of the datagram, and goes on with a walk.
LEMMA WalkLemma ==
    ASSUME packet \in Seq(Byte), NEW w \in Walk
    PROVE  /\ OffsetsOf(w) \subseteq 0 .. length - 1
           /\ Follows(w) => FollowPointer(w) \in Walk
           /\ PassLabel(w) \in Walk
           /\ Expands(w) => w.position .. w.position + At(w.position) \subseteq 0 .. length - 1
<1>1. /\ length \in Nat /\ w.position \in Nat /\ w.step \in Nat /\ w.expandedBytes \in Nat
      /\ w.next \in 0 .. length
    BY ByteLemma DEF Walk
<1>2. At(w.position) \in 0 .. 255 /\ At(w.position + 1) \in 0 .. 255
    BY ByteLemma DEF Byte
<1>3. OffsetsOf(w) \subseteq 0 .. length - 1
    BY <1>1 DEF OffsetsOf, InPacket
<1>4. Follows(w) => FollowPointer(w) \in Walk
    <2> SUFFICES ASSUME Follows(w) PROVE FollowPointer(w) \in Walk
        OBVIOUS
    <2>1. Target(w.position) \in Nat
        BY <1>1, <1>2, TargetLemma DEF Follows
    <2>2. w.position + 2 \in 0 .. length
        BY <1>1 DEF Follows, InPacket
    <2>3. w.step + 1 \in Nat /\ (IF w.next = 0 THEN w.position + 2 ELSE w.next) \in 0 .. length
        BY <1>1, <2>2
    <2> QED
        BY <2>1, <2>3, MoveLemma DEF FollowPointer
<1>5. PassLabel(w) \in Walk
    <2>1. /\ w.position + At(w.position) + 1 \in Nat /\ w.step + 1 \in Nat
          /\ w.expandedBytes + At(w.position) + 1 \in Nat
        <3>1. \A m \in Nat, n \in 0 .. 255 : m + n + 1 \in Nat /\ m + 1 \in Nat
            OBVIOUS
        <3> QED
            BY <1>1, <1>2, <3>1, Zenon
    <2> QED
        BY <1>1, <2>1, MoveLemma DEF PassLabel
<1>6. Expands(w) => w.position .. w.position + At(w.position) \subseteq 0 .. length - 1
    <2>1. Expands(w) => w.position + At(w.position) < length
        BY DEF Expands, InPacket
    <2>2. PICK label \in 0 .. 255 : label = At(w.position)
        BY <1>2
    <2> QED
        BY <1>1, <2>1, <2>2
<1> QED
    BY <1>3, <1>4, <1>5, <1>6

\* What follows a name that was skipped begins inside of the datagram or at its end.
LEMMA AfterNameLemma ==
    ASSUME packet \in Seq(Byte), walk \in Walk, InPacket(walk.position)
    PROVE  afterName \in 0 .. length
BY ByteLemma DEF Walk, InPacket, afterName

\* The lookup outside of a datagram.
LEMMA PollLemma ==
    ASSUME ParseInv, \/ beginLocalResolve \/ cancelLocalResolve \/ PollFails \/ Poll
                     \/ PollEnds \/ Receive \/ AnswerParsed
    PROVE  ParseInv'
<1>1. CASE beginLocalResolve \/ cancelLocalResolve \/ PollFails \/ Poll
    BY <1>1 DEF beginLocalResolve, cancelLocalResolve, PollFails, Poll, ParseIdle, ParseInv,
                Parsing
<1>2. CASE PollEnds \/ AnswerParsed
    BY <1>2 DEF PollEnds, AnswerParsed, Unread, ParseInv, Parsing
<1>3. CASE Receive
    <2>1. PICK d \in Datagrams :
              /\ packet' = d.bytes
              /\ pc' = IF AcceptsHeader(Len(d.bytes), d) THEN "entry" ELSE "parsed"
        BY <1>3 DEF Receive
    <2>2. packet' \in Seq(Byte) /\ Len(packet') \in Nat
        BY <2>1, DnsAssumption, LenProperties
    <2>3. pc' = "entry" => kDnsHeaderBytes \in 0 .. Len(packet')
        BY <2>1, <2>2, DnsAssumption DEF AcceptsHeader
    <2> QED
        BY <1>3, <2>1, <2>2, <2>3 DEF Receive, ParseInv, Parsing, length
<1> QED
    BY <1>1, <1>2, <1>3

\* The parser, entry by entry.
LEMMA ParseLemma ==
    ASSUME ParseInv, Parse, ~AnswerParsed
    PROVE  ParseInv'
<1>1. /\ Parsing /\ packet \in Seq(Byte) /\ length \in Nat /\ packet' = packet
      /\ length' = length /\ Walk' = Walk
      /\ kRecordBytes \in Nat /\ kRecordBytes >= 2 /\ kQuestionBytes \in Nat
      /\ kAddressBytes \in Nat /\ kAddressBytes > 0
    <2>1. Parsing /\ packet' = packet
        BY DEF Parse, NextEntry, EndOfEntries, SkipStep, SkipRefused, Question, Record, Skipped,
               RecordRefused, RecordPassed, RecordToCompare, EqualsStep, EqualsRefused,
               EqualsFound, Compared, Parsing, SameDatagram
    <2> QED
        BY <2>1, ByteLemma, DnsAssumption DEF ParseInv, length, Walk
<1>2. CASE NextEntry
    <2>1. NewWalk(position) \in Walk
        BY <1>1, <1>2 DEF NextEntry, ParseInv, NewWalk, Walk
    <2> QED
        BY <1>1, <1>2, <2>1 DEF NextEntry, ParseInv, Parsing, Walk
<1>3. CASE EndOfEntries
    BY <1>1, <1>3 DEF EndOfEntries, ParseInv, Parsing
<1>4. CASE SkipStep
    <2>1. pc = "skip" /\ walk \in Walk /\ pc' = pc /\ position' = position
        BY <1>4 DEF SkipStep, ParseInv
    <2>2. walk' \in Walk /\ touched' \subseteq 0 .. length - 1
        BY <1>1, <1>4, <2>1, WalkLemma DEF SkipStep
    <2> QED
        BY <1>1, <2>1, <2>2 DEF ParseInv, Parsing
<1>5. CASE SkipRefused
    <2>1. pc' = "parsed" /\ touched' \subseteq 0 .. length - 1
        BY <1>1, <1>5, WalkLemma DEF SkipRefused, GivesUp, ParseInv
    <2> QED
        BY <1>1, <2>1 DEF ParseInv, Parsing
<1>6. ASSUME Skipped
      PROVE  walk \in Walk /\ afterName \in 0 .. length /\ OffsetsOf(walk) \subseteq 0 .. length - 1
    BY <1>1, <1>6, AfterNameLemma, WalkLemma DEF Skipped, CanStep, ParseInv
<1>7. CASE Question
    <2>1. touched' \subseteq 0 .. length - 1
        BY <1>6, <1>7 DEF Question
    <2>2. \/ pc' = "entry" /\ position' \in 0 .. length
          \/ pc' = "parsed"
        BY <1>1, <1>6, <1>7 DEF Question, GivesUp
    <2> QED
        BY <1>1, <2>1, <2>2 DEF ParseInv, Parsing
<1>8. FieldsFit /\ Skipped => Fields \subseteq 0 .. length - 1
    BY <1>1, <1>6 DEF FieldsFit, Fields
<1>9. CASE RecordRefused
    <2>1. pc' = "parsed" /\ touched' \subseteq 0 .. length - 1
        BY <1>6, <1>8, <1>9 DEF RecordRefused, Record, GivesUp
    <2> QED
        BY <1>1, <2>1 DEF ParseInv, Parsing
<1>10. DataLength \in 0 .. 255
    BY <1>1, ByteLemma DEF DataLength, Byte
<1>11. CASE RecordPassed
    <2>1. pc' = "entry" /\ touched' \subseteq 0 .. length - 1
        BY <1>6, <1>8, <1>11 DEF RecordPassed, Record
    <2>2. position' = afterName + kRecordBytes + DataLength /\ DataFits /\ Skipped
        BY <1>11 DEF RecordPassed, Record
    <2>3. afterName + kRecordBytes + DataLength \in 0 .. length
        BY <1>1, <1>6, <1>10, <2>2 DEF DataFits
    <2>4. position' \in 0 .. length
        BY <2>2, <2>3
    <2> QED
        BY <1>1, <2>1, <2>4 DEF ParseInv, Parsing
<1>12. CASE RecordToCompare
    <2>1. pc' = "equals" /\ touched' \subseteq 0 .. length - 1 /\ pc = "skip"
        BY <1>6, <1>8, <1>12 DEF RecordToCompare, Record, Skipped
    <2>2. position' \in 0 .. length /\ dataLength' = kAddressBytes
          /\ position' + dataLength' <= length
        BY <1>1, <1>6, <1>10, <1>12
        DEF RecordToCompare, Record, FieldsFit, DataFits, IsAddress
    <2>3. walk' \in Walk
        BY <1>1, <1>12, <2>1 DEF RecordToCompare, NewWalk, Walk, ParseInv
    <2> QED
        BY <1>1, <2>1, <2>2, <2>3 DEF ParseInv, Parsing
<1>13. CASE EqualsStep
    <2>1. /\ pc = "equals" /\ walk \in Walk /\ pc' = pc
          /\ UNCHANGED <<position, dataLength>>
        BY <1>13 DEF EqualsStep, ParseInv
    <2>2. touched' \subseteq 0 .. length - 1
        BY <1>1, <1>13, <2>1, WalkLemma DEF EqualsStep
    <2>3. walk' \in Walk
        <3>1. LabelEnd(walk) \in Nat
            <4>1. walk.expectedAt \in Nat /\ At(walk.position) \in 0 .. 255
                BY <1>1, <2>1, ByteLemma DEF Walk, Byte
            <4> QED
                BY <4>1 DEF LabelEnd
        <3>2. PassLabel(walk) \in Walk /\ (Follows(walk) => FollowPointer(walk) \in Walk)
            BY <1>1, <2>1, WalkLemma
        <3>3. [PassLabel(walk) EXCEPT !.expectedAt = LabelEnd(walk)] \in Walk
            BY <3>1, <3>2, MatchLemma
        <3> QED
            BY <1>13, <3>2, <3>3 DEF EqualsStep
    <2> QED
        BY <1>1, <2>1, <2>2, <2>3 DEF ParseInv, Parsing
<1>14. CASE EqualsRefused \/ EqualsFound
    <2>1. pc = "equals" /\ walk \in Walk /\ position + dataLength \in 0 .. length
          /\ dataLength = kAddressBytes /\ position \in Nat
        BY <1>1, <1>14 DEF EqualsRefused, EqualsFound, ParseInv
    <2>2. pc' = "entry" /\ position' = position + dataLength
        BY <1>14 DEF EqualsRefused, EqualsFound, Compared
    <2>3. touched' \subseteq 0 .. length - 1
        <3>1. position .. position + kAddressBytes - 1 \subseteq 0 .. length - 1
            BY <1>1, <2>1
        <3>2. OffsetsOf(walk) \subseteq 0 .. length - 1
              /\ (Expands(walk) =>
                      walk.position .. walk.position + At(walk.position) \subseteq 0 .. length - 1)
            BY <1>1, <2>1, WalkLemma
        <3> QED
            BY <1>14, <3>1, <3>2 DEF EqualsRefused, EqualsFound
    <2> QED
        BY <1>1, <2>1, <2>2, <2>3 DEF ParseInv, Parsing
<1> QED
    BY <1>2, <1>3, <1>4, <1>5, <1>7, <1>9, <1>11, <1>12, <1>13, <1>14 DEF Parse

\* The invariant holds in every reachable state.
LEMMA Invariance == Spec => []ParseInv
<1>1. Init => ParseInv
    BY DEF Init, ParseInv, Parsing
<1>2. ParseInv /\ [Next]_vars => ParseInv'
    <2> SUFFICES ASSUME ParseInv, [Next]_vars PROVE ParseInv'
        OBVIOUS
    <2>1. CASE Next
        BY <2>1, PollLemma, ParseLemma DEF Next, Parse
    <2>2. CASE UNCHANGED vars
        BY <2>2 DEF vars, ParseInv, Parsing, Walk, length
    <2> QED
        BY <2>1, <2>2
<1> QED
    BY <1>1, <1>2, PTL DEF Spec

\* Whatever a datagram holds, the parser reads nothing behind its end: names, their
\* pointers and labels, the fields of records and the address.
THEOREM NothingReadOutside == Spec => []ReadsInside
<1>1. ParseInv => ReadsInside
    BY DEF ParseInv, ReadsInside
<1> QED
    BY <1>1, Invariance, PTL
--------------------------------------------------------------------------------
\* What a datagram says.

\* A set of numbers has a least one.
LEMMA LeastLemma ==
    ASSUME NEW S, S \subseteq Nat, S # {}
    PROVE  \E least \in S : \A y \in S : least <= y
<1> DEFINE R == OpToRel(<, Nat)
<1>1. IsWellFoundedOn(R, Nat)
    BY NatLessThanWellFounded
<1>2. \A x, y \in Nat : y < x => <<y, x>> \in R
    BY DEF OpToRel
<1> HIDE DEF R
<1>3. PICK x \in S : \A y \in S : ~(<<y, x>> \in R)
    BY <1>1, WFMin, Zenon
<1>4. \A y \in S : ~(y < x)
    BY <1>2, <1>3
<1> QED
    BY <1>4

\* Induction upwards, for a set that is closed under the number behind.
LEMMA UpLemma ==
    ASSUME NEW S, 0 \in S, \A m \in Nat : m \in S => m + 1 \in S
    PROVE  \A m \in Nat : m \in S
<1> DEFINE Missing == {m \in Nat : m \notin S}
<1> SUFFICES ASSUME Missing # {}
             PROVE  FALSE
    BY DEF Missing
<1>1. PICK m \in Missing : \A y \in Missing : m <= y
    <2>1. Missing \subseteq Nat
        BY DEF Missing
    <2> HIDE DEF Missing
    <2> QED
        BY <2>1, LeastLemma
<1>2. m \in Nat /\ m \notin S /\ m # 0
    BY <1>1
<1>3. m - 1 \in Nat /\ (m - 1) + 1 = m
    BY <1>2
<1>4. m - 1 \in S
    BY <1>1, <1>3
<1> QED
    BY <1>2, <1>3, <1>4

\* A function can be defined by its first value and a step from each to the next.
Steps(S) == [Nat -> [S -> S]]
Runs(f, S, s0, step) ==
    /\ f \in [Nat -> S] /\ f[0] = s0
    /\ \A n \in Nat : f[n + 1] = step[n][f[n]]
LEMMA RecursionLemma ==
    ASSUME NEW S, NEW s0 \in S, NEW step \in Steps(S)
    PROVE  \E f : Runs(f, S, s0, step)
<1> DEFINE Upto(f, m) == f[0] = s0 /\ \A n \in Nat : n < m => f[n + 1] = step[n][f[n]]
           R == {m \in Nat : \E f \in [Nat -> S] : Upto(f, m)}
           First(m) == CHOOSE f \in [Nat -> S] : Upto(f, m)
           F == [n \in Nat |-> First(n)[n]]
<1> USE DEF Steps
<1>1. 0 \in R
    <2> DEFINE f == [n \in Nat |-> s0]
    <2>1. f \in [Nat -> S] /\ Upto(f, 0)
        OBVIOUS
    <2> HIDE DEF f, Upto
    <2> QED
        BY <2>1
<1>2. ASSUME NEW m \in Nat, m \in R
      PROVE  m + 1 \in R
    <2>1. PICK f \in [Nat -> S] : Upto(f, m)
        BY <1>2
    <2> DEFINE g == [f EXCEPT ![m + 1] = step[m][f[m]]]
    <2>2. step[m][f[m]] \in S
        OBVIOUS
    <2>3. g \in [Nat -> S]
        BY <2>2
    <2>4. g[m + 1] = step[m][f[m]] /\ \A n \in Nat : n # m + 1 => g[n] = f[n]
        OBVIOUS
    <2> HIDE DEF g
    <2>5. Upto(g, m + 1)
        <3>1. g[0] = s0
            BY <2>1, <2>4
        <3>2. ASSUME NEW n \in Nat, n < m + 1
              PROVE  g[n + 1] = step[n][g[n]]
            <4>1. g[n] = f[n]
                BY <2>4, <3>2
            <4>2. CASE n = m
                BY <2>4, <4>1, <4>2
            <4>3. CASE n < m
                <5>1. g[n + 1] = f[n + 1] /\ f[n + 1] = step[n][f[n]]
                    BY <2>1, <2>4, <4>3
                <5> QED
                    BY <4>1, <5>1
            <4> QED
                BY <3>2, <4>2, <4>3
        <3> QED
            BY <3>1, <3>2
    <2> QED
        BY <2>3, <2>5
<1>3. \A m \in Nat : First(m) \in [Nat -> S] /\ Upto(First(m), m)
    <2>1. \A m \in Nat : m \in R
        <3> HIDE DEF R
        <3> QED
            BY <1>1, <1>2, UpLemma
    <2>2. \A m \in Nat : \E f \in [Nat -> S] : Upto(f, m)
        BY <2>1
    <2> HIDE DEF Upto
    <2> QED
        BY <2>2
<1>4. ASSUME NEW m \in Nat
      PROVE  First(m + 1)[m] = First(m)[m]
    <2> DEFINE g == First(m + 1)
               f == First(m)
               T == {n \in Nat : n <= m => g[n] = f[n]}
    <2>1. Upto(g, m + 1) /\ Upto(f, m)
        <3> HIDE DEF Upto, First
        <3>1. m + 1 \in Nat
            OBVIOUS
        <3> QED
            BY <1>3, <3>1
    <2> HIDE DEF g, f
    <2>2. 0 \in T
        BY <2>1
    <2>3. ASSUME NEW n \in Nat, n \in T
          PROVE  n + 1 \in T
        <3>1. n + 1 <= m => g[n + 1] = f[n + 1]
            BY <2>1, <2>3
        <3> QED
            BY <3>1
    <2>4. m \in T
        <3> HIDE DEF T
        <3> QED
            BY <2>2, <2>3, UpLemma
    <2> QED
        BY <2>4 DEF g, f
<1>5. F \in [Nat -> S] /\ F[0] = s0
    <2> HIDE DEF First
    <2> QED
        BY <1>3
<1>6. ASSUME NEW n \in Nat
      PROVE  F[n + 1] = step[n][F[n]]
    <2>1. Upto(First(n + 1), n + 1)
        <3> HIDE DEF Upto, First
        <3>1. n + 1 \in Nat
            OBVIOUS
        <3> QED
            BY <1>3, <3>1
    <2>2. First(n + 1)[n + 1] = step[n][First(n + 1)[n]]
        BY <2>1
    <2>3. F[n + 1] = First(n + 1)[n + 1] /\ F[n] = First(n)[n]
        OBVIOUS
    <2> HIDE DEF First, F, Upto
    <2> QED
        BY <1>4, <2>2, <2>3
<1> HIDE DEF F
<1> QED
    BY <1>5, <1>6 DEF Runs
--------------------------------------------------------------------------------
\* Names, as a function of the bytes of a datagram.
ByteAt(b, i) == IF i \in 0 .. Len(b) - 1 THEN b[i + 1] ELSE 0
TargetIn(b, p) == (ByteAt(b, p) - 192) * 256 + ByteAt(b, p + 1)
Points(b, p) == IsPointer(ByteAt(b, p)) /\ p + 1 < Len(b) /\ TargetIn(b, p) < p
Spells(b, p) == IsLabel(ByteAt(b, p)) /\ p + ByteAt(b, p) < Len(b)
Letters(b, p) == SubSeq(b, p + 2, p + ByteAt(b, p) + 1) \o <<Dot>>
Glued(s, t) == s \o t

NameType == [text : Seq(Byte), end : Nat]
Row == [Nat -> NameType]

\* NameFrom, of the bytes b.
NameIn(b, p, rest) ==
    IF p >= Len(b) THEN Malformed
    ELSE IF ByteAt(b, p) = 0 THEN [text |-> <<>>, end |-> p + 1]
    ELSE IF Points(b, p) /\ rest[TargetIn(b, p)] # Malformed
         THEN [text |-> rest[TargetIn(b, p)].text, end |-> p + 2]
    ELSE IF Spells(b, p) /\ rest[p + ByteAt(b, p) + 1] # Malformed
         THEN [text |-> Glued(Letters(b, p), rest[p + ByteAt(b, p) + 1].text),
               end |-> rest[p + ByteAt(b, p) + 1].end]
    ELSE Malformed
Reads(h, b) ==
    h = [n \in Nat |-> [p \in Nat |-> IF n = 0 THEN Malformed ELSE NameIn(b, p, h[n - 1])]]

\* NameFrom reads the bytes of packet_ and nothing else.
LEMMA NameFromIn ==
    ASSUME NEW p \in Nat, NEW rest, packet \in Seq(Byte)
    PROVE  NameFrom(p, rest) = NameIn(packet, p, rest)
<1>1. length = Len(packet) /\ length \in Nat
    BY ByteLemma DEF length
<1>2. \A i : At(i) = ByteAt(packet, i)
    BY DEF At, ByteAt, length
<1>3. Target(p) = TargetIn(packet, p)
    BY <1>2, Zenon DEF Target, TargetIn
<1>4. At(p) \in 0 .. 255
    BY ByteLemma DEF Byte
<1> DEFINE a == At(p)
           t == Target(p)
<1>5. a = ByteAt(packet, p) /\ t = TargetIn(packet, p)
    BY <1>2, <1>3
<1>11. a \in 0 .. 255
    BY <1>4
<1> HIDE DEF a, t
<1>6. /\ Points(packet, p) <=> IsPointer(a) /\ p + 1 < length /\ t < p
      /\ Spells(packet, p) <=> IsLabel(a) /\ p + a < length
      /\ Letters(packet, p) = SubSeq(packet, p + 2, p + a + 1) \o <<Dot>>
    BY <1>1, <1>5 DEF Points, Spells, Letters
<1>7. /\ IsPointer(a) => a # 0 /\ ~IsLabel(a)
      /\ IsLabel(a) => a # 0 /\ ~IsPointer(a)
    <2>1. /\ \A x \in 0 .. 255 : IsPointer(x) => x # 0 /\ ~IsLabel(x)
          /\ \A x \in 0 .. 255 : IsLabel(x) => x # 0 /\ ~IsPointer(x)
        BY DEF IsPointer, IsLabel, kMaxLabel
    <2> QED
        BY <1>11, <2>1
<1>8. /\ IsPointer(a) /\ p + 1 < length => p < length
      /\ IsLabel(a) /\ p + a < length => p < length
    <2>1. \A x \in 0 .. 255, m \in Nat : (p + 1 < m => p < m) /\ (p + x < m => p < m)
        OBVIOUS
    <2> QED
        BY <1>1, <1>11, <2>1
<1>9. ~(p >= length /\ p < length) /\ (p >= length \/ p < length)
    BY <1>1
<1>10. NameFrom(p, rest) =
          CASE p >= length -> Malformed
            [] p < length /\ a = 0 -> [text |-> <<>>, end |-> p + 1]
            [] IsPointer(a) /\ p + 1 < length /\ t < p /\ rest[t] # Malformed ->
                   [text |-> rest[t].text, end |-> p + 2]
            [] IsLabel(a) /\ p + a < length /\ rest[p + a + 1] # Malformed ->
                   [text |-> SubSeq(packet, p + 2, p + a + 1) \o <<Dot>> \o rest[p + a + 1].text,
                    end |-> rest[p + a + 1].end]
            [] OTHER -> Malformed
    BY DEF NameFrom, a, t
<1> QED
    BY <1>1, <1>5, <1>6, <1>7, <1>8, <1>9, <1>10 DEF NameIn, Glued

\* The bytes of b, and the targets of the pointers among them.
LEMMA BytesLemma ==
    ASSUME NEW b \in Seq(Byte)
    PROVE  /\ Len(b) \in Nat
           /\ \A i : ByteAt(b, i) \in 0 .. 255
           /\ \A p : Points(b, p) => TargetIn(b, p) \in Nat
<1>1. Len(b) \in Nat
    BY LenProperties
<1>2. \A i : ByteAt(b, i) \in 0 .. 255
    <2>1. ASSUME NEW i, i \in 0 .. Len(b) - 1
          PROVE  b[i + 1] \in 0 .. 255
        <3>1. i + 1 \in 1 .. Len(b)
            BY <1>1, <2>1
        <3> QED
            BY <3>1, ElementOfSeq DEF Byte
    <2> QED
        BY <2>1 DEF ByteAt
<1>3. \A x, y \in 0 .. 255 : x >= 192 => (x - 192) * 256 + y \in Nat
    OBVIOUS
<1>4. ASSUME NEW p, Points(b, p)
      PROVE  TargetIn(b, p) \in Nat
    <2>1. ByteAt(b, p) \in 0 .. 255 /\ ByteAt(b, p + 1) \in 0 .. 255 /\ ByteAt(b, p) >= 192
        BY <1>2, <1>4 DEF Points, IsPointer
    <2> QED
        BY <1>3, <2>1 DEF TargetIn
<1> QED
    BY <1>1, <1>2, <1>4

\* Length and letters of two texts joined.
LEMMA GluedLemma ==
    ASSUME NEW s \in Seq(Byte), NEW t \in Seq(Byte)
    PROVE  /\ Glued(s, t) \in Seq(Byte) /\ Len(Glued(s, t)) = Len(s) + Len(t)
           /\ \A i \in 1 .. Len(s) : Glued(s, t)[i] = s[i]
           /\ \A i \in 1 .. Len(t) : Glued(s, t)[Len(s) + i] = t[i]
BY ConcatProperties DEF Glued

\* A label gives its letters, with a dot behind.
LEMMA LettersLemma ==
    ASSUME NEW b \in Seq(Byte), NEW p \in Nat, Spells(b, p)
    PROVE  /\ ByteAt(b, p) \in 1 .. 63 /\ p + ByteAt(b, p) < Len(b)
           /\ Letters(b, p) \in Seq(Byte) /\ Len(Letters(b, p)) = ByteAt(b, p) + 1
           /\ \A i \in 1 .. ByteAt(b, p) : Letters(b, p)[i] = ByteAt(b, p + i)
           /\ Letters(b, p)[ByteAt(b, p) + 1] = Dot
<1> DEFINE n == ByteAt(b, p)
           s == SubSeq(b, p + 2, p + n + 1)
<1>1. n \in 1 .. 63 /\ p + n < Len(b) /\ Len(b) \in Nat
    BY LenProperties DEF Spells, IsLabel, kMaxLabel
<1>2. Letters(b, p) = s \o <<Dot>>
    BY DEF Letters
<1>a. \A i \in 1 .. n : ByteAt(b, p + i) = b[p + 1 + i]
    <2> SUFFICES ASSUME NEW i \in 1 .. n
                 PROVE  ByteAt(b, p + i) = b[p + 1 + i]
        OBVIOUS
    <2> HIDE DEF n
    <2>1. p + i \in 0 .. Len(b) - 1 /\ (p + i) + 1 = p + 1 + i
        BY <1>1
    <2> QED
        BY <2>1 DEF ByteAt
<1> HIDE DEF n
<1>3. p + 2 \in 1 .. Len(b) + 1 /\ p + n + 1 \in (p + 1) .. Len(b)
    BY <1>1
<1>4. s \in Seq(Byte) /\ Len(s) = n /\ \A i \in 1 .. n : s[i] = b[p + 1 + i]
    <2>1. s \in Seq(Byte)
        BY <1>1, SubSeqProperties
    <2>2. Len(s) = n /\ \A i \in 1 .. n : s[i] = b[p + 1 + i]
        BY <1>1
    <2> QED
        BY <2>1, <2>2
<1> HIDE DEF s
<1>5. <<Dot>> \in Seq(Byte) /\ Len(<<Dot>>) = 1 /\ <<Dot>>[1] = Dot
    BY DEF Dot, Byte
<1>6. /\ s \o <<Dot>> \in Seq(Byte) /\ Len(s \o <<Dot>>) = n + 1
      /\ \A i \in 1 .. n : (s \o <<Dot>>)[i] = s[i]
      /\ (s \o <<Dot>>)[n + 1] = Dot
    <2>1. PICK d : d = <<Dot>>
        OBVIOUS
    <2>2. d \in Seq(Byte) /\ Len(d) = 1 /\ d[1] = Dot
        BY <1>5, <2>1
    <2>3. /\ Glued(s, d) \in Seq(Byte) /\ Len(Glued(s, d)) = Len(s) + Len(d)
          /\ \A i \in 1 .. Len(s) : Glued(s, d)[i] = s[i]
          /\ \A i \in 1 .. Len(d) : Glued(s, d)[Len(s) + i] = d[i]
        BY <1>4, <2>2, GluedLemma
    <2>4. 1 \in 1 .. Len(d)
        BY <2>2
    <2>5. /\ Glued(s, d) \in Seq(Byte) /\ Len(Glued(s, d)) = n + 1
          /\ \A i \in 1 .. n : Glued(s, d)[i] = s[i]
          /\ Glued(s, d)[n + 1] = Dot
        BY <1>4, <2>2, <2>3, <2>4
    <2> QED
        BY <2>1, <2>5, Zenon DEF Glued
<1> QED
    BY <1>1, <1>2, <1>a, <1>4, <1>6 DEF n

\* What is read at a place is a name, if what is read elsewhere is.
LEMMA NameInType ==
    ASSUME NEW b \in Seq(Byte), NEW p \in Nat, NEW rest \in Row
    PROVE  NameIn(b, p, rest) \in NameType
<1>1. Malformed \in NameType
    BY DEF Malformed, NameType
<1>2. [text |-> <<>>, end |-> p + 1] \in NameType
    BY DEF NameType
<1>3. ASSUME Points(b, p)
      PROVE  [text |-> rest[TargetIn(b, p)].text, end |-> p + 2] \in NameType
    <2>1. TargetIn(b, p) \in Nat
        BY <1>3, BytesLemma
    <2>2. rest[TargetIn(b, p)].text \in Seq(Byte)
        BY <2>1 DEF Row, NameType
    <2> QED
        BY <2>2 DEF NameType
<1>4. ASSUME Spells(b, p)
      PROVE  [text |-> Glued(Letters(b, p), rest[p + ByteAt(b, p) + 1].text),
              end |-> rest[p + ByteAt(b, p) + 1].end] \in NameType
    <2>1. p + ByteAt(b, p) + 1 \in Nat /\ Letters(b, p) \in Seq(Byte)
        <3>1. ByteAt(b, p) \in 1 .. 63 /\ Letters(b, p) \in Seq(Byte)
            BY <1>4, LettersLemma
        <3>2. \A m \in 1 .. 63 : p + m + 1 \in Nat
            OBVIOUS
        <3> QED
            BY <3>1, <3>2, Zenon
    <2>2. rest[p + ByteAt(b, p) + 1] \in NameType
        BY <2>1 DEF Row
    <2>3. Glued(Letters(b, p), rest[p + ByteAt(b, p) + 1].text) \in Seq(Byte)
        BY <2>1, <2>2, ConcatProperties DEF NameType, Glued
    <2> QED
        BY <2>2, <2>3 DEF NameType
<1> QED
    BY <1>1, <1>2, <1>3, <1>4 DEF NameIn

\* A table of names read from b, and the only one.
LEMMA ReadsType ==
    ASSUME NEW b \in Seq(Byte), NEW h, Reads(h, b)
    PROVE  /\ h \in [Nat -> Row] /\ h[0] = [p \in Nat |-> Malformed]
           /\ \A n \in Nat, p \in Nat : h[n + 1][p] = NameIn(b, p, h[n])
<1>1. \A n \in Nat : h[n] = [p \in Nat |-> IF n = 0 THEN Malformed ELSE NameIn(b, p, h[n - 1])]
    BY DEF Reads
<1>2. h[0] = [p \in Nat |-> Malformed]
    BY <1>1
<1>3. \A n \in Nat : h[n + 1] = [p \in Nat |-> NameIn(b, p, h[n])]
    <2> SUFFICES ASSUME NEW n \in Nat
                 PROVE  h[n + 1] = [p \in Nat |-> NameIn(b, p, h[n])]
        OBVIOUS
    <2>1. n + 1 \in Nat /\ n + 1 # 0 /\ (n + 1) - 1 = n
        OBVIOUS
    <2>2. h[n + 1] = [p \in Nat |-> NameIn(b, p, h[(n + 1) - 1])]
        BY <1>1, <2>1
    <2> QED
        BY <2>1, <2>2
<1> DEFINE S == {n \in Nat : h[n] \in Row}
<1>4. 0 \in S
    <2>1. Malformed \in NameType
        BY DEF Malformed, NameType
    <2>2. [p \in Nat |-> Malformed] \in Row
        BY <2>1 DEF Row
    <2> QED
        BY <1>2, <2>2
<1>5. ASSUME NEW n \in Nat, n \in S
      PROVE  n + 1 \in S
    <2>1. \A p \in Nat : NameIn(b, p, h[n]) \in NameType
        BY <1>5, NameInType
    <2>2. [p \in Nat |-> NameIn(b, p, h[n])] \in Row
        BY <2>1 DEF Row
    <2> QED
        BY <1>3, <2>2
<1>6. \A n \in Nat : n \in S
    <2> HIDE DEF S
    <2> QED
        BY <1>4, <1>5, UpLemma
<1>7. h \in [Nat -> Row]
    <2>1. h = [n \in Nat |-> h[n]]
        BY DEF Reads
    <2>2. \A n \in Nat : h[n] \in Row
        BY <1>6
    <2> QED
        BY <2>1, <2>2
<1> QED
    BY <1>2, <1>3, <1>7

LEMMA ReadsOnce ==
    ASSUME NEW b \in Seq(Byte), NEW g, NEW h, Reads(g, b), Reads(h, b)
    PROVE  g = h
<1> DEFINE S == {n \in Nat : g[n] = h[n]}
<1>1. /\ g \in [Nat -> Row] /\ h \in [Nat -> Row]
      /\ g[0] = h[0]
      /\ \A n \in Nat, p \in Nat : g[n + 1][p] = NameIn(b, p, g[n])
      /\ \A n \in Nat, p \in Nat : h[n + 1][p] = NameIn(b, p, h[n])
    BY ReadsType
<1>2. ASSUME NEW n \in Nat, n \in S
      PROVE  n + 1 \in S
    <2>1. n + 1 \in Nat /\ g[n + 1] \in Row /\ h[n + 1] \in Row
        BY <1>1
    <2>2. \A p \in Nat : g[n + 1][p] = h[n + 1][p]
        BY <1>1, <1>2
    <2> QED
        BY <2>1, <2>2 DEF Row
<1>3. \A n \in Nat : n \in S
    <2>1. 0 \in S
        BY <1>1
    <2> HIDE DEF S
    <2> QED
        BY <1>2, <2>1, UpLemma
<1> QED
    BY <1>1, <1>3

\* There is such a table: NameIn reads a round from the round before.
LEMMA ReadsExists ==
    ASSUME NEW b \in Seq(Byte)
    PROVE  \E h : Reads(h, b)
<1> DEFINE step == [n \in Nat |-> [g \in Row |-> [p \in Nat |-> NameIn(b, p, g)]]]
           none == [p \in Nat |-> Malformed]
<1>1. none \in Row
    BY DEF Row, Malformed, NameType
<1>2. step \in Steps(Row)
    BY NameInType DEF Row, Steps
<1>3. PICK h \in [Nat -> Row] : h[0] = none /\ \A n \in Nat : h[n + 1] = step[n][h[n]]
    <2> HIDE DEF step, none
    <2>1. \E f : Runs(f, Row, none, step)
        BY <1>1, <1>2, RecursionLemma
    <2> QED
        BY <2>1 DEF Runs
<1>4. ASSUME NEW n \in Nat
      PROVE  h[n] = [p \in Nat |-> IF n = 0 THEN Malformed ELSE NameIn(b, p, h[n - 1])]
    <2>1. CASE n = 0
        BY <1>3, <2>1
    <2>2. CASE n # 0
        <3>1. n - 1 \in Nat /\ (n - 1) + 1 = n
            BY <2>2
        <3>2. h[n] = step[n - 1][h[n - 1]] /\ h[n - 1] \in Row
            <4> HIDE DEF step
            <4> QED
                BY <1>3, <3>1
        <3>3. h[n] = [p \in Nat |-> NameIn(b, p, h[n - 1])]
            BY <3>1, <3>2
        <3> QED
            BY <2>2, <3>3
    <2> QED
        BY <2>1, <2>2
<1>5. h = [n \in Nat |-> [p \in Nat |-> IF n = 0 THEN Malformed ELSE NameIn(b, p, h[n - 1])]]
    BY <1>3, <1>4
<1> QED
    BY <1>5 DEF Reads

\* Name is the table of the names that packet_ holds.
LEMMA NameReads == packet \in Seq(Byte) => Reads(Name, packet)
<1> SUFFICES ASSUME packet \in Seq(Byte)
             PROVE  Reads(Name, packet)
    OBVIOUS
<1> DEFINE Body(h, n, p) == IF n = 0 THEN Malformed ELSE NameFrom(p, h[n - 1])
           InBody(h, n, p) == IF n = 0 THEN Malformed ELSE NameIn(packet, p, h[n - 1])
<1>1. Name = CHOOSE h : h = [n \in Nat |-> [p \in Nat |-> Body(h, n, p)]]
    BY Zenon DEF Name
<1>2. \A h : \A n, p \in Nat : Body(h, n, p) = InBody(h, n, p)
    BY NameFromIn
<1>3. \A h : Reads(h, packet) <=> h = [n \in Nat |-> [p \in Nat |-> InBody(h, n, p)]]
    BY Zenon DEF Reads
<1> HIDE DEF Body, InBody
<1>4. \A h : [n \in Nat |-> [p \in Nat |-> Body(h, n, p)]] =
             [n \in Nat |-> [p \in Nat |-> InBody(h, n, p)]]
    <2> SUFFICES ASSUME NEW h
                 PROVE  [n \in Nat |-> [p \in Nat |-> Body(h, n, p)]] =
                        [n \in Nat |-> [p \in Nat |-> InBody(h, n, p)]]
        OBVIOUS
    <2>1. \A n \in Nat : [p \in Nat |-> Body(h, n, p)] = [p \in Nat |-> InBody(h, n, p)]
        BY <1>2, Zenon
    <2> QED
        BY <2>1, Zenon
<1>5. PICK f : f = [n \in Nat |-> [p \in Nat |-> Body(f, n, p)]]
    <2>1. PICK f : Reads(f, packet)
        BY ReadsExists
    <2>2. f = [n \in Nat |-> [p \in Nat |-> InBody(f, n, p)]]
        BY <1>3, <2>1, Zenon
    <2>3. f = [n \in Nat |-> [p \in Nat |-> Body(f, n, p)]]
        BY <1>4, <2>2, Zenon
    <2> QED
        BY <2>3, Zenon
<1>6. Name = [n \in Nat |-> [p \in Nat |-> Body(Name, n, p)]]
    BY <1>1, <1>5, Zenon
<1> QED
    BY <1>3, <1>4, <1>6, Zenon

\* The table changes with the packet only.
LEMMA NameStill ==
    ASSUME packet \in Seq(Byte), packet' = packet
    PROVE  Name' = Name
<1>1. packet' \in Seq(Byte) => Reads(Name', packet')
    <2>1. (packet \in Seq(Byte) => Reads(Name, packet))'
        BY NameReads, PTL
    <2> QED
        BY <2>1
<1> QED
    BY <1>1, NameReads, ReadsOnce

\* Its first row, and each from the one before.
LEMMA NameLemma ==
    ASSUME packet \in Seq(Byte)
    PROVE  /\ Name \in [Nat -> Row]
           /\ \A p \in Nat : Name[0][p] = Malformed
           /\ \A n, p \in Nat : Name[n + 1][p] = NameIn(packet, p, Name[n])
BY NameReads, ReadsType
--------------------------------------------------------------------------------
\* What is left of the name at which a walk stands.
Rest(w) == Name[kMaxNameSteps - w.step][w.position]

\* One round of a walk, and what it leaves of the name.
LEMMA RoundLemma ==
    ASSUME packet \in Seq(Byte), NEW w \in Walk, w.step <= kMaxNameSteps
    PROVE  /\ Rest(w) \in NameType
           /\ ~CanStep(w) => Rest(w) = Malformed
           /\ CanStep(w) /\ AtRoot(w) => Rest(w) = [text |-> <<>>, end |-> w.position + 1]
           /\ CanStep(w) /\ Follows(w) =>
                 Rest(w) = IF Rest(FollowPointer(w)) = Malformed THEN Malformed
                           ELSE [text |-> Rest(FollowPointer(w)).text, end |-> w.position + 2]
           /\ CanStep(w) /\ Spells(packet, w.position) =>
                 Rest(w) = IF Rest(PassLabel(w)) = Malformed THEN Malformed
                           ELSE [text |-> Glued(Letters(packet, w.position),
                                                 Rest(PassLabel(w)).text),
                                 end |-> Rest(PassLabel(w)).end]
           /\ ~AtRoot(w) /\ ~Follows(w) /\ ~Spells(packet, w.position) =>
                 Rest(w) = Malformed
<1> DEFINE m == kMaxNameSteps - w.step
           p == w.position
<1>1. m \in Nat /\ p \in Nat /\ kMaxNameSteps \in Nat /\ w.step \in Nat
    BY DnsAssumption DEF Walk
<1>2. Name[m] \in Row /\ Rest(w) = Name[m][p]
    BY <1>1, NameLemma DEF Rest
<1>3. Rest(w) \in NameType
    BY <1>1, <1>2 DEF Row
<1>4. length = Len(packet) /\ length \in Nat
    BY ByteLemma DEF length
<1>5. \A i : At(i) = ByteAt(packet, i)
    BY DEF At, ByteAt, length
<1>6. Target(p) = TargetIn(packet, p)
    BY <1>5, Zenon DEF Target, TargetIn
<1>7. m = 0 => Rest(w) = Malformed
    BY <1>1, <1>2, NameLemma
<1>8. ASSUME m # 0
      PROVE  Rest(w) = NameIn(packet, p, Name[m - 1])
    <2>1. m - 1 \in Nat /\ (m - 1) + 1 = m
        BY <1>1, <1>8
    <2>2. Name[(m - 1) + 1][p] = NameIn(packet, p, Name[m - 1])
        <3> HIDE DEF m, p
        <3> QED
            BY <1>1, <2>1, NameLemma
    <2> QED
        BY <1>2, <2>1, <2>2
<1>9. CanStep(w) <=> m # 0 /\ p < Len(packet)
    BY <1>1, <1>4 DEF CanStep, InPacket
<1>10. AtRoot(w) <=> ByteAt(packet, p) = 0
    BY <1>5 DEF AtRoot
<1>11. Follows(w) <=> Points(packet, p)
    BY <1>4, <1>5, <1>6 DEF Follows, Points, InPacket
<1>12. ASSUME m # 0
       PROVE  /\ Rest(FollowPointer(w)) = Name[m - 1][TargetIn(packet, p)]
              /\ Rest(PassLabel(w)) = Name[m - 1][p + ByteAt(packet, p) + 1]
    <2>1. kMaxNameSteps - (w.step + 1) = m - 1
        BY <1>1
    <2>2. /\ FollowPointer(w).step = w.step + 1 /\ FollowPointer(w).position = Target(p)
          /\ PassLabel(w).step = w.step + 1 /\ PassLabel(w).position = p + At(p) + 1
        BY DEF FollowPointer, PassLabel, Walk
    <2> QED
        BY <1>5, <1>6, <2>1, <2>2 DEF Rest
<1> DEFINE a == ByteAt(packet, p)
<1>13. /\ Points(packet, p) => a # 0 /\ ~Spells(packet, p)
       /\ Spells(packet, p) => a # 0 /\ ~Points(packet, p)
    <2>1. a \in 0 .. 255
        BY BytesLemma
    <2>2. /\ \A x \in 0 .. 255 : IsPointer(x) => x # 0 /\ ~IsLabel(x)
          /\ \A x \in 0 .. 255 : IsLabel(x) => x # 0 /\ ~IsPointer(x)
        BY DEF IsPointer, IsLabel, kMaxLabel
    <2> QED
        BY <2>1, <2>2, Zenon DEF Points, Spells
<1> HIDE DEF m, p, a
<1>14. m # 0 /\ p >= Len(packet) => Rest(w) = Malformed
    BY <1>8 DEF NameIn
<1>15. ~CanStep(w) => Rest(w) = Malformed
    BY <1>1, <1>4, <1>7, <1>9, <1>14
<1>16. ~(p >= Len(packet)) <=> p < Len(packet)
    BY <1>1, <1>4
<1>17. CanStep(w) /\ AtRoot(w) => Rest(w) = [text |-> <<>>, end |-> p + 1]
    BY <1>8, <1>9, <1>10, <1>16 DEF NameIn
<1>18. CanStep(w) /\ Follows(w) =>
                 Rest(w) = IF Rest(FollowPointer(w)) = Malformed THEN Malformed
                           ELSE [text |-> Rest(FollowPointer(w)).text, end |-> p + 2]
    BY <1>8, <1>9, <1>11, <1>12, <1>13, <1>16 DEF NameIn, a
<1>19. CanStep(w) /\ Spells(packet, p) =>
                 Rest(w) = IF Rest(PassLabel(w)) = Malformed THEN Malformed
                           ELSE [text |-> Glued(Letters(packet, p), Rest(PassLabel(w)).text),
                                 end |-> Rest(PassLabel(w)).end]
    BY <1>8, <1>9, <1>12, <1>13, <1>16 DEF NameIn, a
<1>20. ~AtRoot(w) /\ ~Follows(w) /\ ~Spells(packet, p) => Rest(w) = Malformed
    BY <1>7, <1>8, <1>10, <1>11 DEF NameIn
<1> QED
    BY <1>3, <1>15, <1>17, <1>18, <1>19, <1>20 DEF p

\* The name at s is what a walk has passed, prefix, and what is left of it.
Walked(w, s, prefix) ==
    /\ w \in Walk /\ w.step <= kMaxNameSteps /\ w.expandedBytes <= kMaxExpandedNameBytes
    /\ prefix \in Seq(Byte) /\ Len(prefix) = w.expandedBytes
    /\ Name[kMaxNameSteps][s] =
           IF Rest(w) = Malformed THEN Malformed
           ELSE [text |-> Glued(prefix, Rest(w).text),
                 end |-> IF w.next = 0 THEN Rest(w).end ELSE w.next]

LEMMA GluedEmpty ==
    ASSUME NEW s \in Seq(Byte)
    PROVE  Glued(<<>>, s) = s /\ Glued(s, <<>>) = s
BY ConcatEmptySeq DEF Glued

LEMMA GluedAssociative ==
    ASSUME NEW r \in Seq(Byte), NEW s \in Seq(Byte), NEW t \in Seq(Byte)
    PROVE  Glued(r, Glued(s, t)) = Glued(Glued(r, s), t)
BY ConcatAssociative DEF Glued

\* A walk begins with nothing passed and the whole name left.
LEMMA WalkBegins ==
    ASSUME packet \in Seq(Byte), NEW s \in 0 .. length
    PROVE  Walked(NewWalk(s), s, <<>>)
<1> DEFINE w == NewWalk(s)
<1>1. length \in Nat /\ kMaxNameSteps \in Nat /\ kMaxExpandedNameBytes \in Nat
    BY ByteLemma, DnsAssumption
<1>2. /\ w \in Walk /\ w.step = 0 /\ w.expandedBytes = 0 /\ w.next = 0 /\ w.position = s
      /\ w.step <= kMaxNameSteps
    BY <1>1 DEF NewWalk, Walk
<1>3. Rest(w) = Name[kMaxNameSteps][s]
    BY <1>1, <1>2 DEF Rest
<1> HIDE DEF w
<1>4. Rest(w) \in NameType
    BY <1>2, RoundLemma
<1>5. Rest(w) = [text |-> Glued(<<>>, Rest(w).text), end |-> Rest(w).end]
    <2>1. Rest(w).text \in Seq(Byte)
        BY <1>4 DEF NameType
    <2> QED
        BY <1>4, <2>1, GluedEmpty DEF NameType
<1>6. <<>> \in Seq(Byte) /\ Len(<<>>) = 0
    BY EmptySeq
<1> QED
    BY <1>1, <1>2, <1>3, <1>5, <1>6 DEF Walked, w

\* A pointer leaves what has been passed as it is.
LEMMA WalkFollows ==
    ASSUME packet \in Seq(Byte), NEW w, NEW s, NEW prefix, Walked(w, s, prefix),
           CanStep(w), Follows(w)
    PROVE  Walked(FollowPointer(w), s, prefix)
<1> DEFINE v == FollowPointer(w)
<1>1. w \in Walk /\ w.step <= kMaxNameSteps
    BY DEF Walked
<1>2. v \in Walk
    BY <1>1, WalkLemma
<1>3. /\ v.step = w.step + 1 /\ v.expandedBytes = w.expandedBytes
      /\ v.next = IF w.next = 0 THEN w.position + 2 ELSE w.next
    BY <1>1 DEF FollowPointer, Walk
<1>4. v.step <= kMaxNameSteps /\ w.position \in Nat
    BY <1>1, <1>3, DnsAssumption DEF CanStep, Walk
<1>5. Rest(w) = IF Rest(v) = Malformed THEN Malformed
                ELSE [text |-> Rest(v).text, end |-> w.position + 2]
    BY <1>1, RoundLemma
<1>6. Rest(v) # Malformed => Rest(w) # Malformed
    BY <1>4, <1>5 DEF Malformed
<1>7. v.next # 0
    BY <1>3, <1>4
<1> HIDE DEF v
<1>8. Rest(v) # Malformed =>
          (IF w.next = 0 THEN Rest(w).end ELSE w.next) = IF v.next = 0 THEN Rest(v).end ELSE v.next
    BY <1>3, <1>5, <1>7
<1>9. Rest(v) # Malformed => Rest(w).text = Rest(v).text
    BY <1>5
<1>10. Rest(v) = Malformed => Rest(w) = Malformed
    BY <1>5
<1>11. Walked(v, s, prefix)
    BY <1>2, <1>3, <1>4, <1>6, <1>8, <1>9, <1>10 DEF Walked
<1> QED
    BY <1>11 DEF v

\* skipName goes on behind a label that is spelled and for which there is room.
LEMMA ExpandsLemma ==
    ASSUME packet \in Seq(Byte), NEW w \in Walk
    PROVE  Expands(w) <=>
               /\ Spells(packet, w.position)
               /\ w.expandedBytes + ByteAt(packet, w.position) + 1 <= kMaxExpandedNameBytes
BY DEF Expands, Spells, InPacket, At, ByteAt, length

\* A label is passed, and its letters with it.
LEMMA WalkPasses ==
    ASSUME packet \in Seq(Byte), NEW w, NEW s, NEW prefix, Walked(w, s, prefix),
           CanStep(w), Expands(w)
    PROVE  Walked(PassLabel(w), s, Glued(prefix, Letters(packet, w.position)))
<1> DEFINE v == PassLabel(w)
           l == Letters(packet, w.position)
           a == ByteAt(packet, w.position)
<1>1. w \in Walk /\ w.step <= kMaxNameSteps /\ w.position \in Nat
    BY DEF Walked, Walk
<1>2. v \in Walk
    BY <1>1, WalkLemma
<1>3. Spells(packet, w.position) /\ w.expandedBytes + a + 1 <= kMaxExpandedNameBytes
    BY <1>1, ExpandsLemma
<1>4. l \in Seq(Byte) /\ Len(l) = a + 1 /\ a \in Nat
    <2>1. l \in Seq(Byte) /\ Len(l) = a + 1 /\ a \in 1 .. 63
        BY <1>1, <1>3, LettersLemma
    <2> HIDE DEF a, l
    <2> QED
        BY <2>1
<1>5. At(w.position) = a
    BY DEF At, ByteAt, length
<1>6. v.step = w.step + 1 /\ v.expandedBytes = w.expandedBytes + a + 1 /\ v.next = w.next
    BY <1>1, <1>5 DEF PassLabel, Walk
<1>7. v.step <= kMaxNameSteps
    BY <1>1, <1>6, DnsAssumption DEF CanStep, Walk
<1>8. Rest(w) = IF Rest(v) = Malformed THEN Malformed
                ELSE [text |-> Glued(l, Rest(v).text), end |-> Rest(v).end]
    BY <1>1, <1>3, RoundLemma
<1>9. Rest(v) \in NameType
    BY <1>2, <1>7, RoundLemma
<1>10. prefix \in Seq(Byte) /\ Len(prefix) = w.expandedBytes /\ w.expandedBytes \in Nat
    BY <1>1 DEF Walked, Walk
<1>11. Glued(prefix, l) \in Seq(Byte) /\ Len(Glued(prefix, l)) = v.expandedBytes
    <2> HIDE DEF l, a, v
    <2>1. Glued(prefix, l) \in Seq(Byte) /\ Len(Glued(prefix, l)) = Len(prefix) + Len(l)
        BY <1>4, <1>10, GluedLemma
    <2>2. \A x, y \in Nat : x + (y + 1) = x + y + 1
        OBVIOUS
    <2>3. Len(prefix) + Len(l) = v.expandedBytes
        BY <1>4, <1>6, <1>10, <2>2, Zenon
    <2> QED
        BY <2>1, <2>3
<1>12. Glued(prefix, Glued(l, Rest(v).text)) = Glued(Glued(prefix, l), Rest(v).text)
    <2>1. Rest(v).text \in Seq(Byte)
        BY <1>9 DEF NameType
    <2> QED
        BY <1>4, <1>10, <2>1, GluedAssociative
<1>13. Rest(v) # Malformed => Rest(w) # Malformed
    <2>1. Rest(v).text \in Seq(Byte)
        BY <1>9 DEF NameType
    <2> HIDE DEF l, a, v
    <2>2. Len(Glued(l, Rest(v).text)) = Len(l) + Len(Rest(v).text) /\ Len(Rest(v).text) \in Nat
        BY <1>4, <2>1, GluedLemma, LenProperties
    <2>3. Glued(l, Rest(v).text) # <<>>
        <3>1. \A x, y \in Nat : x + 1 + y # 0
            OBVIOUS
        <3>2. Len(Glued(l, Rest(v).text)) # 0
            BY <1>4, <2>2, <3>1
        <3> QED
            BY <3>2, EmptySeq
    <2> QED
        BY <1>8, <2>3 DEF Malformed
<1>14. w.expandedBytes + a + 1 <= kMaxExpandedNameBytes
    BY <1>3
<1> HIDE DEF v, l, a
<1>15. Walked(v, s, Glued(prefix, l))
    BY <1>2, <1>6, <1>7, <1>8, <1>11, <1>12, <1>13, <1>14 DEF Walked
<1> QED
    BY <1>15 DEF v, l

\* Where a walk ends at the root, it has read the whole name.
LEMMA WalkEnds ==
    ASSUME packet \in Seq(Byte), NEW w, NEW s, NEW prefix, Walked(w, s, prefix),
           CanStep(w), AtRoot(w)
    PROVE  /\ NameAt(s) = [text |-> prefix,
                           end |-> IF w.next = 0 THEN w.position + 1 ELSE w.next]
           /\ NameAt(s) # Malformed
<1> DEFINE end == IF w.next = 0 THEN w.position + 1 ELSE w.next
<1>1. w \in Walk /\ w.step <= kMaxNameSteps /\ w.position \in Nat /\ w.next \in Nat
    <2>1. length \in Nat
        BY ByteLemma
    <2> QED
        BY <2>1 DEF Walked, Walk
<1>2. Rest(w) = [text |-> <<>>, end |-> w.position + 1]
    BY <1>1, RoundLemma
<1>3. Rest(w) # Malformed /\ Rest(w).text = <<>> /\ Rest(w).end = w.position + 1
    BY <1>1, <1>2 DEF Malformed
<1>4. Glued(prefix, Rest(w).text) = prefix
    BY <1>3, GluedEmpty DEF Walked
<1>5. Name[kMaxNameSteps][s] = [text |-> prefix, end |-> end]
    BY <1>3, <1>4 DEF Walked
<1>6. Len(prefix) <= kMaxExpandedNameBytes /\ Len(prefix) \in Nat /\ kMaxExpandedNameBytes \in Nat
    BY DnsAssumption, LenProperties DEF Walked
<1>7. end # 0
    BY <1>1
<1>8. NameAt(s) = [text |-> prefix, end |-> end]
    BY <1>5, <1>6 DEF NameAt
<1>9. NameAt(s) # Malformed
    BY <1>7, <1>8 DEF Malformed
<1> QED
    BY <1>8, <1>9

\* Where a walk is refused, the name is not well formed.
LEMMA WalkRefused ==
    ASSUME packet \in Seq(Byte), NEW w, NEW s, NEW prefix, Walked(w, s, prefix),
           CanStep(w) => ~AtRoot(w) /\ ~Follows(w) /\ ~Expands(w)
    PROVE  NameAt(s) = Malformed
<1> DEFINE v == PassLabel(w)
           l == Letters(packet, w.position)
           a == ByteAt(packet, w.position)
<1>1. /\ w \in Walk /\ w.step <= kMaxNameSteps /\ w.position \in Nat /\ w.expandedBytes \in Nat
      /\ kMaxExpandedNameBytes \in Nat
    BY DnsAssumption DEF Walked, Walk
<1>2. CASE Rest(w) = Malformed
    <2>1. Name[kMaxNameSteps][s] = Malformed
        BY <1>2 DEF Walked
    <2> QED
        BY <2>1 DEF NameAt
<1>3. CASE Rest(w) # Malformed
    <2>1. CanStep(w) /\ Spells(packet, w.position)
        BY <1>1, <1>3, RoundLemma
    <2>2. ~(w.expandedBytes + a + 1 <= kMaxExpandedNameBytes)
        BY <1>1, <2>1, ExpandsLemma
    <2>3. l \in Seq(Byte) /\ Len(l) = a + 1 /\ a \in Nat
        <3>1. l \in Seq(Byte) /\ Len(l) = a + 1 /\ a \in 1 .. 63
            BY <1>1, <2>1, LettersLemma
        <3> HIDE DEF a, l
        <3> QED
            BY <3>1
    <2>4. Rest(v) # Malformed /\ Rest(w).text = Glued(l, Rest(v).text)
        BY <1>1, <1>3, <2>1, RoundLemma
    <2>5. Rest(v).text \in Seq(Byte)
        <3>1. v \in Walk
            BY <1>1, WalkLemma
        <3>2. v.step <= kMaxNameSteps
            <4>1. v.step = w.step + 1 /\ w.step \in Nat /\ w.step < kMaxNameSteps
                BY <1>1, <2>1 DEF CanStep, PassLabel, Walk
            <4> QED
                BY <4>1, DnsAssumption
        <3>3. Rest(v) \in NameType
            BY <3>1, <3>2, RoundLemma
        <3> QED
            BY <3>3 DEF NameType
    <2>6. Len(Glued(l, Rest(v).text)) = Len(l) + Len(Rest(v).text) /\ Len(Rest(v).text) \in Nat
          /\ Glued(l, Rest(v).text) \in Seq(Byte)
        BY <2>3, <2>5, GluedLemma, LenProperties
    <2>7. /\ prefix \in Seq(Byte) /\ Len(prefix) = w.expandedBytes
          /\ Name[kMaxNameSteps][s].text = Glued(prefix, Rest(w).text)
        BY <1>3 DEF Walked
    <2> HIDE DEF l, a, v
    <2>8. Len(Name[kMaxNameSteps][s].text) = w.expandedBytes + (a + 1 + Len(Rest(v).text))
        <3>1. Len(Glued(prefix, Rest(w).text)) = Len(prefix) + Len(Rest(w).text)
            <4>1. Rest(w).text \in Seq(Byte) /\ prefix \in Seq(Byte)
                BY <2>4, <2>6, <2>7
            <4> QED
                BY <4>1, GluedLemma
        <3> QED
            BY <2>3, <2>4, <2>6, <2>7, <3>1
    <2>9. Len(Name[kMaxNameSteps][s].text) > kMaxExpandedNameBytes
        <3>1. \A x, y, z, m \in Nat : ~(x + y + 1 <= m) => x + (y + 1 + z) > m
            OBVIOUS
        <3> QED
            BY <1>1, <2>2, <2>3, <2>6, <2>8, <3>1
    <2> QED
        BY <2>9 DEF NameAt
<1> QED
    BY <1>2, <1>3
--------------------------------------------------------------------------------
\* How far a name is the host's.

\* The letters that nameEquals has passed are those of the host, with a dot behind.
Matched(w, prefix) ==
    \/ w.expectedAt = 0 /\ prefix = <<>>
    \/ /\ w.expectedAt \in 1 .. Len(host) /\ Len(prefix) = w.expectedAt + 1
       /\ prefix[w.expectedAt + 1] = Dot
       /\ \A i \in 1 .. w.expectedAt : asciiLower(prefix[i]) = asciiLower(host[i])

\* Lowering keeps dots and makes none.
LEMMA LowerLemma ==
    \A c \in Byte : asciiLower(c) \in Byte /\ (asciiLower(c) = Dot <=> c = Dot)
BY DEF asciiLower, Byte, Dot

\* A text is the host's if it has the host's letters and a dot behind.
LEMMA TextLemma ==
    ASSUME host \in Seq(Byte), NEW text \in Seq(Byte)
    PROVE  IsText(text) <=>
               /\ Len(text) = Len(host) + 1 /\ text[Len(host) + 1] = Dot
               /\ \A i \in 1 .. Len(host) : asciiLower(text[i]) = asciiLower(host[i])
<1> DEFINE n == Len(host)
           h == Lower(host)
           t == Lower(text)
<1>1. n \in Nat /\ Len(text) \in Nat
    BY LenProperties
<1>2. h \in Seq(Byte) /\ Len(h) = n /\ \A i \in 1 .. n : h[i] = asciiLower(host[i])
    <2>1. \A i \in 1 .. n : asciiLower(host[i]) \in Byte
        BY LowerLemma, ElementOfSeq
    <2> QED
        BY <1>1, <2>1 DEF Lower
<1>3. t \in Seq(Byte) /\ Len(t) = Len(text) /\ \A i \in 1 .. Len(text) : t[i] = asciiLower(text[i])
    <2>1. \A i \in 1 .. Len(text) : asciiLower(text[i]) \in Byte
        BY LowerLemma, ElementOfSeq
    <2> QED
        BY <1>1, <2>1 DEF Lower
<1>4. IsText(text) <=> t = h \o <<Dot>>
    BY DEF IsText
<1> HIDE DEF h, t, n
<1>5. <<Dot>> \in Seq(Byte) /\ Len(<<Dot>>) = 1 /\ <<Dot>>[1] = Dot
    BY DEF Dot, Byte
<1>6. /\ h \o <<Dot>> \in Seq(Byte) /\ Len(h \o <<Dot>>) = n + 1
      /\ \A i \in 1 .. n : (h \o <<Dot>>)[i] = h[i]
      /\ (h \o <<Dot>>)[n + 1] = Dot
    BY <1>1, <1>2, <1>5, ConcatProperties
<1>7. PICK d : d = h \o <<Dot>>
    OBVIOUS
<1>8. /\ d \in Seq(Byte) /\ Len(d) = n + 1 /\ \A i \in 1 .. n : d[i] = asciiLower(host[i])
      /\ d[n + 1] = Dot
    BY <1>2, <1>6, <1>7
<1>9. t = d <=> Len(text) = n + 1 /\ \A i \in 1 .. n + 1 : t[i] = d[i]
    BY <1>1, <1>3, <1>8, SeqEqual
<1>10. ASSUME Len(text) = n + 1
       PROVE  (\A i \in 1 .. n + 1 : t[i] = d[i]) <=>
                  /\ text[n + 1] = Dot
                  /\ \A i \in 1 .. n : asciiLower(text[i]) = asciiLower(host[i])
    <2>1. n + 1 \in 1 .. n + 1 /\ text[n + 1] \in Byte
        BY <1>1, <1>10, ElementOfSeq
    <2>2. t[n + 1] = d[n + 1] <=> text[n + 1] = Dot
        BY <1>3, <1>8, <1>10, <2>1, LowerLemma
    <2>3. \A i \in 1 .. n : t[i] = asciiLower(text[i]) /\ d[i] = asciiLower(host[i])
        BY <1>1, <1>3, <1>8, <1>10
    <2>4. \A i \in 1 .. n + 1 : i = n + 1 \/ i \in 1 .. n
        BY <1>1
    <2>5. \A i \in 1 .. n : i \in 1 .. n + 1
        BY <1>1
    <2> QED
        BY <2>1, <2>2, <2>3, <2>4, <2>5, Zenon
<1> QED
    BY <1>4, <1>7, <1>9, <1>10 DEF n

\* What nameEquals knows of a walk whose label it compares.
LEMMA MatchedLemma ==
    ASSUME packet \in Seq(Byte), host \in Seq(Byte), NEW w, NEW s, NEW prefix,
           Walked(w, s, prefix), Matched(w, prefix)
    PROVE  /\ w.expandedBytes = IF w.expectedAt = 0 THEN 0 ELSE w.expectedAt + 1
           /\ w.expandedBytes \in Nat /\ w.expandedBytes <= Len(host) + 1 /\ w.expectedAt \in Nat
           /\ LabelEnd(w) = w.expandedBytes + ByteAt(packet, w.position)
           /\ Len(prefix) = w.expandedBytes /\ prefix \in Seq(Byte)
           /\ w.expandedBytes # 0 => prefix[w.expandedBytes] = Dot
           /\ \A i \in 1 .. w.expandedBytes - 1 : asciiLower(prefix[i]) = asciiLower(host[i])
           /\ LabelMatches(w) <=>
                  /\ w.expandedBytes + ByteAt(packet, w.position) <= Len(host)
                  /\ w.expandedBytes # 0 => host[w.expandedBytes] = Dot
                  /\ \A i \in 1 .. ByteAt(packet, w.position) :
                         asciiLower(ByteAt(packet, w.position + i)) =
                             asciiLower(host[w.expandedBytes + i])
<1> DEFINE from == w.expandedBytes
           a == ByteAt(packet, w.position)
           e == w.expectedAt
<1>1. Len(host) \in Nat /\ from \in Nat /\ e \in Nat /\ w \in Walk
    BY LenProperties DEF Walked, Walk
<1>2. a \in 0 .. 255
    BY BytesLemma
<1>3. Len(prefix) = from /\ prefix \in Seq(Byte)
    BY DEF Walked
<1>4. \A i : At(i) = ByteAt(packet, i)
    BY DEF At, ByteAt, length
<1>5. \/ e = 0 /\ prefix = <<>>
      \/ /\ e \in 1 .. Len(host) /\ Len(prefix) = e + 1 /\ prefix[e + 1] = Dot
         /\ \A i \in 1 .. e : asciiLower(prefix[i]) = asciiLower(host[i])
    BY DEF Matched
<1>6. LabelEnd(w) = e + a + IF e = 0 THEN 0 ELSE 1
    BY <1>4 DEF LabelEnd
<1>7. LabelMatches(w) <=>
          /\ LabelEnd(w) <= Len(host)
          /\ (IF e = 0 THEN 0 ELSE e + 1) # 0 => host[IF e = 0 THEN 0 ELSE e + 1] = Dot
          /\ \A i \in 1 .. a : asciiLower(ByteAt(packet, w.position + i)) =
                                   asciiLower(host[(IF e = 0 THEN 0 ELSE e + 1) + i])
    BY <1>4, Zenon DEF LabelMatches
<1> HIDE DEF from, a, e
<1>8. from = IF e = 0 THEN 0 ELSE e + 1
    BY <1>1, <1>3, <1>5, EmptySeq
<1>9. from <= Len(host) + 1 /\ LabelEnd(w) = from + a
    BY <1>1, <1>2, <1>5, <1>6, <1>8
<1>10. from # 0 => prefix[from] = Dot
    BY <1>1, <1>5, <1>8
<1>11. \A i \in 1 .. from - 1 : asciiLower(prefix[i]) = asciiLower(host[i])
    BY <1>1, <1>5, <1>8
<1>12. LabelMatches(w) <=>
          /\ from + a <= Len(host)
          /\ from # 0 => host[from] = Dot
          /\ \A i \in 1 .. a : asciiLower(ByteAt(packet, w.position + i)) =
                                   asciiLower(host[from + i])
    BY <1>7, <1>8, <1>9, Zenon
<1> QED
    BY <1>1, <1>3, <1>8, <1>9, <1>10, <1>11, <1>12 DEF from, a, e

\* The host is in the name so far, and the label.
LEMMA MatchPasses ==
    ASSUME packet \in Seq(Byte), host \in Seq(Byte), NEW w, NEW s, NEW prefix,
           Walked(w, s, prefix), Matched(w, prefix), CanStep(w), Expands(w), LabelMatches(w)
    PROVE  LET v == [PassLabel(w) EXCEPT !.expectedAt = LabelEnd(w)]
               passed == Glued(prefix, Letters(packet, w.position))
           IN  Walked(v, s, passed) /\ Matched(v, passed)
<1> DEFINE u == PassLabel(w)
           v == [u EXCEPT !.expectedAt = LabelEnd(w)]
           l == Letters(packet, w.position)
           passed == Glued(prefix, l)
           a == ByteAt(packet, w.position)
           from == w.expandedBytes
           to == from + a
<1>1. w \in Walk /\ u \in Walk /\ w.position \in Nat
    BY WalkLemma DEF Walked, Walk
<1>2. Spells(packet, w.position)
    BY <1>1, ExpandsLemma
<1>3. a \in 1 .. 63 /\ l \in Seq(Byte) /\ Len(l) = a + 1 /\ l[a + 1] = Dot
      /\ \A i \in 1 .. a : l[i] = ByteAt(packet, w.position + i)
    BY <1>1, <1>2, LettersLemma
<1>4. /\ from \in Nat /\ LabelEnd(w) = to /\ to <= Len(host)
      /\ Len(prefix) = from /\ prefix \in Seq(Byte)
      /\ from # 0 => prefix[from] = Dot /\ host[from] = Dot
      /\ \A i \in 1 .. from - 1 : asciiLower(prefix[i]) = asciiLower(host[i])
      /\ \A i \in 1 .. a : asciiLower(ByteAt(packet, w.position + i)) = asciiLower(host[from + i])
    BY MatchedLemma
<1>5. Walked(u, s, passed)
    BY WalkPasses
<1>6. Walked(v, s, passed)
    <2>1. /\ v \in Walk /\ v.step = u.step /\ v.position = u.position /\ v.next = u.next
          /\ v.expandedBytes = u.expandedBytes
        <3> HIDE DEF u, to, from, a
        <3>1. LabelEnd(w) \in Nat
            BY <1>3, <1>4 DEF to
        <3> QED
            BY <1>1, <3>1, MatchLemma DEF Walk
    <2>2. Rest(v) = Rest(u)
        BY <2>1, Zenon DEF Rest
    <2> HIDE DEF v, u, passed
    <2> QED
        BY <1>5, <2>1, <2>2 DEF Walked
<1>7. v.expectedAt = to
    BY <1>1, <1>4 DEF Walk
<1> HIDE DEF u, v, l, a, from
<1>8. /\ passed \in Seq(Byte) /\ Len(passed) = to + 1
      /\ \A i \in 1 .. from : passed[i] = prefix[i]
      /\ \A i \in 1 .. a + 1 : passed[from + i] = l[i]
    <2>1. /\ passed \in Seq(Byte) /\ Len(passed) = Len(prefix) + Len(l)
          /\ \A i \in 1 .. Len(prefix) : passed[i] = prefix[i]
          /\ \A i \in 1 .. Len(l) : passed[Len(prefix) + i] = l[i]
        BY <1>3, <1>4, GluedLemma
    <2>2. from + (a + 1) = to + 1
        BY <1>3, <1>4
    <2> HIDE DEF passed, to
    <2> QED
        BY <1>3, <1>4, <2>1, <2>2
<1> HIDE DEF passed
<1>13. from \in Nat /\ a \in 1 .. 63 /\ to <= Len(host) /\ Len(host) \in Nat
    BY <1>3, <1>4, LenProperties
<1>9. passed[to + 1] = Dot
    <2>1. a + 1 \in 1 .. a + 1 /\ from + (a + 1) = to + 1
        BY <1>13
    <2>2. passed[from + (a + 1)] = l[a + 1]
        BY <1>8, <2>1
    <2> QED
        BY <1>3, <2>1, <2>2
<1>10. ASSUME NEW i \in 1 .. to
       PROVE  asciiLower(passed[i]) = asciiLower(host[i])
    <2>1. CASE i \in 1 .. from - 1
        <3>1. i \in 1 .. from
            BY <1>4, <2>1
        <3> QED
            BY <1>4, <1>8, <2>1, <3>1
    <2>2. CASE i = from
        <3>1. from \in 1 .. from /\ from # 0
            BY <1>4, <2>2
        <3>2. passed[from] = Dot /\ host[from] = Dot
            BY <1>4, <1>8, <3>1
        <3> QED
            BY <2>2, <3>2
    <2>3. CASE i > from
        <3>1. i - from \in 1 .. a /\ i - from \in 1 .. a + 1 /\ from + (i - from) = i
            BY <1>13, <2>3
        <3>2. passed[i] = l[i - from]
            BY <1>8, <3>1
        <3>3. l[i - from] = ByteAt(packet, w.position + (i - from))
            BY <1>3, <3>1
        <3>4. asciiLower(ByteAt(packet, w.position + (i - from)))
              = asciiLower(host[from + (i - from)])
            BY <1>4, <3>1
        <3> QED
            BY <3>1, <3>2, <3>3, <3>4
    <2> QED
        BY <1>4, <2>1, <2>2, <2>3
<1>11. to \in 1 .. Len(host)
    BY <1>13
<1>12. Matched(v, passed)
    BY <1>7, <1>8, <1>9, <1>10, <1>11 DEF Matched
<1> QED
    BY <1>6, <1>12 DEF v, u, passed, l

\* At the root of a name that was compared, nameEquals decides as the texts do.
LEMMA MatchEnds ==
    ASSUME packet \in Seq(Byte), host \in Seq(Byte), host # <<>>, NEW w, NEW s, NEW prefix,
           Walked(w, s, prefix), Matched(w, prefix)
    PROVE  IsText(prefix) <=> w.expectedAt = Len(host)
<1>1. prefix \in Seq(Byte) /\ Len(prefix) \in Nat /\ Len(host) \in Nat /\ Len(host) # 0
      /\ Len(<<>>) = 0
    BY LenProperties, EmptySeq DEF Walked
<1>2. IsText(prefix) <=>
          /\ Len(prefix) = Len(host) + 1 /\ prefix[Len(host) + 1] = Dot
          /\ \A i \in 1 .. Len(host) : asciiLower(prefix[i]) = asciiLower(host[i])
    BY <1>1, TextLemma
<1>3. CASE w.expectedAt = 0 /\ prefix = <<>>
    BY <1>1, <1>2, <1>3
<1>4. CASE w.expectedAt # 0
    BY <1>1, <1>2, <1>4 DEF Matched
<1> QED
    BY <1>3, <1>4 DEF Matched

\* Where nameEquals gives up on a well formed name, that name is not the host's.
LEMMA MatchRefused ==
    ASSUME packet \in Seq(Byte), host \in Seq(Byte), NEW w, NEW s, NEW prefix,
           Walked(w, s, prefix), Matched(w, prefix), NameAt(s) # Malformed,
           CanStep(w) => ~AtRoot(w) /\ ~Follows(w) /\ ~(Expands(w) /\ LabelMatches(w))
    PROVE  ~IsText(NameAt(s).text)
<1> DEFINE v == PassLabel(w)
           l == Letters(packet, w.position)
           a == ByteAt(packet, w.position)
           from == w.expandedBytes
           rest == Rest(v).text
           text == NameAt(s).text
<1>1. w \in Walk /\ w.position \in Nat /\ w.step <= kMaxNameSteps
    BY DEF Walked, Walk
<1>2. CanStep(w) /\ Expands(w) /\ ~LabelMatches(w)
    BY WalkRefused
<1>3. Spells(packet, w.position)
    BY <1>1, <1>2, ExpandsLemma
<1>4. a \in 1 .. 63 /\ l \in Seq(Byte) /\ Len(l) = a + 1
      /\ \A i \in 1 .. a : l[i] = ByteAt(packet, w.position + i)
    BY <1>1, <1>3, LettersLemma
<1>5. NameAt(s) = Name[kMaxNameSteps][s] /\ Name[kMaxNameSteps][s] # Malformed
    BY DEF NameAt
<1>6. Rest(w) # Malformed /\ text = Glued(prefix, Rest(w).text)
    BY <1>5 DEF Walked
<1>7. Rest(w).text = Glued(l, rest)
    BY <1>1, <1>2, <1>3, <1>6, RoundLemma
<1>8. rest \in Seq(Byte)
    <2>1. v \in Walk
        BY <1>1, WalkLemma
    <2>2. v.step = w.step + 1 /\ w.step \in Nat /\ w.step < kMaxNameSteps /\ kMaxNameSteps \in Nat
        BY <1>1, <1>2, DnsAssumption DEF CanStep, PassLabel, Walk
    <2>3. v.step <= kMaxNameSteps
        BY <2>2
    <2>4. Rest(v) \in NameType
        BY <2>1, <2>3, RoundLemma
    <2> QED
        BY <2>4 DEF NameType
<1>9. /\ from \in Nat /\ Len(prefix) = from /\ prefix \in Seq(Byte)
      /\ from # 0 => prefix[from] = Dot
      /\ LabelMatches(w) <=>
             /\ from + a <= Len(host)
             /\ from # 0 => host[from] = Dot
             /\ \A i \in 1 .. a : asciiLower(ByteAt(packet, w.position + i)) =
                                      asciiLower(host[from + i])
    BY MatchedLemma
<1> SUFFICES ASSUME IsText(text)
             PROVE  FALSE
    OBVIOUS
<1> HIDE DEF v, l, a, from, rest, text
<1> DEFINE tail == Glued(l, rest)
<1>10. /\ tail \in Seq(Byte) /\ Len(tail) = Len(l) + Len(rest) /\ Len(rest) \in Nat
       /\ \A i \in 1 .. Len(l) : tail[i] = l[i]
    BY <1>4, <1>8, GluedLemma, LenProperties
<1>11. text = Glued(prefix, tail)
    BY <1>6, <1>7
<1> HIDE DEF tail
<1>12. /\ text \in Seq(Byte) /\ Len(text) = from + Len(tail)
       /\ \A i \in 1 .. from : text[i] = prefix[i]
       /\ \A i \in 1 .. Len(tail) : text[from + i] = tail[i]
    <2>1. prefix \in Seq(Byte) /\ tail \in Seq(Byte) /\ Len(prefix) = from
        BY <1>9, <1>10
    <2>2. /\ Glued(prefix, tail) \in Seq(Byte)
          /\ Len(Glued(prefix, tail)) = Len(prefix) + Len(tail)
          /\ \A i \in 1 .. Len(prefix) : Glued(prefix, tail)[i] = prefix[i]
          /\ \A i \in 1 .. Len(tail) : Glued(prefix, tail)[Len(prefix) + i] = tail[i]
        BY <2>1, GluedLemma
    <2> QED
        BY <1>11, <2>1, <2>2
<1>13. /\ Len(text) = Len(host) + 1
       /\ \A i \in 1 .. Len(host) : asciiLower(text[i]) = asciiLower(host[i])
    BY <1>12, TextLemma
<1>14. /\ from \in Nat /\ a \in 1 .. 63 /\ Len(host) \in Nat /\ Len(rest) \in Nat
       /\ Len(tail) = a + 1 + Len(rest) /\ from + (a + 1 + Len(rest)) = Len(host) + 1
    BY <1>4, <1>9, <1>10, <1>12, <1>13, LenProperties
<1>15. from + a <= Len(host)
    BY <1>14
<1>16. from # 0 => host[from] = Dot
    <2> SUFFICES ASSUME from # 0
                 PROVE  host[from] = Dot
        OBVIOUS
    <2>1. from \in 1 .. Len(host) /\ from \in 1 .. from
        BY <1>14, <1>15
    <2>2. text[from] = Dot
        BY <1>9, <1>12, <2>1
    <2>3. host[from] \in Byte /\ asciiLower(Dot) = asciiLower(host[from])
        BY <1>13, <2>1, <2>2, ElementOfSeq
    <2>4. Dot \in Byte
        BY DEF Dot, Byte
    <2> QED
        BY <2>3, <2>4, LowerLemma
<1>17. ASSUME NEW i \in 1 .. a
       PROVE  asciiLower(ByteAt(packet, w.position + i)) = asciiLower(host[from + i])
    <2>1. i \in 1 .. Len(l) /\ i \in 1 .. Len(tail) /\ from + i \in 1 .. Len(host)
        BY <1>4, <1>14, <1>15
    <2>2. text[from + i] = ByteAt(packet, w.position + i)
        BY <1>4, <1>10, <1>12, <2>1
    <2> QED
        BY <1>13, <2>1, <2>2
<1> QED
    BY <1>2, <1>9, <1>15, <1>16, <1>17
--------------------------------------------------------------------------------
\* The entries of a datagram.

Places == Nat \cup {Nowhere}

\* Types of what a record holds.
LEMMA NameAtLemma ==
    ASSUME packet \in Seq(Byte), NEW p \in Nat
    PROVE  /\ NameAt(p) \in NameType /\ DataAt(p) \in Nat /\ SizeAt(p) \in 0 .. 255
<1>1. kMaxNameSteps \in Nat /\ kRecordBytes \in Nat
    BY DnsAssumption
<1>2. Name[kMaxNameSteps][p] \in NameType /\ Malformed \in NameType
    BY <1>1, NameLemma DEF Row, Malformed, NameType
<1>3. NameAt(p) \in NameType
    BY <1>2 DEF NameAt
<1>4. DataAt(p) \in Nat
    BY <1>1, <1>3 DEF DataAt, NameType
<1>5. SizeAt(p) \in 0 .. 255
    BY ByteLemma DEF SizeAt, Byte
<1> QED
    BY <1>3, <1>4, <1>5

LEMMA EndAfterType ==
    ASSUME packet \in Seq(Byte), NEW p \in Places, NEW k \in Nat
    PROVE  /\ EndAfter(p, k) \in Places
           /\ EndAfter(p, k) # Nowhere => EndAfter(p, k) \in 0 .. length
<1>1. CASE p = Nowhere
    BY <1>1 DEF EndAfter, Places
<1>2. CASE p \in Nat
    <2>1. NameAt(p).end \in Nat /\ DataAt(p) \in Nat /\ SizeAt(p) \in 0 .. 255
          /\ length \in Nat /\ kQuestionBytes \in Nat
        BY <1>2, NameAtLemma, ByteLemma, DnsAssumption DEF NameType
    <2> DEFINE end == IF k <= header.questions THEN NameAt(p).end + kQuestionBytes
                      ELSE IF DataAt(p) > length THEN length + 1
                      ELSE DataAt(p) + SizeAt(p)
    <2>2. end \in Nat
        <3>1. NameAt(p).end + kQuestionBytes \in Nat /\ length + 1 \in Nat
            BY <2>1
        <3>2. DataAt(p) + SizeAt(p) \in Nat
            <4>1. \A x \in Nat, y \in 0 .. 255 : x + y \in Nat
                OBVIOUS
            <4> QED
                BY <2>1, <4>1
        <3> QED
            BY <3>1, <3>2, Zenon
    <2>3. EndAfter(p, k) = IF p = Nowhere \/ NameAt(p) = Malformed \/ end > length
                           THEN Nowhere ELSE end
        BY DEF EndAfter
    <2> HIDE DEF end
    <2> QED
        BY <2>1, <2>2, <2>3 DEF Places
<1> QED
    BY <1>1, <1>2 DEF Places

\* The ends of the entries, each from the one before.
LEMMA EntryLemma ==
    packet \in Seq(Byte) =>
        /\ EntryEnd \in [Nat -> Places] /\ EntryEnd[0] = kDnsHeaderBytes
        /\ \A k \in Nat : EntryEnd[k] \in Places /\ EntryEnd[k + 1] = EndAfter(EntryEnd[k], k + 1)
<1> SUFFICES ASSUME packet \in Seq(Byte)
             PROVE  /\ EntryEnd \in [Nat -> Places] /\ EntryEnd[0] = kDnsHeaderBytes
                    /\ \A k \in Nat : /\ EntryEnd[k] \in Places
                                      /\ EntryEnd[k + 1] = EndAfter(EntryEnd[k], k + 1)
    OBVIOUS
<1> DEFINE Body(h, k) == IF k = 0 THEN kDnsHeaderBytes ELSE EndAfter(h[k - 1], k)
           step == [n \in Nat |-> [p \in Places |-> EndAfter(p, n + 1)]]
<1>1. EntryEnd = CHOOSE h : h = [k \in Nat |-> Body(h, k)]
    BY Zenon DEF EntryEnd
<1>2. kDnsHeaderBytes \in Places
    BY DnsAssumption DEF Places
<1>3. step \in Steps(Places)
    <2>1. \A n \in Nat, p \in Places : EndAfter(p, n + 1) \in Places
        BY EndAfterType
    <2> QED
        BY <2>1 DEF Steps
<1>4. PICK h : Runs(h, Places, kDnsHeaderBytes, step)
    <2> HIDE DEF step
    <2> QED
        BY <1>2, <1>3, RecursionLemma
<1>5. /\ h \in [Nat -> Places] /\ h[0] = kDnsHeaderBytes
      /\ \A n \in Nat : h[n + 1] = EndAfter(h[n], n + 1)
    BY <1>4 DEF Runs
<1>6. ASSUME NEW k \in Nat
      PROVE  h[k] = Body(h, k)
    <2>1. CASE k = 0
        BY <1>5, <2>1
    <2>2. CASE k # 0
        <3>1. k - 1 \in Nat /\ (k - 1) + 1 = k
            BY <2>2
        <3>2. h[(k - 1) + 1] = EndAfter(h[k - 1], (k - 1) + 1)
            BY <1>5, <3>1
        <3> QED
            BY <2>2, <3>1, <3>2
    <2> QED
        BY <2>1, <2>2
<1> HIDE DEF Body
<1>7. h = [k \in Nat |-> Body(h, k)]
    BY <1>5, <1>6
<1>8. EntryEnd = [k \in Nat |-> Body(EntryEnd, k)]
    BY <1>1, <1>7, Zenon
<1>9. EntryEnd[0] = kDnsHeaderBytes
    BY <1>8 DEF Body
<1>10. ASSUME NEW k \in Nat
       PROVE  EntryEnd[k + 1] = EndAfter(EntryEnd[k], k + 1)
    <2>1. k + 1 \in Nat /\ k + 1 # 0 /\ (k + 1) - 1 = k
        OBVIOUS
    <2>2. EntryEnd[k + 1] = Body(EntryEnd, k + 1)
        BY <1>8, <2>1, Zenon
    <2> QED
        BY <2>1, <2>2, Zenon DEF Body
<1> DEFINE S == {k \in Nat : EntryEnd[k] \in Places}
<1>11. \A k \in Nat : k \in S
    <2>1. 0 \in S
        BY <1>2, <1>9
    <2>2. ASSUME NEW k \in Nat, k \in S
          PROVE  k + 1 \in S
        <3>1. k + 1 \in Nat /\ EntryEnd[k] \in Places
            BY <2>2
        <3>2. EndAfter(EntryEnd[k], k + 1) \in Places
            BY <3>1, EndAfterType
        <3> QED
            BY <1>10, <3>1, <3>2
    <2> HIDE DEF S
    <2> QED
        BY <2>1, <2>2, UpLemma
<1>12. EntryEnd \in [Nat -> Places]
    <2>1. \A k \in Nat : EntryEnd[k] \in Places
        BY <1>11
    <2>2. EntryEnd = [k \in Nat |-> EntryEnd[k]]
        BY <1>8
    <2> QED
        BY <2>1, <2>2
<1> QED
    BY <1>9, <1>10, <1>11, <1>12

\* While the parser is at one datagram, all that is said of it stays as it is.
LEMMA StillNames ==
    ASSUME packet \in Seq(Byte), packet' = packet, header' = header, host' = host
    PROVE  /\ Name' = Name /\ length' = length /\ Walk' = Walk
           /\ \A i : At(i)' = At(i)
           /\ \A p : NameAt(p)' = NameAt(p) /\ DataAt(p)' = DataAt(p) /\ SizeAt(p)' = SizeAt(p)
           /\ \A p, k : EndAfter(p, k)' = EndAfter(p, k)
           /\ \A text : IsText(text)' = IsText(text)
<1>1. Name' = Name
    BY NameStill
<1>2. length' = length /\ \A i : At(i)' = At(i)
    BY DEF length, At
<1>3. Walk' = Walk
    BY <1>2 DEF Walk
<1>4. \A p : NameAt(p)' = NameAt(p)
    BY <1>1 DEF NameAt
<1>5. \A p : DataAt(p)' = DataAt(p)
    BY <1>4 DEF DataAt
<1>6. \A p : SizeAt(p)' = SizeAt(p)
    BY <1>2, <1>5 DEF SizeAt
<1>7. \A p, k : EndAfter(p, k)' = EndAfter(p, k)
    BY <1>2, <1>4, <1>5, <1>6 DEF EndAfter
<1>8. \A text : IsText(text)' = IsText(text)
    BY DEF IsText, Lower
<1> QED
    BY <1>1, <1>2, <1>3, <1>4, <1>5, <1>6, <1>7, <1>8

LEMMA StillEntries ==
    ASSUME packet \in Seq(Byte), packet' = packet, header' = header, host' = host
    PROVE  /\ EntryEnd' = EntryEnd
           /\ \A k : Gives(k)' = Gives(k) /\ AddressIn(k)' = AddressIn(k)
<1> DEFINE S == {k \in Nat : EntryEnd'[k] = EntryEnd[k]}
<1>1. /\ EntryEnd \in [Nat -> Places] /\ EntryEnd[0] = kDnsHeaderBytes
      /\ \A k \in Nat : EntryEnd[k + 1] = EndAfter(EntryEnd[k], k + 1)
    BY EntryLemma
<1>2. /\ EntryEnd' \in [Nat -> Places] /\ EntryEnd'[0] = kDnsHeaderBytes
      /\ \A k \in Nat : EntryEnd'[k + 1] = EndAfter(EntryEnd[k], k + 1)'
    <2>1. (packet \in Seq(Byte) =>
              /\ EntryEnd \in [Nat -> Places] /\ EntryEnd[0] = kDnsHeaderBytes
              /\ \A k \in Nat : EntryEnd[k] \in Places
                                /\ EntryEnd[k + 1] = EndAfter(EntryEnd[k], k + 1))'
        BY EntryLemma, PTL
    <2> QED
        BY <2>1
<1>3. 0 \in S
    BY <1>1, <1>2
<1>4. ASSUME NEW k \in Nat, k \in S
      PROVE  k + 1 \in S
    <2>1. EntryEnd'[k] = EntryEnd[k]
        BY <1>4
    <2>2. EndAfter(EntryEnd[k], k + 1)' = EndAfter(EntryEnd[k], k + 1)
        BY <2>1, StillNames DEF EndAfter
    <2>3. EntryEnd'[k + 1] = EndAfter(EntryEnd[k], k + 1)'
        BY <1>2, Zenon
    <2>4. EntryEnd[k + 1] = EndAfter(EntryEnd[k], k + 1)
        BY <1>1, Zenon
    <2>5. EntryEnd'[k + 1] = EntryEnd[k + 1]
        BY <2>2, <2>3, <2>4, Zenon
    <2> QED
        BY <2>5
<1>5. EntryEnd' = EntryEnd
    <2>1. \A k \in Nat : k \in S
        <3> HIDE DEF S
        <3> QED
            BY <1>3, <1>4, UpLemma
    <2>2. \A k \in Nat : EntryEnd'[k] = EntryEnd[k]
        BY <2>1
    <2> QED
        BY <1>1, <1>2, <2>2
<1>6. \A k : Gives(k)' = Gives(k) /\ AddressIn(k)' = AddressIn(k)
    <2> SUFFICES ASSUME NEW k
                 PROVE  Gives(k)' = Gives(k) /\ AddressIn(k)' = AddressIn(k)
        OBVIOUS
    <2>1. EntryEnd'[k - 1] = EntryEnd[k - 1]
        BY <1>5
    <2>2. Gives(k)' = Gives(k)
        BY <2>1, StillNames, Zenon DEF Gives
    <2>3. AddressIn(k)' = AddressIn(k)
        BY <2>1, StillNames, Zenon DEF AddressIn
    <2> QED
        BY <2>2, <2>3
<1> QED
    BY <1>5, <1>6
--------------------------------------------------------------------------------
\* What the parser knows.

Header == [response : BOOLEAN, questions : Nat, records : Nat]
Entries == header.questions + header.records
Done == Entries - questions - records

\* f is what the first k entries say of the host.
Given(k) == {j \in header.questions + 1 .. k : Gives(j)}
FoundIs(f, k) ==
    \/ Given(k) = {} /\ f = None
    \/ \E last \in Given(k) : (\A j \in Given(k) : j <= last) /\ f = AddressIn(last)

\* m is what the datagram says of the host.
Meant(m) ==
    \/ EntryEnd[Entries] # length /\ m = None
    \/ EntryEnd[Entries] = length /\ FoundIs(m, Entries)

\* k entries end at p, and f is what they say.
Standing(k, p, f) == p = EntryEnd[k] /\ p # Nowhere /\ FoundIs(f, k)

\* The entry behind the first k is a record of an address, with its data at d, and
\* the name at s is being compared.
Comparing(k, s, d, f, w, prefix) ==
    /\ Standing(k, s, f) /\ Walked(w, s, prefix) /\ Matched(w, prefix)
    /\ NameAt(s) # Malformed /\ d = DataAt(s)
    /\ At(NameAt(s).end) = kTypeA /\ SizeAt(s) = kAddressBytes
    /\ EntryEnd[k + 1] = d + kAddressBytes

\* The entries left are those of the header, questions before records.
CountInv ==
    /\ header \in Header /\ AcceptsHeader(length, header)
    /\ questions \in 0 .. header.questions /\ records \in 0 .. header.records
    /\ records < header.records => questions = 0
\* At an entry, what is found is what the entries before it say.
EntryInv ==
    pc \in {"entry", "skip"} =>
        CountInv /\ \E k, p, f : k = Done /\ p = position /\ f = found /\ Standing(k, p, f)
\* skipName reads the name of the next entry.
SkipInv ==
    pc = "skip" =>
        /\ questions + records > 0
        /\ \E w, s, prefix : w = walk /\ s = position /\ Walked(w, s, prefix)
\* nameEquals reads the name of the entry that is counted already.
EqualsInv ==
    pc = "equals" =>
        /\ CountInv /\ Done > header.questions
        /\ \E k, s, d, f, w, prefix : /\ k = Done - 1 /\ d = position /\ f = found /\ w = walk
                                      /\ Comparing(k, s, d, f, w, prefix)
\* A lookup under way has a host it can ask for, and packet_ what it has sent.
HostInv ==
    /\ pc # "idle" => active
    /\ active => host \in Seq(Byte) /\ host # <<>> /\ Len(host) < kHostBytes /\ CanQuery(host)
    /\ pc = "idle" => packet = <<>>
    /\ pc = "receive" => packet = <<>> \/ packet = makeMdnsQuery(host)
Known == EntryInv /\ SkipInv /\ EqualsInv /\ AnswerIsExact

LEMMA StillKnown ==
    ASSUME packet \in Seq(Byte), header \in Header,
           packet' = packet, header' = header, host' = host
    PROVE  /\ \A k \in Nat : \A f : FoundIs(f, k)' <=> FoundIs(f, k)
           /\ \A m : Meant(m)' <=> Meant(m)
           /\ \A k \in Nat : \A p, f : Standing(k, p, f)' <=> Standing(k, p, f)
           /\ \A w, s, prefix : Walked(w, s, prefix)' <=> Walked(w, s, prefix)
           /\ \A k \in Nat : \A s, d, f, w, prefix :
                  Comparing(k, s, d, f, w, prefix)' <=> Comparing(k, s, d, f, w, prefix)
<1>1. header.questions \in Nat /\ header.records \in Nat /\ Entries' = Entries /\ Entries \in Nat
    BY DEF Header, Entries
<1>2. \A k : Given(k)' = Given(k)
    BY StillEntries, Zenon DEF Given
<1>3. \A j : AddressIn(j)' = AddressIn(j)
    BY StillEntries
<1>4. \A k \in Nat : \A f : FoundIs(f, k)' <=> FoundIs(f, k)
    BY <1>2, <1>3, Zenon DEF FoundIs
<1>5. /\ length' = length /\ Name' = Name /\ Walk' = Walk
      /\ \A k \in Nat : EntryEnd[k]' = EntryEnd[k]
    BY StillNames, StillEntries
<1>6. \A m : Meant(m)' <=> Meant(m)
    <2> SUFFICES ASSUME NEW m
                 PROVE  Meant(m)' <=> Meant(m)
        OBVIOUS
    <2>1. PICK e \in Nat : e = Entries
        BY <1>1
    <2>2. EntryEnd'[e] = EntryEnd[e] /\ (FoundIs(m, e)' <=> FoundIs(m, e))
        BY <1>4, <1>5
    <2>3. Meant(m) <=> \/ EntryEnd[e] # length /\ m = None
                       \/ EntryEnd[e] = length /\ FoundIs(m, e)
        BY <2>1 DEF Meant
    <2>4. Meant(m)' <=> \/ EntryEnd'[e] # length' /\ m = None
                        \/ EntryEnd'[e] = length' /\ FoundIs(m, e)'
        BY <1>1, <2>1 DEF Meant, FoundIs, Given
    <2> QED
        BY <1>5, <2>2, <2>3, <2>4
<1>7. \A k \in Nat : \A p, f : Standing(k, p, f)' <=> Standing(k, p, f)
    BY <1>4, <1>5, Zenon DEF Standing
<1>8. \A w, s, prefix : Walked(w, s, prefix)' <=> Walked(w, s, prefix)
    BY <1>5, Zenon DEF Walked, Rest
<1>9. \A w, prefix : Matched(w, prefix)' <=> Matched(w, prefix)
    BY DEF Matched
<1>10. \A k \in Nat : \A s, d, f, w, prefix :
           Comparing(k, s, d, f, w, prefix)' <=> Comparing(k, s, d, f, w, prefix)
    <2> SUFFICES ASSUME NEW k \in Nat, NEW s, NEW d, NEW f, NEW w, NEW prefix
                 PROVE  Comparing(k, s, d, f, w, prefix)' <=> Comparing(k, s, d, f, w, prefix)
        OBVIOUS
    <2>1. NameAt(s)' = NameAt(s) /\ DataAt(s)' = DataAt(s) /\ SizeAt(s)' = SizeAt(s)
        BY StillNames
    <2>2. At(NameAt(s).end)' = At(NameAt(s).end)
        BY <2>1, StillNames DEF At
    <2>3. EntryEnd[k + 1]' = EntryEnd[k + 1]
        BY <1>5
    <2> QED
        BY <1>7, <1>8, <1>9, <2>1, <2>2, <2>3, Zenon DEF Comparing
<1> QED
    BY <1>4, <1>6, <1>7, <1>8, <1>10
--------------------------------------------------------------------------------
LEMMA MeantForm ==
    MeantAddress = LET given == Given(Entries)
                   IN  IF EntryEnd[Entries] # length \/ given = {} THEN None
                       ELSE AddressIn(CHOOSE k \in given : \A j \in given : j <= k)
BY Zenon DEF MeantAddress, Given, Entries

\* What the datagram says is said once.
LEMMA MeantLemma ==
    \A m : header \in Header /\ Meant(m) => m = MeantAddress
<1> SUFFICES ASSUME NEW m, header \in Header, Meant(m)
             PROVE  m = MeantAddress
    OBVIOUS
<1> DEFINE given == Given(Entries)
           latest == CHOOSE k \in given : \A j \in given : j <= k
<1>1. MeantAddress = IF EntryEnd[Entries] # length \/ given = {} THEN None ELSE AddressIn(latest)
    BY Zenon DEF MeantAddress, Given, Entries
<1>2. \A j \in given : j \in Int
    BY DEF Given, Header, Entries
<1> HIDE DEF given
<1>3. ASSUME NEW last \in given, \A j \in given : j <= last
      PROVE  latest = last
    <2>1. latest \in given /\ \A j \in given : j <= latest
        BY <1>3, Zenon
    <2> QED
        BY <1>2, <1>3, <2>1
<1> HIDE DEF latest
<1>4. CASE EntryEnd[Entries] # length
    BY <1>1, <1>4 DEF Meant
<1>5. CASE EntryEnd[Entries] = length
    <2>1. FoundIs(m, Entries)
        BY <1>5 DEF Meant
    <2>2. CASE given = {}
        BY <1>1, <2>1, <2>2 DEF FoundIs, given
    <2>3. CASE given # {}
        <3>1. PICK last \in given : (\A j \in given : j <= last) /\ m = AddressIn(last)
            BY <2>1, <2>3 DEF FoundIs, given
        <3> QED
            BY <1>1, <1>3, <1>5, <2>3, <3>1, Zenon
    <2> QED
        BY <2>2, <2>3
<1> QED
    BY <1>4, <1>5

\* Of a datagram with an entry that is not well formed nothing is taken.
LEMMA FailLemma ==
    ASSUME packet \in Seq(Byte), header \in Header, NEW j \in Nat, j <= Entries,
           EntryEnd[j] = Nowhere
    PROVE  Meant(None)
<1> DEFINE S == {m \in Nat : j <= m => EntryEnd[m] = Nowhere}
<1>1. 0 \in S
    BY EntryLemma
<1>2. ASSUME NEW m \in Nat, m \in S
      PROVE  m + 1 \in S
    <2> SUFFICES ASSUME j <= m + 1
                 PROVE  EntryEnd[m + 1] = Nowhere
        OBVIOUS
    <2>1. CASE j = m + 1
        BY <2>1
    <2>2. CASE j <= m
        BY <1>2, <2>2, EntryLemma DEF EndAfter
    <2> QED
        BY <2>1, <2>2
<1>3. Entries \in S
    <2>1. Entries \in Nat
        BY DEF Header, Entries
    <2> HIDE DEF S
    <2> QED
        BY <1>1, <1>2, <2>1, UpLemma
<1>4. EntryEnd[Entries] = Nowhere
    BY <1>3
<1>5. length \in Nat
    BY ByteLemma
<1> QED
    BY <1>4, <1>5 DEF Meant, Nowhere

\* The next entry gives nothing, or an address.
LEMMA FoundPasses ==
    ASSUME header \in Header, NEW k \in Nat, NEW f, FoundIs(f, k),
           k + 1 <= header.questions \/ ~Gives(k + 1)
    PROVE  FoundIs(f, k + 1)
<1>1. header.questions \in Nat
    BY DEF Header
<1>2. \A j : j \in header.questions + 1 .. k + 1 /\ Gives(j) => j \in header.questions + 1 .. k
    BY <1>1
<1>3. Given(k + 1) = Given(k)
    <2>1. \A j : j \in header.questions + 1 .. k => j \in header.questions + 1 .. k + 1
        BY <1>1
    <2> QED
        BY <1>2, <2>1 DEF Given
<1> QED
    BY <1>3 DEF FoundIs

LEMMA FoundAnew ==
    ASSUME header \in Header, NEW k \in Nat, header.questions <= k, Gives(k + 1)
    PROVE  FoundIs(AddressIn(k + 1), k + 1)
<1>1. header.questions \in Nat
    BY DEF Header
<1>2. k + 1 \in Given(k + 1) /\ \A j \in Given(k + 1) : j <= k + 1
    BY <1>1 DEF Given
<1> QED
    BY <1>2 DEF FoundIs

\* The entries that are done: the questions first.
LEMMA CountLemma ==
    ASSUME CountInv
    PROVE  /\ Done \in Nat /\ Entries \in Nat /\ Done + questions + records = Entries
           /\ questions > 0 => Done + 1 <= header.questions
           /\ questions = 0 => header.questions <= Done
           /\ questions \in Nat /\ records \in Nat
<1>1. /\ header.questions \in Nat /\ header.records \in Nat
      /\ questions \in 0 .. header.questions /\ records \in 0 .. header.records
      /\ records < header.records => questions = 0
    BY DEF CountInv, Header
<1> QED
    BY <1>1 DEF Done, Entries

\* Behind the name of an entry that is well formed so far.
LEMMA BehindName ==
    ASSUME packet \in Seq(Byte), header \in Header, NEW k \in Nat, NEW s, NEW prefix,
           EntryEnd[k] = s, s # Nowhere, Walked(walk, s, prefix), CanStep(walk), AtRoot(walk)
    PROVE  /\ NameAt(s) # Malformed /\ NameAt(s).end = afterName /\ afterName \in Nat
           /\ DataAt(s) = afterName + kRecordBytes /\ SizeAt(s) = DataLength
           /\ k + 1 <= header.questions =>
                 EntryEnd[k + 1] = IF afterName + kQuestionBytes <= length
                                   THEN afterName + kQuestionBytes ELSE Nowhere
           /\ k + 1 > header.questions =>
                 EntryEnd[k + 1] = IF FieldsFit /\ DataFits
                                   THEN afterName + kRecordBytes + DataLength ELSE Nowhere
<1>1. /\ NameAt(s) # Malformed
      /\ NameAt(s) = [text |-> prefix, end |-> afterName]
    BY WalkEnds DEF afterName
<1>2. NameAt(s).end = afterName
    BY <1>1
<1>3. walk \in Walk /\ length \in Nat
    BY ByteLemma DEF Walked
<1>4. afterName \in Nat
    BY <1>3 DEF afterName, Walk
<1>5. DataAt(s) = afterName + kRecordBytes
    BY <1>2 DEF DataAt
<1>6. SizeAt(s) = DataLength
    <2>1. \A x, y \in Nat : (x + y) - 1 = x + (y - 1)
        OBVIOUS
    <2>2. kRecordBytes \in Nat
        BY DnsAssumption
    <2>3. DataAt(s) - 1 = afterName + (kRecordBytes - 1)
        BY <1>4, <1>5, <2>1, <2>2
    <2> QED
        BY <2>3, Zenon DEF SizeAt, DataLength
<1>7. DataLength \in 0 .. 255 /\ kRecordBytes \in Nat /\ kQuestionBytes \in Nat
      /\ header.questions \in Nat
    BY ByteLemma, DnsAssumption DEF DataLength, Byte, Header
<1>8. EntryEnd[k + 1] = EndAfter(s, k + 1)
    BY EntryLemma
<1>9. k + 1 <= header.questions =>
          EntryEnd[k + 1] = IF afterName + kQuestionBytes > length THEN Nowhere
                            ELSE afterName + kQuestionBytes
    BY <1>1, <1>2, <1>8 DEF EndAfter
<1>10. \A x, y, z \in Nat : x + y > z <=> ~(x + y <= z)
    OBVIOUS
<1>11. k + 1 > header.questions => ~(k + 1 <= header.questions)
    BY <1>7
<1>12. k + 1 > header.questions =>
           EntryEnd[k + 1] =
               IF (IF afterName + kRecordBytes > length THEN length + 1
                   ELSE afterName + kRecordBytes + DataLength) > length
               THEN Nowhere ELSE (IF afterName + kRecordBytes > length THEN length + 1
                                  ELSE afterName + kRecordBytes + DataLength)
    BY <1>1, <1>5, <1>6, <1>8, <1>11 DEF EndAfter
<1>13. \A x, y, z \in Nat, d \in 0 .. 255 :
           (IF (IF x + y > z THEN z + 1 ELSE x + y + d) > z
            THEN Nowhere ELSE (IF x + y > z THEN z + 1 ELSE x + y + d))
           = IF x + y <= z /\ x + y + d <= z THEN x + y + d ELSE Nowhere
    OBVIOUS
<1>14. k + 1 > header.questions =>
           EntryEnd[k + 1] = IF FieldsFit /\ DataFits
                             THEN afterName + kRecordBytes + DataLength ELSE Nowhere
    <2>1. PICK x \in Nat, y \in Nat, z \in Nat, d \in 0 .. 255 :
              x = afterName /\ y = kRecordBytes /\ z = length /\ d = DataLength
        BY <1>3, <1>4, <1>7
    <2>2. (IF (IF x + y > z THEN z + 1 ELSE x + y + d) > z
           THEN Nowhere ELSE (IF x + y > z THEN z + 1 ELSE x + y + d))
          = IF x + y <= z /\ x + y + d <= z THEN x + y + d ELSE Nowhere
        BY <1>13
    <2> QED
        BY <1>12, <2>1, <2>2, Zenon DEF FieldsFit, DataFits
<1> QED
    BY <1>1, <1>2, <1>3, <1>4, <1>5, <1>6, <1>7, <1>9, <1>10, <1>14
--------------------------------------------------------------------------------
\* Each step of the parser keeps what it knows.

\* The parser ends with what the datagram means.
LEMMA VerdictLemma ==
    ASSUME packet \in Seq(Byte), header \in Header, AcceptsHeader(length, header),
           packet' = packet, header' = header, host' = host,
           NEW v, Meant(v), found' = v, pc' = "parsed"
    PROVE  Known'
<1>1. Meant(v)'
    BY StillKnown
<1>2. (\A m : header \in Header /\ Meant(m) => m = MeantAddress)'
    BY MeantLemma, PTL
<1>3. v = MeantAddress'
    BY <1>1, <1>2 DEF Header
<1>4. AcceptsHeader(length, header)'
    BY DEF AcceptsHeader, length
<1>5. AnswerIsExact'
    BY <1>3, <1>4 DEF AnswerIsExact
<1> QED
    BY <1>5 DEF Known, EntryInv, SkipInv, EqualsInv

\* The parser is behind an entry, with what the entries up to there say.
LEMMA EntryLeft ==
    ASSUME packet \in Seq(Byte), header \in Header,
           packet' = packet, header' = header, host' = host,
           CountInv', NEW k \in Nat, NEW p, NEW f, Standing(k, p, f),
           k = Done', p = position', f = found', pc' = "entry"
    PROVE  Known'
<1>1. Standing(k, p, f)'
    BY StillKnown
<1>2. EntryInv'
    BY <1>1 DEF EntryInv
<1> QED
    BY <1>2 DEF Known, SkipInv, EqualsInv, AnswerIsExact

\* It gives up at an entry that is not well formed.
LEMMA GivesUpLemma ==
    ASSUME packet \in Seq(Byte), header \in Header, AcceptsHeader(length, header),
           packet' = packet, header' = header, host' = host, GivesUp,
           NEW k \in Nat, k + 1 <= Entries, EntryEnd[k + 1] = Nowhere
    PROVE  Known'
<1>1. Meant(None)
    BY FailLemma
<1> QED
    BY <1>1, VerdictLemma DEF GivesUp

\* What is known wherever an entry is read.
LEMMA AtEntry ==
    ASSUME ParseInv, Known, pc \in {"entry", "skip"}
    PROVE  /\ CountInv /\ packet \in Seq(Byte) /\ header \in Header
           /\ AcceptsHeader(length, header) /\ length \in Nat
           /\ Done \in Nat /\ Entries \in Nat /\ position \in 0 .. length
           /\ Standing(Done, position, found)
<1>1. packet \in Seq(Byte) /\ position \in 0 .. length
    BY DEF ParseInv, Parsing
<1>2. CountInv /\ Standing(Done, position, found)
    BY DEF Known, EntryInv
<1> QED
    BY <1>1, <1>2, ByteLemma, CountLemma DEF CountInv

\* One lemma for each action: the name of the next entry.
LEMMA NextEntryKnown ==
    ASSUME ParseInv, Known, NextEntry
    PROVE  Known'
<1>1. /\ pc = "entry" /\ pc' = "skip" /\ walk' = NewWalk(position) /\ questions + records > 0
      /\ questions' = questions /\ records' = records /\ position' = position
      /\ found' = found /\ packet' = packet /\ header' = header /\ host' = host
    BY DEF NextEntry, SameDatagram, lookupVars
<1>2. /\ CountInv /\ packet \in Seq(Byte) /\ header \in Header
      /\ Done \in Nat /\ position \in 0 .. length /\ Standing(Done, position, found)
    BY <1>1, AtEntry
<1>3. CountInv' /\ Done' = Done
    BY <1>1, <1>2 DEF CountInv, AcceptsHeader, length, Done, Entries
<1>4. PICK k, p, f, w : k = Done /\ p = position /\ f = found /\ w = NewWalk(position)
    OBVIOUS
<1>5. Standing(k, p, f)'
    BY <1>1, <1>2, <1>4, StillKnown
<1>6. Walked(w, p, <<>>)'
    BY <1>1, <1>2, <1>4, StillKnown, WalkBegins
<1>7. EntryInv'
    BY <1>1, <1>3, <1>4, <1>5 DEF EntryInv
<1>8. SkipInv'
    BY <1>1, <1>4, <1>6 DEF SkipInv
<1> QED
    BY <1>1, <1>7, <1>8 DEF Known, EqualsInv, AnswerIsExact

\* All entries are done.
LEMMA EndOfEntriesKnown ==
    ASSUME ParseInv, Known, EndOfEntries
    PROVE  Known'
<1>1. /\ pc = "entry" /\ pc' = "parsed" /\ questions + records = 0
      /\ found' = IF position = length THEN found ELSE None
      /\ packet' = packet /\ header' = header /\ host' = host
    BY DEF EndOfEntries, SameDatagram, lookupVars
<1>2. /\ CountInv /\ packet \in Seq(Byte) /\ header \in Header /\ AcceptsHeader(length, header)
      /\ Standing(Done, position, found)
    BY <1>1, AtEntry
<1>3. Done = Entries
    BY <1>1, <1>2, CountLemma
<1>4. PICK v : v = found'
    OBVIOUS
<1>5. Meant(v)
    BY <1>1, <1>2, <1>3, <1>4 DEF Meant, Standing
<1> QED
    BY <1>1, <1>2, <1>4, <1>5, VerdictLemma

\* What is known wherever a name is skipped.
LEMMA AtName ==
    ASSUME ParseInv, Known, pc = "skip"
    PROVE  /\ Done + 1 <= Entries
           /\ \E prefix : Walked(walk, position, prefix)
<1>1. CountInv /\ questions + records > 0 /\ \E prefix : Walked(walk, position, prefix)
    BY AtEntry DEF Known, SkipInv
<1> QED
    BY <1>1, CountLemma

\* A round of skipName.
LEMMA SkipStepKnown ==
    ASSUME ParseInv, Known, SkipStep
    PROVE  Known'
<1>1. /\ pc = "skip" /\ pc' = "skip" /\ CanStep(walk)
      /\ questions' = questions /\ records' = records /\ position' = position
      /\ found' = found /\ packet' = packet /\ header' = header /\ host' = host
      /\ \/ Follows(walk) /\ walk' = FollowPointer(walk)
         \/ Expands(walk) /\ walk' = PassLabel(walk)
    BY DEF SkipStep, SameDatagram, lookupVars
<1>2. /\ CountInv /\ packet \in Seq(Byte) /\ header \in Header
      /\ Done \in Nat /\ position \in 0 .. length /\ Standing(Done, position, found)
    BY <1>1, AtEntry
<1>3. CountInv' /\ Done' = Done
    BY <1>1, <1>2 DEF CountInv, AcceptsHeader, length, Done, Entries
<1>4. PICK k, p, f, v : k = Done /\ p = position /\ f = found /\ v = walk'
    OBVIOUS
<1>5. Standing(k, p, f)'
    BY <1>1, <1>2, <1>4, StillKnown
<1>6. \E prefix : Walked(v, p, prefix)
    BY <1>1, <1>2, <1>4, AtName, WalkFollows, WalkPasses
<1>7. PICK prefix : Walked(v, p, prefix)'
    BY <1>1, <1>2, <1>6, StillKnown
<1>8. EntryInv'
    BY <1>1, <1>3, <1>4, <1>5 DEF EntryInv
<1>9. SkipInv'
    <2>1. questions + records > 0
        BY <1>1 DEF Known, SkipInv
    <2> QED
        BY <1>1, <1>4, <1>7, <2>1 DEF SkipInv
<1> QED
    BY <1>1, <1>8, <1>9 DEF Known, EqualsInv, AnswerIsExact

\* skipName refuses the name, which is not well formed.
LEMMA SkipRefusedKnown ==
    ASSUME ParseInv, Known, SkipRefused
    PROVE  Known'
<1>1. /\ pc = "skip" /\ GivesUp /\ packet' = packet /\ header' = header /\ host' = host
      /\ CanStep(walk) => ~AtRoot(walk) /\ ~Follows(walk) /\ ~Expands(walk)
    BY DEF SkipRefused, SameDatagram, lookupVars
<1>2. /\ CountInv /\ packet \in Seq(Byte) /\ header \in Header /\ AcceptsHeader(length, header)
      /\ Done \in Nat /\ Standing(Done, position, found)
    BY <1>1, AtEntry
<1>3. Done + 1 <= Entries /\ NameAt(position) = Malformed
    BY <1>1, <1>2, AtName, WalkRefused
<1>4. EntryEnd[Done + 1] = Nowhere
    BY <1>2, <1>3, EntryLemma DEF Standing, EndAfter
<1> QED
    BY <1>1, <1>2, <1>3, <1>4, GivesUpLemma

\* What is known wherever the name of an entry has been skipped.
LEMMA AtNameEnd ==
    ASSUME ParseInv, Known, Skipped
    PROVE  /\ NameAt(position) # Malformed /\ NameAt(position).end = afterName
           /\ DataAt(position) = afterName + kRecordBytes /\ SizeAt(position) = DataLength
           /\ questions > 0 =>
                 EntryEnd[Done + 1] = IF afterName + kQuestionBytes <= length
                                      THEN afterName + kQuestionBytes ELSE Nowhere
           /\ questions = 0 =>
                 EntryEnd[Done + 1] = IF FieldsFit /\ DataFits
                                      THEN afterName + kRecordBytes + DataLength ELSE Nowhere
           /\ afterName \in Nat /\ Done + 1 <= Entries
           /\ questions > 0 => Done + 1 <= header.questions
           /\ questions = 0 => header.questions <= Done
<1>1. /\ CountInv /\ packet \in Seq(Byte) /\ header \in Header
      /\ Done \in Nat /\ Standing(Done, position, found) /\ CanStep(walk) /\ AtRoot(walk)
      /\ Done + 1 <= Entries /\ \E prefix : Walked(walk, position, prefix)
    BY AtEntry, AtName DEF Skipped
<1>2. PICK k, prefix : k = Done /\ Walked(walk, position, prefix)
    BY <1>1
<1>3. /\ questions > 0 => Done + 1 <= header.questions
      /\ questions = 0 => header.questions <= Done
    BY <1>1, CountLemma
<1>4. k \in Nat /\ header.questions \in Nat /\ EntryEnd[k] = position /\ position # Nowhere
    BY <1>1, <1>2 DEF Standing, Header
<1>5. /\ NameAt(position) # Malformed /\ NameAt(position).end = afterName /\ afterName \in Nat
      /\ DataAt(position) = afterName + kRecordBytes /\ SizeAt(position) = DataLength
      /\ k + 1 <= header.questions =>
            EntryEnd[k + 1] = IF afterName + kQuestionBytes <= length
                              THEN afterName + kQuestionBytes ELSE Nowhere
      /\ k + 1 > header.questions =>
            EntryEnd[k + 1] = IF FieldsFit /\ DataFits
                              THEN afterName + kRecordBytes + DataLength ELSE Nowhere
    BY <1>1, <1>2, <1>4, BehindName
<1>6. header.questions <= k => k + 1 > header.questions
    BY <1>4
<1> QED
    BY <1>1, <1>2, <1>3, <1>5, <1>6

\* A question is passed, or does not fit.
LEMMA QuestionKnown ==
    ASSUME ParseInv, Known, Question
    PROVE  Known'
<1>1. /\ pc = "skip" /\ Skipped /\ questions > 0 /\ questions' = questions - 1
      /\ records' = records
      /\ packet' = packet /\ header' = header /\ host' = host
      /\ \/ /\ afterName + kQuestionBytes <= length /\ pc' = "entry"
            /\ position' = afterName + kQuestionBytes /\ found' = found
         \/ afterName + kQuestionBytes > length /\ GivesUp
    BY DEF Question, Skipped, SameDatagram, lookupVars
<1>2. /\ CountInv /\ packet \in Seq(Byte) /\ header \in Header /\ AcceptsHeader(length, header)
      /\ Done \in Nat /\ Standing(Done, position, found) /\ length \in Nat
    BY <1>1, AtEntry
<1>3. /\ EntryEnd[Done + 1] = IF afterName + kQuestionBytes <= length
                              THEN afterName + kQuestionBytes ELSE Nowhere
      /\ afterName \in Nat /\ Done + 1 <= Entries /\ Done + 1 <= header.questions
    BY <1>1, AtNameEnd
<1>4. afterName + kQuestionBytes \in Nat
    BY <1>3, DnsAssumption
<1>5. CASE afterName + kQuestionBytes > length
    <2>1. EntryEnd[Done + 1] = Nowhere /\ GivesUp
        BY <1>1, <1>2, <1>3, <1>4, <1>5
    <2> QED
        BY <1>1, <1>2, <1>3, <2>1, GivesUpLemma
<1>6. CASE afterName + kQuestionBytes <= length
    <2>1. pc' = "entry" /\ position' = EntryEnd[Done + 1] /\ found' = found
          /\ EntryEnd[Done + 1] # Nowhere
        BY <1>1, <1>2, <1>3, <1>4, <1>6 DEF Nowhere
    <2>2. PICK k, p, f : k = Done + 1 /\ p = EntryEnd[k] /\ f = found
        OBVIOUS
    <2>3. k \in Nat
        BY <1>2, <2>2
    <2>4. FoundIs(f, k)
        BY <1>2, <1>3, <2>2, FoundPasses DEF Standing
    <2>5. Standing(k, p, f)
        BY <2>1, <2>2, <2>4 DEF Standing
    <2>6. CountInv'
        <3>1. header' \in Header /\ AcceptsHeader(length, header)'
            BY <1>1, <1>2 DEF AcceptsHeader, length
        <3>2. /\ questions' \in 0 .. header'.questions /\ records' \in 0 .. header'.records
              /\ records' < header'.records => questions' = 0
            BY <1>1, <1>2 DEF CountInv, Header
        <3> QED
            BY <3>1, <3>2 DEF CountInv
    <2>7. Done' = k
        BY <1>1, <1>2, <2>2, CountLemma DEF Done, Entries
    <2> QED
        BY <1>1, <1>2, <2>1, <2>2, <2>3, <2>5, <2>6, <2>7, EntryLeft
<1> QED
    BY <1>1, <1>5, <1>6

\* What every step that reads a record does and knows.
LEMMA AtRecord ==
    ASSUME ParseInv, Known, Record
    PROVE  /\ CountInv /\ packet \in Seq(Byte) /\ header \in Header
           /\ AcceptsHeader(length, header) /\ Done \in Nat /\ Done + 1 <= Entries
           /\ Standing(Done, position, found) /\ header.questions <= Done
           /\ NameAt(position) # Malformed /\ NameAt(position).end = afterName
           /\ DataAt(position) = afterName + kRecordBytes /\ SizeAt(position) = DataLength
           /\ EntryEnd[Done + 1] = IF FieldsFit /\ DataFits
                                   THEN afterName + kRecordBytes + DataLength ELSE Nowhere
           /\ packet' = packet /\ header' = header /\ host' = host
           /\ CountInv' /\ Done' = Done + 1
<1>1. /\ pc = "skip" /\ Skipped /\ questions = 0 /\ questions' = questions /\ records > 0
      /\ records' = records - 1 /\ packet' = packet /\ header' = header /\ host' = host
    BY DEF Record, Skipped, SameDatagram, lookupVars
<1>2. /\ CountInv /\ packet \in Seq(Byte) /\ header \in Header /\ AcceptsHeader(length, header)
      /\ Done \in Nat /\ Standing(Done, position, found) /\ length \in Nat
    BY <1>1, AtEntry
<1>3. /\ questions' \in 0 .. header'.questions /\ records' \in 0 .. header'.records
      /\ questions' = 0
    BY <1>1, <1>2 DEF CountInv, Header
<1>4. header' \in Header /\ AcceptsHeader(length, header)'
    BY <1>1, <1>2 DEF AcceptsHeader, length
<1>5. CountInv'
    BY <1>3, <1>4 DEF CountInv
<1>6. Done' = Done + 1
    BY <1>1, <1>2, CountLemma DEF Done, Entries
<1> QED
    BY <1>1, <1>2, <1>5, <1>6, AtNameEnd

\* The fields or the data of a record do not fit.
LEMMA RecordRefusedKnown ==
    ASSUME ParseInv, Known, RecordRefused
    PROVE  Known'
<1>1. Record /\ GivesUp /\ ~(FieldsFit /\ DataFits)
    BY DEF RecordRefused
<1> QED
    BY <1>1, AtRecord, GivesUpLemma

\* A record that is no address gives nothing.
LEMMA RecordPassedKnown ==
    ASSUME ParseInv, Known, RecordPassed
    PROVE  Known'
<1>1. /\ Record /\ FieldsFit /\ DataFits /\ ~IsAddress /\ pc' = "entry"
      /\ position' = afterName + kRecordBytes + DataLength /\ found' = found
    BY DEF RecordPassed
<1>2. /\ packet \in Seq(Byte) /\ header \in Header /\ Done \in Nat
      /\ Standing(Done, position, found) /\ CountInv' /\ Done' = Done + 1
      /\ NameAt(position).end = afterName /\ SizeAt(position) = DataLength
      /\ EntryEnd[Done + 1] = position'
      /\ packet' = packet /\ header' = header /\ host' = host
    BY <1>1, AtRecord
<1>3. PICK k, p, f : k = Done + 1 /\ p = position' /\ f = found
    OBVIOUS
<1>4. p # Nowhere
    <2>1. /\ kRecordBytes \in Nat /\ DataLength \in 0 .. 255 /\ afterName \in Nat
        BY <1>1, AtNameEnd, ByteLemma, DnsAssumption, <1>2 DEF DataLength, Byte, Record
    <2>2. \A x, y \in Nat, d \in 0 .. 255 : x + y + d # -1
        OBVIOUS
    <2> QED
        BY <1>1, <1>3, <2>1, <2>2 DEF Nowhere
<1>5. ~Gives(k)
    <2>1. k - 1 = Done /\ EntryEnd[Done] = position
        BY <1>2, <1>3 DEF Standing
    <2> QED
        BY <1>1, <1>2, <2>1, Zenon DEF Gives, IsAddress, Kind
<1>6. FoundIs(f, k)
    BY <1>2, <1>3, <1>5, FoundPasses DEF Standing
<1>7. Standing(k, p, f) /\ k \in Nat
    BY <1>2, <1>3, <1>4, <1>6 DEF Standing
<1> QED
    BY <1>1, <1>2, <1>3, <1>7, EntryLeft

\* The name of an address is to be compared from its beginning.
LEMMA RecordToCompareKnown ==
    ASSUME ParseInv, Known, RecordToCompare
    PROVE  Known'
<1>1. /\ Record /\ FieldsFit /\ DataFits /\ IsAddress /\ pc' = "equals"
      /\ position' = afterName + kRecordBytes /\ walk' = NewWalk(position) /\ found' = found
    BY DEF RecordToCompare
<1>2. /\ packet \in Seq(Byte) /\ header \in Header /\ Done \in Nat
      /\ Standing(Done, position, found) /\ CountInv' /\ Done' = Done + 1
      /\ header.questions <= Done /\ NameAt(position) # Malformed
      /\ NameAt(position).end = afterName /\ SizeAt(position) = DataLength
      /\ DataAt(position) = afterName + kRecordBytes
      /\ EntryEnd[Done + 1] = afterName + kRecordBytes + DataLength
      /\ packet' = packet /\ header' = header /\ host' = host
    BY <1>1, AtRecord
<1>3. PICK k, s, d, f, w : k = Done /\ s = position /\ d = DataAt(position) /\ f = found
                           /\ w = NewWalk(position)
    OBVIOUS
<1>4. Walked(w, s, <<>>)
    BY <1>1, <1>2, <1>3, AtEntry, WalkBegins DEF Record, Skipped
<1>5. Matched(w, <<>>)
    BY <1>3 DEF Matched, NewWalk
<1>6. EntryEnd[k + 1] = d + kAddressBytes
    <2>1. /\ kRecordBytes \in Nat /\ DataLength \in 0 .. 255 /\ afterName \in Nat
        BY <1>1, AtNameEnd, ByteLemma, DnsAssumption, <1>2 DEF DataLength, Byte, Record
    <2> QED
        BY <1>1, <1>2, <1>3, <2>1 DEF IsAddress
<1>7. At(NameAt(s).end) = kTypeA /\ SizeAt(s) = kAddressBytes
    BY <1>1, <1>2, <1>3, Zenon DEF IsAddress, Kind
<1>8. Comparing(k, s, d, f, w, <<>>)
    BY <1>2, <1>3, <1>4, <1>5, <1>6, <1>7 DEF Comparing
<1>9. Comparing(k, s, d, f, w, <<>>)'
    BY <1>2, <1>3, <1>8, StillKnown
<1>10. Done' > header'.questions /\ k = Done' - 1
    BY <1>2, <1>3 DEF Header
<1>11. d = position' /\ f = found' /\ w = walk'
    BY <1>1, <1>2, <1>3
<1>12. EqualsInv'
    BY <1>2, <1>9, <1>10, <1>11 DEF EqualsInv
<1> QED
    BY <1>1, <1>12 DEF Known, EntryInv, SkipInv, AnswerIsExact

\* What is known wherever the name of a record is compared.
LEMMA AtCompare ==
    ASSUME ParseInv, Known, HostInv, pc = "equals"
    PROVE  /\ CountInv /\ packet \in Seq(Byte) /\ header \in Header /\ length \in Nat
           /\ host \in Seq(Byte) /\ host # <<>>
           /\ Done - 1 \in Nat /\ header.questions <= Done - 1 /\ dataLength = kAddressBytes
           /\ \E s, prefix : Comparing(Done - 1, s, position, found, walk, prefix)
<1>1. /\ CountInv /\ Done > header.questions
      /\ \E s, prefix : Comparing(Done - 1, s, position, found, walk, prefix)
    BY DEF Known, EqualsInv
<1>2. header \in Header /\ header.questions \in Nat /\ Done \in Nat
    BY <1>1, CountLemma DEF CountInv, Header
<1>3. packet \in Seq(Byte) /\ dataLength = kAddressBytes
    BY DEF ParseInv, Parsing
<1>4. host \in Seq(Byte) /\ host # <<>>
    BY DEF HostInv
<1> QED
    BY <1>1, <1>2, <1>3, <1>4, ByteLemma

\* A record that is compared has its entry done, with v found from there on.
LEMMA ComparedKnown ==
    ASSUME ParseInv, Known, HostInv, pc = "equals", Compared,
           NEW v, found' = v, FoundIs(v, Done)
    PROVE  Known'
<1>1. /\ CountInv /\ packet \in Seq(Byte) /\ header \in Header /\ length \in Nat
      /\ Done - 1 \in Nat /\ dataLength = kAddressBytes
    BY AtCompare
<1>2. PICK s, prefix : Comparing(Done - 1, s, position, found, walk, prefix)
    BY AtCompare
<1>3. /\ pc' = "entry" /\ position' = position + dataLength
      /\ questions' = questions /\ records' = records
      /\ packet' = packet /\ header' = header /\ host' = host
    BY DEF Compared, SameDatagram, lookupVars
<1>4. CountInv' /\ Done' = Done /\ Done \in Nat
    BY <1>1, <1>3, CountLemma DEF CountInv, AcceptsHeader, length, Done, Entries
<1>5. position' = EntryEnd[Done]
    <2>1. (Done - 1) + 1 = Done
        BY <1>4
    <2> QED
        BY <1>1, <1>2, <1>3, <2>1 DEF Comparing
<1>6. position' # Nowhere
    <2>1. position \in 0 .. length /\ kAddressBytes \in Nat
        BY DnsAssumption DEF ParseInv
    <2> QED
        BY <1>1, <1>3, <2>1 DEF Nowhere
<1>7. PICK k, p : k = Done /\ p = position'
    OBVIOUS
<1>8. Standing(k, p, v)
    BY <1>5, <1>6, <1>7 DEF Standing
<1> QED
    BY <1>1, <1>3, <1>4, <1>7, <1>8, EntryLeft

\* A round of nameEquals.
LEMMA EqualsStepKnown ==
    ASSUME ParseInv, Known, HostInv, EqualsStep
    PROVE  Known'
<1>1. /\ pc = "equals" /\ pc' = "equals" /\ CanStep(walk)
      /\ questions' = questions /\ records' = records /\ position' = position
      /\ found' = found /\ packet' = packet /\ header' = header /\ host' = host
      /\ \/ Follows(walk) /\ walk' = FollowPointer(walk)
         \/ /\ Expands(walk) /\ LabelMatches(walk)
            /\ walk' = [PassLabel(walk) EXCEPT !.expectedAt = LabelEnd(walk)]
    BY DEF EqualsStep, SameDatagram, lookupVars
<1>2. /\ CountInv /\ packet \in Seq(Byte) /\ header \in Header /\ host \in Seq(Byte)
      /\ Done - 1 \in Nat /\ Done > header.questions
    BY <1>1, AtCompare DEF Known, EqualsInv
<1>3. PICK s, prefix : Comparing(Done - 1, s, position, found, walk, prefix)
    BY <1>1, AtCompare
<1>4. CountInv' /\ Done' = Done
    BY <1>1, <1>2 DEF CountInv, AcceptsHeader, length, Done, Entries
<1>5. PICK k, d, f, v : k = Done - 1 /\ d = position /\ f = found /\ v = walk'
    OBVIOUS
<1>6. Walked(walk, s, prefix) /\ Matched(walk, prefix)
    BY <1>3 DEF Comparing
<1>7. \E passed : Walked(v, s, passed) /\ Matched(v, passed)
    <2>1. CASE Follows(walk) /\ walk' = FollowPointer(walk)
        <3>1. Walked(v, s, prefix)
            BY <1>1, <1>2, <1>5, <1>6, <2>1, WalkFollows
        <3>2. v.expectedAt = walk.expectedAt
            BY <1>5, <1>6, <2>1 DEF FollowPointer, Walked, Walk
        <3>3. Matched(v, prefix)
            BY <1>6, <3>2 DEF Matched
        <3> QED
            BY <3>1, <3>3
    <2>2. CASE /\ Expands(walk) /\ LabelMatches(walk)
               /\ walk' = [PassLabel(walk) EXCEPT !.expectedAt = LabelEnd(walk)]
        BY <1>1, <1>2, <1>5, <1>6, <2>2, MatchPasses
    <2> QED
        BY <1>1, <2>1, <2>2
<1>8. PICK passed : Walked(v, s, passed) /\ Matched(v, passed)
    BY <1>7
<1>9. Comparing(k, s, d, f, v, passed)
    BY <1>3, <1>5, <1>8 DEF Comparing
<1>10. Comparing(k, s, d, f, v, passed)'
    BY <1>1, <1>2, <1>5, <1>9, StillKnown
<1>11. EqualsInv'
    BY <1>1, <1>2, <1>4, <1>5, <1>10 DEF EqualsInv
<1> QED
    BY <1>1, <1>11 DEF Known, EntryInv, SkipInv, AnswerIsExact

\* The name is another's, and the record gives nothing.
LEMMA EqualsRefusedKnown ==
    ASSUME ParseInv, Known, HostInv, EqualsRefused
    PROVE  Known'
<1>1. /\ pc = "equals" /\ Compared /\ found' = found
      /\ CanStep(walk) => IF AtRoot(walk) THEN walk.expectedAt # Len(host)
                          ELSE ~Follows(walk) /\ ~(Expands(walk) /\ LabelMatches(walk))
    BY DEF EqualsRefused
<1>2. /\ packet \in Seq(Byte) /\ header \in Header /\ host \in Seq(Byte) /\ host # <<>>
      /\ Done - 1 \in Nat
    BY <1>1, AtCompare
<1>3. PICK s, prefix : Comparing(Done - 1, s, position, found, walk, prefix)
    BY <1>1, AtCompare
<1>4. PICK k, v : k = Done - 1 /\ v = found
    OBVIOUS
<1>5. /\ Walked(walk, s, prefix) /\ Matched(walk, prefix) /\ NameAt(s) # Malformed
      /\ s = EntryEnd[k] /\ FoundIs(v, k)
    BY <1>3, <1>4 DEF Comparing, Standing
<1>6. ~IsText(NameAt(s).text)
    <2>1. CASE CanStep(walk) /\ AtRoot(walk)
        <3>1. NameAt(s).text = prefix
            <4>1. NameAt(s) = [text |-> prefix,
                               end |-> IF walk.next = 0 THEN walk.position + 1 ELSE walk.next]
                BY <1>2, <1>5, <2>1, WalkEnds
            <4> QED
                BY <4>1
        <3>2. ~IsText(prefix)
            BY <1>1, <1>2, <1>5, <2>1, MatchEnds
        <3> QED
            BY <3>1, <3>2
    <2>2. CASE ~(CanStep(walk) /\ AtRoot(walk))
        BY <1>1, <1>2, <1>5, <2>2, MatchRefused
    <2> QED
        BY <2>1, <2>2
<1>7. ~Gives(k + 1)
    <2>1. (k + 1) - 1 = k
        BY <1>2, <1>4
    <2> QED
        BY <1>5, <1>6, <2>1, Zenon DEF Gives
<1>8. FoundIs(v, k + 1)
    BY <1>2, <1>4, <1>5, <1>7, FoundPasses
<1>9. k + 1 = Done
    BY <1>2, <1>4, CountLemma, AtCompare, <1>1
<1> QED
    BY <1>1, <1>4, <1>8, <1>9, ComparedKnown

\* The name is the host's, and the record gives its address.
LEMMA EqualsFoundKnown ==
    ASSUME ParseInv, Known, HostInv, EqualsFound
    PROVE  Known'
<1>1. /\ pc = "equals" /\ Compared /\ CanStep(walk) /\ AtRoot(walk)
      /\ walk.expectedAt = Len(host)
      /\ found' = SubSeq(packet, position + 1, position + kAddressBytes)
    BY DEF EqualsFound
<1>2. /\ packet \in Seq(Byte) /\ header \in Header /\ host \in Seq(Byte) /\ host # <<>>
      /\ Done - 1 \in Nat /\ header.questions <= Done - 1
    BY <1>1, AtCompare
<1>3. PICK s, prefix : Comparing(Done - 1, s, position, found, walk, prefix)
    BY <1>1, AtCompare
<1>4. PICK k, v : k = Done - 1 /\ v = found'
    OBVIOUS
<1>5. /\ Walked(walk, s, prefix) /\ Matched(walk, prefix) /\ s = EntryEnd[k]
      /\ position = DataAt(s) /\ At(NameAt(s).end) = kTypeA /\ SizeAt(s) = kAddressBytes
    BY <1>3, <1>4 DEF Comparing, Standing
<1>6. IsText(NameAt(s).text)
    <2>1. NameAt(s) = [text |-> prefix,
                       end |-> IF walk.next = 0 THEN walk.position + 1 ELSE walk.next]
        BY <1>1, <1>2, <1>5, WalkEnds
    <2>2. NameAt(s).text = prefix
        BY <2>1
    <2>3. IsText(prefix)
        BY <1>1, <1>2, <1>5, MatchEnds
    <2> QED
        BY <2>2, <2>3
<1>7. (k + 1) - 1 = k
    BY <1>2, <1>4
<1>8. Gives(k + 1)
    BY <1>5, <1>6, <1>7, Zenon DEF Gives
<1>9. v = AddressIn(k + 1)
    BY <1>1, <1>4, <1>5, <1>7, Zenon DEF AddressIn
<1>10. FoundIs(v, k + 1)
    BY <1>2, <1>4, <1>8, <1>9, FoundAnew
<1>11. k + 1 = Done
    BY <1>2, <1>4, CountLemma, AtCompare, <1>1
<1> QED
    BY <1>1, <1>4, <1>10, <1>11, ComparedKnown

\* A datagram arrives: nothing is done of it, and nothing found.
LEMMA ReceiveKnown ==
    ASSUME Receive
    PROVE  Known'
<1>1. PICK d \in Datagrams :
          /\ packet' = d.bytes /\ questions' = d.questions /\ records' = d.records
          /\ header' = [response |-> d.response, questions |-> d.questions,
                        records |-> d.records]
          /\ pc' = IF AcceptsHeader(Len(d.bytes), d) THEN "entry" ELSE "parsed"
    BY DEF Receive
<1>2. position' = kDnsHeaderBytes /\ found' = None
    BY DEF Receive
<1>3. /\ d.bytes \in Seq(Byte) /\ d.response \in BOOLEAN
      /\ d.questions \in Nat /\ d.records \in Nat
    BY DnsAssumption
<1>4. AcceptsHeader(length, header)' <=> AcceptsHeader(Len(d.bytes), d)
    BY <1>1 DEF AcceptsHeader, length
<1>5. CASE AcceptsHeader(Len(d.bytes), d)
    <2>1. /\ header' \in Header /\ header'.questions = d.questions /\ header'.records = d.records
        BY <1>1, <1>3 DEF Header
    <2>2. CountInv'
        BY <1>1, <1>3, <1>4, <1>5, <2>1 DEF CountInv
    <2>3. Done' = 0
        BY <1>1, <1>3, <2>1 DEF Done, Entries
    <2>4. EntryEnd'[0] = kDnsHeaderBytes
        <3>1. (packet \in Seq(Byte) =>
                  /\ EntryEnd \in [Nat -> Places] /\ EntryEnd[0] = kDnsHeaderBytes
                  /\ \A k \in Nat : EntryEnd[k] \in Places
                                    /\ EntryEnd[k + 1] = EndAfter(EntryEnd[k], k + 1))'
            BY EntryLemma, PTL
        <3> QED
            BY <1>1, <1>3, <3>1
    <2>5. Given(0)' = {}
        <3>1. header'.questions + 1 .. 0 = {}
            BY <1>3, <2>1
        <3> QED
            BY <3>1 DEF Given
    <2>6. PICK k, p, f : k = 0 /\ p = kDnsHeaderBytes /\ f = None
        OBVIOUS
    <2>7. Standing(k, p, f)'
        <3>1. FoundIs(f, k)'
            BY <2>5, <2>6 DEF FoundIs
        <3>2. p # Nowhere
            BY <2>6, DnsAssumption DEF Nowhere
        <3> QED
            BY <2>4, <2>6, <3>1, <3>2 DEF Standing
    <2>8. EntryInv'
        BY <1>2, <2>2, <2>3, <2>6, <2>7 DEF EntryInv
    <2> QED
        BY <1>1, <1>5, <2>8 DEF Known, SkipInv, EqualsInv, AnswerIsExact
<1>6. CASE ~AcceptsHeader(Len(d.bytes), d)
    BY <1>1, <1>2, <1>4, <1>6 DEF Known, EntryInv, SkipInv, EqualsInv, AnswerIsExact
<1> QED
    BY <1>5, <1>6

\* A host that is looked up is a name, and there is room for it.
LEMMA LocalHostLemma ==
    ASSUME NEW raw \in RawHosts, IsLocalHost(raw)
    PROVE  /\ Trimmed(raw) \in Seq(Byte) /\ Trimmed(raw) # <<>>
           /\ Len(Trimmed(raw)) < kHostBytes
<1>1. /\ raw \in Seq(Byte) /\ Len(raw) \in Nat /\ kHostBytes \in Nat
      /\ Suffix \in Seq(Byte) /\ Len(Suffix) \in Nat
    BY DnsAssumption, LenProperties
<1>2. Len(raw) < kHostBytes /\ Len(Trimmed(raw)) - Len(Suffix) > 0
    BY DEF IsLocalHost
<1>3. CASE raw # <<>> /\ raw[Len(raw)] = Dot
    <2>1. Len(raw) # 0
        BY <1>1, <1>3, EmptySeq
    <2>2. Trimmed(raw) = SubSeq(raw, 1, Len(raw) - 1)
        BY <1>3 DEF Trimmed
    <2>3. \A i \in 1 .. Len(raw) - 1 : raw[i] \in Byte
        BY <1>1, ElementOfSeq
    <2>4. Len(raw) - 1 \in Nat
        BY <1>1, <2>1
    <2>5. SubSeq(raw, 1, Len(raw) - 1) \in Seq(Byte)
          /\ Len(SubSeq(raw, 1, Len(raw) - 1)) = Len(raw) - 1
        <3>1. PICK n : n = Len(raw) - 1
            OBVIOUS
        <3>2. n \in Int /\ 1 \in Int /\ n \in Nat /\ \A i \in 1 .. n : raw[i] \in Byte
            BY <2>3, <2>4, <3>1
        <3>3. /\ SubSeq(raw, 1, n) \in Seq(Byte)
              /\ Len(SubSeq(raw, 1, n)) = IF 1 <= n THEN n - 1 + 1 ELSE 0
            BY <3>2, SubSeqProperties
        <3>4. (IF 1 <= n THEN n - 1 + 1 ELSE 0) = n
            BY <3>2
        <3> QED
            BY <3>1, <3>3, <3>4
    <2>6. Trimmed(raw) \in Seq(Byte) /\ Len(Trimmed(raw)) = Len(raw) - 1
        BY <2>2, <2>5
    <2>7. Trimmed(raw) # <<>>
        BY <1>1, <1>2, <2>6, EmptySeq
    <2> QED
        BY <1>1, <1>2, <2>6, <2>7
<1>4. CASE ~(raw # <<>> /\ raw[Len(raw)] = Dot)
    <2>1. Trimmed(raw) = raw
        BY <1>4 DEF Trimmed
    <2>2. raw # <<>>
        BY <1>1, <1>2, <2>1, EmptySeq
    <2> QED
        BY <1>1, <1>2, <2>1, <2>2
<1> QED
    BY <1>3, <1>4

\* What the lookup keeps of its host.
LEMMA HostStep ==
    ASSUME HostInv, [Next]_vars
    PROVE  HostInv'
<1>1. CASE beginLocalResolve
    <2>1. pc = "idle" /\ pc' = "idle" /\ packet' = <<>>
        BY <1>1 DEF beginLocalResolve, HostInv
    <2>2. active' => host' \in Seq(Byte) /\ host' # <<>> /\ Len(host') < kHostBytes
                     /\ CanQuery(host')
        BY <1>1, LocalHostLemma DEF beginLocalResolve, LookupFails
    <2> QED
        BY <2>1, <2>2 DEF HostInv
<1>2. CASE cancelLocalResolve \/ PollFails
    BY <1>2 DEF cancelLocalResolve, PollFails, LookupFails, HostInv
<1>3. CASE Poll
    <2>1. /\ pc' = "receive" /\ active' = active /\ active /\ host' = host
          /\ packet' = <<>> \/ packet' = makeMdnsQuery(host)
        BY <1>3 DEF Poll, HostInv
    <2> QED
        BY <2>1 DEF HostInv
<1>4. CASE PollEnds
    <2>1. /\ pc' = "idle" /\ packet' = <<>> /\ host' = host
          /\ active' => active
        BY <1>4 DEF PollEnds, Unread, LookupFails
    <2> QED
        BY <2>1 DEF HostInv
<1>5. CASE Receive
    <2>1. pc = "receive" /\ pc' \in {"entry", "parsed"} /\ active' = active /\ host' = host
        BY <1>5 DEF Receive
    <2> QED
        BY <2>1 DEF HostInv
<1>6. CASE Parse /\ ~AnswerParsed
    <2>1. /\ pc \in {"entry", "skip", "equals"} /\ pc' \in {"entry", "skip", "equals", "parsed"}
          /\ active' = active /\ host' = host
        BY <1>6 DEF Parse, NextEntry, EndOfEntries, SkipStep, SkipRefused, Skipped, Question,
                    Record, RecordRefused, RecordPassed, RecordToCompare, EqualsStep,
                    EqualsRefused, EqualsFound, Compared, GivesUp, SameDatagram, lookupVars
    <2> QED
        BY <2>1 DEF HostInv
<1>7. CASE AnswerParsed
    <2>1. /\ pc = "parsed" /\ pc' \in {"idle", "receive"} /\ packet' = <<>> /\ host' = host
          /\ pc' = "receive" => active'
          /\ active' => active
        <3>1. pc = "parsed" => active
            BY DEF HostInv
        <3> QED
            BY <1>7, <3>1 DEF AnswerParsed, Unread
    <2> QED
        BY <2>1 DEF HostInv
<1>8. CASE UNCHANGED vars
    BY <1>8 DEF vars, lookupVars, HostInv
<1> QED
    BY <1>1, <1>2, <1>3, <1>4, <1>5, <1>6, <1>7, <1>8 DEF Next, Parse

\* The parser knows what it has to.
LEMMA KnownStep ==
    ASSUME ParseInv, Known, HostInv, [Next]_vars
    PROVE  Known'
<1>1. CASE beginLocalResolve \/ cancelLocalResolve \/ PollFails \/ Poll \/ PollEnds
           \/ AnswerParsed
    <2>1. pc' \in {"idle", "receive"}
        BY <1>1 DEF beginLocalResolve, cancelLocalResolve, PollFails, Poll, PollEnds,
                    AnswerParsed
    <2> QED
        BY <2>1 DEF Known, EntryInv, SkipInv, EqualsInv, AnswerIsExact
<1>2. CASE Parse /\ ~AnswerParsed
    BY <1>2, NextEntryKnown, EndOfEntriesKnown, SkipStepKnown, SkipRefusedKnown, QuestionKnown,
       RecordRefusedKnown, RecordPassedKnown, RecordToCompareKnown, EqualsStepKnown,
       EqualsRefusedKnown, EqualsFoundKnown DEF Parse
<1>3. CASE UNCHANGED vars
    <2>1. /\ pc' = pc /\ questions' = questions /\ records' = records /\ position' = position
          /\ walk' = walk /\ found' = found /\ packet' = packet /\ header' = header
          /\ host' = host
        BY <1>3 DEF vars, lookupVars
    <2>2. CASE pc = "entry"
        <3>1. /\ CountInv /\ packet \in Seq(Byte) /\ header \in Header /\ Done \in Nat
              /\ Standing(Done, position, found)
            BY <2>2, AtEntry
        <3>2. CountInv' /\ Done' = Done
            BY <2>1, <3>1 DEF CountInv, AcceptsHeader, length, Done, Entries
        <3>3. PICK k, p, f : k = Done /\ p = position /\ f = found
            OBVIOUS
        <3> QED
            BY <2>1, <2>2, <3>1, <3>2, <3>3, EntryLeft
    <2>3. CASE pc = "skip"
        <3>1. /\ CountInv /\ packet \in Seq(Byte) /\ header \in Header /\ Done \in Nat
              /\ Standing(Done, position, found) /\ questions + records > 0
            BY <2>3, AtEntry DEF Known, SkipInv
        <3>2. CountInv' /\ Done' = Done
            BY <2>1, <3>1 DEF CountInv, AcceptsHeader, length, Done, Entries
        <3>3. PICK k, p, f, w, prefix : /\ k = Done /\ p = position /\ f = found /\ w = walk
                                        /\ Walked(w, p, prefix)
            BY <2>3, AtName
        <3>4. Standing(k, p, f)' /\ Walked(w, p, prefix)'
            BY <2>1, <3>1, <3>3, StillKnown
        <3>5. EntryInv' /\ SkipInv'
            BY <2>1, <3>1, <3>2, <3>3, <3>4 DEF EntryInv, SkipInv
        <3> QED
            BY <2>1, <2>3, <3>5 DEF Known, EqualsInv, AnswerIsExact
    <2>4. CASE pc = "equals"
        <3>1. /\ CountInv /\ packet \in Seq(Byte) /\ header \in Header /\ Done - 1 \in Nat
              /\ Done > header.questions
            BY <2>4, AtCompare DEF Known, EqualsInv
        <3>2. CountInv' /\ Done' = Done
            BY <2>1, <3>1 DEF CountInv, AcceptsHeader, length, Done, Entries
        <3>3. PICK s, prefix : Comparing(Done - 1, s, position, found, walk, prefix)
            BY <2>4, AtCompare
        <3>4. PICK k, d, f, w : k = Done - 1 /\ d = position /\ f = found /\ w = walk
            OBVIOUS
        <3>5. Comparing(k, s, d, f, w, prefix)'
            BY <2>1, <3>1, <3>3, <3>4, StillKnown
        <3>6. EqualsInv'
            BY <2>1, <3>1, <3>2, <3>4, <3>5 DEF EqualsInv
        <3> QED
            BY <2>1, <2>4, <3>6 DEF Known, EntryInv, SkipInv, AnswerIsExact
    <2>5. CASE pc \notin {"entry", "skip", "equals", "parsed"}
        BY <2>1, <2>5 DEF Known, EntryInv, SkipInv, EqualsInv, AnswerIsExact
    <2>6. CASE pc = "parsed"
        <3>1. packet \in Seq(Byte)
            BY <2>6 DEF ParseInv, Parsing
        <3>2. MeantAddress' = MeantAddress
            <4>1. /\ EntryEnd' = EntryEnd /\ length' = length
                  /\ \A k : Gives(k)' = Gives(k) /\ AddressIn(k)' = AddressIn(k)
                BY <2>1, <3>1, StillNames, StillEntries
            <4>2. Entries' = Entries /\ Given(Entries)' = Given(Entries)
                BY <2>1, <4>1, Zenon DEF Given, Entries
            <4>3. (MeantAddress = LET given == Given(Entries)
                                  IN  IF EntryEnd[Entries] # length \/ given = {} THEN None
                                      ELSE AddressIn(CHOOSE k \in given : \A j \in given : j <= k))'
                BY MeantForm, PTL
            <4>4. PICK given, e, c : /\ given = Given(Entries) /\ e = Entries
                                     /\ c = CHOOSE k \in given : \A j \in given : j <= k
                OBVIOUS
            <4>5. MeantAddress' =
                      IF EntryEnd'[e] # length' \/ given = {} THEN None
                      ELSE AddressIn(c)'
                BY <4>2, <4>3, <4>4
            <4>6. MeantAddress =
                      IF EntryEnd[e] # length \/ given = {} THEN None
                      ELSE AddressIn(c)
                BY <4>4, MeantForm
            <4> QED
                BY <4>1, <4>5, <4>6, Zenon
        <3>3. AcceptsHeader(length, header)' <=> AcceptsHeader(length, header)
            BY <2>1 DEF AcceptsHeader, length
        <3>4. AnswerIsExact'
            BY <2>1, <3>2, <3>3 DEF Known, AnswerIsExact
        <3> QED
            BY <2>1, <2>6, <3>4 DEF Known, EntryInv, SkipInv, EqualsInv
    <2> QED
        BY <2>2, <2>3, <2>4, <2>5, <2>6
<1> QED
    BY <1>1, <1>2, <1>3, ReceiveKnown DEF Next, Parse

\* Whatever datagrams arrive, the address that is taken is the one they give the
\* host, and none is taken from a datagram that is not well formed.
THEOREM AnswersAreExact == Spec => []AnswerIsExact
<1>1. Init => Known /\ HostInv
    BY DEF Init, Known, EntryInv, SkipInv, EqualsInv, AnswerIsExact, HostInv
<1>2. ParseInv /\ Known /\ HostInv /\ [Next]_vars => (Known /\ HostInv)'
    BY KnownStep, HostStep
<1>3. Known => AnswerIsExact
    BY DEF Known
<1> QED
    BY <1>1, <1>2, <1>3, Invariance, PTL DEF Spec
--------------------------------------------------------------------------------
\* The query.

\* A label of h begins at the j-th letter, or the end of its name.
Begins(h, j) ==
    \/ j = Len(h) + 2
    \/ j \in 1 .. Len(h) /\ (j = 1 \/ h[j - 1] = Dot)
LengthIn(h, i) == CHOOSE n \in 1 .. Len(h) : <<i, i + n - 1>> \in Labels(h)

\* Where a label begins, its length is chosen, and another begins behind it.
LEMMA LabelLemma ==
    ASSUME NEW h \in Seq(Byte), CanQuery(h), NEW i \in 1 .. Len(h), Begins(h, i)
    PROVE  /\ LengthIn(h, i) \in 1 .. 63 /\ i + LengthIn(h, i) - 1 <= Len(h)
           /\ \A k \in i .. i + LengthIn(h, i) - 1 : h[k] # Dot
           /\ i + LengthIn(h, i) <= Len(h) => h[i + LengthIn(h, i)] = Dot
           /\ Begins(h, i + LengthIn(h, i) + 1)
<1> DEFINE n == Len(h)
           dotted == <<Dot>> \o h
           IsLabelAt(j, m) == /\ m \in Nat \ {0} /\ j + m - 1 <= n
                              /\ \A k \in j .. j + m - 1 : h[k] # Dot
                              /\ j + m <= n => h[j + m] = Dot
<1>1. n \in Nat
    BY LenProperties
<1>2. /\ Len(dotted) = n + 1 /\ dotted[1] = Dot
      /\ \A j \in 1 .. n : dotted[j + 1] = h[j]
    <2>1. <<Dot>> \in Seq(Byte) /\ Len(<<Dot>>) = 1 /\ <<Dot>>[1] = Dot
        BY DEF Dot, Byte
    <2>2. /\ Len(dotted) = 1 + n /\ dotted[1] = Dot
          /\ \A j \in 1 .. n : dotted[1 + j] = h[j]
        BY <2>1, ConcatProperties
    <2> QED
        BY <1>1, <2>2
<1>3. ASSUME NEW j \in 1 .. n + 1, NEW m \in Int, m > 0, <<j, j + m - 1>> \in Labels(h)
      PROVE  IsLabelAt(j, m) /\ j <= n /\ m <= n
    <2>1. /\ j + m - 1 \in 1 .. n /\ j \in 1 .. n
          /\ \A k \in j .. j + m - 1 : h[k] # Dot
          /\ j + m - 1 = n \/ h[(j + m - 1) + 1] = Dot
        BY <1>3 DEF Labels
    <2>2. (j + m - 1) + 1 = j + m
        BY <1>1, <1>3
    <2> QED
        BY <1>1, <1>3, <2>1, <2>2
<1>4. ASSUME NEW j \in 1 .. n + 1, dotted[j] = Dot
      PROVE  \E m \in 1 .. 63 : <<j, j + m - 1>> \in Labels(h)
    <2>1. j \in 1 .. Len(<<Dot>> \o h) /\ (<<Dot>> \o h)[j] = Dot
        BY <1>2, <1>4
    <2> HIDE DEF dotted
    <2> QED
        BY <2>1 DEF CanQuery, kMaxLabel
<1>5. dotted[i] = Dot /\ i \in 1 .. n + 1
    <2>1. CASE i = 1
        BY <1>1, <1>2, <2>1
    <2>2. CASE i # 1
        <3>1. h[i - 1] = Dot /\ i - 1 \in 1 .. n /\ (i - 1) + 1 = i
            BY <1>1, <2>2 DEF Begins
        <3> QED
            BY <1>1, <1>2, <3>1
    <2> QED
        BY <2>1, <2>2
<1> HIDE DEF dotted
<1>6. PICK m \in 1 .. 63 : <<i, i + m - 1>> \in Labels(h)
    BY <1>4, <1>5
<1>7. IsLabelAt(i, m) /\ m \in 1 .. n
    BY <1>3, <1>5, <1>6
<1>8. PICK l : l = LengthIn(h, i)
    OBVIOUS
<1>9. l \in 1 .. n /\ <<i, i + l - 1>> \in Labels(h)
    BY <1>6, <1>7, <1>8 DEF LengthIn
<1>10. IsLabelAt(i, l)
    BY <1>3, <1>5, <1>9
<1>11. l = m
    <2>1. CASE l < m
        BY <1>1, <1>7, <1>10, <2>1
    <2>2. CASE m < l
        BY <1>1, <1>7, <1>10, <2>2
    <2> QED
        BY <1>7, <1>9, <1>1, <2>1, <2>2
<1>12. Begins(h, i + l + 1)
    <2>1. CASE i + l - 1 = n
        BY <1>1, <1>9, <2>1 DEF Begins
    <2>2. CASE i + l - 1 # n
        <3>1. i + l \in 1 .. n /\ h[i + l] = Dot
            BY <1>1, <1>9, <1>10, <2>2
        <3>2. i + l + 1 \in 1 .. n + 1 /\ dotted[i + l + 1] = Dot
            BY <1>1, <1>2, <3>1
        <3>3. PICK o \in 1 .. 63 : <<i + l + 1, (i + l + 1) + o - 1>> \in Labels(h)
            BY <1>4, <3>2
        <3>4. i + l + 1 <= n
            <4>1. o \in Int /\ o > 0
                OBVIOUS
            <4> QED
                BY <1>3, <3>2, <3>3, <4>1
        <3>5. (i + l + 1) - 1 = i + l
            BY <3>1, <1>9
        <3> QED
            BY <3>1, <3>2, <3>4, <3>5 DEF Begins
    <2> QED
        BY <2>1, <2>2
<1> QED
    BY <1>6, <1>8, <1>10, <1>11, <1>12

\* The bytes of the query for h.
LEMMA QueryLemma ==
    ASSUME NEW h \in Seq(Byte), CanQuery(h), NEW q, q = makeMdnsQuery(h)
    PROVE  /\ q \in Seq(Byte) /\ Len(q) = kDnsHeaderBytes + Len(h) + 2 + kQuestionBytes
           /\ \A j \in 1 .. Len(h) :
                  Begins(h, j) => ByteAt(q, kDnsHeaderBytes + j - 1) = LengthIn(h, j)
           /\ \A k \in 1 .. Len(h) : h[k] # Dot => ByteAt(q, kDnsHeaderBytes + k) = h[k]
           /\ ByteAt(q, kDnsHeaderBytes + Len(h) + 1) = 0
<1> DEFINE n == Len(h)
           dotted == <<Dot>> \o h
           byte(i) == IF dotted[i] = Dot THEN LengthIn(h, i) ELSE dotted[i]
           name == [i \in 1 .. Len(dotted) |-> byte(i)]
           zeros == [i \in 1 .. kDnsHeaderBytes |-> 0]
           types == [i \in 1 .. kQuestionBytes |-> kTypeA]
<1>1. n \in Nat /\ kDnsHeaderBytes \in Nat /\ kQuestionBytes \in Nat
    BY LenProperties, DnsAssumption
<1>2. /\ Len(dotted) = n + 1 /\ dotted[1] = Dot
      /\ \A j \in 1 .. n : dotted[j + 1] = h[j]
    <2>1. <<Dot>> \in Seq(Byte) /\ Len(<<Dot>>) = 1 /\ <<Dot>>[1] = Dot
        BY DEF Dot, Byte
    <2>2. /\ Len(dotted) = 1 + n /\ dotted[1] = Dot
          /\ \A j \in 1 .. n : dotted[1 + j] = h[j]
        BY <2>1, ConcatProperties
    <2> QED
        BY <1>1, <2>2
<1>3. q = zeros \o (name \o <<0>>) \o types
    BY Zenon DEF makeMdnsQuery, QueryName, LengthIn
<1>4. ASSUME NEW i \in 1 .. n + 1, dotted[i] = Dot
      PROVE  i \in 1 .. n /\ Begins(h, i)
    <2>1. \E m \in 1 .. kMaxLabel : <<i, i + m - 1>> \in Labels(h)
        <3>1. i \in 1 .. Len(<<Dot>> \o h) /\ (<<Dot>> \o h)[i] = Dot
            BY <1>2, <1>4
        <3> HIDE DEF dotted
        <3> QED
            BY <3>1 DEF CanQuery
    <2>2. i \in 1 .. n
        BY <2>1 DEF Labels
    <2>3. i # 1 => h[i - 1] = Dot
        <3>1. i # 1 => i - 1 \in 1 .. n /\ (i - 1) + 1 = i
            BY <1>1
        <3> QED
            BY <1>2, <1>4, <3>1
    <2> QED
        BY <2>2, <2>3 DEF Begins
<1>5. ASSUME NEW i \in 1 .. n + 1
      PROVE  byte(i) \in Byte
    <2>1. CASE dotted[i] = Dot
        <3>1. i \in 1 .. n /\ Begins(h, i)
            BY <1>4, <2>1
        <3>2. LengthIn(h, i) \in 1 .. 63
            BY <3>1, LabelLemma
        <3> QED
            BY <2>1, <3>2 DEF Byte
    <2>2. CASE dotted[i] # Dot
        <3>1. i # 1
            BY <1>2, <2>2
        <3>2. i - 1 \in 1 .. n /\ (i - 1) + 1 = i
            BY <1>1, <3>1
        <3>3. dotted[i] = h[i - 1] /\ h[i - 1] \in Byte
            BY <1>2, <3>2, ElementOfSeq
        <3> QED
            BY <2>2, <3>3
    <2> QED
        BY <2>1, <2>2
<1>6. ASSUME NEW j \in 1 .. n, Begins(h, j)
      PROVE  byte(j) = LengthIn(h, j)
    <2>1. dotted[j] = Dot
        <3>1. CASE j = 1
            BY <1>2, <3>1
        <3>2. CASE j # 1
            <4>1. h[j - 1] = Dot /\ j - 1 \in 1 .. n /\ (j - 1) + 1 = j
                BY <1>1, <1>6, <3>2 DEF Begins
            <4> QED
                BY <1>2, <4>1
        <3> QED
            BY <3>1, <3>2
    <2> QED
        BY <2>1
<1>7. ASSUME NEW k \in 1 .. n, h[k] # Dot
      PROVE  byte(k + 1) = h[k]
    BY <1>2, <1>7
<1>8. name \in Seq(Byte) /\ Len(name) = n + 1 /\ \A i \in 1 .. n + 1 : name[i] = byte(i)
    <2>1. name = [i \in 1 .. n + 1 |-> byte(i)] /\ n + 1 \in Nat
        BY <1>1, <1>2
    <2> HIDE DEF byte, name
    <2> QED
        BY <1>5, <2>1
<1>9. zeros \in Seq(Byte) /\ Len(zeros) = kDnsHeaderBytes
    BY <1>1 DEF Byte
<1>10. types \in Seq(Byte) /\ Len(types) = kQuestionBytes
    BY <1>1 DEF Byte, kTypeA
<1> HIDE DEF name, byte, zeros, types, dotted
<1>11. PICK named : named = name \o <<0>>
    OBVIOUS
<1>12. /\ named \in Seq(Byte) /\ Len(named) = n + 2
       /\ \A i \in 1 .. n + 1 : named[i] = byte(i)
       /\ named[n + 2] = 0
    <2>1. <<0>> \in Seq(Byte) /\ Len(<<0>>) = 1 /\ <<0>>[1] = 0
        BY DEF Byte
    <2>2. /\ named \in Seq(Byte) /\ Len(named) = (n + 1) + 1
          /\ \A i \in 1 .. n + 1 : named[i] = name[i]
          /\ named[(n + 1) + 1] = 0
        BY <1>1, <1>8, <1>11, <2>1, ConcatProperties
    <2> QED
        BY <1>1, <1>8, <2>2
<1>13. PICK begun : begun = zeros \o named
    OBVIOUS
<1>14. /\ begun \in Seq(Byte) /\ Len(begun) = kDnsHeaderBytes + (n + 2)
       /\ \A i \in 1 .. n + 2 : begun[kDnsHeaderBytes + i] = named[i]
    <2>1. begun = Glued(zeros, named)
        BY <1>13 DEF Glued
    <2> QED
        <3>1. zeros \in Seq(Byte) /\ named \in Seq(Byte)
            BY <1>9, <1>12
        <3>2. /\ begun \in Seq(Byte) /\ Len(begun) = Len(zeros) + Len(named)
              /\ \A i \in 1 .. Len(named) : begun[Len(zeros) + i] = named[i]
            BY <2>1, <3>1, GluedLemma, Zenon
        <3> QED
            BY <1>9, <1>12, <3>2
<1>15. /\ q \in Seq(Byte) /\ Len(q) = kDnsHeaderBytes + (n + 2) + kQuestionBytes
       /\ \A i \in 1 .. kDnsHeaderBytes + (n + 2) : q[i] = begun[i]
    <2>1. q = Glued(begun, types)
        BY <1>3, <1>11, <1>13 DEF Glued
    <2> QED
        <3>1. begun \in Seq(Byte) /\ types \in Seq(Byte)
            BY <1>10, <1>14
        <3>2. /\ Glued(begun, types) \in Seq(Byte)
              /\ Len(Glued(begun, types)) = Len(begun) + Len(types)
              /\ \A i \in 1 .. Len(begun) : Glued(begun, types)[i] = begun[i]
            BY <3>1, GluedLemma
        <3> QED
            BY <1>10, <1>14, <2>1, <3>2
<1>16. \A i \in 1 .. n + 2 : ByteAt(q, kDnsHeaderBytes + i - 1) = named[i]
    <2> SUFFICES ASSUME NEW i \in 1 .. n + 2
                 PROVE  ByteAt(q, kDnsHeaderBytes + i - 1) = named[i]
        OBVIOUS
    <2>1. /\ kDnsHeaderBytes + i - 1 \in 0 .. Len(q) - 1
          /\ (kDnsHeaderBytes + i - 1) + 1 = kDnsHeaderBytes + i
          /\ kDnsHeaderBytes + i \in 1 .. kDnsHeaderBytes + (n + 2)
        BY <1>1, <1>15
    <2>2. q[kDnsHeaderBytes + i] = named[i]
        BY <1>14, <1>15, <2>1
    <2> QED
        BY <2>1, <2>2 DEF ByteAt
<1>17. ASSUME NEW j \in 1 .. n, Begins(h, j)
       PROVE  ByteAt(q, kDnsHeaderBytes + j - 1) = LengthIn(h, j)
    <2>1. j \in 1 .. n + 1 /\ j \in 1 .. n + 2
        BY <1>1
    <2> QED
        BY <1>6, <1>12, <1>16, <1>17, <2>1
<1>18. ASSUME NEW k \in 1 .. n, h[k] # Dot
       PROVE  ByteAt(q, kDnsHeaderBytes + k) = h[k]
    <2>1. k + 1 \in 1 .. n + 1 /\ k + 1 \in 1 .. n + 2
          /\ kDnsHeaderBytes + (k + 1) - 1 = kDnsHeaderBytes + k
        BY <1>1
    <2>2. ByteAt(q, kDnsHeaderBytes + (k + 1) - 1) = byte(k + 1)
        BY <1>12, <1>16, <2>1
    <2> QED
        BY <1>7, <1>18, <2>1, <2>2
<1>19. ByteAt(q, kDnsHeaderBytes + n + 1) = 0
    <2>1. n + 2 \in 1 .. n + 2 /\ kDnsHeaderBytes + (n + 2) - 1 = kDnsHeaderBytes + n + 1
        BY <1>1
    <2>2. ByteAt(q, kDnsHeaderBytes + (n + 2) - 1) = named[n + 2]
        BY <1>16, <2>1
    <2> QED
        BY <1>12, <2>1, <2>2
<1>20. Len(q) = kDnsHeaderBytes + n + 2 + kQuestionBytes
    BY <1>1, <1>15
<1> QED
    BY <1>15, <1>17, <1>18, <1>19, <1>20

\* t is the host from its j-th letter on, with a dot behind it.
HostFrom(t, j) ==
    /\ t \in Seq(Byte) /\ Len(t) = Len(host) + 2 - j
    /\ \A x \in 1 .. Len(host) + 1 - j : t[x] = host[j + x - 1]
    /\ j <= Len(host) => t[Len(host) + 2 - j] = Dot

\* The name in the query that begins at the j-th letter is read in enough rounds.
ReadFrom(j) ==
    \A m \in Nat : 2 * m >= Len(host) + 4 - j =>
        \E t : HostFrom(t, j) /\ Name[m][kDnsHeaderBytes + j - 1] =
                                     [text |-> t, end |-> kDnsHeaderBytes + Len(host) + 2]

Queried == /\ host \in Seq(Byte) /\ host # <<>> /\ Len(host) < kHostBytes /\ CanQuery(host)
           /\ packet = makeMdnsQuery(host)

\* At its end is the root.
LEMMA ReadRoot ==
    ASSUME Queried
    PROVE  ReadFrom(Len(host) + 2)
<1> DEFINE n == Len(host)
           p == kDnsHeaderBytes + n + 1
<1>1. n \in Nat /\ kDnsHeaderBytes \in Nat /\ kQuestionBytes \in Nat
    BY LenProperties, DnsAssumption DEF Queried
<1>2. /\ packet \in Seq(Byte) /\ Len(packet) = kDnsHeaderBytes + n + 2 + kQuestionBytes
      /\ ByteAt(packet, p) = 0
    BY QueryLemma DEF Queried
<1>3. p \in Nat /\ ~(p >= Len(packet)) /\ p + 1 = kDnsHeaderBytes + n + 2
      /\ p = kDnsHeaderBytes + (n + 2) - 1
    BY <1>1, <1>2
<1>4. HostFrom(<<>>, n + 2)
    <2>1. n + 2 - (n + 2) = 0 /\ 1 .. n + 1 - (n + 2) = {} /\ ~(n + 2 <= n)
        BY <1>1
    <2> QED
        BY <2>1, EmptySeq DEF HostFrom
<1> HIDE DEF p
<1>5. ASSUME NEW m \in Nat, 2 * m >= n + 4 - (n + 2)
      PROVE  Name[m][p] = [text |-> <<>>, end |-> kDnsHeaderBytes + n + 2]
    <2>1. m - 1 \in Nat /\ (m - 1) + 1 = m
        BY <1>1, <1>5
    <2>2. Name[m][p] = NameIn(packet, p, Name[m - 1])
        BY <1>2, <1>3, <2>1, NameLemma
    <2> QED
        BY <1>2, <1>3, <2>2 DEF NameIn
<1> QED
    BY <1>3, <1>4, <1>5 DEF ReadFrom

\* A label is read before what is behind it.
LEMMA ReadLabel ==
    ASSUME Queried, NEW j \in 1 .. Len(host), Begins(host, j),
           ReadFrom(j + LengthIn(host, j) + 1)
    PROVE  ReadFrom(j)
<1> DEFINE n == Len(host)
           a == LengthIn(host, j)
           p == kDnsHeaderBytes + j - 1
           end == kDnsHeaderBytes + n + 2
           next == j + a + 1
           after == kDnsHeaderBytes + next - 1
           l == Letters(packet, p)
<1>1. n \in Nat /\ kDnsHeaderBytes \in Nat /\ kQuestionBytes \in Nat /\ host \in Seq(Byte)
    BY LenProperties, DnsAssumption DEF Queried
<1>2. /\ packet \in Seq(Byte) /\ Len(packet) = kDnsHeaderBytes + n + 2 + kQuestionBytes
      /\ ByteAt(packet, p) = a
      /\ \A k \in 1 .. n : host[k] # Dot => ByteAt(packet, kDnsHeaderBytes + k) = host[k]
    BY QueryLemma DEF Queried
<1>3. /\ a \in 1 .. 63 /\ j + a - 1 <= n /\ \A k \in j .. j + a - 1 : host[k] # Dot
      /\ j + a <= n => host[j + a] = Dot
    BY LabelLemma DEF Queried
<1>a. ReadFrom(next)
    OBVIOUS
<1> HIDE DEF a
<1>b. next = j + a + 1 /\ after = kDnsHeaderBytes + next - 1 /\ p = kDnsHeaderBytes + j - 1
      /\ end = kDnsHeaderBytes + n + 2
    OBVIOUS
<1> HIDE DEF next
<1>4. /\ p \in Nat /\ p < Len(packet) /\ p + a < Len(packet) /\ p + a + 1 = after /\ end # 0
      /\ after \in Nat
    BY <1>1, <1>2, <1>3, <1>b
<1>5. Spells(packet, p) /\ ~Points(packet, p) /\ ByteAt(packet, p) # 0
    <2>1. IsLabel(a) /\ ~IsPointer(a) /\ a # 0
        BY <1>3 DEF IsLabel, IsPointer, kMaxLabel
    <2> QED
        BY <1>2, <1>4, <2>1, Zenon DEF Spells, Points
<1>6. /\ l \in Seq(Byte) /\ Len(l) = a + 1 /\ l[a + 1] = Dot
      /\ \A i \in 1 .. a : l[i] = host[j + i - 1]
    <2>1. /\ l \in Seq(Byte) /\ Len(l) = a + 1 /\ l[a + 1] = Dot
          /\ \A i \in 1 .. a : l[i] = ByteAt(packet, p + i)
        BY <1>2, <1>4, <1>5, LettersLemma
    <2>2. ASSUME NEW i \in 1 .. a
          PROVE  ByteAt(packet, p + i) = host[j + i - 1]
        <3>1. /\ p + i = kDnsHeaderBytes + (j + i - 1) /\ j + i - 1 \in 1 .. n
              /\ j + i - 1 \in j .. j + a - 1
            BY <1>1, <1>3
        <3> QED
            BY <1>2, <1>3, <3>1
    <2> QED
        BY <2>1, <2>2
<1> HIDE DEF l, p, after, end
<1>7. ASSUME NEW m \in Nat, 2 * m >= n + 4 - j
      PROVE  \E t : HostFrom(t, j) /\ Name[m][p] = [text |-> t, end |-> end]
    <2>1. m - 1 \in Nat /\ (m - 1) + 1 = m /\ 2 * (m - 1) >= n + 4 - next
        BY <1>1, <1>3, <1>7, <1>b
    <2>2. PICK t : HostFrom(t, next) /\ Name[m - 1][after] = [text |-> t, end |-> end]
        BY <1>a, <2>1 DEF ReadFrom, after, end
    <2>3. Name[m][p] = NameIn(packet, p, Name[m - 1])
        <3>1. \A r \in Nat : Name[r + 1][p] = NameIn(packet, p, Name[r])
            BY <1>2, <1>4, NameLemma
        <3>2. Name[(m - 1) + 1][p] = NameIn(packet, p, Name[m - 1])
            BY <2>1, <3>1, Zenon
        <3> QED
            BY <2>1, <3>2
    <2>4. Name[m - 1][after] # Malformed
        BY <1>4, <2>2 DEF Malformed
    <2>5. Name[m][p] = [text |-> Glued(l, t), end |-> end]
        <3>1. ~(p >= Len(packet))
            BY <1>2, <1>4, <1>1
        <3>2. p + ByteAt(packet, p) + 1 = after
            BY <1>2, <1>4
        <3> QED
            BY <1>5, <2>2, <2>3, <2>4, <3>1, <3>2 DEF NameIn, l
    <2>6. /\ t \in Seq(Byte) /\ Len(t) = n + 2 - next
          /\ \A x \in 1 .. n + 1 - next : t[x] = host[next + x - 1]
          /\ next <= n => t[n + 2 - next] = Dot
        BY <2>2 DEF HostFrom
    <2>7. PICK u : u = Glued(l, t)
        OBVIOUS
    <2>8. /\ u \in Seq(Byte) /\ Len(u) = Len(l) + Len(t)
          /\ \A i \in 1 .. Len(l) : u[i] = l[i]
          /\ \A i \in 1 .. Len(t) : u[Len(l) + i] = t[i]
        BY <1>6, <2>6, <2>7, GluedLemma, Zenon
    <2>9. Len(u) = n + 2 - j
        <3>1. Len(u) = (a + 1) + (n + 2 - next)
            BY <1>6, <2>6, <2>8
        <3>2. (a + 1) + (n + 2 - next) = n + 2 - j
            BY <1>1, <1>3, <1>b
        <3> QED
            BY <3>1, <3>2
    <2>10. ASSUME NEW x \in 1 .. n + 1 - j
           PROVE  u[x] = host[j + x - 1]
        <3>1. CASE x <= a
            <4>1. x \in 1 .. a /\ x \in 1 .. Len(l)
                BY <1>3, <1>6, <3>1
            <4> QED
                BY <1>6, <2>8, <4>1
        <3>2. CASE x = a + 1
            <4>1. a + 1 \in 1 .. a + 1 /\ j + a <= n /\ j + x - 1 = j + a
                BY <1>1, <1>3, <3>2
            <4> QED
                BY <1>3, <1>6, <2>8, <3>2, <4>1
        <3>3. CASE x > a + 1
            <4>1. PICK y : y = x - (a + 1)
                OBVIOUS
            <4>2. /\ y \in 1 .. n + 1 - next /\ y \in 1 .. Len(t) /\ x = Len(l) + y
                  /\ next + y - 1 = j + x - 1
                <5>1. /\ y \in 1 .. n + 1 - next /\ y \in 1 .. n + 2 - next /\ x = (a + 1) + y
                      /\ next + y - 1 = j + x - 1
                    BY <1>1, <1>3, <1>b, <3>3, <4>1
                <5> QED
                    BY <1>6, <2>6, <5>1
            <4> QED
                BY <2>6, <2>8, <4>2
        <3> QED
            BY <1>3, <3>1, <3>2, <3>3
    <2>11. u[n + 2 - j] = Dot
        <3>1. CASE next <= n
            <4>1. n + 2 - next \in 1 .. Len(t) /\ n + 2 - j = Len(l) + (n + 2 - next)
                <5>1. n + 2 - next \in 1 .. n + 2 - next /\ n + 2 - j = (a + 1) + (n + 2 - next)
                    BY <1>1, <1>3, <1>b, <3>1
                <5> QED
                    BY <1>6, <2>6, <5>1
            <4> QED
                BY <2>6, <2>8, <3>1, <4>1
        <3>2. CASE next = n + 2
            <4>1. n + 2 - j = a + 1 /\ a + 1 \in 1 .. a + 1
                BY <1>1, <1>3, <1>b, <3>2
            <4> QED
                BY <1>6, <2>8, <4>1
        <3>3. next = n + 2 \/ next <= n
            <4>1. Begins(host, next)
                BY LabelLemma DEF Queried, a, next
            <4> QED
                BY <4>1 DEF Begins
        <3> QED
            BY <3>1, <3>2, <3>3
    <2>12. HostFrom(u, j)
        BY <2>8, <2>9, <2>10, <2>11 DEF HostFrom
    <2> QED
        BY <2>5, <2>7, <2>12
<1> QED
    BY <1>7 DEF ReadFrom, p, end

\* So is the name of the whole host.
LEMMA ReadHost ==
    ASSUME Queried
    PROVE  ReadFrom(1)
<1> DEFINE n == Len(host)
           S == {d \in Nat : \A j \in Nat : Begins(host, j) /\ n + 2 - j <= d => ReadFrom(j)}
<1>1. n \in Nat /\ host # <<>> /\ host \in Seq(Byte)
    BY LenProperties DEF Queried
<1>2. ASSUME NEW j \in Nat, Begins(host, j), j # n + 2
      PROVE  j \in 1 .. n
    BY <1>2 DEF Begins
<1>3. 0 \in S
    <2> SUFFICES ASSUME NEW j \in Nat, Begins(host, j), n + 2 - j <= 0
                 PROVE  ReadFrom(j)
        OBVIOUS
    <2>1. j = n + 2
        BY <1>1, <1>2
    <2> QED
        BY <2>1, ReadRoot
<1>4. ASSUME NEW d \in Nat, d \in S
      PROVE  d + 1 \in S
    <2> SUFFICES ASSUME NEW j \in Nat, Begins(host, j), n + 2 - j <= d + 1
                 PROVE  ReadFrom(j)
        OBVIOUS
    <2>1. CASE j = n + 2
        BY <2>1, ReadRoot
    <2>2. CASE j # n + 2
        <3>1. j \in 1 .. n
            BY <1>2, <2>2
        <3>2. PICK a, next : a = LengthIn(host, j) /\ next = j + a + 1
            OBVIOUS
        <3>3. a \in 1 .. 63 /\ Begins(host, next)
            BY <3>1, <3>2, LabelLemma DEF Queried
        <3>4. next \in Nat /\ n + 2 - next <= d
            <4>1. \A x, y, z \in Nat, w \in 1 .. 63 :
                      x + 2 - y <= z + 1 => /\ y + w + 1 \in Nat
                                            /\ x + 2 - (y + w + 1) <= z
                OBVIOUS
            <4>2. n + 2 - (j + a + 1) <= d /\ j + a + 1 \in Nat
                BY <1>1, <3>3, <4>1
            <4> QED
                BY <3>2, <4>2
        <3>5. ReadFrom(next)
            BY <1>4, <3>3, <3>4
        <3> QED
            BY <3>1, <3>2, <3>5, ReadLabel
    <2> QED
        BY <2>1, <2>2
<1>5. n + 1 \in S
    <2>1. \A d \in Nat : d \in S
        <3> HIDE DEF S
        <3> QED
            BY <1>3, <1>4, UpLemma
    <2>2. n + 1 \in Nat
        BY <1>1
    <2> QED
        BY <2>1, <2>2, Zenon
<1>6. Begins(host, 1)
    <2>1. n # 0
        BY <1>1, EmptySeq
    <2> QED
        BY <1>1, <2>1 DEF Begins
<1>7. n + 2 - 1 <= n + 1
    BY <1>1
<1> QED
    BY <1>5, <1>6, <1>7

\* A receiver reads the host in the query.
LEMMA QueryReads ==
    ASSUME Queried
    PROVE  /\ NameAt(kDnsHeaderBytes) # Malformed /\ IsText(NameAt(kDnsHeaderBytes).text)
           /\ NameAt(kDnsHeaderBytes).end + kQuestionBytes = length /\ length <= kPacketBytes
<1> DEFINE n == Len(host)
           end == kDnsHeaderBytes + n + 2
<1>1. /\ n \in Nat /\ host \in Seq(Byte) /\ kMaxNameSteps \in Nat /\ n < kHostBytes
      /\ kHostBytes \in Nat /\ kHostBytes + 2 <= 2 * kMaxNameSteps
      /\ kMaxExpandedNameBytes \in Nat /\ kHostBytes <= kMaxExpandedNameBytes
      /\ kDnsHeaderBytes \in Nat /\ kQuestionBytes \in Nat /\ kPacketBytes \in Nat
    BY LenProperties, DnsAssumption DEF Queried
<1>2. 2 * kMaxNameSteps >= n + 4 - 1
    BY <1>1
<1>3. PICK t : HostFrom(t, 1) /\ Name[kMaxNameSteps][kDnsHeaderBytes + 1 - 1] =
                                     [text |-> t, end |-> end]
    BY <1>1, <1>2, ReadHost DEF ReadFrom
<1>4. /\ t \in Seq(Byte) /\ Len(t) = n + 1 /\ \A x \in 1 .. n : t[x] = host[x]
      /\ t[n + 1] = Dot
    <2>1. /\ t \in Seq(Byte) /\ Len(t) = n + 2 - 1
          /\ \A x \in 1 .. n + 1 - 1 : t[x] = host[1 + x - 1]
          /\ 1 <= n => t[n + 2 - 1] = Dot
        BY <1>3 DEF HostFrom
    <2>2. n + 2 - 1 = n + 1 /\ n + 1 - 1 = n /\ \A x \in 1 .. n : 1 + x - 1 = x
        BY <1>1
    <2>3. 1 <= n
        BY <1>1, EmptySeq DEF Queried
    <2> QED
        BY <2>1, <2>2, <2>3
<1>5. NameAt(kDnsHeaderBytes) = [text |-> t, end |-> end]
    <2>1. kDnsHeaderBytes + 1 - 1 = kDnsHeaderBytes
        BY <1>1
    <2>2. Name[kMaxNameSteps][kDnsHeaderBytes] = [text |-> t, end |-> end]
        BY <1>3, <2>1
    <2>3. ~(Len(t) > kMaxExpandedNameBytes)
        BY <1>1, <1>4
    <2> QED
        BY <2>2, <2>3 DEF NameAt
<1>6. NameAt(kDnsHeaderBytes) # Malformed
    BY <1>1, <1>5 DEF Malformed
<1>7. IsText(t)
    BY <1>1, <1>4, TextLemma
<1>8. length = end + kQuestionBytes
    BY QueryLemma DEF Queried, length
<1>9. length <= kPacketBytes
    BY <1>1, <1>8 DEF Queried, CanQuery
<1> QED
    BY <1>5, <1>6, <1>7, <1>8, <1>9

\* Whatever host the device is given, what it asks is a name that a receiver with its
\* own rules reads as that host, in the one question of the packet.
THEOREM QueriesNameTheHost == Spec => []QueryNamesHost
<1>1. HostInv => QueryNamesHost
    BY QueryReads DEF HostInv, QueryNamesHost, Queried
<1>2. Init => HostInv
    BY DEF Init, HostInv
<1>3. HostInv /\ [Next]_vars => HostInv'
    BY HostStep
<1> QED
    BY <1>1, <1>2, <1>3, PTL DEF Spec
--------------------------------------------------------------------------------
\* LinkTimers.

\* How long ago a time was.
Age(t) == minus(clock, t)
HbAge == Age(lastHeartbeatAt)
RxAge == Age(rxFrameStartedAt)
RecvAge == Age(lastReceivedAt)
NowAge == Age(now)
Linked == link \in {"Handshake", "Active"}

TimerTypes ==
    /\ clock \in Clock /\ now \in Clock /\ reconnectAt \in Clock
    /\ wifiDeadline \in Clock /\ wifiRetryAt \in Clock
    /\ linkStateStartedAt \in Clock /\ lastReceivedAt \in Clock
    /\ lastHeartbeatAt \in Clock /\ rxFrameStartedAt \in Clock
    /\ wait \in Nat /\ passTime \in 0 .. MaxPassTime
    /\ io \in {"compute", "asleep", "pass", "receive", "check", "heartbeat", "send", "ports"}
    /\ link \in {"Joining", "Backoff", "Handshake", "Active"}
    /\ inbox \in {"none", "part", "frame", "ack"}
    /\ silence \in Nat /\ owed \in Nat \cup {NotOwed}
    /\ lastPortFlushAt \in Clock /\ toSend \subseteq ToSend

\* Without a connection nothing is waited for from the Hub.
UnlinkedInv ==
    ~Linked => /\ inbox = "none" /\ rxFrameStartedAt = 0 /\ silence = 0
               /\ owed = NotOwed /\ io \in {"compute", "asleep", "pass"}

\* What the Hub owes, and since when, in a handshake and in a session.
HandshakeInv ==
    link = "Handshake" =>
        /\ io \notin {"heartbeat", "send", "ports"} /\ inbox # "ack"
        /\ lastReceivedAt = linkStateStartedAt
        /\ owed = NotOwed <=> inbox = "frame"
        /\ owed # NotOwed => owed = silence
ActiveInv ==
    link = "Active" =>
        /\ heartbeatOutstanding => (owed = NotOwed <=> inbox = "ack")
        /\ ~heartbeatOutstanding => owed = NotOwed /\ inbox # "ack"
        /\ owed # NotOwed => owed = HbAge
        /\ io = "send" => ~heartbeatOutstanding
SilenceInv == Linked => silence = RecvAge

\* How old a time gets that is checked against its limit in every pass.
Timely(age, limit, checked) ==
    /\ io = "asleep" => age + wait <= limit + MaxPassTime
    /\ io # "asleep" => age <= limit + passTime + IF io \in checked THEN 0 ELSE MaxPassTime
AgesInv ==
    /\ link = "Handshake" => Timely(silence, kConnectTimeout, {"compute"})
    /\ link = "Active" =>
           /\ Timely(silence, liveness, {"send", "ports", "compute"})
           /\ Timely(HbAge, liveness, {"ports", "compute"})
           /\ io \in {"ports", "compute"} /\ ~heartbeatOutstanding
                  => HbAge <= heartbeatInterval + passTime
    /\ rxFrameStartedAt # 0 =>
           Timely(RxAge, kFrameTimeout, {"check", "heartbeat", "send", "ports", "compute"})

\* The local time of linkLoop is of this pass, and no older than what it is compared with.
NowInv ==
    io \in {"check", "heartbeat"} =>
        /\ NowAge <= passTime /\ NowAge <= silence
        /\ link = "Active" => NowAge <= HbAge

TimersInv ==
    TimerTypes /\ UnlinkedInv /\ HandshakeInv /\ ActiveInv /\ SilenceInv /\ AgesInv /\ NowInv
--------------------------------------------------------------------------------
LEMMA LimitsLemma ==
    /\ ClockSize \in Nat \ {0} /\ heartbeatInterval \in Nat /\ kSafetyWake \in Nat \ {0}
    /\ kFallbackPoll \in Nat \ {0} /\ MaxPassTime \in Nat /\ liveness \in Nat
    /\ kConnectTimeout \in Nat /\ kFrameTimeout \in Nat /\ kWifiTimeout \in Nat
    /\ kWifiRetry \in Nat /\ kReconnect \in Nat
    /\ heartbeatInterval <= liveness
    /\ kConnectTimeout + 2 * MaxPassTime + 1 < ClockSize
    /\ kFrameTimeout + 2 * MaxPassTime + 1 < ClockSize
    /\ liveness + 2 * MaxPassTime + 1 < ClockSize
    /\ kConnectTimeout <= ClockSize \div 2 /\ kFrameTimeout <= ClockSize \div 2
    /\ liveness <= ClockSize \div 2 /\ heartbeatInterval <= ClockSize \div 2
    /\ MaxPassTime < ClockSize \div 2
    /\ kPortFlush \in Nat /\ kPortFlush <= ClockSize \div 2
<1> USE TimersAreShort DEF TimersAssumption
<1>1. /\ liveness \in Nat /\ heartbeatInterval <= liveness
    BY DEF liveness
<1>2. MaxPassTime < ClockSize \div 2 /\ heartbeatInterval <= ClockSize \div 2
    BY <1>1
<1> QED
    BY <1>1, <1>2

LEMMA ClockLemma ==
    /\ \A a \in Int : a % ClockSize \in Clock
    /\ Clock \subseteq Nat /\ 0 \in Clock
    /\ \A a \in Clock : a < ClockSize
    BY LimitsLemma DEF Clock

\* Differences of times, whether or not the clock has wrapped between them.
LEMMA MinusLemma ==
    ASSUME NEW a \in Clock, NEW b \in Clock
    PROVE  /\ minus(a, b) \in Nat /\ minus(a, b) < ClockSize
           /\ minus(a, b) = IF a >= b THEN a - b ELSE a - b + ClockSize
           /\ minus(a, a) = 0
    BY LimitsLemma DEF minus, Clock

LEMMA SinceLemma ==
    ASSUME NEW a \in Clock, NEW b \in Clock, NEW c \in Clock,
           minus(a, b) <= minus(a, c)
    PROVE  minus(b, c) = minus(a, c) - minus(a, b)
<1>1. a \in Nat /\ b \in Nat /\ c \in Nat /\ ClockSize \in Nat
    BY LimitsLemma, ClockLemma
<1>2. /\ minus(a, b) = IF a >= b THEN a - b ELSE a - b + ClockSize
      /\ minus(a, c) = IF a >= c THEN a - c ELSE a - c + ClockSize
      /\ minus(b, c) = IF b >= c THEN b - c ELSE b - c + ClockSize
      /\ a < ClockSize /\ b < ClockSize /\ c < ClockSize
    BY MinusLemma, ClockLemma
<1> QED
    BY <1>1, <1>2

LEMMA NextMillisecond ==
    ASSUME NEW a \in Clock, NEW b \in Clock,
           minus(a, b) + 1 < ClockSize
    PROVE  /\ (a + 1) % ClockSize \in Clock
           /\ minus((a + 1) % ClockSize, b) = minus(a, b) + 1
<1> DEFINE c == (a + 1) % ClockSize
<1>1. a \in Nat /\ b \in Nat /\ ClockSize \in Nat \ {0} /\ a < ClockSize /\ b < ClockSize
    BY LimitsLemma, ClockLemma
<1>2. c = IF a + 1 < ClockSize THEN a + 1 ELSE 0
    BY <1>1
<1>3. c \in Clock
    BY <1>1, ClockLemma
<1> HIDE DEF c
<1>4. /\ minus(a, b) = IF a >= b THEN a - b ELSE a - b + ClockSize
      /\ minus(c, b) = IF c >= b THEN c - b ELSE c - b + ClockSize
    BY <1>3, MinusLemma
<1>5. minus(c, b) = minus(a, b) + 1
  <2>1. CASE a + 1 < ClockSize
    BY <1>1, <1>2, <1>4, <2>1
  <2>2. CASE ~(a + 1 < ClockSize)
    BY <1>1, <1>2, <1>4, <2>2
  <2> QED
    BY <2>1, <2>2
<1> QED
    BY <1>3, <1>5 DEF c

\* A deadline is slept for to the millisecond, and is reached at once when it is past.
LEMMA UntilLemma ==
    ASSUME NEW a \in Clock, NEW b \in Clock, NEW limit \in Nat,
           limit <= ClockSize \div 2, minus(a, b) <= limit + MaxPassTime
    PROVE  LET left == millisecondsUntil(a, (b + limit) % ClockSize)
           IN  left = IF minus(a, b) >= limit THEN 0 ELSE limit - minus(a, b)
<1> DEFINE d == (b + limit) % ClockSize
           half == ClockSize \div 2
<1>1. /\ a \in Nat /\ b \in Nat /\ ClockSize \in Nat \ {0} /\ a < ClockSize /\ b < ClockSize
      /\ MaxPassTime \in Nat
    BY LimitsLemma, ClockLemma
<1>2. d = IF b + limit < ClockSize THEN b + limit ELSE b + limit - ClockSize
    BY <1>1
<1>3. d \in Clock
    BY <1>1, ClockLemma
<1>4. half \in Nat /\ 2 * half <= ClockSize /\ ClockSize <= 2 * half + 1
    BY <1>1
<1>5. limit <= half /\ MaxPassTime < half
    BY LimitsLemma
<1> HIDE DEF d, half
<1>6. /\ minus(a, b) = IF a >= b THEN a - b ELSE a - b + ClockSize
      /\ minus(a, d) = IF a >= d THEN a - d ELSE a - d + ClockSize
      /\ minus(d, a) = IF d >= a THEN d - a ELSE d - a + ClockSize
      /\ d \in Nat
    BY <1>3, MinusLemma, ClockLemma
<1>7. CASE minus(a, b) >= limit
  <2>1. minus(a, d) < half
    BY <1>1, <1>2, <1>4, <1>5, <1>6, <1>7
  <2> QED
    BY <1>7, <2>1 DEF millisecondsUntil, timeReached, d, half
<1>8. CASE ~(minus(a, b) >= limit)
  <2>1. ~(minus(a, d) < half) /\ minus(d, a) = limit - minus(a, b)
    BY <1>1, <1>2, <1>4, <1>5, <1>6, <1>8
  <2> QED
    BY <1>8, <2>1 DEF millisecondsUntil, timeReached, d, half
<1> QED
    BY <1>7, <1>8 DEF d

\* A deadline that is not slept for is past, however old the time it is told from.
LEMMA PastLemma ==
    ASSUME NEW a \in Clock, NEW b \in Clock, NEW limit \in Nat, limit <= ClockSize \div 2,
           millisecondsUntil(a, (b + limit) % ClockSize) = 0
    PROVE  minus(a, b) >= limit
<1> DEFINE d == (b + limit) % ClockSize
           half == ClockSize \div 2
<1>1. /\ a \in Nat /\ b \in Nat /\ ClockSize \in Nat \ {0} /\ a < ClockSize /\ b < ClockSize
    BY LimitsLemma, ClockLemma
<1>2. half \in Nat /\ 2 * half <= ClockSize /\ (half = 0 => ClockSize = 1)
    BY <1>1
<1>3. limit < ClockSize
    BY <1>1, <1>2
<1>4. d = IF b + limit < ClockSize THEN b + limit ELSE b + limit - ClockSize
    BY <1>1, <1>3
<1>5. d \in Clock
    BY <1>1, ClockLemma
<1>6. minus(a, d) < half \/ minus(d, a) = 0
    BY DEF millisecondsUntil, timeReached
<1> HIDE DEF d, half
<1>7. /\ minus(a, b) = IF a >= b THEN a - b ELSE a - b + ClockSize
      /\ minus(a, d) = IF a >= d THEN a - d ELSE a - d + ClockSize
      /\ minus(d, a) = IF d >= a THEN d - a ELSE d - a + ClockSize
      /\ d \in Nat /\ d < ClockSize
    BY <1>5, MinusLemma, ClockLemma
<1> QED
    BY <1>1, <1>2, <1>3, <1>4, <1>6, <1>7 DEF half

\* millisecondsUntilNextIoWork is the shortest of the waits.
LEMMA WaitLemma ==
    ASSUME TimerTypes, Compute
    PROVE  /\ wait' \in Nat /\ wait' \in Waits
           /\ \A w \in Waits : w <= wait' => w = wait'
           /\ \A w \in Waits : w \in Nat /\ wait' <= w
<1>1. \A d \in Int : millisecondsUntil(clock, d % ClockSize) \in Nat
  <2> SUFFICES ASSUME NEW d \in Int
               PROVE  millisecondsUntil(clock, d % ClockSize) \in Nat
    OBVIOUS
  <2> DEFINE at == d % ClockSize
  <2>1. at \in Clock /\ clock \in Clock
    BY ClockLemma DEF TimerTypes
  <2> HIDE DEF at
  <2>2. minus(at, clock) \in Nat
    BY <2>1, MinusLemma
  <2>3. millisecondsUntil(clock, at) \in Nat
    BY <2>2 DEF millisecondsUntil
  <2> QED
    BY <2>3 DEF at
<1>2. FrameDeadlines \cup StateDeadlines \subseteq Int
  <2>0. /\ wifiDeadline \in Int /\ wifiRetryAt \in Int /\ reconnectAt \in Int
        /\ linkStateStartedAt \in Int /\ lastReceivedAt \in Int /\ lastHeartbeatAt \in Int
        /\ rxFrameStartedAt \in Int /\ lastPortFlushAt \in Int
    BY ClockLemma DEF TimerTypes
  <2>1. FrameDeadlines \subseteq Int
    BY <2>0, LimitsLemma DEF FrameDeadlines
  <2>2. HeartbeatDeadlines \subseteq Int /\ PortDeadlines \subseteq Int
    BY <2>0, LimitsLemma DEF HeartbeatDeadlines, PortDeadlines
  <2>3. StateDeadlines \subseteq Int
    BY <2>0, <2>2, LimitsLemma DEF StateDeadlines, TimerTypes
  <2> QED
    BY <2>1, <2>3
<1>3. Waits \subseteq Nat /\ kSafetyWake \in Waits
    BY <1>1, <1>2, LimitsLemma DEF Waits
<1>4. \E least \in Waits : \A y \in Waits : least <= y
    BY <1>3, LeastLemma
<1>5. wait' = CHOOSE w \in Waits : \A v \in Waits : w <= v
    BY DEF Compute
<1>6. wait' \in Waits /\ \A v \in Waits : wait' <= v
    BY <1>4, <1>5, Zenon
<1> QED
    BY <1>3, <1>6

\* The ages, while the clock stands still and when a millisecond passes.
LEMMA AgesLemma ==
    ASSUME TimerTypes
    PROVE  /\ HbAge \in Nat /\ RxAge \in Nat /\ RecvAge \in Nat /\ NowAge \in Nat
           /\ HbAge < ClockSize /\ RxAge < ClockSize /\ RecvAge < ClockSize
           /\ NowAge < ClockSize
    BY MinusLemma DEF TimerTypes, Age, HbAge, RxAge, RecvAge, NowAge

LEMMA StillLemma ==
    ASSUME TimerTypes, clock' = clock
    PROVE  /\ lastHeartbeatAt' = lastHeartbeatAt => HbAge' = HbAge
           /\ lastReceivedAt' = lastReceivedAt => RecvAge' = RecvAge
           /\ rxFrameStartedAt' = rxFrameStartedAt => RxAge' = RxAge
           /\ now' = now => NowAge' = NowAge
           /\ lastHeartbeatAt' = clock => HbAge' = 0
           /\ lastReceivedAt' = clock => RecvAge' = 0
           /\ rxFrameStartedAt' = clock => RxAge' = 0
           /\ now' = clock => NowAge' = 0
<1>1. minus(clock, clock) = 0
    BY MinusLemma DEF TimerTypes
<1> QED
    BY <1>1 DEF Age, HbAge, RxAge, RecvAge, NowAge, minus

LEMMA LaterLemma ==
    ASSUME TimerTypes, clock' = (clock + 1) % ClockSize
    PROVE  /\ lastHeartbeatAt' = lastHeartbeatAt /\ HbAge + 1 < ClockSize => HbAge' = HbAge + 1
           /\ lastReceivedAt' = lastReceivedAt /\ RecvAge + 1 < ClockSize
                  => RecvAge' = RecvAge + 1
           /\ rxFrameStartedAt' = rxFrameStartedAt /\ RxAge + 1 < ClockSize
                  => RxAge' = RxAge + 1
           /\ now' = now /\ NowAge + 1 < ClockSize => NowAge' = NowAge + 1
<1>1. /\ clock \in Clock /\ lastHeartbeatAt \in Clock /\ now \in Clock
      /\ lastReceivedAt \in Clock /\ rxFrameStartedAt \in Clock
    BY DEF TimerTypes
<1>2. \A t \in Clock : minus(clock, t) + 1 < ClockSize
                                  => minus(clock', t) = minus(clock, t) + 1
    BY <1>1, NextMillisecond
<1>3. \A t : Age(t) = minus(clock, t)
    BY DEF Age
<1>4. /\ HbAge' = minus(clock', lastHeartbeatAt')
      /\ RecvAge' = minus(clock', lastReceivedAt')
      /\ RxAge' = minus(clock', rxFrameStartedAt')
      /\ NowAge' = minus(clock', now')
    BY DEF Age, HbAge, RxAge, RecvAge, NowAge, minus
<1> QED
    BY <1>1, <1>2, <1>3, <1>4 DEF HbAge, RxAge, RecvAge, NowAge
--------------------------------------------------------------------------------
LEMMA TypesStep == TimerTypes /\ TimersNext => TimerTypes'
<1> SUFFICES ASSUME TimerTypes, TimersNext PROVE TimerTypes'
    OBVIOUS
<1>0. /\ \A a \in Int : (clock + a) % ClockSize \in Clock
      /\ clock \in Clock /\ clock \in Nat /\ 0 \in Clock
  <2>1. clock \in Clock /\ clock \in Nat
    BY ClockLemma DEF TimerTypes
  <2> QED
    BY <2>1, ClockLemma
<1>00. \A a \in Nat : (clock + a) % ClockSize \in Clock
    BY <1>0
<1>01. (clock + kWifiTimeout) % ClockSize \in Clock
    BY <1>00, LimitsLemma
<1> USE DEF TimerTypes
<1>1. ASSUME disconnectAndBackoff PROVE TimerTypes'
  <2>1. PICK delay \in 1 .. kReconnect : reconnectAt' = (clock + delay) % ClockSize
    BY <1>1 DEF disconnectAndBackoff
  <2>2. reconnectAt' \in Clock
    BY <1>0, <2>1
  <2>3. /\ lastReceivedAt' = 0 /\ lastHeartbeatAt' = 0 /\ linkStateStartedAt' = 0
        /\ rxFrameStartedAt' = 0 /\ inbox' = "none" /\ silence' = 0 /\ owed' = NotOwed
        /\ link' = "Backoff" /\ io' = "compute" /\ lastPortFlushAt' = 0 /\ toSend' = {}
        /\ UNCHANGED <<clock, now, wait, passTime, wifiDeadline, wifiRetryAt>>
    BY <1>1 DEF disconnectAndBackoff, resetSession, FrameComplete,
                Answered, wifiVars
  <2> QED
    BY <1>0, <2>2, <2>3
<1>2. CASE Rejoin
  <2>1. /\ io' = "compute" /\ UNCHANGED <<clock, now, wait, passTime, link, inbox, silence, owed,
            reconnectAt, linkStateStartedAt, lastReceivedAt, lastHeartbeatAt, rxFrameStartedAt,
            lastPortFlushAt, toSend>>
    BY <1>2 DEF Rejoin, Goes, sessionVars, hubVars
  <2>2. wifiRetryAt' \in Clock /\ wifiDeadline' \in Clock
    <3>1. (clock + kWifiRetry) % ClockSize \in Clock
      BY <1>00, LimitsLemma
    <3> QED
      BY <1>01, <1>2, <3>1 DEF Rejoin
  <2> QED
    BY <2>1, <2>2
<1>3. CASE Joined
    BY <1>0, <1>3 DEF Joined, Goes, hubVars
<1>4. CASE LinkLost
  <2>1. /\ wifiDeadline' \in Clock /\ wifiRetryAt' = 0 /\ reconnectAt' = 0
        /\ lastReceivedAt' = 0 /\ lastHeartbeatAt' = 0 /\ linkStateStartedAt' = 0
        /\ rxFrameStartedAt' = 0 /\ inbox' = "none" /\ silence' = 0 /\ owed' = NotOwed
        /\ link' = "Joining" /\ io' = "compute" /\ lastPortFlushAt' = 0 /\ toSend' = {}
        /\ UNCHANGED <<clock, now, wait, passTime>>
    BY <1>01, <1>4 DEF LinkLost, Goes, resetSession,
                FrameComplete, Answered
  <2> QED
    BY <1>0, <2>1
<1>5. CASE BackoffGoesOn
    BY <1>5 DEF BackoffGoesOn, Goes, wifiVars, sessionVars,
                hubVars
<1>6. CASE AttemptConnection
    BY <1>0, <1>1, <1>6 DEF AttemptConnection, Goes, wifiVars, Asks
<1>7. CASE LinkLoop
    BY <1>0, <1>7 DEF LinkLoop, wifiVars, sessionVars, hubVars
<1>8. CASE SocketClosed
    BY <1>1, <1>8 DEF SocketClosed
<1>9. CASE ReadPart
    BY <1>0, <1>9 DEF ReadPart, ioVars, wifiVars
<1>10. CASE ReadHandshake
    BY <1>0, <1>10 DEF ReadHandshake, ReadFrame, FrameComplete, Asks,
                 ioVars, wifiVars
<1>11. CASE ReadRegisterAck
    BY <1>0, <1>11 DEF ReadRegisterAck, ReadFrame, FrameComplete,
                 Answered, ioVars, wifiVars
<1>12. CASE ReadActive
    BY <1>0, <1>12 DEF ReadActive, ReadFrame, FrameComplete,
                 ioVars, wifiVars
<1>13. CASE ReadHeartbeatAck
    BY <1>0, <1>13 DEF ReadHeartbeatAck, ReadFrame, FrameComplete,
                 ioVars, wifiVars
<1>14. CASE EndReceive
    BY <1>0, <1>1, <1>14 DEF EndReceive, Refreshed, wifiVars,
                 sessionVars, hubVars
<1>15. CASE CheckHandshake
    BY <1>1, <1>15 DEF CheckHandshake, Goes, wifiVars,
                 sessionVars, hubVars
<1>16. CASE FlushResults
    BY <1>0, <1>1, <1>16 DEF FlushResults, Refreshed, wifiVars,
                 sessionVars, hubVars
<1>17. CASE CheckHeartbeat
    BY <1>1, <1>17 DEF CheckHeartbeat, Goes, wifiVars,
                 sessionVars, hubVars
<1>18. CASE SendHeartbeat
    BY <1>0, <1>1, <1>18 DEF SendHeartbeat, Goes, Asks, wifiVars
<1>19. CASE Compute
  <2>1. wait' \in Nat
    BY <1>19, WaitLemma
  <2> QED
    BY <1>0, <1>19, <2>1 DEF Compute, wifiVars, sessionVars,
                 hubVars
<1>20. CASE Wake
    BY <1>20, LimitsLemma DEF Wake, wifiVars, sessionVars, hubVars
<1>21. CASE StationEvent
    BY <1>21 DEF StationEvent, sessionVars, hubVars
<1>22. CASE HubSends
    BY <1>22 DEF HubSends, Answered, wifiVars, sessionVars
<1>23. CASE Tick
  <2>1. owed' \in Nat \cup {NotOwed} /\ silence' \in Nat
    BY <1>23 DEF Tick, Older
  <2>2. wait' \in Nat /\ passTime' \in 0 .. MaxPassTime
    BY <1>23, LimitsLemma DEF Tick
  <2>3. clock' \in Clock
    BY <1>0, <1>23 DEF Tick
  <2> QED
    BY <1>23, <2>1, <2>2, <2>3 DEF Tick, wifiVars, sessionVars
<1>24. CASE FlushPorts
  <2>1. CASE disconnectAndBackoff
    BY <1>1, <2>1
  <2>2. CASE ~disconnectAndBackoff
    BY <1>24, <2>2 DEF FlushPorts, Goes, wifiVars, hubVars
  <2> QED
    BY <2>1, <2>2
<1>25. CASE Leaves
    BY <1>25 DEF Leaves, ioVars, wifiVars, hubVars
<1> QED
    BY <1>2, <1>3, <1>4, <1>5, <1>6, <1>7, <1>8, <1>9, <1>10, <1>11, <1>12, <1>13, <1>14,
       <1>15, <1>16, <1>17, <1>18, <1>19, <1>20, <1>21, <1>22, <1>23, <1>24, <1>25
    DEF TimersNext, Pass
--------------------------------------------------------------------------------
LEMMA UnlinkedLemma ==
    ASSUME TimerTypes', link' \in {"Joining", "Backoff"}, inbox' = "none",
           rxFrameStartedAt' = 0, silence' = 0, owed' = NotOwed,
           io' \in {"compute", "asleep", "pass"}
    PROVE  TimersInv'
    BY DEF TimersInv, Linked, UnlinkedInv, HandshakeInv, ActiveInv, SilenceInv, AgesInv, NowInv

LEMMA DisconnectLemma ==
    ASSUME TimerTypes', disconnectAndBackoff
    PROVE  TimersInv'
    BY UnlinkedLemma DEF disconnectAndBackoff, resetSession, FrameComplete,
       Answered

\* A frame, or a part of one, is read.
LEMMA ReadPartStep == TimersInv /\ TimerTypes' /\ ReadPart => TimersInv'
<1> SUFFICES ASSUME TimersInv, TimerTypes', ReadPart PROVE TimersInv'
    OBVIOUS
<1>1. /\ HbAge' = HbAge /\ RecvAge' = RecvAge
      /\ RxAge' = IF rxFrameStartedAt = 0 THEN 0 ELSE RxAge
    BY StillLemma DEF TimersInv, ReadPart
<1>2. /\ io = "receive" /\ io' = io /\ link' = link /\ passTime' = passTime /\ wait' = wait
      /\ silence' = silence /\ owed' = owed /\ heartbeatOutstanding' = heartbeatOutstanding
      /\ lastReceivedAt' = lastReceivedAt /\ linkStateStartedAt' = linkStateStartedAt
      /\ inbox = "part" /\ inbox' = "none"
      /\ rxFrameStartedAt # 0 => rxFrameStartedAt' = rxFrameStartedAt
    BY DEF ReadPart, ioVars
<1>3. Linked /\ Linked' /\ passTime \in Nat /\ MaxPassTime \in Nat /\ kFrameTimeout \in Nat
    BY <1>2, LimitsLemma DEF TimersInv, UnlinkedInv, Linked, TimerTypes
<1>4. UnlinkedInv' /\ HandshakeInv' /\ ActiveInv' /\ SilenceInv'
    BY <1>1, <1>2, <1>3
    DEF TimersInv, UnlinkedInv, HandshakeInv, ActiveInv, SilenceInv, Linked
<1>5. rxFrameStartedAt' # 0 => RxAge' <= kFrameTimeout + passTime + MaxPassTime
  <2>1. rxFrameStartedAt # 0 => RxAge <= kFrameTimeout + passTime + MaxPassTime
    BY <1>2 DEF TimersInv, AgesInv, Timely
  <2>2. CASE rxFrameStartedAt = 0
    BY <1>1, <1>2, <1>3, <2>2
  <2>3. CASE rxFrameStartedAt # 0
    BY <1>1, <1>2, <2>1, <2>3
  <2> QED
    BY <2>2, <2>3
<1>6. AgesInv' /\ NowInv'
    BY <1>1, <1>2, <1>5 DEF TimersInv, AgesInv, NowInv, Timely
<1> QED
    BY <1>4, <1>6 DEF TimersInv

LEMMA ReadFrameStep ==
    TimersInv /\ TimerTypes' /\ ReadFrame
        /\ (ReadHandshake \/ ReadRegisterAck \/ ReadActive
                \/ ReadHeartbeatAck)
    => TimersInv'
<1> SUFFICES ASSUME TimersInv, TimerTypes', ReadFrame,
                    \/ ReadHandshake \/ ReadRegisterAck
                    \/ ReadActive \/ ReadHeartbeatAck
             PROVE  TimersInv'
    OBVIOUS
<1>1. /\ lastHeartbeatAt' = lastHeartbeatAt => HbAge' = HbAge
      /\ lastHeartbeatAt' = clock => HbAge' = 0
      /\ RecvAge' = 0
    BY StillLemma DEF TimersInv, ReadFrame
<1>2. /\ io = "receive" /\ io' = io /\ passTime' = passTime /\ wait' = wait
      /\ silence' = 0 /\ rxFrameStartedAt' = 0 /\ lastReceivedAt' = clock
      /\ inbox \in {"frame", "ack"} /\ inbox' = "none"
    BY DEF ReadFrame, ioVars, FrameComplete
<1>3. /\ Linked /\ passTime \in Nat /\ MaxPassTime \in Nat /\ liveness \in Nat
      /\ kConnectTimeout \in Nat /\ NotOwed = -1
    BY <1>2, LimitsLemma DEF TimersInv, UnlinkedInv, Linked, TimerTypes, NotOwed
<1>4. CASE ReadHandshake
  <2>1. /\ link = "Handshake" /\ link' = "Handshake" /\ owed' = 0
        /\ linkStateStartedAt' = clock
    BY <1>4 DEF ReadHandshake, Asks
  <2> QED
    BY <1>1, <1>2, <1>3, <2>1
    DEF TimersInv, UnlinkedInv, HandshakeInv, ActiveInv, SilenceInv, AgesInv, NowInv, Linked,
        Timely
<1>5. CASE ReadRegisterAck
  <2>1. /\ link' = "Active" /\ owed' = NotOwed /\ lastHeartbeatAt' = clock
        /\ heartbeatOutstanding' = FALSE
    BY <1>5 DEF ReadRegisterAck, Answered
  <2> QED
    BY <1>1, <1>2, <1>3, <2>1
    DEF TimersInv, UnlinkedInv, HandshakeInv, ActiveInv, SilenceInv, AgesInv, NowInv, Linked,
        Timely
<1>6. CASE ReadActive
  <2>1. /\ link = "Active" /\ link' = "Active" /\ owed' = owed /\ inbox = "frame"
        /\ heartbeatOutstanding' = heartbeatOutstanding /\ HbAge' = HbAge
    BY <1>1, <1>6 DEF ReadActive
  <2> QED
    BY <1>1, <1>2, <1>3, <2>1
    DEF TimersInv, UnlinkedInv, HandshakeInv, ActiveInv, SilenceInv, AgesInv, NowInv, Linked,
        Timely
<1>7. CASE ReadHeartbeatAck
  <2>1. /\ link = "Active" /\ link' = "Active" /\ owed' = owed /\ inbox = "ack"
        /\ heartbeatOutstanding' = FALSE /\ HbAge' = HbAge
    BY <1>1, <1>7 DEF ReadHeartbeatAck
  <2> QED
    BY <1>1, <1>2, <1>3, <2>1
    DEF TimersInv, UnlinkedInv, HandshakeInv, ActiveInv, SilenceInv, AgesInv, NowInv, Linked,
        Timely
<1> QED
    BY <1>4, <1>5, <1>6, <1>7

\* The checks of a pass let nothing through that is past its limit and has been compared.
LEMMA EndReceiveStep == TimersInv /\ TimerTypes' /\ EndReceive => TimersInv'
<1> SUFFICES ASSUME TimersInv, TimerTypes', EndReceive PROVE TimersInv'
    OBVIOUS
<1>1. CASE disconnectAndBackoff
    BY <1>1, DisconnectLemma
<1>2. CASE ~disconnectAndBackoff
  <2>1. /\ io = "receive" /\ io' = "check" /\ now' = clock /\ ~FrameOverdue
        /\ UNCHANGED <<clock, wait, passTime, link, lastReceivedAt, lastHeartbeatAt,
                       linkStateStartedAt, heartbeatOutstanding, rxFrameStartedAt, inbox,
                       silence, owed>>
    BY <1>2 DEF EndReceive, Refreshed, sessionVars, hubVars
  <2>2. HbAge' = HbAge /\ RecvAge' = RecvAge /\ RxAge' = RxAge /\ NowAge' = 0
    BY <2>1, StillLemma DEF TimersInv
  <2>3. rxFrameStartedAt # 0 => RxAge <= kFrameTimeout
    BY <2>1, AgesLemma, LimitsLemma DEF TimersInv, FrameOverdue, RxAge, Age
  <2>4. /\ Linked /\ passTime \in Nat /\ MaxPassTime \in Nat /\ kFrameTimeout \in Nat
        /\ HbAge \in Nat /\ RxAge \in Nat /\ silence \in Nat
    BY <2>1, AgesLemma, LimitsLemma DEF TimersInv, UnlinkedInv, Linked, TimerTypes
  <2>5. UnlinkedInv' /\ HandshakeInv' /\ ActiveInv' /\ SilenceInv'
    BY <2>1, <2>2, <2>4
    DEF TimersInv, UnlinkedInv, HandshakeInv, ActiveInv, SilenceInv, Linked
  <2>6. AgesInv' /\ NowInv'
    BY <2>1, <2>2, <2>3, <2>4 DEF TimersInv, AgesInv, NowInv, Timely
  <2> QED
    BY <2>5, <2>6 DEF TimersInv
<1> QED
    BY <1>1, <1>2

\* What is compared with the time of the pass is bounded at the time of the clock.
LEMMA ComparedLemma ==
    ASSUME TimerTypes, NEW t \in Clock, NowAge <= passTime, NowAge <= Age(t)
    PROVE  minus(now, t) = Age(t) - NowAge /\ Age(t) <= minus(now, t) + passTime
<1>1. minus(now, t) = Age(t) - NowAge
    BY SinceLemma DEF TimerTypes, NowAge, Age
<1>2. Age(t) \in Nat /\ NowAge \in Nat /\ passTime \in Nat
    BY MinusLemma DEF TimerTypes, NowAge, Age
<1> QED
    BY <1>1, <1>2

LEMMA CheckHandshakeStep == TimersInv /\ TimerTypes' /\ CheckHandshake => TimersInv'
<1> SUFFICES ASSUME TimersInv, TimerTypes', CheckHandshake PROVE TimersInv'
    OBVIOUS
<1>1. CASE disconnectAndBackoff
    BY <1>1, DisconnectLemma
<1>2. CASE ~disconnectAndBackoff
  <2>1. /\ io = "check" /\ io' = "compute" /\ link = "Handshake"
        /\ ~HandshakeOverdue(now)
        /\ UNCHANGED <<clock, now, wait, passTime, link, lastReceivedAt, lastHeartbeatAt,
                       linkStateStartedAt, heartbeatOutstanding, rxFrameStartedAt, inbox,
                       silence, owed>>
    BY <1>2 DEF CheckHandshake, Goes, sessionVars, hubVars
  <2>2. HbAge' = HbAge /\ RecvAge' = RecvAge /\ RxAge' = RxAge
    BY <2>1, StillLemma DEF TimersInv
  <2>3. silence <= kConnectTimeout + passTime
    <3>1. /\ silence = RecvAge /\ lastReceivedAt = linkStateStartedAt /\ TimerTypes
          /\ NowAge <= passTime /\ NowAge <= silence
      BY <2>1 DEF TimersInv, SilenceInv, HandshakeInv, NowInv, Linked
    <3>2. silence <= minus(now, linkStateStartedAt) + passTime
      BY <3>1, ComparedLemma DEF RecvAge, TimerTypes
    <3>3. /\ minus(now, linkStateStartedAt) \in Nat /\ passTime \in Nat
          /\ silence \in Nat /\ kConnectTimeout \in Nat
      BY <3>1, MinusLemma, LimitsLemma DEF TimerTypes
    <3>4. minus(now, linkStateStartedAt) <= kConnectTimeout
      BY <2>1, <3>3 DEF HandshakeOverdue
    <3> QED
      BY <3>2, <3>3, <3>4
  <2>4. UnlinkedInv' /\ HandshakeInv' /\ ActiveInv' /\ SilenceInv'
    BY <2>1, <2>2 DEF TimersInv, UnlinkedInv, HandshakeInv, ActiveInv, SilenceInv, Linked
  <2>5. /\ kConnectTimeout \in Nat /\ kFrameTimeout \in Nat /\ passTime \in Nat
        /\ silence \in Nat /\ RxAge \in Nat
    BY LimitsLemma, AgesLemma DEF TimersInv, TimerTypes
  <2>6. AgesInv' /\ NowInv'
    BY <2>1, <2>2, <2>3, <2>5 DEF TimersInv, AgesInv, NowInv, Timely
  <2> QED
    BY <2>4, <2>6 DEF TimersInv
<1> QED
    BY <1>1, <1>2

LEMMA FlushResultsStep == TimersInv /\ TimerTypes' /\ FlushResults => TimersInv'
<1> SUFFICES ASSUME TimersInv, TimerTypes', FlushResults PROVE TimersInv'
    OBVIOUS
<1>1. CASE disconnectAndBackoff
    BY <1>1, DisconnectLemma
<1>2. CASE ~disconnectAndBackoff
  <2>1. /\ io = "check" /\ io' = "heartbeat" /\ now' = clock /\ link = "Active"
        /\ UNCHANGED <<clock, wait, passTime, link, lastReceivedAt, lastHeartbeatAt,
                       linkStateStartedAt, heartbeatOutstanding, rxFrameStartedAt, inbox,
                       silence, owed>>
    BY <1>2 DEF FlushResults, Refreshed, sessionVars, hubVars
  <2>2. HbAge' = HbAge /\ RecvAge' = RecvAge /\ RxAge' = RxAge /\ NowAge' = 0
    BY <2>1, StillLemma DEF TimersInv
  <2>3. passTime \in Nat /\ HbAge \in Nat /\ silence \in Nat
    BY AgesLemma DEF TimersInv, TimerTypes
  <2>4. UnlinkedInv' /\ HandshakeInv' /\ ActiveInv' /\ SilenceInv'
    BY <2>1, <2>2 DEF TimersInv, UnlinkedInv, HandshakeInv, ActiveInv, SilenceInv, Linked
  <2>5. AgesInv' /\ NowInv'
    BY <2>1, <2>2, <2>3 DEF TimersInv, AgesInv, NowInv, Timely
  <2> QED
    BY <2>4, <2>5 DEF TimersInv
<1> QED
    BY <1>1, <1>2

LEMMA CheckHeartbeatStep == TimersInv /\ TimerTypes' /\ CheckHeartbeat => TimersInv'
<1> SUFFICES ASSUME TimersInv, TimerTypes', CheckHeartbeat PROVE TimersInv'
    OBVIOUS
<1>1. CASE disconnectAndBackoff
    BY <1>1, DisconnectLemma
<1>2. CASE ~disconnectAndBackoff
  <2>1. /\ io = "heartbeat" /\ ~AckOverdue(now) /\ ~HubSilent(now)
        /\ io' = (IF HeartbeatDue(now) THEN "send" ELSE "ports")
        /\ UNCHANGED <<clock, now, wait, passTime, link, lastReceivedAt, lastHeartbeatAt,
                       linkStateStartedAt, heartbeatOutstanding, rxFrameStartedAt, inbox,
                       silence, owed>>
    BY <1>2 DEF CheckHeartbeat, Goes, sessionVars, hubVars
  <2>2. HbAge' = HbAge /\ RecvAge' = RecvAge /\ RxAge' = RxAge
    BY <2>1, StillLemma DEF TimersInv
  <2>3. /\ link = "Active" /\ silence = RecvAge /\ TimerTypes
        /\ NowAge <= passTime /\ NowAge <= silence /\ NowAge <= HbAge
    BY <2>1
    DEF TimersInv, UnlinkedInv, HandshakeInv, SilenceInv, NowInv, Linked, TimerTypes
  <2>4. /\ silence <= minus(now, lastReceivedAt) + passTime
        /\ HbAge <= minus(now, lastHeartbeatAt) + passTime
    BY <2>3, ComparedLemma DEF RecvAge, HbAge, TimerTypes
  <2>5. /\ minus(now, lastReceivedAt) \in Nat /\ passTime \in Nat
        /\ minus(now, lastHeartbeatAt) \in Nat /\ HbAge \in Nat /\ silence \in Nat
        /\ liveness \in Nat /\ heartbeatInterval \in Nat
        /\ heartbeatInterval <= liveness /\ kFrameTimeout \in Nat /\ RxAge \in Nat
    BY <2>3, MinusLemma, AgesLemma, LimitsLemma DEF TimerTypes
  <2>6. silence <= liveness + passTime
    BY <2>1, <2>3, <2>4, <2>5 DEF HubSilent
  <2>7. /\ heartbeatOutstanding => HbAge <= liveness + passTime /\ io' = "ports"
        /\ ~heartbeatOutstanding /\ io' = "ports" => HbAge <= heartbeatInterval + passTime
    BY <2>1, <2>3, <2>4, <2>5 DEF AckOverdue, HeartbeatDue
  <2>8. io' = "ports" => HbAge <= liveness + passTime
    BY <2>5, <2>7
  <2>9. UnlinkedInv' /\ HandshakeInv' /\ ActiveInv' /\ SilenceInv'
    BY <2>1, <2>2, <2>3, <2>7
    DEF TimersInv, UnlinkedInv, HandshakeInv, ActiveInv, SilenceInv, Linked
  <2>10. AgesInv' /\ NowInv'
    <3>1. rxFrameStartedAt # 0 => RxAge <= kFrameTimeout + passTime
      BY <2>1, <2>5 DEF TimersInv, AgesInv, Timely
    <3>2. io' = "send" => HbAge <= liveness + passTime + MaxPassTime
      BY <2>1, <2>3 DEF TimersInv, AgesInv, Timely
    <3>3. link' = "Active" /\ io' \in {"send", "ports"}
      BY <2>1, <2>3
    <3>4. NowInv'
      BY <3>3 DEF NowInv
    <3>5. /\ silence <= liveness + passTime + 0
          /\ io' = "ports" => HbAge <= liveness + passTime + 0
          /\ io' = "ports" /\ ~heartbeatOutstanding => HbAge <= heartbeatInterval + passTime
      BY <2>5, <2>6, <2>7, <2>8
    <3>7. Timely(silence, liveness, {"send", "ports", "compute"})'
      BY <2>1, <2>2, <3>3, <3>5 DEF Timely
    <3>8. Timely(HbAge, liveness, {"ports", "compute"})'
      BY <2>1, <2>2, <3>2, <3>3, <3>5 DEF Timely
    <3>6. (rxFrameStartedAt # 0 =>
              Timely(RxAge, kFrameTimeout, {"check", "heartbeat", "send", "ports", "compute"}))'
      BY <2>1, <2>2, <2>5, <3>1, <3>3 DEF Timely
    <3> QED
      BY <2>1, <2>2, <3>3, <3>4, <3>5, <3>6, <3>7, <3>8 DEF AgesInv
  <2> QED
    BY <2>3, <2>9, <2>10 DEF TimersInv
<1> QED
    BY <1>1, <1>2

LEMMA SendHeartbeatStep == TimersInv /\ TimerTypes' /\ SendHeartbeat => TimersInv'
<1> SUFFICES ASSUME TimersInv, TimerTypes', SendHeartbeat PROVE TimersInv'
    OBVIOUS
<1>1. CASE disconnectAndBackoff
    BY <1>1, DisconnectLemma
<1>2. CASE ~disconnectAndBackoff
  <2>1. /\ io = "send" /\ io' = "ports" /\ lastHeartbeatAt' = clock
        /\ heartbeatOutstanding' = TRUE /\ owed' = 0
        /\ UNCHANGED <<clock, now, wait, passTime, link, lastReceivedAt,
                       linkStateStartedAt, rxFrameStartedAt, inbox, silence>>
    BY <1>2 DEF SendHeartbeat, Goes, Asks
  <2>2. HbAge' = 0 /\ RecvAge' = RecvAge /\ RxAge' = RxAge
    BY <2>1, StillLemma DEF TimersInv
  <2>3. /\ link = "Active" /\ ~heartbeatOutstanding /\ passTime \in Nat
        /\ liveness \in Nat /\ NotOwed = -1
    BY <2>1, LimitsLemma
    DEF TimersInv, UnlinkedInv, HandshakeInv, ActiveInv, Linked, TimerTypes, NotOwed
  <2>4. UnlinkedInv' /\ HandshakeInv' /\ ActiveInv' /\ SilenceInv'
    BY <2>1, <2>2, <2>3
    DEF TimersInv, UnlinkedInv, HandshakeInv, ActiveInv, SilenceInv, Linked
  <2>5. AgesInv' /\ NowInv'
    BY <2>1, <2>2, <2>3 DEF TimersInv, AgesInv, NowInv, Timely
  <2> QED
    BY <2>4, <2>5 DEF TimersInv
<1> QED
    BY <1>1, <1>2

LEMMA FlushPortsStep == TimersInv /\ TimerTypes' /\ FlushPorts => TimersInv'
<1> SUFFICES ASSUME TimersInv, TimerTypes', FlushPorts PROVE TimersInv'
    OBVIOUS
<1>1. CASE disconnectAndBackoff
    BY <1>1, DisconnectLemma
<1>2. CASE ~disconnectAndBackoff
  <2>1. /\ io = "ports" /\ io' = "compute"
        /\ UNCHANGED <<clock, now, wait, passTime, link, lastReceivedAt, lastHeartbeatAt,
                       linkStateStartedAt, heartbeatOutstanding, rxFrameStartedAt, inbox,
                       silence, owed>>
    BY <1>2 DEF FlushPorts, Goes, hubVars
  <2>2. HbAge' = HbAge /\ RecvAge' = RecvAge /\ RxAge' = RxAge
    BY <2>1, StillLemma DEF TimersInv
  <2>3. UnlinkedInv' /\ HandshakeInv' /\ ActiveInv' /\ SilenceInv'
    BY <2>1, <2>2 DEF TimersInv, UnlinkedInv, HandshakeInv, ActiveInv, SilenceInv, Linked
  <2>4. link # "Handshake"
    BY <2>1 DEF TimersInv, HandshakeInv
  <2>5. AgesInv' /\ NowInv'
    BY <2>1, <2>2, <2>4 DEF TimersInv, AgesInv, NowInv, Timely
  <2> QED
    BY <2>3, <2>5 DEF TimersInv
<1> QED
    BY <1>1, <1>2

LEMMA LeavesStep == TimersInv /\ TimerTypes' /\ Leaves => TimersInv'
<1> SUFFICES ASSUME TimersInv, TimerTypes', Leaves PROVE TimersInv'
    OBVIOUS
<1>1. UNCHANGED <<clock, io, now, wait, passTime, link, lastReceivedAt, lastHeartbeatAt,
                  linkStateStartedAt, heartbeatOutstanding, rxFrameStartedAt, inbox,
                  silence, owed>>
    BY DEF Leaves, ioVars, hubVars
<1>2. HbAge' = HbAge /\ RecvAge' = RecvAge /\ RxAge' = RxAge /\ NowAge' = NowAge
    BY <1>1, StillLemma DEF TimersInv
<1>3. UnlinkedInv' /\ HandshakeInv' /\ ActiveInv' /\ SilenceInv'
    BY <1>1, <1>2 DEF TimersInv, UnlinkedInv, HandshakeInv, ActiveInv, SilenceInv, Linked
<1>4. AgesInv' /\ NowInv'
    BY <1>1, <1>2 DEF TimersInv, AgesInv, NowInv, Timely
<1> QED
    BY <1>3, <1>4 DEF TimersInv

LEMMA SendsStep == TimersInv /\ TimerTypes' /\ HubSends => TimersInv'
<1> SUFFICES ASSUME TimersInv, TimerTypes', HubSends PROVE TimersInv'
    OBVIOUS
<1>1. HbAge' = HbAge /\ RecvAge' = RecvAge /\ RxAge' = RxAge /\ NowAge' = NowAge
    BY StillLemma DEF TimersInv, HubSends, sessionVars
<1>2. /\ Linked /\ inbox = "none"
      /\ wait' = (IF io = "asleep" /\ eventFd THEN 0 ELSE wait)
      /\ UNCHANGED <<clock, now, io, passTime, link, lastReceivedAt, lastHeartbeatAt,
                     linkStateStartedAt, heartbeatOutstanding, rxFrameStartedAt, silence>>
    BY DEF HubSends, sessionVars, Linked
<1>3. /\ link = "Handshake" => \/ inbox' = "part" /\ owed' = owed
                               \/ inbox' = "frame" /\ owed' = NotOwed
      /\ link = "Active" => \/ inbox' \in {"part", "frame"} /\ owed' = owed
                            \/ inbox' = "ack" /\ owed' = NotOwed /\ owed # NotOwed
    BY <1>2 DEF HubSends, Answered, Linked
<1>4. /\ wait \in Nat /\ wait' \in Nat /\ wait' <= wait /\ RxAge \in Nat /\ HbAge \in Nat
      /\ silence \in Nat /\ MaxPassTime \in Nat /\ liveness \in Nat
      /\ kConnectTimeout \in Nat /\ kFrameTimeout \in Nat
    BY <1>2, AgesLemma, LimitsLemma DEF TimersInv, TimerTypes
<1>5. UnlinkedInv' /\ HandshakeInv' /\ ActiveInv' /\ SilenceInv'
    BY <1>1, <1>2, <1>3
    DEF TimersInv, UnlinkedInv, HandshakeInv, ActiveInv, SilenceInv, Linked
<1>6. AgesInv' /\ NowInv'
    BY <1>1, <1>2, <1>4 DEF TimersInv, AgesInv, NowInv, Timely
<1> QED
    BY <1>5, <1>6 DEF TimersInv

\* Steps that move no time but that of the sleep.
LEMMA StationStep == TimersInv /\ TimerTypes' /\ StationEvent => TimersInv'
<1> SUFFICES ASSUME TimersInv, TimerTypes', StationEvent PROVE TimersInv'
    OBVIOUS
<1>1. HbAge' = HbAge /\ RecvAge' = RecvAge /\ RxAge' = RxAge /\ NowAge' = NowAge
    BY StillLemma DEF TimersInv, StationEvent, sessionVars
<1>2. /\ wait' = (IF handlers /\ io = "asleep" THEN 0 ELSE wait)
      /\ UNCHANGED <<clock, now, io, passTime, link, lastReceivedAt, lastHeartbeatAt, inbox,
                     linkStateStartedAt, heartbeatOutstanding, rxFrameStartedAt, silence, owed>>
    BY DEF StationEvent, sessionVars, hubVars
<1>3. /\ wait \in Nat /\ wait' \in Nat /\ wait' <= wait /\ RxAge \in Nat /\ HbAge \in Nat
      /\ silence \in Nat /\ MaxPassTime \in Nat /\ liveness \in Nat
      /\ kConnectTimeout \in Nat /\ kFrameTimeout \in Nat
    BY <1>2, AgesLemma, LimitsLemma DEF TimersInv, TimerTypes
<1>4. UnlinkedInv' /\ HandshakeInv' /\ ActiveInv' /\ SilenceInv'
    BY <1>1, <1>2 DEF TimersInv, UnlinkedInv, HandshakeInv, ActiveInv, SilenceInv, Linked
<1>5. AgesInv' /\ NowInv'
    BY <1>1, <1>2, <1>3 DEF TimersInv, AgesInv, NowInv, Timely
<1> QED
    BY <1>4, <1>5 DEF TimersInv

\* A sleep ends no later than one pass after the next deadline.
LEMMA ComputeStep == TimersInv /\ TimerTypes' /\ Compute => TimersInv'
<1> SUFFICES ASSUME TimersInv, TimerTypes', Compute PROVE TimersInv'
    OBVIOUS
<1>1. /\ io = "compute" /\ io' = "asleep"
      /\ UNCHANGED <<clock, passTime, link, lastReceivedAt, lastHeartbeatAt, inbox,
                     linkStateStartedAt, heartbeatOutstanding, rxFrameStartedAt, silence, owed>>
    BY DEF Compute, sessionVars, hubVars
<1>2. HbAge' = HbAge /\ RecvAge' = RecvAge /\ RxAge' = RxAge
    BY <1>1, StillLemma DEF TimersInv
<1>3. /\ wait' \in Nat /\ passTime \in 0 .. MaxPassTime /\ RxAge \in Nat /\ HbAge \in Nat
      /\ silence \in Nat /\ MaxPassTime \in Nat /\ liveness \in Nat
      /\ kConnectTimeout \in Nat /\ kFrameTimeout \in Nat /\ heartbeatInterval \in Nat
      /\ heartbeatInterval <= liveness /\ TimerTypes
    BY AgesLemma, WaitLemma, LimitsLemma DEF TimersInv, TimerTypes
<1>4. \A d \in FrameDeadlines \cup StateDeadlines :
          wait' <= millisecondsUntil(clock, d % ClockSize)
    BY WaitLemma DEF TimersInv, Waits
<1>5. ASSUME NEW t \in Clock, NEW limit \in Nat, limit <= ClockSize \div 2,
             Age(t) <= limit + passTime, NEW bound \in Nat, limit <= bound,
             t + limit \in FrameDeadlines \cup StateDeadlines
      PROVE  Age(t) + wait' <= bound + MaxPassTime
  <2>1. Age(t) \in Nat /\ clock \in Clock
    BY <1>3, <1>5, MinusLemma DEF Age, TimerTypes
  <2>2. minus(clock, t) <= limit + MaxPassTime
    BY <1>3, <1>5, <2>1 DEF Age
  <2>3. wait' <= IF Age(t) >= limit THEN 0 ELSE limit - Age(t)
    BY <1>4, <1>5, <2>1, <2>2, UntilLemma DEF Age
  <2> QED
    BY <1>3, <1>5, <2>1, <2>3
<1>6. link = "Handshake" => silence + wait' <= kConnectTimeout + MaxPassTime
  <2> SUFFICES ASSUME link = "Handshake"
               PROVE  silence + wait' <= kConnectTimeout + MaxPassTime
    OBVIOUS
  <2>1. linkStateStartedAt + kConnectTimeout \in StateDeadlines
    BY DEF StateDeadlines
  <2>2. silence = Age(linkStateStartedAt)
    BY DEF TimersInv, SilenceInv, HandshakeInv, Linked, RecvAge
  <2>3. silence <= kConnectTimeout + passTime
    BY <1>1, <1>3 DEF TimersInv, AgesInv, Timely
  <2> QED
    BY <1>3, <1>5, <2>1, <2>2, <2>3, LimitsLemma DEF TimerTypes
<1>7. link = "Active" => /\ silence + wait' <= liveness + MaxPassTime
                         /\ HbAge + wait' <= liveness + MaxPassTime
  <2> SUFFICES ASSUME link = "Active"
               PROVE  /\ silence + wait' <= liveness + MaxPassTime
                      /\ HbAge + wait' <= liveness + MaxPassTime
    OBVIOUS
  <2>1. {lastReceivedAt + liveness,
         lastHeartbeatAt + IF heartbeatOutstanding THEN liveness ELSE heartbeatInterval}
            \subseteq StateDeadlines
    BY DEF StateDeadlines, HeartbeatDeadlines
  <2>2. silence = Age(lastReceivedAt) /\ HbAge = Age(lastHeartbeatAt)
    BY DEF TimersInv, SilenceInv, Linked, RecvAge, HbAge
  <2>3. /\ silence <= liveness + passTime /\ HbAge <= liveness + passTime
        /\ ~heartbeatOutstanding => HbAge <= heartbeatInterval + passTime
    BY <1>1, <1>3 DEF TimersInv, AgesInv, Timely
  <2>4. silence + wait' <= liveness + MaxPassTime
    BY <1>3, <1>5, <2>1, <2>2, <2>3, LimitsLemma DEF TimerTypes
  <2>5. CASE heartbeatOutstanding
    BY <1>3, <1>5, <2>1, <2>2, <2>3, <2>4, <2>5, LimitsLemma DEF TimerTypes
  <2>6. CASE ~heartbeatOutstanding
    BY <1>3, <1>5, <2>1, <2>2, <2>3, <2>4, <2>6, LimitsLemma DEF TimerTypes
  <2> QED
    BY <2>5, <2>6
<1>8. rxFrameStartedAt # 0 => RxAge + wait' <= kFrameTimeout + MaxPassTime
  <2> SUFFICES ASSUME rxFrameStartedAt # 0
               PROVE  RxAge + wait' <= kFrameTimeout + MaxPassTime
    OBVIOUS
  <2>1. rxFrameStartedAt + kFrameTimeout \in FrameDeadlines
    BY DEF FrameDeadlines
  <2>2. RxAge <= kFrameTimeout + passTime
    BY <1>1, <1>3 DEF TimersInv, AgesInv, Timely
  <2> QED
    BY <1>3, <1>5, <2>1, <2>2, LimitsLemma DEF TimerTypes, RxAge
<1>9. UnlinkedInv' /\ HandshakeInv' /\ ActiveInv' /\ SilenceInv'
    BY <1>1, <1>2 DEF TimersInv, UnlinkedInv, HandshakeInv, ActiveInv, SilenceInv, Linked
<1>10. AgesInv' /\ NowInv'
    BY <1>1, <1>2, <1>6, <1>7, <1>8 DEF AgesInv, NowInv, Timely
<1> QED
    BY <1>9, <1>10 DEF TimersInv

LEMMA WakeStep == TimersInv /\ TimerTypes' /\ Wake => TimersInv'
<1> SUFFICES ASSUME TimersInv, TimerTypes', Wake PROVE TimersInv'
    OBVIOUS
<1>1. /\ io = "asleep" /\ io' = "pass" /\ passTime' = 0
      /\ UNCHANGED <<clock, now, link, lastReceivedAt, lastHeartbeatAt, inbox,
                     linkStateStartedAt, heartbeatOutstanding, rxFrameStartedAt, silence, owed>>
    BY DEF Wake, sessionVars, hubVars
<1>2. HbAge' = HbAge /\ RecvAge' = RecvAge /\ RxAge' = RxAge
    BY <1>1, StillLemma DEF TimersInv
<1>3. /\ wait \in Nat /\ RxAge \in Nat /\ HbAge \in Nat
      /\ silence \in Nat /\ MaxPassTime \in Nat /\ liveness \in Nat
      /\ kConnectTimeout \in Nat /\ kFrameTimeout \in Nat
    BY AgesLemma, LimitsLemma DEF TimersInv, TimerTypes
<1>4. UnlinkedInv' /\ HandshakeInv' /\ ActiveInv' /\ SilenceInv'
    BY <1>1, <1>2 DEF TimersInv, UnlinkedInv, HandshakeInv, ActiveInv, SilenceInv, Linked
<1>5. AgesInv' /\ NowInv'
    BY <1>1, <1>2, <1>3 DEF TimersInv, AgesInv, NowInv, Timely
<1> QED
    BY <1>4, <1>5 DEF TimersInv

LEMMA TickStep == TimersInv /\ TimerTypes' /\ Tick => TimersInv'
<1> SUFFICES ASSUME TimersInv, TimerTypes', Tick PROVE TimersInv'
    OBVIOUS
<1>1. /\ clock' = (clock + 1) % ClockSize /\ owed' = Older(owed)
      /\ silence' = (IF Linked THEN silence + 1 ELSE 0)
      /\ IF io = "asleep" THEN wait > 0 /\ wait' = wait - 1 /\ passTime' = passTime
                          ELSE passTime < MaxPassTime /\ passTime' = passTime + 1
      /\ UNCHANGED <<now, io, link, lastReceivedAt, lastHeartbeatAt, inbox,
                     linkStateStartedAt, heartbeatOutstanding, rxFrameStartedAt>>
    BY DEF Tick, sessionVars, Linked
<1>2. /\ wait \in Nat /\ RxAge \in Nat /\ HbAge \in Nat /\ RecvAge \in Nat /\ NowAge \in Nat
      /\ silence \in Nat /\ MaxPassTime \in Nat /\ passTime \in 0 .. MaxPassTime
      /\ kConnectTimeout \in Nat /\ kFrameTimeout \in Nat /\ liveness \in Nat
      /\ ClockSize \in Nat /\ heartbeatInterval \in Nat
      /\ owed \in Nat \cup {NotOwed} /\ NotOwed = -1
      /\ kConnectTimeout + 2 * MaxPassTime + 1 < ClockSize
      /\ kFrameTimeout + 2 * MaxPassTime + 1 < ClockSize
      /\ liveness + 2 * MaxPassTime + 1 < ClockSize
    BY AgesLemma, LimitsLemma DEF TimersInv, TimerTypes, NotOwed
<1>3. /\ link = "Handshake" => silence + 1 < ClockSize
      /\ link = "Active" => silence + 1 < ClockSize /\ HbAge + 1 < ClockSize
      /\ rxFrameStartedAt # 0 => RxAge + 1 < ClockSize
      /\ io \in {"check", "heartbeat"} => NowAge + 1 < ClockSize
    BY <1>2 DEF TimersInv, AgesInv, NowInv, Timely
<1>4. /\ Linked => silence = RecvAge /\ RecvAge' = RecvAge + 1 /\ silence' = silence + 1
      /\ link = "Active" => HbAge' = HbAge + 1
      /\ rxFrameStartedAt # 0 => RxAge' = RxAge + 1
      /\ io \in {"check", "heartbeat"} => NowAge' = NowAge + 1
    BY <1>1, <1>3, LaterLemma DEF TimersInv, SilenceInv, Linked
<1>5. /\ owed' = NotOwed <=> owed = NotOwed
      /\ owed # NotOwed => owed' = owed + 1
    BY <1>1, <1>2 DEF Older
<1>6. UnlinkedInv' /\ HandshakeInv' /\ ActiveInv' /\ SilenceInv'
    BY <1>1, <1>4, <1>5
    DEF TimersInv, UnlinkedInv, HandshakeInv, ActiveInv, SilenceInv, Linked
<1>7. NowInv'
    BY <1>1, <1>2, <1>4 DEF TimersInv, UnlinkedInv, NowInv, Linked
<1>8. AgesInv'
    BY <1>1, <1>2, <1>4 DEF TimersInv, AgesInv, Timely, Linked
<1> QED
    BY <1>6, <1>7, <1>8 DEF TimersInv

LEMMA PassStep ==
    TimersInv /\ TimerTypes' /\ (AttemptConnection \/ LinkLoop) => TimersInv'
<1> SUFFICES ASSUME TimersInv, TimerTypes', AttemptConnection \/ LinkLoop
             PROVE  TimersInv'
    OBVIOUS
<1>1. CASE AttemptConnection /\ disconnectAndBackoff
    BY <1>1, DisconnectLemma
<1>2. CASE AttemptConnection /\ ~disconnectAndBackoff
  <2>1. /\ link = "Backoff" /\ link' = "Handshake" /\ owed' = 0 /\ io' = "compute"
        /\ linkStateStartedAt' = clock /\ lastReceivedAt' = clock
        /\ UNCHANGED <<clock, passTime, rxFrameStartedAt, inbox, silence>>
    BY <1>2 DEF AttemptConnection, Goes, Asks
  <2>2. RecvAge' = 0
    BY <2>1, StillLemma DEF TimersInv
  <2>3. /\ inbox = "none" /\ rxFrameStartedAt = 0 /\ silence = 0 /\ passTime \in Nat
        /\ kConnectTimeout \in Nat /\ NotOwed = -1
    BY <2>1, LimitsLemma DEF TimersInv, UnlinkedInv, Linked, TimerTypes, NotOwed
  <2> QED
    BY <2>1, <2>2, <2>3
    DEF TimersInv, UnlinkedInv, HandshakeInv, ActiveInv, SilenceInv, AgesInv, NowInv, Linked,
        Timely
<1>3. CASE LinkLoop
  <2>1. /\ Linked /\ io = "pass" /\ io' = "receive"
        /\ UNCHANGED <<clock, wait, passTime, link, lastReceivedAt, lastHeartbeatAt, inbox,
                       linkStateStartedAt, heartbeatOutstanding, rxFrameStartedAt, silence,
                       owed>>
    BY <1>3 DEF LinkLoop, Connected, sessionVars, hubVars, Linked
  <2>2. HbAge' = HbAge /\ RecvAge' = RecvAge /\ RxAge' = RxAge
    BY <2>1, StillLemma DEF TimersInv
  <2>3. UnlinkedInv' /\ HandshakeInv' /\ ActiveInv' /\ SilenceInv'
    BY <2>1, <2>2 DEF TimersInv, UnlinkedInv, HandshakeInv, ActiveInv, SilenceInv, Linked
  <2>4. AgesInv' /\ NowInv'
    BY <2>1, <2>2 DEF TimersInv, AgesInv, NowInv, Timely
  <2> QED
    BY <2>3, <2>4 DEF TimersInv
<1> QED
    BY <1>1, <1>2, <1>3

LEMMA TimersStep == TimersInv /\ TimersNext => TimersInv'
<1> SUFFICES ASSUME TimersInv, TimersNext PROVE TimersInv'
    OBVIOUS
<1>1. TimerTypes'
    BY TypesStep DEF TimersInv
<1>2. CASE Rejoin \/ Joined \/ BackoffGoesOn
  <2>1. /\ ~Linked /\ link' \in {"Joining", "Backoff"} /\ io' = "compute"
        /\ UNCHANGED <<inbox, rxFrameStartedAt, silence, owed>>
    BY <1>2 DEF Rejoin, Joined, BackoffGoesOn, Goes, Linked,
                sessionVars, hubVars
  <2> QED
    BY <1>1, <2>1, UnlinkedLemma DEF TimersInv, UnlinkedInv
<1>3. CASE LinkLost
    BY <1>1, <1>3, UnlinkedLemma DEF LinkLost, resetSession,
       FrameComplete, Answered, Goes
<1>4. CASE SocketClosed
    BY <1>1, <1>4, DisconnectLemma DEF SocketClosed
<1>5. CASE \/ ReadHandshake \/ ReadRegisterAck
           \/ ReadActive \/ ReadHeartbeatAck
  <2>1. ReadFrame
    BY <1>5 DEF ReadHandshake, ReadRegisterAck, ReadActive,
                ReadHeartbeatAck
  <2> QED
    BY <1>1, <1>5, <2>1, ReadFrameStep
<1> QED
    BY <1>1, <1>2, <1>3, <1>4, <1>5, PassStep, ReadPartStep, EndReceiveStep,
       CheckHandshakeStep, FlushResultsStep, CheckHeartbeatStep, SendHeartbeatStep,
       FlushPortsStep, LeavesStep, ComputeStep, WakeStep, StationStep, SendsStep, TickStep
    DEF TimersNext, Pass

LEMMA TimersStart == TimersInit => TimersInv
<1> SUFFICES ASSUME TimersInit PROVE TimersInv
    OBVIOUS
<1>1. clock \in Clock /\ clock \in Nat /\ 0 \in Clock
    BY ClockLemma DEF TimersInit
<1>2. wifiDeadline \in Clock
    BY <1>1, ClockLemma, LimitsLemma DEF TimersInit
<1>3. /\ now = 0 /\ reconnectAt = 0 /\ wifiRetryAt = 0 /\ linkStateStartedAt = 0
      /\ lastReceivedAt = 0 /\ lastHeartbeatAt = 0 /\ rxFrameStartedAt = 0 /\ wait = 0
      /\ passTime = 0 /\ io = "compute" /\ link = "Joining" /\ inbox = "none" /\ silence = 0
      /\ owed = NotOwed /\ lastPortFlushAt = 0 /\ toSend = {}
    BY DEF TimersInit
<1>4. TimerTypes
    BY <1>1, <1>2, <1>3, LimitsLemma DEF TimerTypes
<1> QED
    BY <1>3, <1>4
    DEF TimersInv, Linked, UnlinkedInv, HandshakeInv, ActiveInv, SilenceInv, AgesInv, NowInv

\* A behaviour that looks a Hub up leaves the timers alone.
LEMMA TimersAlways == MCSpec => []TimersInv
<1>1. TimersInv /\ UNCHANGED timerVars => TimersInv'
    BY DEF timerVars, TimersInv, TimerTypes, UnlinkedInv, HandshakeInv, ActiveInv, SilenceInv,
           AgesInv, NowInv, Timely, Linked, Age, HbAge, RxAge, RecvAge, NowAge
<1>2. TimersInv /\ [MCNext]_<<part, vars, timerVars>> => TimersInv'
    BY <1>1, TimersStep DEF MCNext
<1>3. MCInit => TimersInv
    BY TimersStart DEF MCInit
<1> QED
    BY <1>2, <1>3, PTL DEF MCSpec

\* A link to a Hub that has stopped answering ends at most one pass and a millisecond
\* after the pass that finds its deadline past, in a handshake and in a session.
THEOREM DeadHubEnds == MCSpec => []DeadHubIsDropped
<1>1. TimersInv => DeadHubIsDropped
  <2> SUFFICES ASSUME TimersInv PROVE DeadHubIsDropped
    OBVIOUS
  <2>1. /\ silence \in Nat /\ HbAge \in Nat /\ MaxPassTime \in Nat /\ liveness \in Nat
        /\ kConnectTimeout \in Nat /\ passTime \in 0 .. MaxPassTime /\ wait \in Nat
        /\ NotOwed = -1
    BY AgesLemma, LimitsLemma DEF TimersInv, TimerTypes, NotOwed
  <2>2. /\ link = "Handshake" => silence <= kConnectTimeout + 2 * MaxPassTime
        /\ link = "Active" => /\ silence <= liveness + 2 * MaxPassTime
                              /\ HbAge <= liveness + 2 * MaxPassTime
    BY <2>1 DEF TimersInv, AgesInv, Timely
  <2>3. /\ link = "Handshake" => owed = -1 \/ owed = silence
        /\ link = "Active" => owed = -1 \/ owed = HbAge
    BY <2>1 DEF TimersInv, HandshakeInv, ActiveInv
  <2> QED
    BY <2>1, <2>2, <2>3 DEF DeadHubIsDropped, Late
<1> QED
    BY <1>1, TimersAlways, PTL
--------------------------------------------------------------------------------
\* When the answer to a heartbeat has been read, and when the next heartbeat is sent.
AckBy == kPrompt + MaxPassTime + kFallbackPoll
SendBy == IF AckBy <= heartbeatInterval + MaxPassTime THEN heartbeatInterval + MaxPassTime
                                                      ELSE AckBy
Fallback == io = "asleep" /\ Linked /\ ~eventFd => wait <= kFallbackPoll
PromptFrame ==
    rxFrameStartedAt # 0 => inbox # "part" /\ (inbox = "none" => RxAge <= kPrompt)
PromptHandshake ==
    link = "Handshake" /\ io = "check" => minus(now, linkStateStartedAt) <= kPrompt

\* Between an answer and the next heartbeat, and between a heartbeat and its answer.
PromptRest ==
    link = "Active" /\ ~heartbeatOutstanding =>
        /\ silence <= HbAge
        /\ io = "asleep" => HbAge + wait <= heartbeatInterval + MaxPassTime
        /\ io # "asleep" => HbAge <= SendBy + passTime
PromptAck ==
    link = "Active" /\ heartbeatOutstanding =>
        /\ silence <= HbAge + SendBy + MaxPassTime
        /\ io = "asleep" /\ owed = NotOwed => HbAge + wait <= AckBy
        /\ io \in {"pass", "receive"} /\ owed = NotOwed => HbAge <= AckBy + passTime
        /\ io \in {"check", "heartbeat", "send", "ports", "compute"} => HbAge <= kPrompt + passTime
PromptInv ==
    /\ Fallback
    /\ ~late => /\ owed <= kPrompt /\ PromptFrame /\ PromptHandshake
                /\ PromptRest /\ PromptAck

LEMMA PromptLemma ==
    /\ kPrompt \in Nat /\ MaxPassTime \in Nat /\ kFallbackPoll \in Nat /\ liveness \in Nat
    /\ heartbeatInterval \in Nat /\ AckBy \in Nat /\ SendBy \in Nat
    /\ kConnectTimeout \in Nat /\ kFrameTimeout \in Nat
    /\ kPrompt <= kConnectTimeout /\ kPrompt <= kFrameTimeout
    /\ kPrompt + MaxPassTime <= AckBy /\ kPrompt + kFallbackPoll <= AckBy /\ AckBy <= SendBy
    /\ heartbeatInterval + MaxPassTime <= SendBy
    /\ kPrompt + SendBy + 2 * MaxPassTime <= liveness
    /\ SendBy + MaxPassTime <= liveness
    /\ kPrompt + MaxPassTime <= liveness
    /\ NotOwed = -1
    BY LimitsLemma, HubIsPrompt DEF PromptAssumption, AckBy, SendBy, NotOwed

\* What the steps of a link preserve of it.
Numbers ==
    /\ TimerTypes /\ HbAge \in Nat /\ RxAge \in Nat /\ silence \in Nat /\ wait \in Nat
    /\ passTime \in Nat /\ passTime <= MaxPassTime
LEMMA NumbersLemma == TimersInv => Numbers
    BY AgesLemma, LimitsLemma DEF TimersInv, TimerTypes, Numbers

LEMMA PromptUnlinked ==
    ASSUME TimersInv', ~Linked'
    PROVE  PromptInv'
<1>1. rxFrameStartedAt' = 0 /\ owed' = -1 /\ link' \notin {"Handshake", "Active"}
    BY PromptLemma DEF TimersInv, UnlinkedInv, Linked
<1> QED
    BY <1>1, PromptLemma
    DEF PromptInv, Fallback, PromptFrame, PromptHandshake, PromptRest, PromptAck, Linked

LEMMA PromptReads ==
    ASSUME TimersInv, TimersInv', PromptInv, ReadFrame,
           \/ ReadHandshake \/ ReadRegisterAck
           \/ ReadActive \/ ReadHeartbeatAck
    PROVE  PromptInv'
<1>1. /\ lastHeartbeatAt' = lastHeartbeatAt => HbAge' = HbAge
      /\ lastHeartbeatAt' = clock => HbAge' = 0
    BY StillLemma DEF TimersInv, ReadFrame
<1>2. /\ io = "receive" /\ io' = io /\ passTime' = passTime /\ wait' = wait
      /\ silence' = 0 /\ rxFrameStartedAt' = 0 /\ lastReceivedAt' = clock
      /\ inbox \in {"frame", "ack"} /\ inbox' = "none" /\ late' = late
    BY DEF ReadFrame, ioVars, FrameComplete
<1>3. Numbers
    BY NumbersLemma
<1>4. CASE ReadHandshake
  <2>1. link' = "Handshake" /\ owed' = 0
    BY <1>4 DEF ReadHandshake, Asks
  <2> QED
    BY <1>2, <2>1, PromptLemma
    DEF PromptInv, Fallback, PromptFrame, PromptHandshake, PromptRest, PromptAck
<1>5. CASE ReadRegisterAck
  <2>1. link' = "Active" /\ owed' = -1 /\ HbAge' = 0 /\ heartbeatOutstanding' = FALSE
    BY <1>1, <1>5, PromptLemma DEF ReadRegisterAck, Answered
  <2> QED
    BY <1>2, <1>3, <2>1, PromptLemma
    DEF PromptInv, Fallback, PromptFrame, PromptHandshake, PromptRest, PromptAck, Numbers
<1>6. CASE ReadActive
  <2>1. /\ link = "Active" /\ link' = "Active" /\ owed' = owed /\ inbox = "frame"
        /\ heartbeatOutstanding' = heartbeatOutstanding /\ HbAge' = HbAge
    BY <1>1, <1>6 DEF ReadActive
  <2> QED
    BY <1>2, <1>3, <2>1, PromptLemma
    DEF PromptInv, Fallback, PromptFrame, PromptHandshake, PromptRest, PromptAck, Numbers
<1>7. CASE ReadHeartbeatAck
  <2>1. /\ link = "Active" /\ link' = "Active" /\ owed' = owed /\ inbox = "ack"
        /\ heartbeatOutstanding' = FALSE /\ HbAge' = HbAge
    BY <1>1, <1>7 DEF ReadHeartbeatAck
  <2>2. heartbeatOutstanding /\ owed = NotOwed
    BY <2>1 DEF TimersInv, ActiveInv
  <2>3. ~late => HbAge <= AckBy + passTime
    BY <1>2, <2>1, <2>2 DEF PromptInv, PromptAck
  <2>4. ~late => HbAge <= SendBy + passTime
    BY <1>3, <2>3, PromptLemma DEF Numbers
  <2> QED
    BY <1>2, <1>3, <2>1, <2>4, PromptLemma
    DEF PromptInv, Fallback, PromptFrame, PromptHandshake, PromptRest, PromptAck, Numbers
<1> QED
    BY <1>4, <1>5, <1>6, <1>7

LEMMA PromptReadPart ==
    ASSUME TimersInv, TimersInv', PromptInv, ReadPart
    PROVE  PromptInv'
<1>1. /\ HbAge' = HbAge
      /\ rxFrameStartedAt' = clock => RxAge' = 0
    BY StillLemma DEF TimersInv, ReadPart
<1>2. /\ io = "receive" /\ io' = io /\ passTime' = passTime /\ wait' = wait
      /\ UNCHANGED <<silence, owed, late, link, heartbeatOutstanding>>
      /\ inbox = "part" /\ rxFrameStartedAt = 0 => rxFrameStartedAt' = clock
    BY DEF ReadPart, ioVars
<1>3. ~late => PromptFrame'
    BY <1>1, PromptLemma DEF ReadPart, PromptInv, PromptFrame
<1> QED
    BY <1>1, <1>2, <1>3
    DEF PromptInv, Fallback, PromptHandshake, PromptRest, PromptAck

\* A pass reaches the checks with everything read, so that the Hub owes what it owed.
LEMMA PromptChecks ==
    ASSUME TimersInv, TimersInv', PromptInv, Linked',
           EndReceive \/ CheckHandshake \/ FlushResults
               \/ CheckHeartbeat
    PROVE  PromptInv'
<1>0. ~disconnectAndBackoff
    BY DEF disconnectAndBackoff, Linked
<1>1. /\ UNCHANGED <<clock, wait, passTime, link, lastReceivedAt, lastHeartbeatAt, inbox, owed,
                     linkStateStartedAt, heartbeatOutstanding, rxFrameStartedAt, silence, late>>
      /\ io' # "asleep" /\ io # "asleep"
      /\ io \in {"check", "heartbeat"} \/ (io = "receive" /\ inbox = "none")
      /\ io' = "check" => io = "receive" /\ inbox = "none" /\ now' = clock
      /\ io' \in {"check", "heartbeat", "send", "ports", "compute"}
    BY <1>0 DEF EndReceive, CheckHandshake, FlushResults,
       CheckHeartbeat, sessionVars, hubVars, Goes, Refreshed
<1>2. HbAge' = HbAge /\ RxAge' = RxAge
    BY <1>1, StillLemma DEF TimersInv
<1>3. Numbers
    BY NumbersLemma
<1>4. ~late => PromptFrame' /\ owed' <= kPrompt
    BY <1>1, <1>2 DEF PromptInv, PromptFrame
<1>5. ~late => PromptHandshake'
  <2> SUFFICES ASSUME ~late, link' = "Handshake", io' = "check"
               PROVE  minus(now', linkStateStartedAt') <= kPrompt
    BY DEF PromptHandshake, minus
  <2>1. owed = silence /\ silence = RecvAge /\ lastReceivedAt = linkStateStartedAt
    BY <1>1 DEF TimersInv, HandshakeInv, SilenceInv, Linked
  <2>2. minus(now', linkStateStartedAt') = RecvAge
    BY <1>1, <2>1 DEF RecvAge, Age
  <2> QED
    BY <2>1, <2>2 DEF PromptInv
<1>6. ~late => PromptRest'
    BY <1>1, <1>2 DEF PromptInv, PromptRest
<1>7. ~late => PromptAck'
  <2> SUFFICES ASSUME ~late, link = "Active", heartbeatOutstanding
               PROVE  /\ silence <= HbAge + SendBy + MaxPassTime
                      /\ HbAge <= kPrompt + passTime
    BY <1>1, <1>2 DEF PromptAck
  <2>1. silence <= HbAge + SendBy + MaxPassTime
    BY DEF PromptInv, PromptAck
  <2>2. CASE io \in {"check", "heartbeat"}
    BY <2>1, <2>2 DEF PromptInv, PromptAck
  <2>3. CASE io = "receive" /\ inbox = "none"
    <3>1. owed = HbAge
      BY <2>3 DEF TimersInv, ActiveInv
    <3> QED
      BY <1>3, <2>1, <3>1, PromptLemma DEF PromptInv, Numbers
  <2> QED
    BY <1>1, <2>2, <2>3
<1> QED
    BY <1>1, <1>4, <1>5, <1>6, <1>7 DEF PromptInv, Fallback

LEMMA PromptSendHeartbeat ==
    ASSUME TimersInv, TimersInv', PromptInv, Linked', SendHeartbeat
    PROVE  PromptInv'
<1>0. ~disconnectAndBackoff
    BY DEF disconnectAndBackoff, Linked
<1>1. /\ io = "send" /\ io' = "ports" /\ lastHeartbeatAt' = clock
      /\ heartbeatOutstanding' = TRUE /\ owed' = 0
      /\ UNCHANGED <<clock, passTime, link, linkStateStartedAt, rxFrameStartedAt, inbox,
                     silence, late>>
    BY <1>0 DEF SendHeartbeat, Goes, Asks
<1>2. HbAge' = 0 /\ RxAge' = RxAge
    BY <1>1, StillLemma DEF TimersInv
<1>3. Numbers /\ link = "Active" /\ ~heartbeatOutstanding
    BY <1>1, NumbersLemma DEF TimersInv, UnlinkedInv, HandshakeInv, ActiveInv, Linked, TimerTypes
<1>4. ~late => silence <= 0 + SendBy + MaxPassTime
  <2>1. ~late => silence <= HbAge /\ HbAge <= SendBy + passTime
    BY <1>1, <1>3 DEF PromptInv, PromptRest
  <2> QED
    BY <1>3, <2>1, PromptLemma DEF Numbers
<1>5. ~late => PromptAck'
    BY <1>1, <1>2, <1>3, <1>4, PromptLemma DEF PromptAck, Numbers
<1> QED
    BY <1>1, <1>2, <1>3, <1>5, PromptLemma
    DEF PromptInv, Fallback, PromptFrame, PromptHandshake, PromptRest

LEMMA PromptPorts ==
    ASSUME TimersInv, TimersInv', PromptInv, Linked', FlushPorts \/ Leaves
    PROVE  PromptInv'
<1>0. ~disconnectAndBackoff
    BY DEF disconnectAndBackoff, Linked
<1>1. /\ UNCHANGED <<clock, wait, passTime, link, lastReceivedAt, lastHeartbeatAt, inbox, owed,
                     linkStateStartedAt, heartbeatOutstanding, rxFrameStartedAt, silence, late>>
      /\ io \in {"ports", "compute"} /\ io' = "compute"
    BY <1>0 DEF FlushPorts, Leaves, Goes, ioVars, hubVars
<1>2. HbAge' = HbAge /\ RxAge' = RxAge
    BY <1>1, StillLemma DEF TimersInv
<1> QED
    BY <1>1, <1>2
    DEF PromptInv, Fallback, PromptFrame, PromptHandshake, PromptRest, PromptAck

LEMMA PromptWake ==
    ASSUME TimersInv, TimersInv', PromptInv, Linked', Wake \/ LinkLoop
    PROVE  PromptInv'
<1>1. /\ io' \in {"pass", "receive"} /\ link' = link
      /\ \/ io = "pass" /\ passTime' = passTime
         \/ io = "asleep" /\ passTime' = 0
      /\ UNCHANGED <<clock, lastHeartbeatAt, inbox, owed,
                     heartbeatOutstanding, rxFrameStartedAt, silence, late>>
  <2>1. CASE Wake
    BY <2>1 DEF Wake, sessionVars, hubVars
  <2>2. CASE LinkLoop
    BY <2>2 DEF LinkLoop, Connected, sessionVars, hubVars
  <2> QED
    BY <2>1, <2>2
<1>2. HbAge' = HbAge /\ RxAge' = RxAge
    BY <1>1, StillLemma DEF TimersInv
<1>3. Numbers
    BY NumbersLemma
<1>4. ~late => PromptRest'
  <2> SUFFICES ASSUME ~late, link = "Active", ~heartbeatOutstanding
               PROVE  silence <= HbAge /\ HbAge <= SendBy + passTime'
    BY <1>1, <1>2 DEF PromptRest
  <2>1. silence <= HbAge
    BY DEF PromptInv, PromptRest
  <2>2. CASE io = "pass"
    BY <1>1, <2>1, <2>2 DEF PromptInv, PromptRest
  <2>3. CASE io = "asleep"
    <3>1. HbAge + wait <= heartbeatInterval + MaxPassTime
      BY <2>3 DEF PromptInv, PromptRest
    <3> QED
      BY <1>1, <1>3, <2>1, <2>3, <3>1, PromptLemma DEF Numbers
  <2> QED
    BY <1>1, <2>2, <2>3
<1>5. ~late => PromptAck'
  <2> SUFFICES ASSUME ~late, link = "Active", heartbeatOutstanding
               PROVE  /\ silence <= HbAge + SendBy + MaxPassTime
                      /\ owed = NotOwed => HbAge <= AckBy + passTime'
    BY <1>1, <1>2 DEF PromptAck
  <2>1. silence <= HbAge + SendBy + MaxPassTime
    BY DEF PromptInv, PromptAck
  <2>2. CASE io = "pass"
    BY <1>1, <2>1, <2>2 DEF PromptInv, PromptAck
  <2>3. CASE io = "asleep"
    <3>1. owed = NotOwed => HbAge + wait <= AckBy
      BY <2>3 DEF PromptInv, PromptAck
    <3>2. owed = NotOwed => HbAge <= AckBy
      BY <1>3, <3>1, PromptLemma DEF Numbers
    <3>3. passTime' = 0
      BY <1>1, <2>3
    <3> QED
      BY <1>3, <2>1, <3>2, <3>3, PromptLemma DEF Numbers
  <2> QED
    BY <1>1, <2>2, <2>3
<1> QED
    BY <1>1, <1>2, <1>4, <1>5
    DEF PromptInv, Fallback, PromptFrame, PromptHandshake

LEMMA PromptConnects ==
    ASSUME TimersInv, TimersInv', PromptInv, Linked', AttemptConnection
    PROVE  PromptInv'
<1>1. /\ link = "Backoff" /\ link' = "Handshake" /\ io' = "compute" /\ owed' = 0
      /\ rxFrameStartedAt' = rxFrameStartedAt
    BY DEF AttemptConnection, disconnectAndBackoff, Linked, Goes,
           Asks
<1>2. rxFrameStartedAt = 0
    BY <1>1 DEF TimersInv, UnlinkedInv, Linked
<1> QED
    BY <1>1, <1>2, PromptLemma
    DEF PromptInv, Fallback, PromptFrame, PromptHandshake, PromptRest, PromptAck

\* The task sleeps no longer than to the next heartbeat, and not at all when it can read.
LEMMA PromptCompute ==
    ASSUME TimersInv, TimersInv', PromptInv, Linked', Compute
    PROVE  PromptInv'
<1>1. /\ io = "compute" /\ io' = "asleep" /\ now' = 0
      /\ UNCHANGED <<clock, link, eventFd, lastHeartbeatAt, lastReceivedAt, inbox, owed,
                     passTime, heartbeatOutstanding, rxFrameStartedAt, silence, late>>
    BY DEF Compute, sessionVars, hubVars, wifiVars
<1>2. HbAge' = HbAge /\ RxAge' = RxAge
    BY <1>1, StillLemma DEF TimersInv
<1>3. /\ Numbers /\ wait' \in Nat /\ link \in {"Handshake", "Active"}
      /\ \A w \in Waits : wait' <= w
    BY <1>1, NumbersLemma, WaitLemma DEF Numbers, Linked
<1>4. Fallback'
  <2>1. ~eventFd => kFallbackPoll \in Waits
    BY <1>3 DEF Waits
  <2> QED
    BY <1>1, <1>3, <2>1 DEF Fallback
<1>5. ~late => PromptRest'
  <2> SUFFICES ASSUME ~late, link = "Active", ~heartbeatOutstanding
               PROVE  /\ silence <= HbAge
                      /\ HbAge + wait' <= heartbeatInterval + MaxPassTime
    BY <1>1, <1>2 DEF PromptRest
  <2>1. silence <= HbAge
    BY DEF PromptInv, PromptRest
  <2>2. lastHeartbeatAt + heartbeatInterval \in StateDeadlines
    BY DEF StateDeadlines, HeartbeatDeadlines
  <2>3. wait' <= millisecondsUntil(clock,
                                          (lastHeartbeatAt + heartbeatInterval) % ClockSize)
    BY <1>3, <2>2 DEF Waits
  <2>4. HbAge <= heartbeatInterval + passTime
    BY <1>1 DEF TimersInv, AgesInv
  <2>5. HbAge <= heartbeatInterval + MaxPassTime
    BY <1>3, <2>4, PromptLemma DEF Numbers
  <2>6. HbAge = minus(clock, lastHeartbeatAt)
    BY DEF HbAge, Age
  <2>7. wait' <= IF HbAge >= heartbeatInterval THEN 0 ELSE heartbeatInterval - HbAge
    BY <1>3, <2>3, <2>5, <2>6, UntilLemma, LimitsLemma DEF Numbers, TimerTypes
  <2>8. HbAge + wait' <= heartbeatInterval + MaxPassTime
    <3> DEFINE slept == wait'
    <3>1. /\ slept \in Nat
          /\ slept <= IF HbAge >= heartbeatInterval THEN 0 ELSE heartbeatInterval - HbAge
      BY <1>3, <2>7
    <3> HIDE DEF slept
    <3>2. HbAge + slept <= heartbeatInterval + MaxPassTime
      BY <1>3, <2>5, <3>1, PromptLemma DEF Numbers
    <3> QED
      BY <3>2 DEF slept
  <2> QED
    BY <2>1, <2>8
<1>6. ~late => PromptAck'
  <2> SUFFICES ASSUME ~late, link = "Active", heartbeatOutstanding
               PROVE  /\ silence <= HbAge + SendBy + MaxPassTime
                      /\ owed = NotOwed => HbAge + wait' <= AckBy
    BY <1>1, <1>2 DEF PromptAck
  <2>1. silence <= HbAge + SendBy + MaxPassTime /\ HbAge <= kPrompt + passTime
    BY <1>1 DEF PromptInv, PromptAck
  <2>2. owed = NotOwed => inbox = "ack"
    BY DEF TimersInv, ActiveInv
  <2>3. inbox # "none" => wait' = 0
    <3>1. inbox # "none" => 0 \in Waits
      BY <1>3 DEF Waits
    <3> QED
      BY <1>3, <3>1
  <2>4. wait' = 0 => HbAge + wait' <= AckBy
    BY <1>3, <2>1, PromptLemma DEF Numbers
  <2> QED
    BY <2>1, <2>2, <2>3, <2>4
<1> QED
    BY <1>1, <1>2, <1>4, <1>5, <1>6 DEF PromptInv, PromptFrame, PromptHandshake

LEMMA PromptSends ==
    ASSUME TimersInv, TimersInv', PromptInv, HubSends
    PROVE  PromptInv'
<1>1. /\ inbox = "none" /\ inbox' # "none"
      /\ wait' = (IF io = "asleep" /\ eventFd THEN 0 ELSE wait)
      /\ owed' = owed \/ owed' = NotOwed
      /\ late' = (late \/ (rxFrameStartedAt # 0 /\ inbox' = "part"))
      /\ UNCHANGED <<clock, now, io, passTime, link, eventFd, lastReceivedAt, lastHeartbeatAt,
                     linkStateStartedAt, heartbeatOutstanding, rxFrameStartedAt, silence>>
    BY DEF HubSends, sessionVars, wifiVars, Answered
<1>2. HbAge' = HbAge /\ RxAge' = RxAge
    BY <1>1, StillLemma DEF TimersInv
<1>3. Numbers /\ wait' \in Nat /\ wait' <= wait
    BY <1>1, NumbersLemma DEF Numbers
<1>4. Fallback'
    BY <1>1, PromptLemma DEF PromptInv, Fallback, Linked
<1>5. ~late' => ~late /\ owed' <= kPrompt /\ PromptFrame'
  <2>1. ~late' => ~late /\ ~(rxFrameStartedAt # 0 /\ inbox' = "part")
    BY <1>1, Zenon
  <2>2. ~late => owed' <= kPrompt
    BY <1>1, PromptLemma DEF PromptInv
  <2> QED
    BY <1>1, <2>1, <2>2 DEF PromptFrame
<1>6. ~late' => PromptHandshake'
    BY <1>1, <1>5 DEF PromptInv, PromptHandshake, minus
<1>7. ~late' => PromptRest'
  <2> SUFFICES ASSUME ~late, link = "Active", ~heartbeatOutstanding
               PROVE  /\ silence <= HbAge
                      /\ io = "asleep" => HbAge + wait' <= heartbeatInterval + MaxPassTime
                      /\ io # "asleep" => HbAge <= SendBy + passTime
    BY <1>1, <1>2, <1>5 DEF PromptRest
  <2>1. /\ silence <= HbAge
        /\ io = "asleep" => HbAge + wait <= heartbeatInterval + MaxPassTime
        /\ io # "asleep" => HbAge <= SendBy + passTime
    BY DEF PromptInv, PromptRest
  <2> DEFINE slept == wait'
  <2>2. slept \in Nat /\ slept <= wait
    BY <1>3
  <2> HIDE DEF slept
  <2>3. io = "asleep" => HbAge + slept <= heartbeatInterval + MaxPassTime
    BY <1>3, <2>1, <2>2, PromptLemma DEF Numbers
  <2> QED
    BY <2>1, <2>3 DEF slept
<1>8. ~late' => PromptAck'
  <2> SUFFICES ASSUME ~late, link = "Active", heartbeatOutstanding
               PROVE  /\ silence <= HbAge + SendBy + MaxPassTime
                      /\ io = "asleep" /\ owed' = NotOwed => HbAge + wait' <= AckBy
                      /\ io \in {"pass", "receive"} /\ owed' = NotOwed
                             => HbAge <= AckBy + passTime
                      /\ io \in {"check", "heartbeat", "send", "ports", "compute"}
                             => HbAge <= kPrompt + passTime
    BY <1>1, <1>2, <1>5 DEF PromptAck
  <2>1. owed = HbAge
    BY <1>1 DEF TimersInv, ActiveInv
  <2>2. HbAge <= kPrompt
    BY <2>1 DEF PromptInv
  <2>3. io = "asleep" => HbAge + wait' <= AckBy
    <3>1. io = "asleep" => wait' <= kFallbackPoll
      BY <1>1, <1>3, PromptLemma DEF PromptInv, Fallback, Linked
    <3> DEFINE slept == wait'
    <3>2. slept \in Nat /\ (io = "asleep" => slept <= kFallbackPoll)
      BY <1>3, <3>1
    <3> HIDE DEF slept
    <3>3. io = "asleep" => HbAge + slept <= AckBy
      BY <1>3, <2>2, <3>2, PromptLemma DEF Numbers
    <3> QED
      BY <3>3 DEF slept
  <2>4. HbAge <= AckBy + passTime /\ HbAge <= kPrompt + passTime
    BY <1>3, <2>2, PromptLemma DEF Numbers
  <2>5. silence <= HbAge + SendBy + MaxPassTime
    BY DEF PromptInv, PromptAck
  <2> QED
    BY <2>3, <2>4, <2>5
<1> QED
    BY <1>4, <1>5, <1>6, <1>7, <1>8 DEF PromptInv

LEMMA PromptStation ==
    ASSUME TimersInv, PromptInv, StationEvent
    PROVE  PromptInv'
<1>1. /\ wait' = (IF handlers /\ io = "asleep" THEN 0 ELSE wait)
      /\ UNCHANGED <<clock, now, io, passTime, link, eventFd, lastHeartbeatAt, inbox, late,
                     linkStateStartedAt, heartbeatOutstanding, rxFrameStartedAt, silence, owed>>
    BY DEF StationEvent, sessionVars, hubVars
<1>2. HbAge' = HbAge /\ RxAge' = RxAge
    BY <1>1, StillLemma DEF TimersInv
<1>3. Numbers /\ wait' \in Nat /\ wait' <= wait
    BY <1>1, NumbersLemma DEF Numbers
<1>4. Fallback'
    BY <1>1, <1>3, PromptLemma DEF PromptInv, Fallback, Linked, Numbers
<1>5. ~late => PromptHandshake' /\ PromptFrame' /\ owed' <= kPrompt
    BY <1>1, <1>2 DEF PromptInv, PromptHandshake, PromptFrame, minus
<1>6. \A bound \in Nat : HbAge + wait <= bound => HbAge + wait' <= bound
  <2> DEFINE slept == wait'
  <2>1. slept \in Nat /\ slept <= wait
    BY <1>3
  <2> HIDE DEF slept
  <2>2. \A bound \in Nat : HbAge + wait <= bound => HbAge + slept <= bound
    BY <1>3, <2>1 DEF Numbers
  <2> QED
    BY <2>2 DEF slept
<1>7. ~late => PromptRest' /\ PromptAck'
  <2>1. heartbeatInterval + MaxPassTime \in Nat /\ AckBy \in Nat
    BY PromptLemma
  <2> QED
    BY <1>1, <1>2, <1>6, <2>1 DEF PromptInv, PromptRest, PromptAck
<1> QED
    BY <1>1, <1>4, <1>5, <1>7 DEF PromptInv

LEMMA PromptTick ==
    ASSUME TimersInv, TimersInv', PromptInv, Linked, Tick
    PROVE  PromptInv'
<1>1. /\ clock' = (clock + 1) % ClockSize
      /\ silence' = silence + 1
      /\ IF io = "asleep" THEN wait > 0 /\ wait' = wait - 1 /\ passTime' = passTime
                          ELSE passTime < MaxPassTime /\ passTime' = passTime + 1
      /\ ~late' => ~late /\ ~(owed' > kPrompt)
      /\ UNCHANGED <<now, io, link, eventFd, lastReceivedAt, lastHeartbeatAt, inbox,
                     linkStateStartedAt, heartbeatOutstanding, rxFrameStartedAt>>
    BY DEF Tick, sessionVars, wifiVars, Linked
<1>2. Numbers /\ Numbers' /\ owed' \in Int
  <2>1. (TimersInv => Numbers)'
    BY NumbersLemma, PTL
  <2> QED
    BY <2>1, NumbersLemma, PromptLemma DEF TimersInv, TimerTypes
<1>3. /\ link = "Active" => HbAge' = HbAge + 1
      /\ owed' = NotOwed => owed = NotOwed
  <2>1. link = "Active" => HbAge + 1 < ClockSize
    <3>1. link = "Active" => HbAge <= liveness + 2 * MaxPassTime
      BY <1>2, PromptLemma DEF TimersInv, AgesInv, Timely, Numbers
    <3> QED
      BY <1>2, <3>1, LimitsLemma DEF Numbers
  <2>2. link = "Active" => HbAge' = HbAge + 1
    BY <1>1, <2>1, LaterLemma DEF TimersInv
  <2>3. owed' = NotOwed => owed = NotOwed
    BY PromptLemma DEF Tick, Older, TimersInv, TimerTypes
  <2> QED
    BY <2>2, <2>3
<1>4. Fallback'
    BY <1>1, <1>2, PromptLemma DEF PromptInv, Fallback, Linked, Numbers
<1>5. ~late' => owed' <= kPrompt
    BY <1>1, <1>2, PromptLemma
<1>6. ~late' => PromptFrame'
  <2> SUFFICES ASSUME ~late', rxFrameStartedAt' # 0
               PROVE  inbox' # "part" /\ (inbox' = "none" => RxAge' <= kPrompt)
    BY DEF PromptFrame
  <2>1. inbox' = "none" => ~(minus(clock', rxFrameStartedAt) > kPrompt)
    BY <1>1 DEF Tick
  <2>2. RxAge' = minus(clock', rxFrameStartedAt)
    BY <1>1 DEF RxAge, Age, minus
  <2>3. inbox' # "part"
    BY <1>1 DEF PromptInv, PromptFrame
  <2> QED
    BY <1>2, <2>1, <2>2, <2>3, PromptLemma DEF Numbers
<1>7. ~late' => PromptHandshake'
    BY <1>1 DEF PromptInv, PromptHandshake, minus
<1>8. ~late' => PromptRest'
  <2> SUFFICES ASSUME ~late, link = "Active", ~heartbeatOutstanding
               PROVE  /\ silence' <= HbAge'
                      /\ io = "asleep" => HbAge' + wait' <= heartbeatInterval + MaxPassTime
                      /\ io # "asleep" => HbAge' <= SendBy + passTime'
    BY <1>1 DEF PromptRest
  <2>1. /\ silence <= HbAge
        /\ io = "asleep" => HbAge + wait <= heartbeatInterval + MaxPassTime
        /\ io # "asleep" => HbAge <= SendBy + passTime
    BY DEF PromptInv, PromptRest
  <2>2. silence + 1 <= HbAge + 1 /\ (io # "asleep" => HbAge + 1 <= SendBy + (passTime + 1))
    BY <1>2, <2>1, PromptLemma DEF Numbers
  <2>3. io = "asleep" => HbAge' + wait' = HbAge + wait
    BY <1>1, <1>2, <1>3 DEF Numbers
  <2> QED
    BY <1>1, <1>3, <2>1, <2>2, <2>3
<1>9. ~late' => PromptAck'
  <2> SUFFICES ASSUME ~late, link = "Active", heartbeatOutstanding
               PROVE  /\ silence' <= HbAge' + SendBy + MaxPassTime
                      /\ io = "asleep" /\ owed' = NotOwed => HbAge' + wait' <= AckBy
                      /\ io \in {"pass", "receive"} /\ owed' = NotOwed
                             => HbAge' <= AckBy + passTime'
                      /\ io \in {"check", "heartbeat", "send", "ports", "compute"}
                             => HbAge' <= kPrompt + passTime'
    BY <1>1 DEF PromptAck
  <2>1. /\ silence <= HbAge + SendBy + MaxPassTime
        /\ io = "asleep" /\ owed = NotOwed => HbAge + wait <= AckBy
        /\ io \in {"pass", "receive"} /\ owed = NotOwed => HbAge <= AckBy + passTime
        /\ io \in {"check", "heartbeat", "send", "ports", "compute"} => HbAge <= kPrompt + passTime
    BY DEF PromptInv, PromptAck
  <2>2. silence' <= HbAge' + SendBy + MaxPassTime
    BY <1>1, <1>2, <1>3, <2>1, PromptLemma DEF Numbers
  <2>3. CASE io = "asleep"
    <3>1. HbAge' + wait' = HbAge + wait
      BY <1>1, <1>2, <1>3, <2>3 DEF Numbers
    <3> QED
      BY <1>3, <2>1, <2>2, <2>3, <3>1
  <2>4. CASE io # "asleep"
    <3>1. /\ io \in {"pass", "receive"} /\ owed = NotOwed
                 => HbAge + 1 <= AckBy + (passTime + 1)
          /\ io \in {"check", "heartbeat", "send", "ports", "compute"}
                 => HbAge + 1 <= kPrompt + (passTime + 1)
      BY <1>2, <2>1, PromptLemma DEF Numbers
    <3>2. HbAge' = HbAge + 1 /\ passTime' = passTime + 1
      BY <1>1, <1>3, <2>4
    <3> QED
      BY <1>3, <2>2, <2>4, <3>1, <3>2
  <2> QED
    BY <2>3, <2>4
<1> QED
    BY <1>4, <1>5, <1>6, <1>7, <1>8, <1>9, <1>1 DEF PromptInv

LEMMA PromptStep == TimersInv /\ TimersInv' /\ PromptInv /\ TimersNext => PromptInv'
<1> SUFFICES ASSUME TimersInv, TimersInv', PromptInv, TimersNext PROVE PromptInv'
    OBVIOUS
<1>1. CASE ~Linked'
    BY <1>1, PromptUnlinked
<1>2. CASE Linked'
  <2>1. CASE Rejoin \/ Joined \/ LinkLost \/ BackoffGoesOn
                 \/ SocketClosed
    BY <1>2, <2>1 DEF Rejoin, Joined, LinkLost, BackoffGoesOn,
       SocketClosed, disconnectAndBackoff, Linked
  <2>2. CASE \/ ReadHandshake \/ ReadRegisterAck
             \/ ReadActive \/ ReadHeartbeatAck
    BY <2>2, PromptReads DEF ReadHandshake, ReadRegisterAck, ReadActive,
                             ReadHeartbeatAck
  <2>3. CASE Tick
    BY <1>2, <2>3, PromptTick DEF Tick, Linked
  <2> QED
    BY <1>2, <2>1, <2>2, <2>3, PromptReadPart, PromptChecks, PromptSendHeartbeat, PromptPorts,
       PromptWake, PromptConnects, PromptCompute, PromptSends, PromptStation
    DEF TimersNext, Pass
<1> QED
    BY <1>1, <1>2

LEMMA PromptAlways == MCSpec => []PromptInv
<1>1. PromptInv /\ UNCHANGED timerVars => PromptInv'
    BY DEF timerVars, PromptInv, Fallback, PromptFrame, PromptHandshake, PromptRest, PromptAck,
           Linked, Age, HbAge, RxAge, minus
<1>2. TimersInv /\ TimersInv' /\ PromptInv /\ [MCNext]_<<part, vars, timerVars>> => PromptInv'
    BY <1>1, PromptStep DEF MCNext
<1>3. MCInit => PromptInv
  <2> SUFFICES ASSUME TimersInit PROVE PromptInv
    BY DEF MCInit
  <2> QED
    BY PromptLemma DEF TimersInit, PromptInv, Fallback, PromptFrame, PromptHandshake,
       PromptRest, PromptAck, Linked
<1> QED
    BY <1>2, <1>3, TimersAlways, PTL DEF MCSpec

\* A Hub that answers a message within kPrompt, and ends a frame it has begun within it,
\* is never given up: no handshake, frame, heartbeat or silence of its connection is
\* found past its limit.
THEOREM PromptHubStays == MCSpec => []PromptHubIsKept
<1>1. TimersInv /\ PromptInv => PromptHubIsKept
  <2> SUFFICES ASSUME TimersInv, PromptInv, ~late PROVE PromptHubIsKept
    BY DEF PromptHubIsKept
  <2>1. Numbers
    BY NumbersLemma
  <2>2. ~(io = "receive" /\ inbox = "none" /\ FrameOverdue)
    BY <2>1, PromptLemma
    DEF PromptInv, PromptFrame, FrameOverdue, RxAge, Age, Numbers
  <2>3. ~(io = "check" /\ HandshakeOverdue(now))
    <3>1. minus(now, linkStateStartedAt) \in Nat
      BY MinusLemma DEF TimersInv, TimerTypes
    <3> QED
      BY <3>1, PromptLemma DEF PromptInv, PromptHandshake, HandshakeOverdue
  <2>4. ~(io = "heartbeat" /\ (AckOverdue(now) \/ HubSilent(now)))
    <3> SUFFICES ASSUME io = "heartbeat", link = "Active"
                 PROVE  ~AckOverdue(now) /\ ~HubSilent(now)
      BY DEF AckOverdue, HubSilent
    <3>1. /\ silence = RecvAge /\ NowAge <= passTime /\ NowAge <= silence /\ NowAge <= HbAge
      BY DEF TimersInv, SilenceInv, NowInv, Linked
    <3>2. /\ minus(now, lastReceivedAt) = silence - NowAge
          /\ minus(now, lastHeartbeatAt) = HbAge - NowAge
          /\ NowAge \in Nat
      BY <2>1, <3>1, ComparedLemma, AgesLemma DEF Numbers, RecvAge, HbAge, TimerTypes
    <3>3. heartbeatOutstanding => /\ HbAge <= kPrompt + passTime
                                  /\ silence <= HbAge + SendBy + MaxPassTime
      BY DEF PromptInv, PromptAck
    <3>4. ~heartbeatOutstanding => silence <= HbAge /\ HbAge <= SendBy + passTime
      BY DEF PromptInv, PromptRest
    <3>5. heartbeatOutstanding => HbAge - NowAge <= liveness
      BY <2>1, <3>2, <3>3, PromptLemma DEF Numbers
    <3>6. silence - NowAge <= liveness
      BY <2>1, <3>2, <3>3, <3>4, PromptLemma DEF Numbers
    <3> QED
      BY <2>1, <3>2, <3>5, <3>6, PromptLemma DEF AckOverdue, HubSilent, Numbers
  <2> QED
    BY <2>2, <2>3, <2>4 DEF PromptHubIsKept
<1> QED
    BY <1>1, TimersAlways, PromptAlways, PTL
--------------------------------------------------------------------------------
\* A sleep of no length has work to do at once, or in a millisecond.
LEMMA SpinLemma ==
    ASSUME TimersInv, Compute, wait' = 0, link # "Joining"
    PROVE  LinkDue(clock) \/ LinkDue((clock + 1) % ClockSize)
<1> DEFINE next == (clock + 1) % ClockSize
<1>1. /\ Numbers /\ io = "compute" /\ 0 \in Waits
      /\ clock \in Clock /\ link \in {"Backoff", "Handshake", "Active"}
    BY NumbersLemma, WaitLemma DEF Compute, Numbers, TimerTypes
<1>2. \/ \E d \in FrameDeadlines \cup StateDeadlines :
             millisecondsUntil(clock, d % ClockSize) = 0
      \/ inbox # "none" \/ "tools" \in toSend
    BY <1>1, LimitsLemma DEF Waits
<1>3. ASSUME NEW t \in Clock, NEW limit \in Nat, limit <= ClockSize \div 2,
             limit + 2 * MaxPassTime + 1 < ClockSize, Age(t) <= limit + passTime,
             millisecondsUntil(clock, (t + limit) % ClockSize) = 0
      PROVE  /\ minus(clock, t) >= limit
             /\ minus(next, t) > limit
  <2>1. Age(t) \in Nat /\ Age(t) = minus(clock, t)
    BY <1>1, MinusLemma DEF Age
  <2>2. Age(t) <= limit + MaxPassTime /\ Age(t) + 1 < ClockSize
    BY <1>1, <1>3, <2>1, LimitsLemma DEF Numbers
  <2>3. Age(t) >= limit
    <3>1. 0 = IF Age(t) >= limit THEN 0 ELSE limit - Age(t)
      BY <1>1, <1>3, <2>1, <2>2, UntilLemma
    <3> QED
      BY <1>3, <2>1, <3>1
  <2>4. minus(next, t) = Age(t) + 1
    BY <1>1, <2>1, <2>2, NextMillisecond
  <2> QED
    BY <1>3, <2>1, <2>3, <2>4
<1> HIDE DEF next
<1>4. CASE inbox # "none" \/ "tools" \in toSend
    BY <1>4 DEF LinkDue
<1>5. ASSUME NEW d \in FrameDeadlines,
             millisecondsUntil(clock, d % ClockSize) = 0
      PROVE  LinkDue(next)
  <2>1. rxFrameStartedAt # 0 /\ d = rxFrameStartedAt + kFrameTimeout
    BY <1>5 DEF FrameDeadlines
  <2>2. RxAge <= kFrameTimeout + passTime
    BY <1>1, <2>1, LimitsLemma DEF TimersInv, AgesInv, Timely, Numbers
  <2>3. minus(next, rxFrameStartedAt) > kFrameTimeout
    BY <1>1, <1>3, <1>5, <2>1, <2>2, LimitsLemma DEF Numbers, TimerTypes, RxAge
  <2> QED
    BY <2>1, <2>3 DEF LinkDue, FrameDue
<1>6. ASSUME NEW d \in StateDeadlines, link = "Backoff",
             millisecondsUntil(clock, d % ClockSize) = 0
      PROVE  LinkDue(clock)
  <2>1. d = reconnectAt /\ reconnectAt \in Clock
    BY <1>1, <1>6 DEF StateDeadlines, Numbers, TimerTypes
  <2>2. reconnectAt % ClockSize = reconnectAt
    BY <2>1, LimitsLemma DEF Clock
  <2>3. timeReached(clock, reconnectAt) \/ minus(reconnectAt, clock) = 0
    BY <1>6, <2>1, <2>2 DEF millisecondsUntil
  <2>4. minus(reconnectAt, clock) = 0 => reconnectAt = clock
    <3>1. /\ minus(reconnectAt, clock) =
                 IF reconnectAt >= clock THEN reconnectAt - clock
                                         ELSE reconnectAt - clock + ClockSize
          /\ reconnectAt \in Nat /\ clock \in Nat /\ clock < ClockSize /\ ClockSize \in Nat
      BY <1>1, <2>1, MinusLemma, ClockLemma, LimitsLemma
    <3> QED
      BY <3>1
  <2>5. timeReached(clock, clock)
    BY <1>1, MinusLemma, LimitsLemma DEF timeReached
  <2> QED
    BY <1>6, <2>3, <2>4, <2>5 DEF LinkDue
<1>7. ASSUME NEW d \in StateDeadlines, link = "Handshake",
             millisecondsUntil(clock, d % ClockSize) = 0
      PROVE  LinkDue(next)
  <2>1. d = linkStateStartedAt + kConnectTimeout
    BY <1>7 DEF StateDeadlines
  <2>2. silence = Age(linkStateStartedAt) /\ silence <= kConnectTimeout + passTime
    BY <1>1, <1>7, LimitsLemma
    DEF TimersInv, SilenceInv, HandshakeInv, Linked, RecvAge, AgesInv, Timely, Numbers
  <2>3. minus(next, linkStateStartedAt) > kConnectTimeout
    BY <1>1, <1>3, <1>7, <2>1, <2>2, LimitsLemma DEF Numbers, TimerTypes
  <2> QED
    BY <1>7, <2>3 DEF LinkDue, HandshakeOverdue
<1>8. ASSUME NEW d \in StateDeadlines, link = "Active",
             millisecondsUntil(clock, d % ClockSize) = 0
      PROVE  LinkDue(clock) \/ LinkDue(next)
  <2>1. \/ d = lastReceivedAt + liveness
        \/ heartbeatOutstanding /\ d = lastHeartbeatAt + liveness
        \/ ~heartbeatOutstanding /\ d = lastHeartbeatAt + heartbeatInterval
        \/ "ports" \in toSend /\ d = lastPortFlushAt + kPortFlush
    BY <1>8 DEF StateDeadlines, HeartbeatDeadlines, PortDeadlines
  <2>2. /\ silence = Age(lastReceivedAt) /\ HbAge = Age(lastHeartbeatAt)
        /\ silence <= liveness + passTime /\ HbAge <= liveness + passTime
        /\ ~heartbeatOutstanding => HbAge <= heartbeatInterval + passTime
    BY <1>1, <1>8, LimitsLemma
    DEF TimersInv, SilenceInv, Linked, RecvAge, HbAge, AgesInv, Timely, Numbers
  <2>3. CASE d = lastReceivedAt + liveness
    <3>1. minus(next, lastReceivedAt) > liveness
      BY <1>1, <1>3, <1>8, <2>2, <2>3, LimitsLemma DEF Numbers, TimerTypes
    <3> QED
      BY <1>8, <3>1 DEF LinkDue, HubSilent
  <2>4. CASE heartbeatOutstanding /\ d = lastHeartbeatAt + liveness
    <3>1. minus(next, lastHeartbeatAt) > liveness
      BY <1>1, <1>3, <1>8, <2>2, <2>4, LimitsLemma DEF Numbers, TimerTypes
    <3> QED
      BY <1>8, <2>4, <3>1 DEF LinkDue, AckOverdue
  <2>5. CASE ~heartbeatOutstanding /\ d = lastHeartbeatAt + heartbeatInterval
    <3>1. heartbeatInterval + 2 * MaxPassTime + 1 < ClockSize
      BY LimitsLemma
    <3>2. minus(clock, lastHeartbeatAt) >= heartbeatInterval
      BY <1>1, <1>3, <1>8, <2>2, <2>5, <3>1, LimitsLemma DEF Numbers, TimerTypes
    <3> QED
      BY <1>8, <2>5, <3>2 DEF LinkDue, HeartbeatDue
  <2>6. CASE "ports" \in toSend /\ d = lastPortFlushAt + kPortFlush
    <3>1. minus(clock, lastPortFlushAt) >= kPortFlush
      BY <1>1, <1>8, <2>6, PastLemma, LimitsLemma DEF Numbers, TimerTypes
    <3> QED
      BY <2>6, <3>1 DEF LinkDue, FlushDue
  <2> QED
    BY <2>1, <2>3, <2>4, <2>5, <2>6
<1> QED
    BY <1>1, <1>2, <1>4, <1>5, <1>6, <1>7, <1>8 DEF next

\* The only step that ends a round is the computation of its wait.
LEMMA OnlyCompute == TimersNext /\ io = "compute" /\ io' = "asleep" => Compute
<1> SUFFICES ASSUME TimersNext, io = "compute", io' = "asleep" PROVE Compute
    OBVIOUS
<1>1. ~StationEvent /\ ~HubSends /\ ~Tick
    BY DEF StationEvent, HubSends, Tick
<1>2. /\ ~Rejoin /\ ~Joined /\ ~LinkLost /\ ~BackoffGoesOn
      /\ ~AttemptConnection /\ ~LinkLoop /\ ~SocketClosed
    BY DEF Rejoin, Joined, LinkLost, BackoffGoesOn,
           AttemptConnection, LinkLoop, SocketClosed, Connected
<1>3. /\ ~ReadPart /\ ~ReadHandshake /\ ~ReadRegisterAck
      /\ ~ReadActive /\ ~ReadHeartbeatAck /\ ~EndReceive
    BY DEF ReadPart, ReadHandshake, ReadRegisterAck, ReadActive,
           ReadHeartbeatAck, EndReceive, ReadFrame
<1>4. /\ ~CheckHandshake /\ ~FlushResults /\ ~CheckHeartbeat
      /\ ~SendHeartbeat /\ ~FlushPorts /\ ~Leaves /\ ~Wake
    BY DEF CheckHandshake, FlushResults, CheckHeartbeat,
           SendHeartbeat, FlushPorts, Leaves, ioVars, Wake
<1> QED
    BY <1>1, <1>2, <1>3, <1>4 DEF TimersNext, Pass

\* The task of a link goes round without a wait only when a pass has something to do now
\* or, since a deadline that is reached may still have to be passed, in a millisecond.
THEOREM LinkSleeps == MCSpec => LinkWaits
<1>1. TimersInv /\ [MCNext]_<<part, vars, timerVars>>
      => [Spins /\ link # "Joining" => Soon(LinkDue)]_(timerVars)
  <2> SUFFICES ASSUME TimersInv, [MCNext]_<<part, vars, timerVars>>,
                      io = "compute", io' = "asleep", wait' = 0, link # "Joining"
               PROVE  LinkDue(clock) \/ LinkDue((clock + 1) % ClockSize)
    BY DEF Spins, Soon
  <2>1. TimersNext
    BY DEF MCNext, timerVars
  <2> QED
    BY <2>1, OnlyCompute, SpinLemma
<1> QED
    BY <1>1, TimersAlways, PTL DEF MCSpec, LinkWaits
================================================================================
