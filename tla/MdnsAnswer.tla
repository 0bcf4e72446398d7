------------------------------- MODULE MdnsAnswer -------------------------------
(***************************************************************************)
(* How the device finds a Hub by its .local name (CompactDns.cpp): the host *)
(* is normalised, a query is encoded and sent, and each datagram received   *)
(* is searched for an address record of that host by parseMdnsAnswer, which *)
(* walks compressed names with skipName and nameEquals.  A walk takes one   *)
(* step per round of its loop.                                              *)
(*                                                                          *)
(* Bytes are numbers, read as a length, a pointer or a letter as the code   *)
(* comes upon them.  The layout is the code's with its constants scaled     *)
(* down: what a record holds besides its name is one byte for type, class   *)
(* and TTL (kTypeA: an address of class IN that lives), one for the length  *)
(* of its data, and the data.  The flags and counts of the header are       *)
(* chosen apart from its bytes, to which a name may still point.            *)
(* External: the sockets, the clock, and the senders of datagrams.          *)
(***************************************************************************)
EXTENDS Integers, Sequences

CONSTANTS
    RawHosts,                \* what a credential or a request names as its Hub
    Datagrams,               \* what arrives: [bytes, response, questions, records]
    Suffix,                  \* ".local"
    kDnsHeaderBytes,         \* 12
    kQuestionBytes,          \* 4: type and class
    kRecordBytes,            \* 10: type, class, TTL and the length of the data
    kAddressBytes,           \* 4
    kPacketBytes,            \* 512
    kHostBytes,              \* sizeof(localHost_), 254
    kMaxQuestions,           \* 16
    kMaxRecords,             \* 64
    kMaxNameSteps,           \* 128
    kMaxExpandedNameBytes,   \* 254
    kDatagramsPerPoll        \* 8

kTypeA == 1
Byte == 0 .. 255
Dot == 46
kMaxLabel == 63

ASSUME DnsAssumption ==
    /\ RawHosts \subseteq Seq(Byte) /\ Suffix \in Seq(Byte)
    /\ Datagrams \subseteq [bytes : Seq(Byte), response : BOOLEAN, questions : Nat,
                            records : Nat]
    /\ kDnsHeaderBytes \in Nat /\ kQuestionBytes \in Nat /\ kRecordBytes \in Nat \ {0, 1}
    /\ kAddressBytes \in Nat \ {0} /\ kPacketBytes \in Nat /\ kHostBytes \in Nat
    /\ kMaxQuestions \in Nat /\ kMaxRecords \in Nat /\ kDatagramsPerPoll \in Nat
    /\ kMaxNameSteps \in Nat /\ kMaxExpandedNameBytes \in Nat
    /\ kHostBytes <= kMaxExpandedNameBytes /\ kHostBytes + 2 <= 2 * kMaxNameSteps

VARIABLES
    pc,            \* where the lookup stands
    active,        \* localActive_; the socket is open exactly then
    host,          \* localHost_
    result,        \* localResult_
    packet,        \* what packet_ holds: the query just sent, or the datagram at hand
    budget,        \* datagrams this poll may still read
    questions, records,    \* entries of the datagram still to be read
    position,      \* where parseMdnsAnswer stands
    dataLength,    \* of the record whose name is compared
    walk,          \* where skipName or nameEquals stands
    found,         \* foundAddress, or None
    touched,       \* history: the offsets of packet_ the last step has read
    header         \* history: the datagram at hand without its bytes

lookupVars == <<active, host, result, budget>>
vars == <<pc, lookupVars, packet, questions, records, position, dataLength, walk, found,
          touched, header>>

None == <<>>
NoHeader == [response |-> FALSE, questions |-> 0, records |-> 0]
length == Len(packet)
\* Behind the datagram packet_ holds older bytes, here 0.
At(i) == IF i \in 0 .. length - 1 THEN packet[i + 1] ELSE 0

\* A walk has gone step rounds.  next is where skipName goes on (0: no pointer
\* was met); expectedAt, the letters nameEquals has matched, is 0 before the
\* first label only.
NewWalk(start) == [position |-> start, step |-> 0, expandedBytes |-> 0, next |-> 0,
                   expectedAt |-> 0]
--------------------------------------------------------------------------------
\* The host and the query.

asciiLower(c) == IF c \in 65 .. 90 THEN c + 32 ELSE c
Lower(s) == [i \in 1 .. Len(s) |-> asciiLower(s[i])]

\* normalizedLocalHost: without its final dot, a name that ends in the suffix
\* and has something before it.  Mutant: room for the name, none for its end.
Trimmed(raw) ==
    IF raw # <<>> /\ raw[Len(raw)] = Dot THEN SubSeq(raw, 1, Len(raw) - 1) ELSE raw
IsLocalHost_OffByOne(raw) ==
    LET h == Trimmed(raw)
        at == Len(h) - Len(Suffix)
    IN  /\ Len(raw) <= kHostBytes /\ at > 0
        /\ Lower(SubSeq(h, at + 1, Len(h))) = Suffix
        /\ h[at] # Dot
IsLocalHost(raw) ==
    LET h == Trimmed(raw)
        at == Len(h) - Len(Suffix)
    IN  /\ Len(raw) < kHostBytes /\ at > 0
        /\ Lower(SubSeq(h, at + 1, Len(h))) = Suffix
        /\ h[at] # Dot

\* A label of h, as the indices of its first and last letter.
Labels(h) ==
    {l \in (1 .. Len(h)) \X (1 .. Len(h)) :
        /\ l[1] <= l[2] /\ \A k \in l[1] .. l[2] : h[k] # Dot
        /\ l[1] = 1 \/ h[l[1] - 1] = Dot
        /\ l[2] = Len(h) \/ h[l[2] + 1] = Dot}

\* makeMdnsQuery: the dot before a label becomes the length of the label.
QueryName(h) ==
    LET dotted == <<Dot>> \o h
        LengthOf(i) == CHOOSE n \in 1 .. Len(h) : <<i, i + n - 1>> \in Labels(h)
    IN  [i \in 1 .. Len(dotted) |-> IF dotted[i] = Dot THEN LengthOf(i) ELSE dotted[i]]
            \o <<0>>
CanQuery(h) ==
    LET dotted == <<Dot>> \o h
    IN  /\ \A i \in 1 .. Len(dotted) : dotted[i] = Dot =>
               \E n \in 1 .. kMaxLabel : <<i, i + n - 1>> \in Labels(h)
        /\ kDnsHeaderBytes + Len(h) + 2 + kQuestionBytes <= kPacketBytes
makeMdnsQuery(h) == [i \in 1 .. kDnsHeaderBytes |-> 0] \o QueryName(h)
                        \o [i \in 1 .. kQuestionBytes |-> kTypeA]

LookupFails == active' = FALSE /\ result' = "Failed"
ParseIdle == UNCHANGED <<questions, records, position, dataLength, walk, found, header>>
Unread ==
    /\ packet' = <<>> /\ touched' = {} /\ questions' = 0 /\ records' = 0
    /\ position' = 0 /\ dataLength' = 0 /\ walk' = NewWalk(0) /\ header' = NoHeader

\* cancelLocalResolve, also called by whoever begins.
cancelLocalResolve ==
    /\ pc = "idle" /\ active
    /\ LookupFails /\ host' = <<>>
    /\ UNCHANGED <<pc, packet, budget, touched>> /\ ParseIdle

\* The host is refused, the socket cannot be had, or the lookup is under way.
beginLocalResolve ==
    /\ pc = "idle"
    /\ \E raw \in RawHosts :
          \/ ~IsLocalHost(raw) /\ LookupFails /\ host' = <<>>
          \/ IsLocalHost(raw) /\ LookupFails /\ host' = Trimmed(raw)
          \/ /\ IsLocalHost(raw) /\ CanQuery(Trimmed(raw))
             /\ host' = Trimmed(raw) /\ active' = TRUE /\ result' = "Pending"
    /\ UNCHANGED <<pc, packet, budget, touched>> /\ ParseIdle

\* One pollLocalResolve begins: too late, an error of the socket, or the query is
\* sent if it is time, and datagrams are awaited.
PollFails ==
    /\ pc = "idle" /\ active
    /\ LookupFails
    /\ UNCHANGED <<pc, host, packet, budget, touched>> /\ ParseIdle

Poll ==
    /\ pc = "idle" /\ active
    /\ packet' \in {packet, makeMdnsQuery(host)}
    /\ pc' = "receive" /\ budget' = kDatagramsPerPoll
    /\ UNCHANGED <<active, host, result, touched>> /\ ParseIdle

\* It ends with nothing more to read, with its budget, or with the deadline.
PollEnds ==
    /\ pc = "receive"
    /\ pc' = "idle" /\ Unread /\ budget' = 0
    /\ LookupFails \/ UNCHANGED <<active, result>>
    /\ UNCHANGED <<host, found>>

AcceptsHeader(size, d) ==
    /\ size >= kDnsHeaderBytes /\ d.response
    /\ d.questions <= kMaxQuestions /\ d.records <= kMaxRecords

Receive ==
    /\ pc = "receive" /\ budget > 0
    /\ \E d \in Datagrams :
          /\ packet' = d.bytes
          /\ questions' = d.questions /\ records' = d.records
          /\ header' = [response |-> d.response, questions |-> d.questions,
                        records |-> d.records]
          /\ pc' = IF AcceptsHeader(Len(d.bytes), d) THEN "entry" ELSE "parsed"
    /\ position' = kDnsHeaderBytes
    /\ found' = None /\ dataLength' = 0 /\ walk' = NewWalk(0) /\ touched' = {}
    /\ budget' = budget - 1
    /\ UNCHANGED <<active, host, result>>
--------------------------------------------------------------------------------
\* The walk along a compressed name: skipName and nameEquals share its rules.

\* Mutant: one byte too far.
InPacket_OffByOne(i) == i <= length
InPacket(i) == i < length
IsPointer(label) == label >= 192
IsLabel(label) == label \in 1 .. kMaxLabel
Target(p) == (At(p) - 192) * 256 + At(p + 1)

\* What the round at w reads before it moves on.
OffsetsOf(w) ==
    IF w.step = kMaxNameSteps \/ ~InPacket(w.position) THEN {}
    ELSE {w.position} \cup {i \in {w.position + 1} : IsPointer(At(w.position)) /\ InPacket(i)}

AtRoot(w) == At(w.position) = 0
\* Mutant: a pointer may go forward.
Follows_AnyTarget(w) ==
    IsPointer(At(w.position)) /\ InPacket(w.position + 1) /\ Target(w.position) < length
Follows(w) ==
    /\ IsPointer(At(w.position))
    /\ InPacket(w.position + 1) /\ Target(w.position) < w.position
Expands(w) ==
    LET label == At(w.position)
    IN  /\ IsLabel(label) /\ InPacket(w.position + label)
        /\ w.expandedBytes + label + 1 <= kMaxExpandedNameBytes
CanStep(w) == w.step < kMaxNameSteps /\ InPacket(w.position)

FollowPointer(w) ==
    [w EXCEPT !.position = Target(w.position), !.step = w.step + 1,
              !.next = IF w.next = 0 THEN w.position + 2 ELSE w.next]
PassLabel(w) ==
    LET label == At(w.position)
    IN  [w EXCEPT !.position = w.position + label + 1, !.step = w.step + 1,
                  !.expandedBytes = w.expandedBytes + label + 1]

SameDatagram == UNCHANGED <<lookupVars, packet, header>>
GivesUp == pc' = "parsed" /\ found' = None

\* parseMdnsAnswer goes on with the next entry, or ends.
NextEntry ==
    /\ pc = "entry" /\ questions + records > 0
    /\ pc' = "skip" /\ walk' = NewWalk(position) /\ touched' = {}
    /\ UNCHANGED <<questions, records, position, dataLength, found>> /\ SameDatagram

EndOfEntries ==
    /\ pc = "entry" /\ questions + records = 0
    /\ pc' = "parsed" /\ touched' = {}
    /\ found' = IF position = length THEN found ELSE None
    /\ UNCHANGED <<questions, records, position, dataLength, walk>> /\ SameDatagram

SkipStep ==
    /\ pc = "skip" /\ CanStep(walk) /\ ~AtRoot(walk)
    /\ walk' = IF Follows(walk) THEN FollowPointer(walk) ELSE PassLabel(walk)
    /\ Follows(walk) \/ Expands(walk)
    /\ touched' = OffsetsOf(walk)
    /\ UNCHANGED <<pc, questions, records, position, dataLength, found>> /\ SameDatagram

SkipRefused ==
    /\ pc = "skip"
    /\ CanStep(walk) => ~AtRoot(walk) /\ ~Follows(walk) /\ ~Expands(walk)
    /\ GivesUp /\ touched' = OffsetsOf(walk)
    /\ UNCHANGED <<questions, records, position, dataLength, walk>> /\ SameDatagram

afterName == IF walk.next = 0 THEN walk.position + 1 ELSE walk.next
Skipped == pc = "skip" /\ CanStep(walk) /\ AtRoot(walk)

Question ==
    /\ Skipped /\ questions > 0
    /\ questions' = questions - 1 /\ touched' = OffsetsOf(walk)
    /\ \/ /\ afterName + kQuestionBytes <= length
          /\ pc' = "entry" /\ position' = afterName + kQuestionBytes /\ UNCHANGED found
       \/ afterName + kQuestionBytes > length /\ GivesUp /\ UNCHANGED position
    /\ UNCHANGED <<records, dataLength, walk>> /\ SameDatagram

\* The fields of a record, from the end of its name.
Kind == At(afterName)
DataLength == At(afterName + kRecordBytes - 1)
FieldsFit == afterName + kRecordBytes <= length
DataFits == afterName + kRecordBytes + DataLength <= length
IsAddress == Kind = kTypeA /\ DataLength = kAddressBytes
Fields == {afterName, afterName + kRecordBytes - 1}

Record ==
    /\ Skipped /\ questions = 0 /\ records > 0
    /\ records' = records - 1
    /\ UNCHANGED questions /\ SameDatagram

RecordRefused ==
    /\ Record /\ ~(FieldsFit /\ DataFits)
    /\ GivesUp
    /\ touched' = OffsetsOf(walk) \cup (IF FieldsFit THEN Fields ELSE {})
    /\ UNCHANGED <<position, dataLength, walk>>

RecordPassed ==
    /\ Record /\ FieldsFit /\ DataFits /\ ~IsAddress
    /\ pc' = "entry" /\ position' = afterName + kRecordBytes + DataLength
    /\ touched' = OffsetsOf(walk) \cup Fields
    /\ UNCHANGED <<dataLength, walk, found>>

RecordToCompare ==
    /\ Record /\ FieldsFit /\ DataFits /\ IsAddress
    /\ pc' = "equals" /\ position' = afterName + kRecordBytes /\ dataLength' = DataLength
    /\ walk' = NewWalk(position)
    /\ touched' = OffsetsOf(walk) \cup Fields
    /\ UNCHANGED found
--------------------------------------------------------------------------------
\* nameEquals: the label at w is the next one of the host.

LabelEnd(w) == w.expectedAt + At(w.position) + (IF w.expectedAt = 0 THEN 0 ELSE 1)
LabelMatches(w) ==
    LET from == IF w.expectedAt = 0 THEN 0 ELSE w.expectedAt + 1
        label == At(w.position)
    IN  /\ LabelEnd(w) <= Len(host)
        /\ from # 0 => host[from] = Dot
        /\ \A i \in 1 .. label : asciiLower(At(w.position + i)) = asciiLower(host[from + i])

EqualsStep ==
    /\ pc = "equals" /\ CanStep(walk) /\ ~AtRoot(walk)
    /\ \/ Follows(walk) /\ walk' = FollowPointer(walk) /\ touched' = OffsetsOf(walk)
       \/ /\ Expands(walk) /\ LabelMatches(walk)
          /\ walk' = [PassLabel(walk) EXCEPT !.expectedAt = LabelEnd(walk)]
          /\ touched' = walk.position .. walk.position + At(walk.position)
    /\ UNCHANGED <<pc, questions, records, position, dataLength, found>> /\ SameDatagram

\* A record that is compared is passed over whether or not it is the host's.
Compared ==
    /\ pc' = "entry" /\ position' = position + dataLength
    /\ UNCHANGED <<questions, records, dataLength, walk>> /\ SameDatagram

EqualsRefused ==
    /\ pc = "equals"
    /\ CanStep(walk) =>
          IF AtRoot(walk) THEN walk.expectedAt # Len(host)
          ELSE ~Follows(walk) /\ ~(Expands(walk) /\ LabelMatches(walk))
    /\ touched' = IF CanStep(walk) /\ Expands(walk)
                  THEN walk.position .. walk.position + At(walk.position)
                  ELSE OffsetsOf(walk)
    /\ Compared /\ UNCHANGED found

EqualsFound ==
    /\ pc = "equals" /\ CanStep(walk) /\ AtRoot(walk) /\ walk.expectedAt = Len(host)
    /\ found' = SubSeq(packet, position + 1, position + kAddressBytes)
    /\ touched' = OffsetsOf(walk) \cup position .. position + kAddressBytes - 1
    /\ Compared

\* What pollLocalResolve does with the verdict.
AnswerParsed ==
    /\ pc = "parsed"
    /\ Unread
    /\ IF found # None
       THEN pc' = "idle" /\ active' = FALSE /\ result' = "Resolved" /\ budget' = 0
       ELSE pc' = "receive" /\ UNCHANGED <<active, result, budget>>
    /\ UNCHANGED <<host, found>>
--------------------------------------------------------------------------------
Init ==
    /\ pc = "idle" /\ active = FALSE /\ host = <<>> /\ result = "Failed"
    /\ packet = <<>> /\ budget = 0 /\ questions = 0 /\ records = 0
    /\ position = 0 /\ dataLength = 0 /\ walk = NewWalk(0) /\ found = None
    /\ touched = {} /\ header = NoHeader

Parse == \/ NextEntry \/ EndOfEntries \/ SkipStep \/ SkipRefused \/ Question
         \/ RecordRefused \/ RecordPassed \/ RecordToCompare
         \/ EqualsStep \/ EqualsRefused \/ EqualsFound \/ AnswerParsed
Next == \/ beginLocalResolve \/ cancelLocalResolve \/ PollFails \/ Poll \/ PollEnds
        \/ Receive \/ Parse
Spec == Init /\ [][Next]_vars
--------------------------------------------------------------------------------
\* The name at p, by rest, the names that are read in a round less: what it stands
\* for, its labels, each with a dot behind it, and the first byte behind it.
Malformed == [text |-> <<>>, end |-> 0]
NameFrom(p, rest) ==
    LET label == At(p)
        after == p + label + 1
    IN  CASE p >= length -> Malformed
          [] p < length /\ label = 0 -> [text |-> <<>>, end |-> p + 1]
          [] IsPointer(label) /\ p + 1 < length /\ Target(p) < p
                 /\ rest[Target(p)] # Malformed ->
                 [text |-> rest[Target(p)].text, end |-> p + 2]
          [] IsLabel(label) /\ p + label < length /\ rest[after] # Malformed ->
                 [text |-> SubSeq(packet, p + 2, after) \o <<Dot>> \o rest[after].text,
                  end |-> rest[after].end]
          [] OTHER -> Malformed
Name[n \in Nat] == [p \in Nat |-> IF n = 0 THEN Malformed ELSE NameFrom(p, Name[n - 1])]
NameAt(p) ==
    LET name == Name[kMaxNameSteps][p]
    IN  IF Len(name.text) > kMaxExpandedNameBytes THEN Malformed ELSE name
IsText(text) == Lower(text) = Lower(host) \o <<Dot>>

\* The data of the record at p, and its size.
DataAt(p) == NameAt(p).end + kRecordBytes
SizeAt(p) == At(DataAt(p) - 1)

\* Where the k-th entry of the datagram at hand ends, if the first k are well formed.
Nowhere == -1
EndAfter(p, k) ==
    LET end == IF k <= header.questions THEN NameAt(p).end + kQuestionBytes
               ELSE IF DataAt(p) > length THEN length + 1
               ELSE DataAt(p) + SizeAt(p)
    IN  IF p = Nowhere \/ NameAt(p) = Malformed \/ end > length THEN Nowhere ELSE end
EntryEnd[k \in Nat] ==
    IF k = 0 THEN kDnsHeaderBytes ELSE EndAfter(EntryEnd[k - 1], k)

\* What the datagram says of the host: the address of the last record that gives
\* one, if all of it is well formed.
Gives(k) ==
    LET p == EntryEnd[k - 1]
    IN  IsText(NameAt(p).text) /\ At(NameAt(p).end) = kTypeA /\ SizeAt(p) = kAddressBytes
AddressIn(k) ==
    LET data == DataAt(EntryEnd[k - 1]) IN SubSeq(packet, data + 1, data + kAddressBytes)
MeantAddress ==
    LET entries == header.questions + header.records
        given == {k \in header.questions + 1 .. entries : Gives(k)}
    IN  IF EntryEnd[entries] # length \/ given = {} THEN None
        ELSE AddressIn(CHOOSE k \in given : \A j \in given : j <= k)

TypeOK ==
    /\ pc \in {"idle", "receive", "entry", "skip", "equals", "parsed"}
    /\ active \in BOOLEAN /\ result \in {"Pending", "Resolved", "Failed"}
    /\ host \in Seq(Byte) /\ packet \in Seq(Byte) /\ found \in Seq(Byte)
    /\ budget \in 0 .. kDatagramsPerPoll /\ questions \in Nat /\ records \in Nat
    /\ position \in Nat /\ dataLength \in Byte
    /\ walk \in [position : Nat, step : 0 .. kMaxNameSteps,
                 expandedBytes : 0 .. kMaxExpandedNameBytes, next : Nat, expectedAt : Nat]

\* Nothing behind the end of the datagram is read (packet_ holds older bytes
\* there), whatever names, pointers, counts and lengths it holds.
ReadsInside == touched \subseteq 0 .. length - 1

\* A lookup takes an address from a datagram exactly when the whole of it is well
\* formed and one of its records gives the host's, compressed or not and in any
\* case of letters; it takes the last one.
AnswerIsExact ==
    pc = "parsed" => found = IF AcceptsHeader(length, header) THEN MeantAddress ELSE None

\* The query asks for the host, in one question that a receiver with the rules of
\* this parser can read: every name the device asks for can be found.
QueryNamesHost ==
    pc = "receive" /\ packet # <<>> =>
        /\ NameAt(kDnsHeaderBytes) # Malformed /\ IsText(NameAt(kDnsHeaderBytes).text)
        /\ NameAt(kDnsHeaderBytes).end + kQuestionBytes = length /\ length <= kPacketBytes

================================================================================
