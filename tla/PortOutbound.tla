----------------------------- MODULE PortOutbound ------------------------------
(***************************************************************************)
(* Outbound ports (Runtime.cpp): publishPort on an application task stores  *)
(* a value and then bumps a revision, without a lock; sendPortBatch on the  *)
(* I/O task samples value and revision of every port, sends what changed,   *)
(* and remembers the revision it sent unless the port changed meanwhile.    *)
(* Every load and store of a PortSlot atomic is a step.                     *)
(***************************************************************************)
EXTENDS Integers, FiniteSets

CONSTANTS
    PortCount,        \* outbound ports
    Values,           \* published values (bit patterns)
    NoValue,
    kRevisions,       \* number of revisions, 2^32 in the program
    MaxSamples,       \* samples that fit negotiatedMaxPayload_
    MaxPublishes,     \* bound: calls of publishPort
    MaxSessions       \* bound: sessions

ASSUME PortAssumption ==
    /\ PortCount \in Nat \ {0} /\ NoValue \notin Values /\ Values # {}
    /\ MaxSamples \in Nat \ {0}
    /\ MaxPublishes \in Nat /\ MaxSessions \in Nat
    /\ kRevisions \in Nat /\ kRevisions > 2 * MaxPublishes + 2

Ports == 1 .. PortCount
Revisions == 0 .. kRevisions - 1

VARIABLES
    outboundBits, outboundRevision,      \* the atomics of a PortSlot
    sentRevision, outboundSequence, wireHandle,   \* fields only the I/O task uses
    pubPc, pubPort, pubValue, publishes, \* publishPort in progress
    link, sessions,
    ioPc, port,       \* where the I/O task stands in sendPortBatch, and for which port
    before, bits,     \* its locals of the sampling loop
    included,         \* the samples of the batch: port -> [revision, sequence, value]
    hub               \* history: the last value and sequence the Hub got in
                      \* this session

slots == <<sentRevision, outboundSequence, wireHandle>>
publisher == <<pubPc, pubPort, pubValue, publishes>>
io == <<ioPc, port, before, bits, included>>
vars == <<outboundBits, outboundRevision, slots, publisher, link, sessions, io, hub>>

Nothing == [value |-> NoValue, sequence |-> 0]
NoSamples == [p \in {} |-> 0]

\* A program that has published before stands near the end of the revisions.
Init ==
    /\ \E published \in BOOLEAN :
           /\ outboundRevision = [p \in Ports |-> IF published THEN kRevisions - 2 ELSE 0]
           /\ outboundBits = [p \in Ports |-> IF published THEN CHOOSE v \in Values : TRUE
                                                          ELSE NoValue]
    /\ sentRevision = [p \in Ports |-> 0] /\ outboundSequence = [p \in Ports |-> 0]
    /\ wireHandle = [p \in Ports |-> 0]
    /\ pubPc = "idle" /\ pubPort = 1 /\ pubValue = NoValue /\ publishes = 0
    /\ link = "down" /\ sessions = 0
    /\ ioPc = "idle" /\ port = 1 /\ before = 0 /\ bits = NoValue
    /\ included = NoSamples
    /\ hub = [p \in Ports |-> Nothing]
--------------------------------------------------------------------------------
\* Mutants: a counter that stops at zero, checks that are dropped.
SkipZero_Dropped(r) == FALSE
Consistent_Unchecked(after) == TRUE

NextRevision(r) == (r + 1) % kRevisions
SkipZero(r) == r = 0

\* publishPort stores the value,
StoreBits(p, v) ==
    /\ pubPc = "idle" /\ publishes < MaxPublishes
    /\ outboundBits' = [outboundBits EXCEPT ![p] = v]
    /\ pubPc' = "bump" /\ pubPort' = p /\ pubValue' = v /\ publishes' = publishes + 1
    /\ UNCHANGED <<outboundRevision, slots, link, sessions, io, hub>>

\* bumps the revision,
BumpRevision ==
    /\ pubPc = "bump"
    /\ outboundRevision' = [outboundRevision EXCEPT ![pubPort] = NextRevision(@)]
    /\ pubPc' = IF SkipZero(NextRevision(outboundRevision[pubPort])) THEN "skip"
                                                                   ELSE "idle"
    /\ UNCHANGED <<outboundBits, slots, pubPort, pubValue, publishes, link, sessions,
                   io, hub>>

\* and once more when it came out as 0, which stands for "never published".
BumpPastZero ==
    /\ pubPc = "skip"
    /\ outboundRevision' = [outboundRevision EXCEPT ![pubPort] = NextRevision(@)]
    /\ pubPc' = "idle"
    /\ UNCHANGED <<outboundBits, slots, pubPort, pubValue, publishes, link, sessions,
                   io, hub>>
--------------------------------------------------------------------------------
\* RegisterAck binds every port.
Register ==
    /\ link = "down" /\ sessions < MaxSessions
    /\ link' = "active" /\ sessions' = sessions + 1
    /\ wireHandle' = [p \in Ports |-> p]
    /\ UNCHANGED <<outboundBits, outboundRevision, sentRevision, outboundSequence,
                   publisher, io, hub>>

\* disconnectAndBackoff with resetSession; the next session starts from nothing.
Disconnect ==
    /\ link' = "down"
    /\ wireHandle' = [p \in Ports |-> 0]
    /\ sentRevision' = [p \in Ports |-> 0]
    /\ outboundSequence' = [p \in Ports |-> 0]
    /\ ioPc' = "idle" /\ port' = 1 /\ before' = 0 /\ bits' = NoValue
    /\ included' = NoSamples
    /\ hub' = [p \in Ports |-> Nothing]

Drop ==
    /\ link = "active" /\ ioPc = "idle"
    /\ Disconnect
    /\ UNCHANGED <<outboundBits, outboundRevision, publisher, sessions>>

\* sendPortBatch goes on only when some bound port is dirty.
Begin ==
    /\ link = "active" /\ ioPc = "idle"
    /\ \E p \in Ports : wireHandle[p] # 0 /\ outboundRevision[p] # sentRevision[p]
    /\ ioPc' = "before" /\ port' = 1 /\ included' = NoSamples
    /\ UNCHANGED <<outboundBits, outboundRevision, slots, publisher, link, sessions,
                   before, bits, hub>>

\* The sampling loop of one port: revision, value, revision again.
LoadBefore ==
    /\ ioPc = "before"
    /\ before' = outboundRevision[port]
    /\ ioPc' = "bits"
    /\ UNCHANGED <<outboundBits, outboundRevision, slots, publisher, link, sessions,
                   port, bits, included, hub>>

LoadBits ==
    /\ ioPc = "bits"
    /\ bits' = outboundBits[port]
    /\ ioPc' = "after"
    /\ UNCHANGED <<outboundBits, outboundRevision, slots, publisher, link, sessions,
                   port, before, included, hub>>

Consistent(after) == before = after
Unchanged(p, after) == after = 0 \/ after = sentRevision[p]
NextSequence(p) == outboundSequence[p] + 1

\* Ends the loop when the two revisions agree; then the port is skipped, sampled,
\* or, when the payload is full, it and all later ports are left for later.
LoadAfter ==
    /\ ioPc = "after"
    /\ LET after == outboundRevision[port]
           fits == Cardinality(DOMAIN included) < MaxSamples
           sample == [revision |-> after, sequence |-> NextSequence(port), value |-> bits]
       IN  IF ~Consistent(after)
           THEN ioPc' = "before" /\ UNCHANGED <<port, included>>
           ELSE /\ included' = IF Unchanged(port, after) \/ ~fits THEN included
                               ELSE [p \in DOMAIN included \cup {port} |->
                                        IF p = port THEN sample ELSE included[p]]
                /\ IF port = PortCount \/ (~Unchanged(port, after) /\ ~fits)
                   THEN ioPc' = IF included' = NoSamples THEN "idle" ELSE "send"
                   ELSE ioPc' = "before"
                /\ port' = IF ioPc' = "before" THEN port + 1 ELSE 1
    /\ before' = 0 /\ bits' = NoValue
    /\ UNCHANGED <<outboundBits, outboundRevision, slots, publisher, link, sessions, hub>>

\* sendDocument succeeds, or the session ends.
SendBatch ==
    /\ ioPc = "send"
    /\ \/ /\ hub' = [p \in Ports |->
                        IF p \in DOMAIN included
                        THEN [value |-> included[p].value, sequence |-> included[p].sequence]
                        ELSE hub[p]]
          /\ ioPc' = "commit"
          /\ UNCHANGED <<slots, link, port, before, bits, included>>
       \/ Disconnect
    /\ UNCHANGED <<outboundBits, outboundRevision, publisher, sessions>>

\* The port is clean unless it was published again after its sample.
Confirmed(p) == IF outboundRevision[p] = included[p].revision THEN included[p].revision
                                                              ELSE sentRevision[p]

\* After a successful send, port by port in the order of the batch.
Commit(p) ==
    /\ ioPc = "commit" /\ p \in DOMAIN included /\ \A q \in DOMAIN included : p <= q
    /\ outboundSequence' = [outboundSequence EXCEPT ![p] = included[p].sequence]
    /\ sentRevision' = [sentRevision EXCEPT ![p] = Confirmed(p)]
    /\ included' = [q \in DOMAIN included \ {p} |-> included[q]]
    /\ ioPc' = IF DOMAIN included = {p} THEN "idle" ELSE "commit"
    /\ UNCHANGED <<outboundBits, outboundRevision, wireHandle, publisher, link, sessions,
                   port, before, bits, hub>>
--------------------------------------------------------------------------------
publishPort == (\E p \in Ports, v \in Values : StoreBits(p, v))
               \/ BumpRevision \/ BumpPastZero
sendPortBatch == Begin \/ LoadBefore \/ LoadBits \/ LoadAfter \/ SendBatch
                 \/ \E p \in Ports : Commit(p)

Next == publishPort \/ Register \/ Drop \/ sendPortBatch

Spec == Init /\ [][Next]_vars

\* Both tasks finish the calls they start, linkLoop flushes every 20 ms, and a
\* lost session is rebuilt.
FairSpec == Spec /\ WF_vars(BumpRevision \/ BumpPastZero)
                 /\ WF_vars(sendPortBatch) /\ WF_vars(Register)
--------------------------------------------------------------------------------
TypeOK ==
    /\ outboundBits \in [Ports -> Values \cup {NoValue}] /\ outboundRevision \in [Ports -> Revisions]
    /\ sentRevision \in [Ports -> Revisions]
    /\ outboundSequence \in [Ports -> Nat] /\ wireHandle \in [Ports -> Ports \cup {0}]
    /\ pubPc \in {"idle", "bump", "skip"} /\ pubPort \in Ports
    /\ link \in {"active", "down"}
    /\ ioPc \in {"idle", "before", "bits", "after", "send", "commit"} /\ port \in Ports
    /\ DOMAIN included \subseteq Ports

Publishing(p) == pubPc # "idle" /\ pubPort = p

\* A port counts as clean (2187) only while the Hub holds its current value: a
\* publish that slips between the sample, the send and the commit leaves it dirty,
\* and so does a revision that wraps (Runtime.cpp:713-718 against 2182-2213).
CleanIsCurrent ==
    \A p \in Ports :
        link = "active" /\ outboundBits[p] # NoValue /\ ~Publishing(p)
            /\ outboundRevision[p] \in {0, sentRevision[p]} => hub[p].value = outboundBits[p]

\* The last value published reaches the Hub of every session that lasts, also
\* when it takes several batches and a reconnect.
LastValueArrives ==
    \A p \in Ports :
        <>[](link = "active") => <>[](outboundBits[p] # NoValue =>
                                          hub[p].value = outboundBits[p])
================================================================================
