-------------------------- MODULE PortOutbound_proofs --------------------------
(***************************************************************************)
(* Proofs about PortOutbound, for every number of ports, values, publishes, *)
(* sessions and samples per batch, if the revisions are enough not to come  *)
(* round to one that is still remembered (PortAssumption).                  *)
(***************************************************************************)
EXTENDS PortOutbound, TLAPS

\* How many revisions a port that has revision c is past r.
Age(r, c) == IF c >= r THEN c - r ELSE c - r + kRevisions

\* The revisions that all the publishes so far can have used up.
Bumps == 2 * publishes - (IF pubPc = "bump" THEN 2 ELSE IF pubPc = "skip" THEN 1 ELSE 0)

\* r is not a full round old: n revisions were used up since the start.
Recent(r, c, n) == Age(r, c) <= n

\* While the port has revision r and nobody is publishing, v is its value.
Tells(r, p, v) == outboundRevision[p] = r /\ ~Publishing(p) => v = outboundBits[p]

Samples == [revision : Revisions \ {0}, sequence : Nat, value : Values \cup {NoValue}]

HandsInv ==
    /\ publishes \in 0 .. MaxPublishes /\ (pubPc # "idle" => publishes > 0)
    /\ pubPc = "skip" => outboundRevision[pubPort] = 0
    /\ before \in Revisions /\ bits \in Values \cup {NoValue}
    /\ included \in [DOMAIN included -> Samples]
    /\ hub \in [Ports -> [value : Values \cup {NoValue}, sequence : Nat]]

\* Revision 0 means that the port was never published.
ZeroIsUnpublished ==
    \A p \in Ports : outboundRevision[p] = 0 /\ ~Publishing(p) => outboundBits[p] = NoValue

\* The locals of the sampling loop.
SamplingInv ==
    /\ ioPc \in {"bits", "after"} => Recent(before, outboundRevision[port], Bumps)
    /\ ioPc = "after" => Tells(before, port, bits)

\* The samples of the batch: of ports that are dirty, and what the Hub has once
\* the batch is sent.
BatchInv ==
    \A p \in DOMAIN included :
        /\ Recent(included[p].revision, outboundRevision[p], Bumps)
        /\ Tells(included[p].revision, p, included[p].value)
        /\ sentRevision[p] # outboundRevision[p] \/ sentRevision[p] = 0
        /\ ioPc = "commit" => hub[p].value = included[p].value

\* What is remembered as sent is what the Hub has.
SentInv ==
    \A p \in Ports : sentRevision[p] # 0 =>
        /\ Recent(sentRevision[p], outboundRevision[p], Bumps)
        /\ Tells(sentRevision[p], p, hub[p].value)

OutboundInv ==
    TypeOK /\ HandsInv /\ ZeroIsUnpublished /\ SamplingInv /\ BatchInv /\ SentInv
--------------------------------------------------------------------------------
\* The next revision, without the remainder.
LEMMA NextRevisionLemma ==
    ASSUME NEW r \in Revisions
    PROVE  NextRevision(r) = IF r = kRevisions - 1 THEN 0 ELSE r + 1
<1>1. r \in Int /\ kRevisions \in Int /\ 0 <= r /\ r < kRevisions
    BY PortAssumption DEF Revisions
<1>2. CASE r = kRevisions - 1
    <2>1. r + 1 = kRevisions
        BY <1>1, <1>2
    <2>2. kRevisions % kRevisions = 0
        BY <1>1
    <2> QED
        BY <1>2, <2>1, <2>2 DEF NextRevision
<1>3. CASE r # kRevisions - 1
    <2>1. (r + 1) % kRevisions = r + 1
        BY <1>1, <1>3
    <2> QED
        BY <1>3, <2>1 DEF NextRevision
<1> QED
    BY <1>2, <1>3

\* What one more revision of a port does to the revisions that are remembered: none
\* of them comes round, so the port has none of them.
LEMMA BumpLemma ==
    ASSUME OutboundInv, BumpRevision \/ BumpPastZero
    PROVE  /\ outboundRevision' \in [Ports -> Revisions]
           /\ \A r \in Revisions, p \in Ports : Recent(r, outboundRevision[p], Bumps) =>
                  /\ Recent(r, outboundRevision'[p], Bumps')
                  /\ p = pubPort => outboundRevision'[p] # r
           /\ \A p \in Ports \ {pubPort} : outboundRevision'[p] = outboundRevision[p]
           /\ \A p \in Ports \ {pubPort} : ~Publishing(p) /\ ~Publishing(p)'
<1> DEFINE c == outboundRevision[pubPort]
           d == IF c = kRevisions - 1 THEN 0 ELSE c + 1
<1>1. c \in Revisions /\ pubPort \in Ports
    BY DEF OutboundInv, TypeOK
<1>2. outboundRevision' = [outboundRevision EXCEPT ![pubPort] = d]
    BY <1>1, NextRevisionLemma DEF BumpRevision, BumpPastZero
<1>3. kRevisions \in Nat /\ MaxPublishes \in Nat /\ kRevisions > 2 * MaxPublishes + 2
    BY PortAssumption
<1>4. d \in Revisions
    BY <1>1, <1>3 DEF Revisions
<1>5. outboundRevision' \in [Ports -> Revisions]
    BY <1>2, <1>4 DEF OutboundInv, TypeOK
<1>6. outboundRevision'[pubPort] = d
      /\ \A p \in Ports \ {pubPort} : outboundRevision'[p] = outboundRevision[p]
    BY <1>1, <1>2 DEF OutboundInv, TypeOK
<1>7. /\ publishes \in Nat /\ publishes <= MaxPublishes /\ publishes > 0
      /\ Bumps \in Int /\ Bumps' \in Int /\ Bumps' >= Bumps + 1 /\ Bumps' <= 2 * MaxPublishes
    BY <1>3 DEF BumpRevision, BumpPastZero, Bumps, OutboundInv, HandsInv
<1>8. ASSUME NEW r \in Revisions, NEW p \in Ports, Recent(r, outboundRevision[p], Bumps)
      PROVE  /\ Recent(r, outboundRevision'[p], Bumps')
             /\ p = pubPort => outboundRevision'[p] # r
    <2>1. CASE p = pubPort
        <3>1. r \in Int /\ 0 <= r /\ r < kRevisions /\ c \in Int /\ 0 <= c /\ c < kRevisions
            BY <1>1, <1>3 DEF Revisions
        <3>2. Age(r, c) <= Bumps /\ Age(r, c) \in Int
            BY <1>3, <1>8, <2>1, <3>1 DEF Recent, Age
        <3>3. d # r /\ Age(r, d) = Age(r, c) + 1
            BY <1>3, <1>7, <3>1, <3>2 DEF Age
        <3>4. Age(r, d) <= Bumps'
            BY <1>7, <3>2, <3>3
        <3> QED
            BY <1>6, <2>1, <3>3, <3>4 DEF Recent
    <2>2. CASE p # pubPort
        <3>1. Age(r, outboundRevision[p]) \in Int
            BY <1>3 DEF Age, OutboundInv, TypeOK, Revisions
        <3> QED
            BY <1>6, <1>7, <1>8, <2>2, <3>1 DEF Recent
    <2> QED
        BY <2>1, <2>2
<1>9. \A p \in Ports \ {pubPort} : ~Publishing(p) /\ ~Publishing(p)'
    BY DEF Publishing, BumpRevision, BumpPastZero
<1> QED
    BY <1>5, <1>6, <1>8, <1>9

\* A publish that begins uses up no revision, and makes its port one that is being
\* published.
LEMMA StoreLemma ==
    ASSUME OutboundInv, NEW q \in Ports, NEW v \in Values, StoreBits(q, v)
    PROVE  /\ Bumps' = Bumps /\ Publishing(q)'
           /\ \A p \in Ports \ {q} : ~Publishing(p)' /\ ~Publishing(p)
                                     /\ outboundBits'[p] = outboundBits[p]
<1>1. Bumps' = Bumps
    BY PortAssumption DEF StoreBits, Bumps, OutboundInv, HandsInv
<1> QED
    BY <1>1 DEF StoreBits, Publishing, OutboundInv, TypeOK

\* The initial states satisfy the invariant.
LEMMA InitLemma == Init => OutboundInv
<1> SUFFICES ASSUME Init PROVE OutboundInv
    OBVIOUS
<1>1. (CHOOSE v \in Values : TRUE) \in Values
    BY PortAssumption
<1>2. 0 \in Revisions /\ kRevisions - 2 \in Revisions /\ kRevisions - 2 # 0 /\ 1 \in Ports
    BY PortAssumption DEF Revisions, Ports
<1>3. TypeOK
    BY <1>1, <1>2 DEF Init, TypeOK, NoSamples
<1>4. HandsInv
    BY <1>2, PortAssumption DEF Init, HandsInv, Nothing, NoSamples
<1>5. ZeroIsUnpublished
    BY <1>2 DEF Init, ZeroIsUnpublished
<1> QED
    BY <1>3, <1>4, <1>5 DEF Init, OutboundInv, SamplingInv, BatchInv, SentInv, NoSamples

\* Types, and what the tasks hold between two steps.
LEMMA TypeStepLemma == OutboundInv /\ [Next]_vars => TypeOK' /\ HandsInv'
<1> SUFFICES ASSUME OutboundInv, [Next]_vars PROVE TypeOK' /\ HandsInv'
    OBVIOUS
<1>0. 0 \in Revisions /\ 1 \in Ports /\ MaxPublishes \in Nat /\ PortCount \in Nat
    BY PortAssumption DEF Revisions, Ports
<1> USE DEF OutboundInv, TypeOK, HandsInv
<1>1. ASSUME NEW p \in Ports, NEW v \in Values, StoreBits(p, v)
      PROVE  TypeOK' /\ HandsInv'
    BY <1>0, <1>1 DEF StoreBits, slots, io
<1>2. CASE BumpRevision
    <2>1. NextRevision(outboundRevision[pubPort]) = 0 <=>
              SkipZero(NextRevision(outboundRevision[pubPort]))
        BY DEF SkipZero
    <2>2. outboundRevision' \in [Ports -> Revisions]
        BY <1>2, BumpLemma
    <2> QED
        BY <1>2, <2>1, <2>2 DEF BumpRevision, slots, io
<1>3. CASE BumpPastZero
    <2>1. outboundRevision' \in [Ports -> Revisions]
        BY <1>3, BumpLemma
    <2> QED
        BY <1>3, <2>1 DEF BumpPastZero, slots, io
<1>4. CASE Register
    BY <1>4 DEF Register, publisher, io
<1>5. CASE Drop
    BY <1>0, <1>5 DEF Drop, Disconnect, NoSamples, Nothing, publisher
<1>6. CASE Begin
    BY <1>0, <1>6 DEF Begin, NoSamples, slots, publisher
<1>7. CASE LoadBefore
    BY <1>7 DEF LoadBefore, slots, publisher
<1>8. CASE LoadBits
    BY <1>8 DEF LoadBits, slots, publisher
<1>9. CASE LoadAfter
    <2> DEFINE after == outboundRevision[port]
               sample == [revision |-> after, sequence |-> NextSequence(port), value |-> bits]
    <2>1. \/ included' = included
          \/ /\ after # 0
             /\ included' = [p \in DOMAIN included \cup {port} |->
                                 IF p = port THEN sample ELSE included[p]]
        BY <1>9 DEF LoadAfter, Unchanged
    <2>2. after # 0 => sample \in Samples
        BY DEF Samples, NextSequence
    <2>3. included' \in [DOMAIN included' -> Samples] /\ DOMAIN included' \subseteq Ports
        BY <2>1, <2>2
    <2>4. port' \in Ports /\ ioPc' \in {"before", "send", "idle"}
        BY <1>0, <1>9 DEF LoadAfter, Ports
    <2> QED
        BY <1>0, <1>9, <2>3, <2>4 DEF LoadAfter, slots, publisher
<1>10. CASE SendBatch
    <2>1. CASE Disconnect
        BY <1>0, <1>10, <2>1 DEF SendBatch, Disconnect, NoSamples, Nothing, publisher
    <2>2. CASE ~Disconnect
        BY <1>10, <2>2 DEF SendBatch, Samples, slots, publisher
    <2> QED
        BY <2>1, <2>2
<1>11. ASSUME NEW p \in Ports, Commit(p)
       PROVE  TypeOK' /\ HandsInv'
    BY <1>11 DEF Commit, Confirmed, Samples, publisher
<1>12. CASE UNCHANGED vars
    BY <1>12 DEF vars, slots, publisher, io
<1> QED
    BY <1>1, <1>2, <1>3, <1>4, <1>5, <1>6, <1>7, <1>8, <1>9, <1>10, <1>11, <1>12
    DEF Next, publishPort, sendPortBatch

\* The application publishes: what is remembered of the port gets old, and nothing
\* else changes.
LEMMA PublishStepLemma ==
    ASSUME OutboundInv, publishPort, TypeOK'
    PROVE  ZeroIsUnpublished' /\ SamplingInv' /\ BatchInv' /\ SentInv'
<1> USE DEF OutboundInv
<1>1. /\ UNCHANGED <<sentRevision, ioPc, port, before, included, hub, bits>>
      /\ port \in Ports /\ before \in Revisions /\ sentRevision \in [Ports -> Revisions]
      /\ \A p \in DOMAIN included : p \in Ports /\ included[p].revision \in Revisions
    BY DEF publishPort, StoreBits, BumpRevision, BumpPastZero, slots, io, TypeOK, HandsInv,
           Samples
<1>2. ASSUME NEW q \in Ports, NEW v \in Values, StoreBits(q, v)
      PROVE  ZeroIsUnpublished' /\ SamplingInv' /\ BatchInv' /\ SentInv'
    <2>1. outboundRevision' = outboundRevision /\ Bumps' = Bumps /\ Publishing(q)'
        BY <1>2, StoreLemma DEF StoreBits
    <2>2. \A p \in Ports \ {q} : /\ ~Publishing(p)' /\ ~Publishing(p)
                                 /\ outboundBits'[p] = outboundBits[p]
        BY <1>2, StoreLemma
    <2>3. ZeroIsUnpublished'
        BY <2>1, <2>2 DEF ZeroIsUnpublished
    <2>4. SamplingInv'
        BY <1>1, <2>1, <2>2 DEF SamplingInv, Tells
    <2>5. BatchInv'
        BY <1>1, <2>1, <2>2 DEF BatchInv, Tells
    <2>6. SentInv'
        BY <1>1, <2>1, <2>2 DEF SentInv, Tells
    <2> QED
        BY <2>3, <2>4, <2>5, <2>6
<1>3. CASE BumpRevision \/ BumpPastZero
    <2>1. \A r \in Revisions, p \in Ports : Recent(r, outboundRevision[p], Bumps) =>
              /\ Recent(r, outboundRevision'[p], Bumps')
              /\ p = pubPort => outboundRevision'[p] # r
        BY <1>3, BumpLemma
    <2>2. \A p \in Ports \ {pubPort} : /\ outboundRevision'[p] = outboundRevision[p]
                                       /\ ~Publishing(p)' /\ ~Publishing(p)
        BY <1>3, BumpLemma
    <2>3. outboundBits' = outboundBits /\ pubPort' = pubPort
        BY <1>3 DEF BumpRevision, BumpPastZero
    <2>4. ZeroIsUnpublished'
        <3>1. outboundRevision'[pubPort] = 0 => Publishing(pubPort)'
            <4>1. CASE BumpRevision
                BY <4>1 DEF BumpRevision, SkipZero, Publishing, TypeOK
            <4>2. CASE BumpPastZero
                <5>1. outboundRevision[pubPort] = 0 /\ kRevisions > 2 /\ 0 \in Revisions
                    BY <4>2, PortAssumption DEF BumpPastZero, HandsInv, Revisions
                <5>2. NextRevision(0) = 1
                    BY <5>1, NextRevisionLemma, PortAssumption
                <5> QED
                    BY <4>2, <5>1, <5>2 DEF BumpPastZero, TypeOK
            <4> QED
                BY <1>3, <4>1, <4>2
        <3> QED
            BY <2>2, <2>3, <3>1 DEF ZeroIsUnpublished
    <2>5. SamplingInv'
        BY <1>1, <2>1, <2>2, <2>3 DEF SamplingInv, Tells
    <2>6. BatchInv'
        <3> SUFFICES ASSUME NEW p \in DOMAIN included
                     PROVE  BatchInv!(p)'
            BY <1>1 DEF BatchInv
        <3>1. p \in Ports /\ included[p].revision \in Revisions /\ sentRevision[p] \in Revisions
            BY <1>1
        <3>2. sentRevision[p] # 0 => sentRevision[p] # outboundRevision'[p]
            BY <2>1, <2>2, <3>1 DEF BatchInv, SentInv
        <3> QED
            BY <1>1, <2>1, <2>2, <2>3, <3>1, <3>2 DEF BatchInv, Tells
    <2>7. SentInv'
        BY <1>1, <2>1, <2>2, <2>3 DEF SentInv, Tells
    <2> QED
        BY <2>4, <2>5, <2>6, <2>7
<1> QED
    BY <1>2, <1>3 DEF publishPort

\* A session begins or ends, which forgets what was sent.
LEMMA SessionStepLemma ==
    ASSUME OutboundInv, Register \/ Disconnect,
           UNCHANGED <<outboundBits, outboundRevision, publisher>>
    PROVE  ZeroIsUnpublished' /\ SamplingInv' /\ BatchInv' /\ SentInv'
<1>1. Bumps' = Bumps /\ \A p : Publishing(p)' = Publishing(p)
    BY DEF Bumps, Publishing, publisher
<1>2. CASE Register
    BY <1>1, <1>2 DEF Register, io, OutboundInv, ZeroIsUnpublished, SamplingInv, BatchInv,
                      SentInv, Tells
<1>3. CASE Disconnect
    BY <1>1, <1>3 DEF Disconnect, NoSamples, OutboundInv, ZeroIsUnpublished, SamplingInv,
                      BatchInv, SentInv
<1> QED
    BY <1>2, <1>3

\* The I/O task samples, sends and commits.
LEMMA BatchStepLemma ==
    ASSUME OutboundInv, sendPortBatch, ~Disconnect
    PROVE  ZeroIsUnpublished' /\ SamplingInv' /\ BatchInv' /\ SentInv'
<1> USE DEF OutboundInv
<1>1. UNCHANGED <<outboundBits, outboundRevision, publisher>>
    BY DEF sendPortBatch, Begin, LoadBefore, LoadBits, LoadAfter, SendBatch, Commit
<1>2. Bumps' = Bumps /\ \A p : Publishing(p)' = Publishing(p)
    BY <1>1 DEF Bumps, Publishing, publisher
<1>3. ZeroIsUnpublished'
    BY <1>1, <1>2 DEF ZeroIsUnpublished
<1>4. CASE Begin
    BY <1>1, <1>2, <1>3, <1>4 DEF Begin, slots, NoSamples, SamplingInv, BatchInv, SentInv,
                                  Tells
<1>5. CASE LoadBefore
    <2>1. Recent(outboundRevision[port], outboundRevision[port], Bumps)
        <3>1. outboundRevision[port] \in Int
            BY PortAssumption DEF TypeOK, Revisions
        <3> QED
            BY <3>1, PortAssumption DEF Recent, Age, Bumps, HandsInv
    <2> QED
        BY <1>1, <1>2, <1>3, <1>5, <2>1 DEF LoadBefore, slots, SamplingInv, BatchInv, SentInv,
                                            Tells
<1>6. CASE LoadBits
    BY <1>1, <1>2, <1>3, <1>6 DEF LoadBits, slots, SamplingInv, BatchInv, SentInv, Tells
<1>7. CASE LoadAfter
    <2> DEFINE after == outboundRevision[port]
               sample == [revision |-> after, sequence |-> NextSequence(port), value |-> bits]
    <2>1. \/ included' = included
          \/ /\ after # 0 /\ after # sentRevision[port] /\ before = after
             /\ included' = [p \in DOMAIN included \cup {port} |->
                                 IF p = port THEN sample ELSE included[p]]
        BY <1>7 DEF LoadAfter, Unchanged, Consistent
    <2>2. UNCHANGED <<slots, hub>> /\ ioPc' \in {"before", "send", "idle"}
        BY <1>7 DEF LoadAfter
    <2>3. Recent(before, after, Bumps) /\ Tells(before, port, bits)
        BY <1>7 DEF LoadAfter, SamplingInv
    <2>4. BatchInv'
        BY <1>1, <1>2, <2>1, <2>2, <2>3 DEF BatchInv, Tells, slots
    <2> QED
        BY <1>1, <1>2, <1>3, <2>2, <2>4 DEF SamplingInv, SentInv, Tells, slots
<1>8. CASE SendBatch
    <2>1. /\ UNCHANGED <<slots, included>> /\ ioPc' = "commit"
          /\ hub' = [p \in Ports |->
                        IF p \in DOMAIN included
                        THEN [value |-> included[p].value, sequence |-> included[p].sequence]
                        ELSE hub[p]]
        BY <1>8 DEF SendBatch
    <2>2. BatchInv'
        BY <1>1, <1>2, <2>1 DEF BatchInv, Tells, slots, TypeOK
    <2>3. SentInv'
        BY <1>1, <1>2, <2>1 DEF BatchInv, SentInv, Tells, slots
    <2> QED
        BY <1>3, <2>1, <2>2, <2>3 DEF SamplingInv
<1>9. ASSUME NEW q \in Ports, Commit(q)
      PROVE  ZeroIsUnpublished' /\ SamplingInv' /\ BatchInv' /\ SentInv'
    <2>1. BatchInv'
        BY <1>1, <1>2, <1>9 DEF Commit, BatchInv, Tells, TypeOK
    <2>2. SentInv'
        <3>1. hub' = hub /\ hub[q].value = included[q].value /\ q \in DOMAIN included
            BY <1>9 DEF Commit, BatchInv
        <3>2. sentRevision'[q] \in {included[q].revision, sentRevision[q]}
            BY <1>9 DEF Commit, Confirmed, TypeOK
        <3>3. \A p \in Ports \ {q} : sentRevision'[p] = sentRevision[p]
            BY <1>9 DEF Commit, TypeOK
        <3> QED
            BY <1>1, <1>2, <3>1, <3>2, <3>3 DEF BatchInv, SentInv, Tells
    <2>3. SamplingInv'
        BY <1>9 DEF Commit, SamplingInv
    <2> QED
        BY <1>3, <2>1, <2>2, <2>3
<1> QED
    BY <1>4, <1>5, <1>6, <1>7, <1>8, <1>9 DEF sendPortBatch

\* Every step preserves the invariant.
LEMMA StepLemma == OutboundInv /\ [Next]_vars => OutboundInv'
<1> SUFFICES ASSUME OutboundInv, [Next]_vars PROVE OutboundInv'
    OBVIOUS
<1>1. TypeOK' /\ HandsInv'
    BY TypeStepLemma
<1>2. CASE publishPort
    BY <1>1, <1>2, PublishStepLemma DEF OutboundInv
<1>3. CASE Register
    BY <1>1, <1>3, SessionStepLemma DEF OutboundInv, Register
<1>4. CASE Drop
    BY <1>1, <1>4, SessionStepLemma DEF OutboundInv, Drop
<1>5. CASE sendPortBatch /\ ~Disconnect
    BY <1>1, <1>5, BatchStepLemma DEF OutboundInv
<1>6. CASE sendPortBatch /\ Disconnect
    <2>1. UNCHANGED <<outboundBits, outboundRevision, publisher>>
        BY <1>6 DEF sendPortBatch, Begin, LoadBefore, LoadBits, LoadAfter, SendBatch, Commit
    <2> QED
        BY <1>1, <1>6, <2>1, SessionStepLemma DEF OutboundInv
<1>7. CASE UNCHANGED vars
    BY <1>1, <1>7 DEF vars, slots, publisher, io, OutboundInv, ZeroIsUnpublished, SamplingInv,
                      BatchInv, SentInv, Tells, Bumps, Publishing
<1> QED
    BY <1>2, <1>3, <1>4, <1>5, <1>6, <1>7 DEF Next

\* The invariant holds in every reachable state.
LEMMA Invariance == Spec => []OutboundInv
    BY InitLemma, StepLemma, PTL DEF Spec

\* The slots, the locals of both tasks and the batch keep their types, for every
\* number of ports, publishes and sessions.
THEOREM TypeCorrect == Spec => []TypeOK
<1>1. OutboundInv => TypeOK
    BY DEF OutboundInv
<1> QED
    BY <1>1, Invariance, PTL

\* A port counts as clean only while the Hub holds its current value, whichever
\* publishes slip between the loads of publishPort and sendPortBatch, over any number
\* of sessions and fewer publishes than make the revisions come round.
THEOREM CleanStaysCurrent == Spec => []CleanIsCurrent
<1>1. OutboundInv => CleanIsCurrent
    BY DEF OutboundInv, ZeroIsUnpublished, SentInv, Tells, CleanIsCurrent
<1> QED
    BY <1>1, Invariance, PTL
================================================================================
