--------------------------- MODULE PortInbound_proofs --------------------------
(***************************************************************************)
(* Proofs about PortInbound, for every number of ports, their limits and    *)
(* policies, samples, sequence numbers, batches and sessions.               *)
(***************************************************************************)
EXTENDS PortInbound, SequenceTheorems, TLAPS

\* What the tasks hold between two steps.
HandsInv ==
    /\ batch \in Seq(Sample)
    /\ \A k \in 1 .. checked : batch[k].port \in Ports
    /\ done > 0 => checked = Len(batch)
    /\ link = "active" => session < MaxSessions
    /\ \A p \in Ports : inboundPending[p] => inboundBits[p].value \in Values
    /\ appPc = "apply" => hand.value \in Values
    /\ in \in [Ports -> Int \cup {NoValue}]

\* Sample t came after sample s.
Later(s, t) ==
    \/ s.session < t.session
    \/ s.session = t.session /\ s.sequence < t.sequence

\* Sample s is of an older session than m, or no newer than sequence n of session m.
UpTo(s, m, n) == s.session < m \/ (s.session = m /\ s.sequence <= n)

\* For each port: applied, then in the hand, then pending, then what may still come.
OrderInv ==
    /\ link # "active" => \A p \in Ports : inboundSequence[p] = 0
    /\ \A p \in Ports :
           /\ UpTo(inboundBits[p], session, inboundSequence[p])
           /\ UpTo(applied[p], session, inboundSequence[p])
           /\ inboundPending[p] => Later(applied[p], inboundBits[p])
           /\ appPc = "apply" /\ at = p =>
                  /\ UpTo(hand, session, inboundSequence[p])
                  /\ Later(applied[p], hand)
                  /\ inboundPending[p] => Later(hand, inboundBits[p])

\* The batch of a sample is not a refused one, nor one that may still be refused.
Settled(s) ==
    /\ s.batch <= batches
    /\ batch # << >> /\ done = 0 => s.batch < batches
    /\ refused # 0 => s.batch # refused

CommitInv ==
    /\ refused # 0 => link = "fatal"
    /\ Settled(hand)
    /\ \A p \in Ports : Settled(inboundBits[p]) /\ Settled(applied[p])
    /\ \A p \in Ports : inboundPending[p] =>
           link = "active" /\ inboundBits[p].session = session

EntriesInv ==
    /\ entries \in [Ports -> [limits : Ranges, policy : Policies]]
    /\ \A p \in Ports : Ordered(entries[p].limits)

InboundInv == TypeOK /\ HandsInv /\ OrderInv /\ CommitInv /\ EntriesInv /\ LimitsHold
--------------------------------------------------------------------------------
\* A value that is constrained lies within its limits.
LEMMA ConstrainLemma ==
    ASSUME NEW v \in Int, NEW limits \in Ranges, Ordered(limits)
    PROVE  Constrain(v, limits) \in Int /\ Within(Constrain(v, limits), limits)
<1>1. CASE limits = Unlimited
    BY <1>1 DEF Constrain, Within
<1>2. CASE limits \in Int \X Int
    <2>1. limits[1] \in Int /\ limits[2] \in Int
        BY <1>2
    <2> QED
        BY <2>1 DEF Constrain, Within, Ordered
<1> QED
    BY <1>1, <1>2 DEF Ranges

\* An entry of the registry has ordered limits, and its default respects them.
LEMMA EffectiveLemma ==
    ASSUME NEW p \in Ports, NEW spec \in SpecOf[p], Registered(spec)
    PROVE  /\ Entry(spec) \in [limits : Ranges, policy : Policies]
           /\ Ordered(Entry(spec).limits)
           /\ DefaultValue(spec) \in Int \cup {NoValue}
           /\ DefaultValue(spec) # NoValue /\ spec.policy # "allow" =>
                  Within(DefaultValue(spec), Effective(spec))
<1>1. /\ spec.policy \in Policies /\ spec.hard \in Ranges /\ spec.expected \in Ranges
      /\ spec.default \in Int \cup {NoValue}
    BY InboundAssumption DEF Ports
<1>2. Effective(spec) \in Ranges /\ Ordered(Effective(spec))
    BY <1>1 DEF Effective, Registered
<1>3. spec.default \in Int => /\ Constrain(spec.default, Effective(spec)) \in Int
                              /\ Within(Constrain(spec.default, Effective(spec)), Effective(spec))
    BY <1>2, ConstrainLemma
<1>4. spec.policy = "reject" /\ spec.default # NoValue => Within(spec.default, Effective(spec))
    BY DEF Registered
<1>5. spec.policy \in {"allow", "clamp", "reject"}
    BY <1>1 DEF Policies
<1> QED
    BY <1>1, <1>2, <1>3, <1>4, <1>5 DEF Entry, DefaultValue
--------------------------------------------------------------------------------
\* The initial states satisfy the invariant.
LEMMA InitLemma == Init => InboundInv
<1> SUFFICES ASSUME Init PROVE InboundInv
    OBVIOUS
<1>1. PICK specs \in [Ports -> UNION {SpecOf[p] : p \in Ports}] :
          /\ \A p \in Ports : specs[p] \in SpecOf[p] /\ Registered(specs[p])
          /\ entries = [p \in Ports |-> Entry(specs[p])]
          /\ in = [p \in Ports |-> DefaultValue(specs[p])]
    BY DEF Init
<1>2. \A p \in Ports : /\ Entry(specs[p]) \in [limits : Ranges, policy : Policies]
                       /\ Ordered(Entry(specs[p]).limits)
                       /\ DefaultValue(specs[p]) \in Int \cup {NoValue}
                       /\ DefaultValue(specs[p]) # NoValue /\ specs[p].policy # "allow" =>
                              Within(DefaultValue(specs[p]), Effective(specs[p]))
    BY <1>1, EffectiveLemma
<1>3. EntriesInv
    BY <1>1, <1>2 DEF EntriesInv
<1>4. LimitsHold
    BY <1>1, <1>2 DEF LimitsHold, Entry
<1>5. \A p \in Ports : in[p] # NoValue => in[p] \in Int
    BY <1>1, <1>2
<1>6. None \in Tagged /\ 1 \in Ports
    BY InboundAssumption DEF None, Tagged, Ports
<1>7. TypeOK
    <2>1. batch = << >> /\ Len(batch) = 0
        BY EmptySeq DEF Init
    <2>2. inboundPending \in [Ports -> BOOLEAN] /\ appChanged \in BOOLEAN /\ appWake \in BOOLEAN
        BY DEF Init
    <2> QED
        BY <1>5, <1>6, <2>1, <2>2, InboundAssumption DEF Init, TypeOK
<1>8. HandsInv
    BY <1>1, <1>2, EmptySeq DEF Init, HandsInv
<1>9. OrderInv /\ CommitInv
    BY DEF Init, OrderInv, CommitInv, UpTo, Settled, None
<1> QED
    BY <1>3, <1>4, <1>7, <1>8, <1>9 DEF InboundInv
--------------------------------------------------------------------------------
\* Counters of the batch in hand.
LEMMA BatchLemma ==
    ASSUME InboundInv
    PROVE  /\ Len(batch) \in Nat /\ checked \in Nat /\ done \in Nat
           /\ done <= checked /\ checked <= Len(batch)
           /\ batch = << >> => checked = 0 /\ done = 0
           /\ Len(batch) = 0 => batch = << >>
           /\ done < checked => batch[done + 1] \in Sample /\ batch[done + 1].port \in Ports
           /\ MaxSequence \in Nat /\ MaxSessions \in Nat /\ MaxBatches \in Nat
           /\ session \in Nat /\ batches \in Nat /\ refused \in Nat
<1>1. Len(batch) \in Nat /\ (batch = << >> <=> Len(batch) = 0)
    BY EmptySeq DEF InboundInv, HandsInv
<1>2. /\ MaxSequence \in Nat /\ MaxSessions \in Nat /\ MaxBatches \in Nat
      /\ session \in Nat /\ batches \in Nat /\ refused \in Nat
    BY InboundAssumption DEF InboundInv, TypeOK
<1>3. checked \in 0 .. Len(batch) /\ done \in 0 .. checked
    BY DEF InboundInv, TypeOK
<1>4. done < checked => batch[done + 1] \in Sample /\ batch[done + 1].port \in Ports
    <2> SUFFICES ASSUME done < checked
                 PROVE  batch[done + 1] \in Sample /\ batch[done + 1].port \in Ports
        OBVIOUS
    <2>1. done + 1 \in 1 .. checked /\ done + 1 \in 1 .. Len(batch)
        BY <1>1, <1>3
    <2> QED
        BY <2>1, ElementOfSeq DEF InboundInv, HandsInv
<1> QED
    BY <1>1, <1>2, <1>3, <1>4

\* The end of a session, whatever has ended it.
LEMMA EndSessionLemma ==
    ASSUME InboundInv, link = "active",
           NEW state \in {"backoff", "fatal"}, EndSession(state),
           {batches', refused'} \subseteq 0 .. MaxBatches, batches' >= batches,
           refused' # 0 => /\ state = "fatal" /\ refused' = batches'
                           /\ batches' > batches \/ (batch # << >> /\ done = 0)
    PROVE  InboundInv'
<1>1. /\ session \in Nat /\ session < MaxSessions /\ MaxSessions \in Nat /\ MaxSequence \in Nat
      /\ batches \in Nat /\ batches' \in Nat /\ refused' \in Nat /\ MaxSamples \in Nat
    BY BatchLemma, InboundAssumption DEF InboundInv, HandsInv
<1>2. /\ batch' = << >> /\ Len(batch') = 0 /\ checked' = 0 /\ done' = 0
      /\ session' = session + 1 /\ link' = state /\ appChanged' = FALSE
    BY EmptySeq DEF EndSession
<1>3. UNCHANGED <<inboundBits, appWake, app, entries>>
    BY DEF EndSession
<1>4. /\ inboundSequence' = [p \in Ports |-> 0] /\ inboundSequence' \in [Ports -> 0 .. MaxSequence]
      /\ inboundPending' = [p \in Ports |-> FALSE] /\ inboundPending' \in [Ports -> BOOLEAN]
    BY <1>1 DEF EndSession, InboundCleared
<1>5. TypeOK'
    <2>1. session' \in 0 .. MaxSessions + 1 /\ link' \in {"active", "backoff", "fatal"}
        BY <1>1, <1>2
    <2>2. Len(batch') \in 0 .. MaxSamples /\ checked' \in 0 .. Len(batch') /\ done' \in 0 .. checked'
        BY <1>1, <1>2
    <2>3. appChanged' \in BOOLEAN
        BY <1>2
    <2> QED
        BY <1>2, <1>3, <1>4, <2>1, <2>2, <2>3 DEF InboundInv, TypeOK, app
<1>6. HandsInv'
    BY <1>1, <1>2, <1>3, <1>4, EmptySeq DEF InboundInv, HandsInv, app
<1>7. OrderInv'
    <2>1. \A t \in Tagged, n \in 0 .. MaxSequence : UpTo(t, session, n) => UpTo(t, session + 1, 0)
        BY <1>1 DEF UpTo, Tagged
    <2>2. hand \in Tagged /\ inboundBits \in [Ports -> Tagged] /\ applied \in [Ports -> Tagged]
          /\ inboundSequence \in [Ports -> 0 .. MaxSequence]
        BY DEF InboundInv, TypeOK
    <2> QED
        BY <1>2, <1>3, <1>4, <2>1, <2>2 DEF InboundInv, OrderInv, app
<1>8. CommitInv'
    <2>1. \A t \in Tagged : Settled(t) => t.batch \in Nat /\ t.batch <= batches'
                                          /\ (refused' # 0 => t.batch # refused')
        BY <1>1 DEF Settled, Tagged
    <2>2. hand \in Tagged /\ inboundBits \in [Ports -> Tagged] /\ applied \in [Ports -> Tagged]
        BY DEF InboundInv, TypeOK
    <2> QED
        BY <1>2, <1>3, <1>4, <2>1, <2>2 DEF InboundInv, CommitInv, Settled, app
<1>9. EntriesInv' /\ LimitsHold'
    BY <1>3 DEF InboundInv, EntriesInv, LimitsHold, app
<1> QED
    BY <1>5, <1>6, <1>7, <1>8, <1>9 DEF InboundInv
--------------------------------------------------------------------------------
\* The I/O task goes on, or the Hub sends.

\* A session that begins counts every sequence from 0, as the last one ended.
LEMMA ActivateLemma ==
    ASSUME InboundInv, Activate PROVE InboundInv'
<1>1. /\ link' = "active" /\ inboundSequence' = [p \in Ports |-> 0]
      /\ inboundPending' = [p \in Ports |-> FALSE] /\ link = "backoff" /\ session < MaxSessions
      /\ UNCHANGED <<session, batch, checked, done, appChanged, batches, refused, inboundBits,
                     appWake, app, entries>>
    BY DEF Activate
<1>2. /\ inboundSequence' \in [Ports -> 0 .. MaxSequence]
      /\ inboundPending' \in [Ports -> BOOLEAN]
    BY <1>1, BatchLemma
<1>3. TypeOK'
    BY <1>1, <1>2 DEF InboundInv, TypeOK, app
<1>4. HandsInv' /\ EntriesInv' /\ LimitsHold'
    BY <1>1 DEF InboundInv, HandsInv, EntriesInv, LimitsHold, app
<1>5. OrderInv'
    BY <1>1 DEF InboundInv, OrderInv, app
<1>6. CommitInv'
    BY <1>1 DEF InboundInv, CommitInv, Settled, app
<1> QED
    BY <1>3, <1>4, <1>5, <1>6 DEF InboundInv

\* A batch that arrives is newer than every sample that is held.
LEMMA ReceiveLemma ==
    ASSUME InboundInv, ReceiveBatch PROVE InboundInv'
<1>1. /\ link = "active" /\ batch = << >> /\ batches < MaxBatches /\ batches' = batches + 1
      /\ UNCHANGED <<link, session, checked, done, appChanged, inboundSequence, refused, shared,
                     app, entries>>
    BY DEF ReceiveBatch
<1>2. PICK n \in 1 .. MaxSamples : batch' \in [1 .. n -> Sample]
    BY DEF ReceiveBatch
<1>3. /\ batch' \in Seq(Sample) /\ Len(batch') = n /\ batch' # << >> /\ n \in Nat
      /\ n <= MaxSamples
    <2>1. n \in Nat /\ n > 0 /\ n <= MaxSamples
        BY InboundAssumption
    <2>2. batch' \in Seq(Sample) /\ Len(batch') = n
        BY <1>2, <2>1
    <2> QED
        BY <2>1, <2>2, EmptySeq
<1>4. /\ checked = 0 /\ done = 0 /\ batches \in Nat /\ MaxBatches \in Nat
    BY <1>1, BatchLemma
<1>5. TypeOK'
    BY <1>1, <1>3, <1>4, InboundAssumption DEF InboundInv, TypeOK, app, shared
<1>6. HandsInv' /\ EntriesInv' /\ LimitsHold'
    BY <1>1, <1>3, <1>4 DEF InboundInv, HandsInv, EntriesInv, LimitsHold, app, shared
<1>7. OrderInv'
    BY <1>1 DEF InboundInv, OrderInv, app, shared
<1>8. CommitInv'
    <2>1. \A t \in Tagged : Settled(t) => t.batch \in Nat /\ t.batch < batches'
        BY <1>1, <1>4 DEF Settled, Tagged
    <2>2. hand \in Tagged /\ inboundBits \in [Ports -> Tagged] /\ applied \in [Ports -> Tagged]
        BY DEF InboundInv, TypeOK
    <2>3. \A t \in Tagged : t.batch < batches' /\ t.batch \in Nat =>
                            t.batch <= batches'
        BY <1>1, <1>4
    <2> QED
        BY <1>1, <2>1, <2>2, <2>3 DEF InboundInv, CommitInv, Settled, app, shared
<1> QED
    BY <1>5, <1>6, <1>7, <1>8 DEF InboundInv

\* A sample passes, or its batch is refused before any of it is committed.
LEMMA ValidateLemma ==
    ASSUME InboundInv, ValidateSample PROVE InboundInv'
<1>1. link = "active" /\ batch # << >> /\ checked < Len(batch) /\ done = 0
    BY BatchLemma DEF ValidateSample, InboundInv, TypeOK, HandsInv
<1>2. CASE SampleValid(checked + 1) /\ checked' = checked + 1
    <2>1. UNCHANGED <<link, session, batch, done, appChanged, inboundSequence, batches,
                      refused, shared, app, entries>>
        BY <1>2 DEF ValidateSample, RefuseBatch
    <2>2. checked + 1 \in 1 .. Len(batch) /\ checked \in Nat /\ Len(batch) \in Nat
        BY <1>1, BatchLemma
    <2>3. batch[checked + 1].port \in Ports
        <3>1. batch[checked + 1] \in Sample
            BY <2>2, ElementOfSeq DEF InboundInv, HandsInv
        <3> QED
            BY <1>2, <3>1 DEF SampleValid, KnownHandle, Sample
    <2>4. TypeOK'
        BY <1>1, <1>2, <2>1, <2>2 DEF InboundInv, TypeOK, app, shared
    <2>5. HandsInv'
        <3>1. \A k \in 1 .. checked' : batch[k].port \in Ports
            BY <1>2, <2>2, <2>3 DEF InboundInv, HandsInv
        <3> QED
            BY <1>1, <2>1, <3>1 DEF InboundInv, HandsInv, app, shared
    <2>6. OrderInv' /\ EntriesInv' /\ LimitsHold'
        BY <2>1 DEF InboundInv, OrderInv, EntriesInv, LimitsHold, app, shared
    <2>7. CommitInv'
        BY <2>1 DEF InboundInv, CommitInv, Settled, app, shared
    <2> QED
        BY <2>4, <2>5, <2>6, <2>7 DEF InboundInv
<1>3. CASE RefuseBatch(batches)
    <2>1. {batches', refused'} \subseteq 0 .. MaxBatches /\ batches' >= batches
          /\ refused' = batches' /\ EndSession("fatal")
        BY <1>3, BatchLemma DEF RefuseBatch, InboundInv, TypeOK
    <2> QED
        BY <1>1, <2>1, EndSessionLemma
<1> QED
    BY <1>2, <1>3 DEF ValidateSample

\* A committed sample is newer than all that its port has had.
LEMMA CommitLemma ==
    ASSUME InboundInv, CommitSample PROVE InboundInv'
<1> DEFINE s == batch[done + 1]
           p == s.port
           t == [batch |-> batches, session |-> session, sequence |-> s.sequence,
                 value |-> s.value]
<1>1. /\ link = "active" /\ batch # << >> /\ checked = Len(batch) /\ done < checked
      /\ UNCHANGED <<link, session, batch, checked, batches, refused, appWake, app, entries>>
      /\ done' = done + 1
    BY BatchLemma DEF CommitSample, ReadyToCommit, InboundInv, TypeOK
<1>2. /\ p \in Ports /\ s.sequence \in 0 .. MaxSequence /\ s.value \in Values
      /\ MaxSequence \in Nat /\ session \in Nat /\ batches \in Nat /\ done \in Nat
      /\ checked \in Nat /\ MaxSessions \in Nat /\ session <= MaxSessions
    BY <1>1, BatchLemma DEF Sample, InboundInv, HandsInv
<1>3. t \in Tagged
    <2>1. batches \in 0 .. MaxBatches /\ session \in 0 .. MaxSessions
        BY <1>2 DEF InboundInv, TypeOK
    <2> HIDE DEF s
    <2> QED
        BY <1>2, <2>1 DEF Tagged
<1>4. CASE OutOfOrder(p, s)
    <2>1. UNCHANGED <<inboundSequence, inboundPending, inboundBits, appChanged>>
        BY <1>4 DEF CommitSample
    <2>2. TypeOK' /\ HandsInv'
        BY <1>1, <1>2, <2>1 DEF InboundInv, TypeOK, HandsInv, app
    <2>3. OrderInv' /\ EntriesInv' /\ LimitsHold'
        BY <1>1, <2>1 DEF InboundInv, OrderInv, EntriesInv, LimitsHold, app
    <2>4. CommitInv'
        BY <1>1, <1>2, <2>1 DEF InboundInv, CommitInv, Settled, app
    <2> QED
        BY <2>2, <2>3, <2>4 DEF InboundInv
<1>5. CASE ~OutOfOrder(p, s)
    <2>1. /\ inboundSequence' = [inboundSequence EXCEPT ![p] = s.sequence]
          /\ inboundPending' = [inboundPending EXCEPT ![p] = TRUE]
          /\ inboundBits' = [inboundBits EXCEPT ![p] = t]
          /\ appChanged' = TRUE
        BY <1>5 DEF CommitSample
    <2>2. /\ inboundSequence' \in [Ports -> 0 .. MaxSequence]
          /\ inboundBits' \in [Ports -> Tagged]
          /\ inboundSequence'[p] = s.sequence /\ inboundBits'[p] = t
          /\ \A q \in Ports \ {p} : /\ inboundSequence'[q] = inboundSequence[q]
                                    /\ inboundBits'[q] = inboundBits[q]
        BY <1>2, <1>3, <2>1 DEF InboundInv, TypeOK
    <2>3. /\ inboundPending' \in [Ports -> BOOLEAN]
          /\ \A q \in Ports \ {p} : inboundPending'[q] = inboundPending[q]
        BY <1>2, <2>1 DEF InboundInv, TypeOK
    <2>4. appChanged' \in BOOLEAN
        BY <2>1
    <2>5. TypeOK'
        BY <1>1, <1>2, <2>2, <2>3, <2>4 DEF InboundInv, TypeOK, app
    <2>6. HandsInv'
        BY <1>1, <1>2, <2>2, <2>3 DEF InboundInv, HandsInv, app
    <2>7. OrderInv'
        <3>1. s.sequence > inboundSequence[p] /\ inboundSequence[p] \in Nat
            BY <1>2, <1>5 DEF OutOfOrder, InboundInv, TypeOK
        <3>2. \A u \in Tagged : UpTo(u, session, inboundSequence[p]) =>
                  UpTo(u, session, s.sequence) /\ Later(u, t)
            BY <1>2, <3>1 DEF UpTo, Later, Tagged
        <3>3. UpTo(t, session, s.sequence)
            BY <1>2 DEF UpTo
        <3>4. hand \in Tagged /\ applied[p] \in Tagged
            BY <1>2 DEF InboundInv, TypeOK
        <3>5. UpTo(applied[p], session, inboundSequence[p])
              /\ (appPc = "apply" /\ at = p =>
                      UpTo(hand, session, inboundSequence[p]) /\ Later(applied[p], hand))
            BY <1>2 DEF InboundInv, OrderInv
        <3> QED
            BY <1>1, <1>2, <2>2, <2>3, <3>2, <3>3, <3>4, <3>5 DEF InboundInv, OrderInv, app
    <2>8. CommitInv'
        <3>1. refused = 0
            BY <1>1 DEF InboundInv, CommitInv
        <3>2. t.batch <= batches /\ done' # 0
            BY <1>1, <1>2
        <3> QED
            <4> HIDE DEF s, t
            <4>1. hand.batch <= batches
                  /\ \A q \in Ports : inboundBits[q].batch <= batches /\ applied[q].batch <= batches
                BY DEF InboundInv, CommitInv, Settled
            <4>2. \A q \in Ports : inboundBits'[q].batch <= batches
                BY <2>2, <3>2, <4>1
            <4>3. t.session = session
                BY DEF t
            <4>4. \A q \in Ports : inboundPending'[q] => inboundBits'[q].session = session
                BY <2>2, <2>3, <4>3 DEF InboundInv, CommitInv
            <4> QED
                BY <1>1, <3>1, <3>2, <4>1, <4>2, <4>4 DEF CommitInv, Settled, app
    <2>9. EntriesInv' /\ LimitsHold'
        BY <1>1 DEF InboundInv, EntriesInv, LimitsHold, app
    <2> QED
        BY <2>5, <2>6, <2>7, <2>8, <2>9 DEF InboundInv
<1> QED
    BY <1>4, <1>5

\* The end of a batch wakes the application.
LEMMA EndBatchLemma ==
    ASSUME InboundInv, EndBatch PROVE InboundInv'
<1>1. /\ batch' = << >> /\ Len(batch') = 0 /\ checked' = 0 /\ done' = 0 /\ appChanged' = FALSE
      /\ UNCHANGED <<link, session, inboundSequence, batches, refused, inboundPending,
                     inboundBits, app, entries>>
    BY EmptySeq DEF EndBatch
<1>2. appWake' \in BOOLEAN /\ appChanged' \in BOOLEAN
    BY <1>1 DEF EndBatch, wakeApp, InboundInv, TypeOK
<1>3. TypeOK'
    <2>1. Len(batch') \in 0 .. MaxSamples /\ checked' \in 0 .. Len(batch') /\ done' \in 0 .. checked'
        BY <1>1, InboundAssumption
    <2> QED
        BY <1>1, <1>2, <2>1 DEF InboundInv, TypeOK, app
<1>4. HandsInv'
    BY <1>1, EmptySeq DEF InboundInv, HandsInv, app
<1>5. OrderInv' /\ CommitInv' /\ EntriesInv' /\ LimitsHold'
    BY <1>1 DEF InboundInv, OrderInv, CommitInv, Settled, EntriesInv, LimitsHold, app
<1> QED
    BY <1>3, <1>4, <1>5 DEF InboundInv
--------------------------------------------------------------------------------
\* The application takes and applies what is pending.

\* What is taken is the newest of its port, and leaves the slot.
LEMMA TakeLemma ==
    ASSUME InboundInv, TakePort PROVE InboundInv'
<1>1. /\ appPc = "poll" /\ UNCHANGED <<io, inboundBits, appWake, in, applied, entries>>
      /\ at \in Ports
    BY DEF TakePort, InboundInv, TypeOK
<1>2. CASE inboundPending[at]
    <2>1. /\ hand' = inboundBits[at] /\ appPc' = "apply" /\ at' = at
          /\ inboundPending' = [inboundPending EXCEPT ![at] = FALSE]
        BY <1>2 DEF TakePort
    <2>2. inboundPending' \in [Ports -> BOOLEAN] /\ ~inboundPending'[at]
          /\ \A q \in Ports \ {at} : inboundPending'[q] = inboundPending[q]
        BY <1>1, <2>1 DEF InboundInv, TypeOK
    <2>3. TypeOK' /\ HandsInv'
        BY <1>1, <1>2, <2>1, <2>2 DEF InboundInv, TypeOK, HandsInv, io
    <2>4. OrderInv'
        BY <1>1, <1>2, <2>1, <2>2 DEF InboundInv, OrderInv, io
    <2>5. CommitInv' /\ EntriesInv' /\ LimitsHold'
        BY <1>1, <1>2, <2>1, <2>2
        DEF InboundInv, CommitInv, Settled, EntriesInv, LimitsHold, io
    <2> QED
        BY <2>3, <2>4, <2>5 DEF InboundInv
<1>3. CASE ~inboundPending[at]
    <2>1. UNCHANGED <<hand, inboundPending>> /\ NextPort("wait")
        BY <1>3 DEF TakePort
    <2>2. at' \in Ports /\ appPc' \in {"wait", "poll"}
        BY <1>1, <2>1, InboundAssumption DEF NextPort, Scanned, Ports
    <2>3. TypeOK' /\ HandsInv'
        BY <1>1, <2>1, <2>2 DEF InboundInv, TypeOK, HandsInv, io
    <2>4. OrderInv' /\ CommitInv' /\ EntriesInv' /\ LimitsHold'
        BY <1>1, <2>1, <2>2 DEF InboundInv, OrderInv, CommitInv, Settled, EntriesInv,
                                LimitsHold, io
    <2> QED
        BY <2>3, <2>4 DEF InboundInv
<1> QED
    BY <1>2, <1>3

\* What is applied is what was taken, within the limits.
LEMMA ApplyLemma ==
    ASSUME InboundInv, ApplyInbound PROVE InboundInv'
<1> DEFINE limits == entries[at].limits
           policy == entries[at].policy
           value == CASE policy = "clamp" -> Constrain(hand.value, limits)
                      [] policy = "reject" /\ ~Within(hand.value, limits) -> in[at]
                      [] OTHER -> hand.value
<1>1. /\ appPc = "apply" /\ at \in Ports /\ UNCHANGED <<io, shared, entries>>
      /\ in' = [in EXCEPT ![at] = value] /\ applied' = [applied EXCEPT ![at] = hand]
      /\ hand' = None
    BY DEF ApplyInbound, InboundInv, TypeOK
<1>2. at' \in Ports /\ appPc' \in {"wait", "poll"}
    BY <1>1, InboundAssumption DEF ApplyInbound, Scanned, Ports
<1>3. None \in Tagged /\ None.batch = 0
    BY InboundAssumption DEF None, Tagged
<1>4. applied' \in [Ports -> Tagged] /\ applied'[at] = hand
      /\ \A q \in Ports \ {at} : applied'[q] = applied[q]
    BY <1>1 DEF InboundInv, TypeOK
<1>5. limits \in Ranges /\ Ordered(limits) /\ hand.value \in Int /\ policy \in Policies
    BY <1>1, InboundAssumption DEF InboundInv, EntriesInv, HandsInv
<1>6. Constrain(hand.value, limits) \in Int /\ Within(Constrain(hand.value, limits), limits)
    BY <1>5, ConstrainLemma
<1>7. /\ value \in Int \cup {NoValue}
      /\ value # NoValue /\ policy # "allow" => Within(value, limits)
    <2>1. in[at] \in Int \cup {NoValue}
          /\ (in[at] # NoValue /\ policy # "allow" => Within(in[at], limits))
        BY <1>1 DEF InboundInv, HandsInv, LimitsHold
    <2> HIDE DEF limits, policy
    <2> QED
        BY <1>5, <1>6, <2>1 DEF Policies
<1>8. /\ in' \in [Ports -> Int \cup {NoValue}] /\ in'[at] = value
      /\ \A q \in Ports \ {at} : in'[q] = in[q]
    <2> HIDE DEF value
    <2> QED
        BY <1>1, <1>7 DEF InboundInv, HandsInv
<1> HIDE DEF limits, policy, value
<1>9. TypeOK'
    BY <1>1, <1>2, <1>3, <1>4, <1>8 DEF InboundInv, TypeOK, io, shared
<1>10. HandsInv'
    BY <1>1, <1>2, <1>8 DEF InboundInv, HandsInv, io, shared
<1>11. OrderInv'
    BY <1>1, <1>2, <1>4 DEF InboundInv, OrderInv, io, shared
<1>12. CommitInv'
    <2>1. \A q \in Ports : Settled(applied'[q])
        BY <1>1, <1>4 DEF InboundInv, CommitInv
    <2>2. Settled(None)
        <3>1. Settled(hand) /\ hand.batch \in Nat /\ batches \in Nat /\ refused \in Nat
            BY BatchLemma DEF InboundInv, CommitInv, TypeOK, Tagged
        <3> QED
            BY <1>3, <3>1 DEF Settled
    <2> QED
        BY <1>1, <2>1, <2>2 DEF InboundInv, CommitInv, Settled, io, shared
<1>13. LimitsHold'
    BY <1>1, <1>7, <1>8 DEF InboundInv, LimitsHold, limits, policy
<1>14. EntriesInv'
    BY <1>1 DEF InboundInv, EntriesInv
<1> QED
    BY <1>9, <1>10, <1>11, <1>12, <1>13, <1>14 DEF InboundInv

\* The wait for work takes nothing.
LEMMA WaitLemma ==
    ASSUME InboundInv, CheckPort \/ WakeUp PROVE InboundInv'
<1>1. /\ UNCHANGED <<io, inboundPending, inboundBits, hand, in, applied, entries>>
      /\ at \in Ports /\ appPc' \in {"poll", "wait", "sleep"} /\ appWake' \in BOOLEAN
    BY DEF CheckPort, WakeUp, NextPort, shared, InboundInv, TypeOK
<1>2. at' \in Ports
    BY <1>1, InboundAssumption DEF CheckPort, WakeUp, NextPort, Scanned, Ports
<1>3. TypeOK' /\ HandsInv'
    BY <1>1, <1>2 DEF InboundInv, TypeOK, HandsInv, io
<1>4. OrderInv' /\ CommitInv' /\ EntriesInv' /\ LimitsHold'
    BY <1>1, <1>2 DEF InboundInv, OrderInv, CommitInv, Settled, EntriesInv, LimitsHold, io
<1> QED
    BY <1>3, <1>4 DEF InboundInv
--------------------------------------------------------------------------------
\* Every step preserves the invariant.
LEMMA StepLemma == InboundInv /\ [Next]_vars => InboundInv'
<1> SUFFICES ASSUME InboundInv, [Next]_vars PROVE InboundInv'
    OBVIOUS
<1>1. CASE Activate
    BY <1>1, ActivateLemma
<1>2. CASE LoseSession
    <2>1. link = "active" /\ EndSession("backoff") /\ batches' = batches /\ refused' = 0
        BY <1>2 DEF LoseSession, InboundInv, CommitInv
    <2>2. {batches', refused'} \subseteq 0 .. MaxBatches /\ batches' >= batches
        BY <2>1, BatchLemma DEF InboundInv, TypeOK
    <2> QED
        BY <2>1, <2>2, EndSessionLemma
<1>3. CASE ReceiveBatch
    BY <1>3, ReceiveLemma
<1>4. CASE RefuseSize
    <2>1. /\ link = "active" /\ EndSession("fatal") /\ batches < MaxBatches
          /\ batches' = batches + 1 /\ refused' = batches'
        BY <1>4 DEF RefuseSize, RefuseBatch
    <2>2. {batches', refused'} \subseteq 0 .. MaxBatches /\ batches' > batches
        BY <2>1, BatchLemma
    <2> QED
        BY <2>1, <2>2, EndSessionLemma, BatchLemma
<1>5. CASE ValidateSample
    BY <1>5, ValidateLemma
<1>6. CASE CommitSample
    BY <1>6, CommitLemma
<1>7. CASE EndBatch
    BY <1>7, EndBatchLemma
<1>8. CASE TakePort
    BY <1>8, TakeLemma
<1>9. CASE ApplyInbound
    BY <1>9, ApplyLemma
<1>10. CASE CheckPort \/ WakeUp
    BY <1>10, WaitLemma
<1>11. CASE UNCHANGED vars
    BY <1>11 DEF vars, io, shared, app, InboundInv, TypeOK, HandsInv, OrderInv, CommitInv,
                 Settled, EntriesInv, LimitsHold
<1> QED
    BY <1>1, <1>2, <1>3, <1>4, <1>5, <1>6, <1>7, <1>8, <1>9, <1>10, <1>11
    DEF Next, IoStep, AppStep

\* The invariant holds in every reachable state.
LEMMA Invariance == Spec => []InboundInv
<1>1. Init => InboundInv
    BY InitLemma
<1>2. InboundInv /\ [Next]_vars => InboundInv'
    BY StepLemma
<1> QED
    BY <1>1, <1>2, PTL DEF Spec

\* The batch in hand, the slots of the ports and what the application holds keep
\* their types, for every number of ports, samples and sessions.
THEOREM TypeCorrect == Spec => []TypeOK
<1>1. InboundInv => TypeOK
    BY DEF InboundInv
<1> QED
    BY <1>1, Invariance, PTL

\* The application takes no value of a refused batch, and none of a session that was
\* lost waits for it.
THEOREM CommittedIsTaken == Spec => []OnlyCommittedIsTaken
<1>1. InboundInv => OnlyCommittedIsTaken
    BY DEF InboundInv, CommitInv, Settled, OnlyCommittedIsTaken
<1> QED
    BY <1>1, Invariance, PTL

\* Whatever the Hub sends and whatever default a port is registered with, what a port
\* holds respects the limits that its policy enforces.
THEOREM LimitsAreHeld == Spec => []LimitsHold
<1>1. InboundInv => LimitsHold
    BY DEF InboundInv
<1> QED
    BY <1>1, Invariance, PTL

\* Values are applied to a port in the order of the Hub, although they wait in one
\* slot, the application takes them at its own pace, and sessions come and go.
THEOREM OrderIsKept == Spec => AppliedInOrder
<1> DEFINE Advances ==
        \A p \in Ports : applied'[p] # applied[p] =>
            \/ applied'[p].session > applied[p].session
            \/ /\ applied'[p].session = applied[p].session
               /\ applied'[p].sequence > applied[p].sequence
<1>1. InboundInv /\ [Next]_vars => [Advances]_vars
    <2> SUFFICES ASSUME InboundInv, Next, NEW p \in Ports, applied'[p] # applied[p]
                 PROVE  \/ applied'[p].session > applied[p].session
                        \/ /\ applied'[p].session = applied[p].session
                           /\ applied'[p].sequence > applied[p].sequence
        OBVIOUS
    <2>1. ApplyInbound
        BY DEF Next, IoStep, AppStep, Activate, LoseSession, ReceiveBatch, RefuseSize,
               RefuseBatch, EndSession, ValidateSample, CommitSample, EndBatch, TakePort,
               CheckPort, WakeUp, app
    <2>2. applied' = [applied EXCEPT ![at] = hand] /\ appPc = "apply"
        BY <2>1 DEF ApplyInbound
    <2>3. at = p /\ applied'[p] = hand /\ applied[p] \in Tagged /\ hand \in Tagged
        BY <2>2 DEF InboundInv, TypeOK
    <2>4. Later(applied[p], hand)
        BY <2>2, <2>3 DEF InboundInv, OrderInv
    <2>5. /\ applied[p].session \in Int /\ hand.session \in Int
          /\ applied[p].sequence \in Int /\ hand.sequence \in Int
        BY <2>3 DEF Tagged
    <2> QED
        BY <2>3, <2>4, <2>5 DEF Later
<1>2. Spec => []InboundInv
    BY Invariance
<1> QED
    BY <1>1, <1>2, PTL DEF Spec, AppliedInOrder
================================================================================
