-------------------------------- MODULE ByteFifo --------------------------------
(***************************************************************************)
(* What a byte ring promises to the two tasks that share it: a FIFO of      *)
(* records whose lengths, each with a prefix of kPrefix bytes, add up to    *)
(* less than Capacity.  ToolPipeline takes its two byte rings for this;     *)
(* SpscByteRing implements it.                                              *)
(***************************************************************************)
EXTENDS Naturals, Sequences

CONSTANTS Records,     \* what the program stores: sequences of bytes
          Capacity,    \* bytes of the ring, one of which stays free
          kPrefix,
          NoValue      \* the output of tryPop before the first call

VARIABLES queue,       \* records pushed and not yet popped, oldest first
          stored,      \* what they take of the ring
          received     \* the record the last successful tryPop returned

fifoVars == <<queue, stored, received>>

Cost(r) == kPrefix + Len(r)

Init == queue = <<>> /\ stored = 0 /\ received = NoValue

Push(r) ==
    /\ stored + Cost(r) < Capacity
    /\ queue' = Append(queue, r) /\ stored' = stored + Cost(r)
    /\ UNCHANGED received

Pop ==
    /\ queue # <<>>
    /\ received' = Head(queue)
    /\ queue' = Tail(queue) /\ stored' = stored - Cost(Head(queue))

Next == (\E r \in Records : Push(r)) \/ Pop

Spec == Init /\ [][Next]_fifoVars
================================================================================
