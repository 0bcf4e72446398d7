------------------------------ MODULE BoundedFifo ------------------------------
(***************************************************************************)
(* What a single-producer/single-consumer ring promises to the two tasks   *)
(* that share it: a FIFO of at most Capacity values.  tryPush and tryPop   *)
(* appear as one step each; a call that returns false is a stuttering      *)
(* step.  SpscRing implements this specification.                          *)
(***************************************************************************)
EXTENDS Naturals, Sequences

CONSTANTS Values,      \* what the program stores in the ring
          Capacity,    \* number of values the ring holds at most
          NoValue      \* the output variable of tryPop before the first call

VARIABLES queue,       \* values pushed and not yet popped, oldest first
          received     \* the value the last successful tryPop returned

fifoVars == <<queue, received>>

Init == queue = <<>> /\ received = NoValue

Push(v) ==
    /\ Len(queue) < Capacity
    /\ queue' = Append(queue, v)
    /\ UNCHANGED received

Pop ==
    /\ queue # <<>>
    /\ received' = Head(queue)
    /\ queue' = Tail(queue)

Next == (\E v \in Values : Push(v)) \/ Pop

Spec == Init /\ [][Next]_fifoVars
================================================================================
