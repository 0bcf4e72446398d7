------------------------------- MODULE BlockStore -------------------------------
(***************************************************************************)
(* What a JsonDocument relies on in its allocator: a block that is held is  *)
(* its own.  Nothing but a write through its pointer changes what is in it, *)
(* a block that is resized keeps its beginning, wherever it goes, and a new *)
(* pointer is not one that is held.  A request may be refused.  JsonArena   *)
(* and ResultArena implement this.                                          *)
(***************************************************************************)
EXTENDS Naturals, Sequences

CONSTANT Sizes        \* what is asked for

VARIABLE blocks       \* pointer that is held -> what is in its block

Held == DOMAIN blocks
Init == blocks = << >>

\* The blocks other than those of P are held as before.
KeepsAllBut(P) ==
    /\ Held \ P = Held' \ P
    /\ \A p \in Held \ P : blocks'[p] = blocks[p]

Shorter(m, n) == IF m < n THEN m ELSE n

Allocate(n) ==
    \E p \in Held' \ Held : Len(blocks'[p]) = n /\ KeepsAllBut({p})

Resize(p, n) ==
    \E q \in Held' \ (Held \ {p}) :
        /\ Len(blocks'[q]) = n
        /\ \A i \in 1 .. Shorter(n, Len(blocks[p])) : blocks'[q][i] = blocks[p][i]
        /\ p # q => p \notin Held'
        /\ KeepsAllBut({p, q})

Free(P) == P \cap Held' = {} /\ KeepsAllBut(P)

Write(p) == Held' = Held /\ Len(blocks'[p]) = Len(blocks[p]) /\ KeepsAllBut({p})

Next ==
    \/ \E n \in Sizes : Allocate(n) \/ \E p \in Held : Resize(p, n)
    \/ \E P \in SUBSET Held : Free(P)
    \/ \E p \in Held : Write(p)

Spec == Init /\ [][Next]_blocks
================================================================================
