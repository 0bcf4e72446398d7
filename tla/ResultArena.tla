------------------------------- MODULE ResultArena -------------------------------
(***************************************************************************)
(* ToolResultArena (Runtime.cpp): the memory of the document in which a     *)
(* Tool writes its result.  Blocks are cut from one array and only the      *)
(* newest changes its size in place; everything is given back at once when  *)
(* the document is cleared for the next call.                               *)
(* External: the JsonDocument, which holds pointers.                        *)
(***************************************************************************)
EXTENDS Naturals

CONSTANTS
    Capacity,       \* kToolResultArenaBytes
    kHeader,        \* sizeof(BlockHeader), less than kAlignment
    kAlignment,
    Sizes,          \* sizes the document asks for
    Text, Zero      \* what it writes; a byte of storage_{}

VARIABLES
    storage,        \* storage_; the size in a header is its first byte
    used,           \* used_
    held            \* pointer the document holds -> the size it asked for

vars == <<storage, used, held>>

Offsets == 0 .. Capacity - 1

Init == storage = [i \in Offsets |-> Zero] /\ used = 0 /\ held = << >>
--------------------------------------------------------------------------------
\* Mutant: a block that is no longer the newest grows in place as well.
Newest_Any(p) == TRUE

alignUp(n) == kAlignment * ((n + kAlignment - 1) \div kAlignment)

ArenaAssumption ==
    /\ Capacity \in Nat /\ kHeader \in Nat \ {0} /\ kAlignment \in Nat \ {0}
    /\ Sizes \subseteq Nat

\* allocate(n)
DataOffset == alignUp(used + kHeader)
Fits(n) == n > 0 /\ DataOffset + n <= Capacity

Sized(bytes, p, n) == [bytes EXCEPT ![p - kHeader] = [size |-> n]]
Size(p) == storage[p - kHeader].size

\* What the document holds when it gets a pointer, or gives one up.
Holding(blocks, p, n) == [q \in DOMAIN blocks \cup {p} |-> IF q = p THEN n ELSE blocks[q]]
Forget(p) == [q \in DOMAIN held \ {p} |-> held[q]]

Allocate(n) ==
    /\ Fits(n)
    /\ storage' = Sized(storage, DataOffset, n)
    /\ used' = DataOffset + n
    /\ held' = Holding(held, DataOffset, n)

\* deallocate keeps the memory.
Deallocate(p) == held' = Forget(p) /\ UNCHANGED <<storage, used>>

\* reallocate(p, n): nothing happens for a pointer or a size out of range.
Newest(p) == p + Size(p) = used
InRange(p) == p \in kHeader .. Capacity - 1 /\ p + Size(p) <= used

ResizeNewest(p, n) ==
    /\ InRange(p) /\ n > 0 /\ Newest(p) /\ p + n <= Capacity
    /\ storage' = Sized(storage, p, n) /\ used' = p + n
    /\ held' = [held EXCEPT ![p] = n]

Shrink(p, n) ==
    /\ InRange(p) /\ ~Newest(p) /\ n \in 1 .. Size(p)
    /\ storage' = Sized(storage, p, n)
    /\ held' = [held EXCEPT ![p] = n] /\ UNCHANGED used

Move(p, n) ==
    /\ InRange(p) /\ ~Newest(p) /\ n > Size(p) /\ Fits(n)
    /\ LET bytes == Sized(storage, DataOffset, n)
       IN  storage' = [i \in Offsets |->
                           IF i \in DataOffset .. DataOffset + Size(p) - 1
                           THEN bytes[p + i - DataOffset] ELSE bytes[i]]
    /\ used' = DataOffset + n
    /\ held' = Holding(Forget(p), DataOffset, n)

\* resetAppResultDocument: the document lets go of everything first.
Reset == held' = << >> /\ used' = 0 /\ UNCHANGED storage

\* The document fills a block it holds.
Write(p, t) ==
    /\ storage' = [i \in Offsets |-> IF i \in p .. p + held[p] - 1 THEN t ELSE storage[i]]
    /\ UNCHANGED <<used, held>>

Next ==
    \/ Reset
    \/ \E n \in Sizes : Allocate(n)
    \/ \E p \in DOMAIN held :
           \/ Deallocate(p)
           \/ \E n \in Sizes : ResizeNewest(p, n) \/ Shrink(p, n) \/ Move(p, n)
           \/ \E t \in Text : Write(p, t)

Spec == Init /\ [][Next]_vars
--------------------------------------------------------------------------------
Store == INSTANCE BlockStore WITH
    blocks <- [p \in DOMAIN held |-> [i \in 1 .. held[p] |-> storage[p + i - 1]]]

\* Blocks that are held do not touch one another, their headers or the end of the
\* array, and keep what was written to them wherever they are moved.
ImplementsBlockStore == Store!Spec
================================================================================
