-------------------------------- MODULE JsonArena --------------------------------
(***************************************************************************)
(* ZeroizingJsonAllocator (ProvisioningPortal.cpp): the memory in which the *)
(* body of a setup request is parsed.  Blocks are cut from one array, each  *)
(* behind its header; the newest can grow, shrink and be given back in      *)
(* place.  What a block no longer needs is wiped at once, since it may hold *)
(* a password or a token.                                                   *)
(*                                                                          *)
(* A cell of the array is a byte of text, zero, or the first byte of a      *)
(* header, which stands for the whole of it.  External: the JsonDocument,   *)
(* which holds pointers, and writes only inside of its blocks.              *)
(***************************************************************************)
EXTENDS Naturals

CONSTANTS
    Capacity,       \* kJsonArenaBytes
    kHeader,        \* sizeof(BlockHeader), a multiple of kAlignment
    kAlignment,
    kMaxPayload,    \* UINT16_MAX
    Sizes,          \* sizes the document asks for
    Text, Zero      \* what it writes; a wiped byte

VARIABLES
    storage,        \* storage_
    used,           \* used_
    overflowed,     \* overflowed_
    held            \* pointer the document holds -> the size it asked for

vars == <<storage, used, overflowed, held>>

Offsets == 0 .. Capacity - 1

\* The allocator is made for one request; malloc may fail.
Init ==
    /\ storage = [i \in Offsets |-> Zero]
    /\ used = 0 /\ overflowed = FALSE /\ held = << >>
--------------------------------------------------------------------------------
\* Mutants: the end of a block that shrinks is left as it is; a block that is
\* not the newest moves the end of the arena.
Shrunk_NotWiped(p, n) == storage
IsNewest_Assumed(p) == TRUE

alignedSize(n) == kAlignment * ((n + kAlignment - 1) \div kAlignment)
Span(n) == alignedSize(kHeader + n)

Wiped(bytes, from, n) == [i \in Offsets |-> IF i \in from .. from + n - 1 THEN Zero ELSE bytes[i]]
Header(p) == storage[p - kHeader]
WithHeader(bytes, p, h) == [bytes EXCEPT ![p - kHeader] = h]
IsNewest(p) == p - kHeader + Header(p).spanBytes = used

Headers == [payloadBytes : 1 .. kMaxPayload, spanBytes : 1 .. kMaxPayload, active : BOOLEAN]

\* The array is no longer than a size in a header can say, and what the document
\* writes is told from what the arena does.
ArenaAssumption ==
    /\ Capacity \in Nat /\ kMaxPayload \in Nat /\ Capacity <= kMaxPayload
    /\ kHeader \in Nat \ {0} /\ kAlignment \in Nat \ {0}
    /\ Sizes \subseteq Nat /\ Text \cap (Headers \cup {Zero}) = {}

\* findHeader
IsBlock(p) ==
    /\ p \in kHeader .. Capacity - 1
    /\ Header(p) \in Headers /\ Header(p).active
    /\ Header(p).spanBytes >= kHeader + Header(p).payloadBytes
    /\ p - kHeader + Header(p).spanBytes <= used

\* What the document holds when it gets a pointer, or gives one up.
Holding(blocks, p, n) == [q \in DOMAIN blocks \cup {p} |-> IF q = p THEN n ELSE blocks[q]]
Forget(p) == [q \in DOMAIN held \ {p} |-> held[q]]

Refused == overflowed' = TRUE /\ UNCHANGED <<storage, used, held>>

\* allocate(n): the block behind those in use.
Fits(n) == n \in 1 .. kMaxPayload /\ Span(n) <= Capacity - used
NewPointer == used + kHeader
Placed(n) ==
    WithHeader(Wiped(storage, used, Span(n)), NewPointer,
               [payloadBytes |-> n, spanBytes |-> Span(n), active |-> TRUE])

Allocate(n) ==
    /\ Fits(n)
    /\ storage' = Placed(n) /\ used' = used + Span(n)
    /\ held' = Holding(held, NewPointer, n)
    /\ UNCHANGED overflowed

AllocateRefused(n) == ~Fits(n) /\ Refused

\* deallocate(p), where bytes is the array: the newest block is given back.
Released(bytes, p) ==
    WithHeader(Wiped(bytes, p, Header(p).payloadBytes), p, [Header(p) EXCEPT !.active = FALSE])
GivenBack(p) == Wiped(storage, p - kHeader, Header(p).spanBytes)

Deallocate(p) ==
    /\ IsBlock(p)
    /\ IF IsNewest(p) THEN storage' = GivenBack(p) /\ used' = p - kHeader
                      ELSE storage' = Released(storage, p) /\ UNCHANGED used
    /\ held' = Forget(p)
    /\ UNCHANGED overflowed
--------------------------------------------------------------------------------
\* reallocate(p, n)

Resized(bytes, p, n, span) ==
    WithHeader(bytes, p, [Header(p) EXCEPT !.payloadBytes = n, !.spanBytes = span])
Shrunk(p, n) == Wiped(storage, p + n, Header(p).payloadBytes - n)
Shrinks(p, n) == IsBlock(p) /\ n \in 1 .. Header(p).payloadBytes

ShrinkNewest(p, n) ==
    /\ Shrinks(p, n) /\ IsNewest(p)
    /\ storage' = Resized(Wiped(Shrunk(p, n), p - kHeader + Span(n), Header(p).spanBytes - Span(n)),
                          p, n, Span(n))
    /\ used' = p - kHeader + Span(n)
    /\ held' = [held EXCEPT ![p] = n] /\ UNCHANGED overflowed

Shrink(p, n) ==
    /\ Shrinks(p, n) /\ ~IsNewest(p)
    /\ storage' = Resized(Shrunk(p, n), p, n, Header(p).spanBytes)
    /\ held' = [held EXCEPT ![p] = n] /\ UNCHANGED <<used, overflowed>>

Grows(p, n) == IsBlock(p) /\ n \in Header(p).payloadBytes + 1 .. kMaxPayload
InPlace(p, n) == IsNewest(p) /\ Span(n) <= Capacity - (p - kHeader)

GrowNewest(p, n) ==
    /\ Grows(p, n) /\ InPlace(p, n)
    /\ storage' = Resized(Wiped(Wiped(storage, p + Header(p).payloadBytes,
                                      n - Header(p).payloadBytes),
                                p - kHeader + Header(p).spanBytes, Span(n) - Header(p).spanBytes),
                          p, n, Span(n))
    /\ used' = p - kHeader + Span(n)
    /\ held' = [held EXCEPT ![p] = n] /\ UNCHANGED overflowed

\* A new block, the bytes of the old one, and its release.
Copied(bytes, p, q) ==
    [i \in Offsets |-> IF i \in q .. q + Header(p).payloadBytes - 1 THEN bytes[p + i - q]
                                                                     ELSE bytes[i]]
Move(p, n) ==
    /\ Grows(p, n) /\ ~InPlace(p, n) /\ Fits(n)
    /\ storage' = Released(Copied(Placed(n), p, NewPointer), p)
    /\ used' = used + Span(n)
    /\ held' = Holding(Forget(p), NewPointer, n) /\ UNCHANGED overflowed

\* The old block stays as it is.
ReallocateRefused(p, n) ==
    \/ ~IsBlock(p) /\ n # 0
    \/ IsBlock(p) /\ n > kMaxPayload
    \/ Grows(p, n) /\ ~InPlace(p, n) /\ ~Fits(n)

Reallocate(p, n) ==
    \/ n = 0 /\ Deallocate(p)
    \/ ShrinkNewest(p, n) \/ Shrink(p, n) \/ GrowNewest(p, n) \/ Move(p, n)
    \/ ReallocateRefused(p, n) /\ Refused
--------------------------------------------------------------------------------
\* The document fills a block it holds.
Write(p, t) ==
    /\ storage' = [i \in Offsets |-> IF i \in p .. p + held[p] - 1 THEN t ELSE storage[i]]
    /\ UNCHANGED <<used, overflowed, held>>

Next ==
    \/ \E n \in Sizes : Allocate(n) \/ AllocateRefused(n)
    \/ \E p \in DOMAIN held :
           \/ Deallocate(p)
           \/ \E n \in Sizes : Reallocate(p, n)
           \/ \E t \in Text : Write(p, t)

Spec == Init /\ [][Next]_vars
--------------------------------------------------------------------------------
Store == INSTANCE BlockStore WITH
    blocks <- [p \in DOMAIN held |-> [i \in 1 .. held[p] |-> storage[p + i - 1]]]

\* Blocks that are held do not touch one another, their headers or the end of the
\* array, and keep what was written to them wherever they are moved.
ImplementsBlockStore == Store!Spec

\* "This allocator then wipes ... blocks that were released or superseded by a
\* reallocation" (ProvisioningPortal.cpp:229): what was written is found in blocks
\* that are held only, not in the rest of one that shrank, moved or was given back.
NothingLeftBehind ==
    \A i \in Offsets : storage[i] \in Text =>
        \E p \in DOMAIN held : i \in p .. p + held[p] - 1
================================================================================
