------------------------------- MODULE MCStorage -------------------------------
\* The places where the SDK keeps bytes share nothing here: a behaviour is one of the
\* item ring, with two values and room for two, of the byte ring, with records of no
\* byte, one and two, whose bytes may look like a prefix, of one of the arenas, with
\* room for three small blocks and headers of one unit and of half a unit, or of the
\* frame buffer, with headers of two bytes and payloads of none, one and three.
EXTENDS SpscRing

CONSTANTS ByteRecords, ByteCapacity, OutputBytes, NoRecord,
          JsonCapacity, ResultCapacity, kAlignment, kMaxPayload, Sizes, Text, Zero,
          kHeaderSize, kFramesPerStep, kBytesPerStep, kFrameTimeout, MaxFrames, MaxSessions

VARIABLES part,
          bytes, byteHead, byteTail, bytePushing, putAt, toPut, bytePopping, takeAt,
          toTake, byteReceived,
          storage, used, overflowed, held,
          link, sessions, written, wire, available, pc, frames, bytesProcessed, rxHeader,
          rxPayloadOffset, buffer, rxFrameAge, delivered

MCRecords == {<<>>, <<7>>, <<0, 1>>}

ByteRing == INSTANCE SpscByteRing WITH
    Records <- ByteRecords, Capacity <- ByteCapacity, head <- byteHead, tail <- byteTail,
    pushing <- bytePushing, popping <- bytePopping, received <- byteReceived
Json == INSTANCE JsonArena WITH Capacity <- JsonCapacity, kHeader <- kAlignment
Result == INSTANCE ResultArena WITH Capacity <- ResultCapacity, kHeader <- 1
Frame == INSTANCE FrameReceiver

ASSUME FrameAssumption == Frame!ReceiverAssumption
ASSUME ByteRingAssumption == ByteRing!ByteRingAssumption
ASSUME ArenaAssumption == Json!ArenaAssumption /\ Result!ArenaAssumption

byteVars == <<bytes, byteHead, byteTail, bytePushing, putAt, toPut, bytePopping, takeAt,
              toTake, byteReceived>>
arenaVars == <<storage, used, overflowed, held>>
frameVars ==
    <<link, sessions, written, wire, available, pc, frames, bytesProcessed, rxHeader,
      rxPayloadOffset, buffer, rxFrameAge, delivered>>
mcVars == <<part, vars, byteVars, arenaVars, frameVars>>

MCInit ==
    /\ Init /\ ByteRing!Init /\ Frame!Init
    /\ \/ part \in {"item ring", "byte ring", "json arena", "frame buffer"} /\ Json!Init
       \/ part = "result arena" /\ Result!Init /\ overflowed = FALSE
MCNext ==
    \/ part = "item ring" /\ Next /\ UNCHANGED <<part, byteVars, arenaVars, frameVars>>
    \/ part = "byte ring" /\ ByteRing!Next /\ UNCHANGED <<part, vars, arenaVars, frameVars>>
    \/ part = "json arena" /\ Json!Next /\ UNCHANGED <<part, vars, byteVars, frameVars>>
    \/ /\ part = "result arena" /\ Result!Next
       /\ UNCHANGED <<part, vars, byteVars, overflowed, frameVars>>
    \/ part = "frame buffer" /\ Frame!Next /\ UNCHANGED <<part, vars, byteVars, arenaVars>>

\* The fairness is that of FrameReceiver's FairSpec.
MCSpec ==
    /\ MCInit /\ [][MCNext]_mcVars
    /\ WF_frameVars(part = "frame buffer" /\ Frame!IoPass)
    /\ WF_frameVars(part = "frame buffer" /\ Frame!Tick)

\* SpscByteRing's ImplementsByteFifo: the byte ring is a FIFO of whole records.
ImplementsByteFifo == ByteRing!ImplementsByteFifo

\* Both arenas keep the blocks of their document apart and as they were written.
ImplementsBlockStore == Json!ImplementsBlockStore /\ Result!ImplementsBlockStore

\* JsonArena's NothingLeftBehind, when the arena is that one.
NothingLeftBehind == part = "json arena" => Json!NothingLeftBehind

\* FrameReceiver's Aligned: the stream is cut into frames where the Hub cut it.
Aligned == Frame!Aligned

\* FrameReceiver's SpoiledOnlyBySends: only the device's own frames get into a payload.
SpoiledOnlyBySends == Frame!SpoiledOnlyBySends

\* FrameReceiver's InOrder: each frame is handled once, in the order of the Hub.
InOrder == Frame!InOrder

\* FrameReceiver's PartialFrameEnds: a frame that has begun is completed or abandoned.
PartialFrameEnds == Frame!PartialFrameEnds
================================================================================
