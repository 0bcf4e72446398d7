----------------------------- MODULE FrameReceiver -----------------------------
(***************************************************************************)
(* receiveFrames (Runtime.cpp) and the one frame buffer of the link.  Bytes *)
(* of the Hub's frames arrive in pieces; the header is collected in         *)
(* rxHeader_, the payload in framePayload(), which is also where every      *)
(* frame the device sends is built.  After each pass of receiveFrames       *)
(* linkLoop may send (a Tool result, a heartbeat, a port batch).            *)
(*                                                                          *)
(* A byte is named by its frame, the part of the frame and its position.    *)
(* The Hub and the transport are external: a frame is a header followed by  *)
(* a payload, bytes arrive in order, and none is lost within a session.     *)
(***************************************************************************)
EXTENDS Integers, Sequences

CONSTANTS
    kHeaderSize,      \* bytes of a frame header
    Sizes,            \* payload lengths of the frames the Hub sends
    kFramesPerStep, kBytesPerStep,
    kFrameTimeout,    \* kFrameTimeoutMs
    MaxFrames,        \* bound: frames of one session
    MaxSessions       \* bound: sessions

ReceiverAssumption ==
    /\ kHeaderSize \in Nat \ {0} /\ Sizes \subseteq Nat
    /\ \E n \in Sizes : n > 0 /\ \A m \in Sizes : m <= n
    /\ kFramesPerStep \in Nat \ {0} /\ kBytesPerStep \in Nat \ {0}
    /\ kFrameTimeout \in Nat
    /\ MaxFrames \in Nat /\ MaxSessions \in Nat

VARIABLES
    link,             \* "active" or "closed"
    sessions,         \* number of sessions so far
    written,          \* frames the Hub has written in this session
    wire,             \* bytes written and not yet readable
    available,        \* bytes client_ can read
    pc,               \* "receive", "payload" (the header was just completed),
                      \* "process" or "send"
    frames, bytesProcessed,
    rxHeader,         \* the first rxHeaderOffset_ bytes of rxHeader_
    rxPayloadOffset,
    buffer,           \* framePayload()
    rxFrameAge,       \* millis() - rxFrameStartedAt_, or NotStarted for 0
    delivered         \* history: [frame, payload] given to processFrame last

rx == <<rxHeader, rxPayloadOffset, rxFrameAge>>
vars == <<link, sessions, written, wire, available, pc, frames, bytesProcessed, rx,
          buffer, delivered>>

NotStarted == -1
Cells == 1 .. CHOOSE n \in Sizes : \A m \in Sizes : m <= n
OwnByte == <<0, "own", 0>>       \* a byte of a frame the device sends
ZeroByte == <<0, "zero", 0>>     \* a wiped byte

Header(f, n) == [i \in 1 .. kHeaderSize |-> <<f, n, -i>>]
Payload(f, n) == [i \in 1 .. n |-> <<f, n, i>>]

Init ==
    /\ link = "closed" /\ sessions = 0 /\ written = 0
    /\ wire = <<>> /\ available = <<>>
    /\ pc = "receive" /\ frames = 0 /\ bytesProcessed = 0
    /\ rxHeader = <<>> /\ rxPayloadOffset = 0 /\ rxFrameAge = NotStarted
    /\ buffer = [i \in Cells |-> ZeroByte]
    /\ delivered = [frame |-> 0, payload |-> <<>>]
--------------------------------------------------------------------------------
HubWrites ==
    /\ link = "active" /\ wire = <<>> /\ written < MaxFrames
    /\ written' = written + 1
    /\ \E n \in Sizes : wire' = Header(written', n) \o Payload(written', n)
    /\ UNCHANGED <<link, sessions, available, pc, frames, bytesProcessed, rx, buffer,
                   delivered>>

\* A piece of the frame becomes readable.
Arrive(n) ==
    /\ link = "active" /\ n \in 1 .. Len(wire)
    /\ available' = available \o SubSeq(wire, 1, n)
    /\ wire' = SubSeq(wire, n + 1, Len(wire))
    /\ UNCHANGED <<link, sessions, written, pc, frames, bytesProcessed, rx, buffer,
                   delivered>>

Connect ==
    /\ link = "closed" /\ sessions < MaxSessions
    /\ link' = "active" /\ sessions' = sessions + 1
    /\ written' = 0 /\ wire' = <<>> /\ available' = <<>>
    /\ delivered' = [frame |-> 0, payload |-> <<>>]
    /\ pc' = "receive" /\ frames' = 0 /\ bytesProcessed' = 0
    /\ UNCHANGED <<rx, buffer>>

\* Mutants: a partial frame survives its session, its header or offset the frame.
ResetSessionRx_Forgotten == UNCHANGED rx
NextFrameRx_KeepsHeader ==
    UNCHANGED rxHeader /\ rxPayloadOffset' = 0 /\ rxFrameAge' = NotStarted
NextFrameRx_KeepsOffset ==
    UNCHANGED rxPayloadOffset /\ rxHeader' = <<>> /\ rxFrameAge' = NotStarted

\* resetSession forgets a partial frame; so does the end of a frame.
ResetSessionRx == rxHeader' = <<>> /\ rxPayloadOffset' = 0 /\ rxFrameAge' = NotStarted
NextFrameRx == rxHeader' = <<>> /\ rxPayloadOffset' = 0 /\ rxFrameAge' = NotStarted

\* disconnectAndBackoff, fatal or not.
Disconnect ==
    /\ link' = "closed"
    /\ ResetSessionRx
    /\ buffer' = [i \in Cells |-> ZeroByte]
    /\ pc' = "receive"
    /\ UNCHANGED <<sessions, written, wire, available, frames, bytesProcessed>>
--------------------------------------------------------------------------------
\* Mutant: no timeout.
TimedOut_Dropped == FALSE

LoopGoes ==
    frames < kFramesPerStep /\ bytesProcessed < kBytesPerStep /\ available # <<>>

\* client_.read returns what is readable, at most what is wanted.
Readable(wanted) == IF wanted < Len(available) THEN wanted ELSE Len(available)
Consume(n) ==
    /\ available' = SubSeq(available, n + 1, Len(available))
    /\ bytesProcessed' = bytesProcessed + n

\* decodeHeader accepts the bytes of one whole header.
HeaderValid(bytes) == bytes = Header(bytes[1][1], bytes[1][2])
rxPayloadLength == rxHeader[1][2]

ReadHeader ==
    /\ link = "active" /\ pc = "receive" /\ LoopGoes /\ Len(rxHeader) < kHeaderSize
    /\ LET n == Readable(kHeaderSize - Len(rxHeader))
           header == rxHeader \o SubSeq(available, 1, n)
       IN  IF Len(header) = kHeaderSize /\ ~HeaderValid(header)
           THEN Disconnect
           ELSE /\ Consume(n)
                /\ rxHeader' = header
                /\ rxFrameAge' = IF rxFrameAge = NotStarted THEN 0 ELSE rxFrameAge
                /\ pc' = IF Len(header) < kHeaderSize THEN "receive"
                         ELSE IF header[1][2] = 0 THEN "process" ELSE "payload"
                /\ UNCHANGED <<link, sessions, written, wire, frames,
                               rxPayloadOffset, buffer>>
    /\ UNCHANGED delivered

ReadPayload ==
    /\ link = "active" /\ available # <<>>
    /\ pc = "payload" \/ (pc = "receive" /\ LoopGoes /\ Len(rxHeader) = kHeaderSize)
    /\ LET n == Readable(rxPayloadLength - rxPayloadOffset)
           read == rxPayloadOffset + 1 .. rxPayloadOffset + n
       IN  /\ Consume(n)
           /\ buffer' = [i \in Cells |-> IF i \in read THEN available[i - rxPayloadOffset]
                                                       ELSE buffer[i]]
           /\ rxPayloadOffset' = rxPayloadOffset + n
    /\ pc' = IF rxPayloadOffset' = rxPayloadLength THEN "process" ELSE "receive"
    /\ UNCHANGED <<link, sessions, written, wire, frames, rxHeader, rxFrameAge, delivered>>

\* processFrame.  It may refuse the frame or end the session; otherwise the
\* payload is wiped (a reply was built over it) and the next frame begins.
Process ==
    /\ link = "active" /\ pc = "process"
    /\ delivered' = [frame |-> rxHeader[1][1],
                     payload |-> SubSeq(buffer, 1, rxPayloadLength)]
    /\ \/ /\ buffer' = [i \in Cells |-> IF i <= rxPayloadLength THEN ZeroByte
                                                                ELSE buffer[i]]
          /\ NextFrameRx
          /\ frames' = frames + 1
          /\ pc' = "receive"
          /\ UNCHANGED <<link, sessions, written, wire, available, bytesProcessed>>
       \/ Disconnect

\* receiveFrames returns: a partial frame that has waited too long ends the
\* session.
TimedOut == rxFrameAge > kFrameTimeout
EndPass ==
    /\ link = "active"
    /\ (pc = "receive" /\ ~LoopGoes) \/ (pc = "payload" /\ available = <<>>)
    /\ IF TimedOut
       THEN Disconnect
       ELSE /\ pc' = "send"
            /\ UNCHANGED <<link, sessions, written, wire, available, frames,
                           bytesProcessed, rx, buffer>>
    /\ UNCHANGED delivered

\* What linkLoop does next builds a frame of n bytes in framePayload(), or
\* nothing (n = 0); a failed write ends the session.
Send(n) ==
    /\ link = "active" /\ pc = "send"
    /\ \/ /\ buffer' = [i \in Cells |-> IF i <= n THEN OwnByte ELSE buffer[i]]
          /\ pc' = "receive" /\ frames' = 0 /\ bytesProcessed' = 0
          /\ UNCHANGED <<link, sessions, written, wire, available, rx>>
       \/ Disconnect
    /\ UNCHANGED delivered

Tick ==
    /\ rxFrameAge \in 0 .. kFrameTimeout
    /\ rxFrameAge' = rxFrameAge + 1
    /\ UNCHANGED <<link, sessions, written, wire, available, pc, frames, bytesProcessed,
                   rxHeader, rxPayloadOffset, buffer, delivered>>

IoPass ==
    \/ ReadHeader \/ ReadPayload \/ Process \/ EndPass
    \/ \E n \in Cells \cup {0} : Send(n)

Next ==
    \/ HubWrites \/ Connect \/ Tick
    \/ \E n \in 1 .. Len(wire) : Arrive(n)
    \/ IoPass

Spec == Init /\ [][Next]_vars
FairSpec == Spec /\ WF_vars(IoPass) /\ WF_vars(Tick)
--------------------------------------------------------------------------------
TypeOK ==
    /\ link \in {"active", "closed"} /\ sessions \in 0 .. MaxSessions
    /\ pc \in {"receive", "payload", "process", "send"}
    /\ frames \in 0 .. kFramesPerStep
    /\ Len(rxHeader) <= kHeaderSize
    /\ rxPayloadOffset = 0 \/ rxPayloadOffset \in Cells
    /\ rxFrameAge \in {NotStarted} \cup 0 .. kFrameTimeout + 1
    /\ DOMAIN buffer = Cells

\* Framing survives partial reads, exhausted budgets and lost sessions: what is
\* in rxHeader_, what will be read and what is still on the wire are the next
\* bytes of the Hub's stream, so no frame boundary is ever misread
\* (Runtime.cpp:1694-1751, 1675-1678).
Aligned ==
    link = "active" /\ pc # "process" =>
        LET size == Len(rxHeader)
            next == Head(available \o wire)
        IN  available \o wire # <<>> =>
                IF size = 0 THEN next[3] = -1
                ELSE /\ next[1] = rxHeader[1][1]
                     /\ next[3] = IF size < kHeaderSize THEN -(size + 1)
                                  ELSE rxPayloadOffset + 1

\* Frames are processed in the order the Hub wrote them, none twice and none
\* skipped.
InOrder ==
    [][delivered' # delivered /\ link = "active" =>
          delivered'.frame = delivered.frame + 1]_vars

\* processFrame is given the payload the Hub sent (Runtime.cpp:1725).
DeliveredIntact ==
    delivered.frame # 0 =>
        \A i \in DOMAIN delivered.payload :
            delivered.payload[i][1] = delivered.frame /\ delivered.payload[i][3] = i

\* Nothing but the frames that the device sends can spoil a payload: no byte of
\* another frame, of an earlier session or wiped (1727) is taken for a byte of it.
SpoiledOnlyBySends ==
    \A i \in DOMAIN delivered.payload :
        \/ delivered.payload[i] = <<delivered.frame, Len(delivered.payload), i>>
        \/ delivered.payload[i] = OwnByte

\* A frame that has begun is completed or abandoned: a Hub that stops in the
\* middle of a frame cannot hold the link (Runtime.cpp:1753-1755).
PartialFrameEnds == rxFrameAge # NotStarted ~> rxFrameAge = NotStarted
================================================================================
