-------------------------- MODULE FrameReceiver_proofs --------------------------
(***************************************************************************)
(* Proofs about FrameReceiver, as MCStorage has it, for any length of the   *)
(* header, any payloads, budgets, timeouts, frames and sessions: the bytes  *)
(* of the Hub are cut into the frames the Hub sent, in its order, and what  *)
(* is given to processFrame is the payload of one frame, except for bytes   *)
(* of frames that the device has built over it.                             *)
(***************************************************************************)
EXTENDS MCStorage, Integers, SequenceTheorems, TLAPS

\* A byte of the Hub: its frame, the length of the payload of that frame, its position.
Byte == Nat \X Nat \X Int
Cell == Byte \cup {Frame!OwnByte, Frame!ZeroByte}

\* The bytes of a frame, numbered through header and payload.
FrameSize(n) == kHeaderSize + n
At(f, n, o) == <<f, n, IF o <= kHeaderSize THEN -o ELSE o - kHeaderSize>>
Place(b) == IF b[3] < 0 THEN -b[3] ELSE kHeaderSize + b[3]
Rest(b) == FrameSize(b[2]) - Place(b)
Sound(b) ==
    /\ b[1] \in Nat /\ b[2] \in Sizes /\ Place(b) \in 1 .. FrameSize(b[2])
    /\ b = At(b[1], b[2], Place(b))

\* s[1 .. len] are the frames first .. last, each of them whole.
Whole(s, len, first, last) ==
    /\ \A i \in 1 .. len : Sound(s[i])
    /\ \A i, j \in 1 .. len : i <= j /\ j - i <= Rest(s[i]) =>
           s[j] = At(s[i][1], s[i][2], Place(s[i]) + (j - i))
    /\ \A i \in 1 .. len - 1 : Rest(s[i]) = 0 =>
           s[i + 1][1] = s[i][1] + 1 /\ Place(s[i + 1]) = 1
    /\ len > 0 => /\ s[1][1] = first /\ Place(s[1]) = 1
                  /\ s[len][1] = last /\ Rest(s[len]) = 0
    /\ len = 0 => last = first - 1

--------------------------------------------------------------------------------
LEMMA SizesLemma ==
    /\ kHeaderSize \in Nat \ {0} /\ Sizes \subseteq Nat
    /\ \A n \in Sizes : n \in Nat /\ FrameSize(n) \in Nat \ {0} /\ FrameSize(n) >= kHeaderSize
    BY FrameAssumption DEF Frame!ReceiverAssumption, FrameSize

LEMMA AtLemma ==
    ASSUME NEW f \in Nat, NEW n \in Sizes, NEW o \in 1 .. FrameSize(n)
    PROVE  /\ At(f, n, o)[1] = f /\ At(f, n, o)[2] = n /\ Place(At(f, n, o)) = o
           /\ Rest(At(f, n, o)) = FrameSize(n) - o
           /\ Sound(At(f, n, o))
<1>1. kHeaderSize \in Nat \ {0} /\ n \in Nat
    BY SizesLemma
<1>2. At(f, n, o)[1] = f /\ At(f, n, o)[2] = n
    BY DEF At
<1>3. Place(At(f, n, o)) = o
    BY <1>1 DEF At, Place, FrameSize
<1> QED
    BY <1>2, <1>3 DEF Rest, Sound

\* What Sound says of a byte, in numbers.
LEMMA SoundLemma ==
    ASSUME NEW b, Sound(b)
    PROVE  /\ b[1] \in Nat /\ b[2] \in Sizes /\ Place(b) \in Nat /\ Rest(b) \in Nat
           /\ Place(b) >= 1 /\ Place(b) + Rest(b) = FrameSize(b[2])
           /\ FrameSize(b[2]) \in Nat
<1>1. b[1] \in Nat /\ b[2] \in Sizes /\ Place(b) \in 1 .. FrameSize(b[2])
    BY DEF Sound
<1>2. FrameSize(b[2]) \in Nat
    BY <1>1, SizesLemma
<1> QED
    BY <1>1, <1>2 DEF Rest

\* The first frame is there to its last byte.
LEMMA HeadFrame ==
    ASSUME NEW s, NEW len \in Nat \ {0}, NEW first, NEW last, Whole(s, len, first, last)
    PROVE  /\ first \in Nat /\ s[1][1] = first /\ s[1][2] \in Sizes
           /\ FrameSize(s[1][2]) <= len
           /\ \A i \in 1 .. FrameSize(s[1][2]) : s[i] = At(first, s[1][2], i)
<1> DEFINE n == s[1][2]
<1>1. /\ Sound(s[1]) /\ s[1][1] = first /\ Place(s[1]) = 1 /\ first \in Nat /\ n \in Sizes
      /\ FrameSize(n) \in Nat \ {0} /\ Rest(s[1]) = FrameSize(n) - 1
  <2>1. Sound(s[1]) /\ s[1][1] = first /\ Place(s[1]) = 1
    BY DEF Whole
  <2>2. first \in Nat /\ n \in Sizes
    BY <2>1, SoundLemma
  <2> QED
    BY <2>1, <2>2, SizesLemma DEF Rest
<1>2. \A j \in 1 .. len : j <= FrameSize(n) => s[j] = At(first, n, j)
  <2> SUFFICES ASSUME NEW j \in 1 .. len, j <= FrameSize(n) PROVE s[j] = At(first, n, j)
    OBVIOUS
  <2>1. 1 <= j /\ j - 1 <= Rest(s[1]) /\ 1 \in 1 .. len
    BY <1>1
  <2>2. s[j] = At(s[1][1], s[1][2], Place(s[1]) + (j - 1))
    BY <2>1 DEF Whole
  <2>3. Place(s[1]) + (j - 1) = j
    BY <1>1
  <2> QED
    BY <1>1, <2>2, <2>3
<1>3. FrameSize(n) <= len
  <2> SUFFICES ASSUME FrameSize(n) > len PROVE FALSE
    BY <1>1
  <2>1. s[len] = At(first, n, len) /\ len \in 1 .. FrameSize(n)
    BY <1>1, <1>2
  <2>2. Rest(s[len]) = FrameSize(n) - len
    BY <1>1, <2>1, AtLemma
  <2>3. Rest(s[len]) = 0
    BY DEF Whole
  <2> QED
    BY <1>1, <2>2, <2>3
<1> QED
    BY <1>1, <1>2, <1>3

\* Without its first frame the stream is whole.
LEMMA DropFrame ==
    ASSUME NEW s, NEW len \in Nat \ {0}, NEW first, NEW last, Whole(s, len, first, last),
           NEW size, size = FrameSize(s[1][2]),
           NEW t, \A i \in 1 .. len - size : t[i] = s[i + size]
    PROVE  Whole(t, len - size, first + 1, last)
<1>1. /\ first \in Nat /\ s[1][2] \in Sizes /\ size <= len /\ size \in Nat \ {0}
      /\ s[size] = At(first, s[1][2], size)
  <2>1. first \in Nat /\ s[1][2] \in Sizes /\ size <= len
    BY HeadFrame
  <2>2. size \in Nat \ {0}
    BY <2>1, SizesLemma
  <2>3. size \in 1 .. FrameSize(s[1][2])
    BY <2>2
  <2>4. \A i \in 1 .. FrameSize(s[1][2]) : s[i] = At(first, s[1][2], i)
    BY HeadFrame
  <2> QED
    BY <2>1, <2>2, <2>3, <2>4
<1>2. Rest(s[size]) = 0 /\ s[size][1] = first
    BY <1>1, AtLemma
<1>3. \A i \in 1 .. len - size : i + size \in 1 .. len
    BY <1>1
<1>4. \A i \in 1 .. len - size : Sound(t[i])
    BY <1>3 DEF Whole
<1>5. ASSUME NEW i \in 1 .. len - size, NEW j \in 1 .. len - size, i <= j, j - i <= Rest(t[i])
      PROVE  t[j] = At(t[i][1], t[i][2], Place(t[i]) + (j - i))
  <2>1. (j + size) - (i + size) = j - i /\ i + size <= j + size
    BY <1>1, <1>5
  <2> QED
    BY <1>3, <1>5, <2>1 DEF Whole
<1>6. ASSUME NEW i \in 1 .. (len - size) - 1, Rest(t[i]) = 0
      PROVE  t[i + 1][1] = t[i][1] + 1 /\ Place(t[i + 1]) = 1
  <2>1. i + size \in 1 .. len - 1 /\ (i + 1) + size = (i + size) + 1
        /\ i \in 1 .. len - size /\ i + 1 \in 1 .. len - size
    BY <1>1
  <2>2. t[i] = s[i + size] /\ t[i + 1] = s[(i + size) + 1]
    BY <2>1
  <2> QED
    BY <1>6, <2>1, <2>2 DEF Whole
<1>7. ASSUME len - size > 0
      PROVE  /\ t[1][1] = first + 1 /\ Place(t[1]) = 1
             /\ t[len - size][1] = last /\ Rest(t[len - size]) = 0
  <2>1. size \in 1 .. len - 1 /\ t[1] = s[size + 1] /\ t[len - size] = s[len]
    BY <1>1, <1>7
  <2> QED
    BY <1>2, <2>1 DEF Whole
<1>8. len - size = 0 => last = (first + 1) - 1
    BY <1>1, <1>2 DEF Whole
<1> QED
    BY <1>4, <1>5, <1>6, <1>7, <1>8 DEF Whole

\* A frame that is written behind the last.
LEMMA AddFrame ==
    ASSUME NEW s, NEW len \in Nat, NEW first \in Nat, NEW last \in Nat,
           Whole(s, len, first, last), NEW n \in Sizes,
           NEW t, \A i \in 1 .. len : t[i] = s[i],
           \A i \in 1 .. FrameSize(n) : t[len + i] = At(last + 1, n, i)
    PROVE  Whole(t, len + FrameSize(n), first, last + 1)
<1> DEFINE size == FrameSize(n)
<1>1. size \in Nat \ {0} /\ last + 1 \in Nat
    BY SizesLemma
<1> HIDE DEF size
<1>2. /\ \A i \in 1 .. size : t[len + i] = At(last + 1, n, i) /\ Sound(t[len + i])
      /\ \A i \in 1 .. size : t[len + i][1] = last + 1 /\ t[len + i][2] = n
      /\ \A i \in 1 .. size : Place(t[len + i]) = i /\ Rest(t[len + i]) = size - i
    BY <1>1, AtLemma DEF size
<1>3. \A i \in 1 .. len + size : i \in 1 .. len \/ (i - len \in 1 .. size /\ i = len + (i - len))
    BY <1>1
<1>4. \A i \in 1 .. len + size : Sound(t[i])
    BY <1>2, <1>3 DEF Whole
<1>5. ASSUME NEW i \in 1 .. len + size, NEW j \in 1 .. len + size, i <= j, j - i <= Rest(t[i])
      PROVE  t[j] = At(t[i][1], t[i][2], Place(t[i]) + (j - i))
  <2>1. CASE j \in 1 .. len
    <3>1. i \in 1 .. len
      BY <1>5, <2>1
    <3> QED
      BY <1>5, <2>1, <3>1 DEF Whole
  <2>2. CASE i \in 1 .. len /\ j \notin 1 .. len
    <3>1. len > 0 /\ len \in 1 .. len /\ i <= len /\ j > len /\ t[i] = s[i]
      BY <1>1, <2>2
    <3>2. Sound(s[i]) /\ Rest(s[i]) \in Nat /\ len - i < Rest(s[i])
      BY <1>1, <1>5, <2>2, <3>1, SoundLemma DEF Whole
    <3>3. s[len] = At(s[i][1], s[i][2], Place(s[i]) + (len - i))
      BY <2>2, <3>1, <3>2 DEF Whole
    <3>4. /\ s[i][1] \in Nat /\ s[i][2] \in Sizes /\ Place(s[i]) \in Nat
          /\ Place(s[i]) + Rest(s[i]) = FrameSize(s[i][2]) /\ FrameSize(s[i][2]) \in Nat
          /\ Place(s[i]) >= 1
      BY <3>2, SoundLemma
    <3>5. Place(s[i]) + (len - i) \in 1 .. FrameSize(s[i][2])
      BY <3>1, <3>2, <3>4, <2>2
    <3>6. Rest(s[len]) = FrameSize(s[i][2]) - (Place(s[i]) + (len - i))
      BY <3>3, <3>4, <3>5, AtLemma
    <3>7. Rest(s[len]) = 0
      BY <3>1 DEF Whole
    <3> QED
      BY <2>2, <3>2, <3>4, <3>6, <3>7
  <2>3. CASE i \notin 1 .. len
    <3> DEFINE a == i - len
               b == j - len
    <3>1. a \in 1 .. size /\ b \in 1 .. size /\ i = len + a /\ j = len + b /\ a + (j - i) = b
      BY <1>1, <1>5, <2>3
    <3>2. /\ t[i][1] = last + 1 /\ t[i][2] = n /\ Place(t[i]) = a
          /\ t[j] = At(last + 1, n, b)
      BY <1>2, <3>1
    <3> QED
      BY <3>1, <3>2
  <2> QED
    BY <2>1, <2>2, <2>3
<1>6. ASSUME NEW i \in 1 .. (len + size) - 1, Rest(t[i]) = 0
      PROVE  t[i + 1][1] = t[i][1] + 1 /\ Place(t[i + 1]) = 1
  <2>1. CASE i \in 1 .. len - 1
    <3>1. i \in 1 .. len /\ i + 1 \in 1 .. len
      BY <2>1
    <3> QED
      BY <1>6, <2>1, <3>1 DEF Whole
  <2>2. CASE i = len
    <3>1. len > 0 /\ 1 \in 1 .. size /\ t[len] = s[len]
      BY <1>1, <2>2
    <3> QED
      BY <1>2, <2>2, <3>1 DEF Whole
  <2>3. CASE i > len
    <3>1. i - len \in 1 .. size /\ i = len + (i - len) /\ i - len < size
      BY <1>1, <2>3
    <3> QED
      BY <1>1, <1>2, <1>6, <3>1
  <2> QED
    BY <1>1, <2>1, <2>2, <2>3
<1>7. /\ t[1][1] = first /\ Place(t[1]) = 1
      /\ t[len + size][1] = last + 1 /\ Rest(t[len + size]) = 0
  <2>1. size \in 1 .. size /\ 1 \in 1 .. size
    BY <1>1
  <2>2. CASE len = 0
    <3>1. t[len + 1][1] = first /\ Place(t[len + 1]) = 1
      BY <1>2, <2>1, <2>2 DEF Whole
    <3> QED
      BY <1>2, <2>1, <2>2, <3>1
  <2>3. CASE len > 0
    <3>1. t[1] = s[1] /\ s[1][1] = first /\ Place(s[1]) = 1
      BY <2>3 DEF Whole
    <3>2. t[len + size][1] = last + 1 /\ Rest(t[len + size]) = size - size
      BY <1>2, <2>1
    <3> QED
      BY <1>1, <3>1, <3>2
  <2> QED
    BY <2>2, <2>3
<1>8. len + size > 0
    BY <1>1
<1> QED
    BY <1>4, <1>5, <1>6, <1>7, <1>8 DEF Whole, size
--------------------------------------------------------------------------------
\* The bytes of this session that have not been processed: what is in rxHeader_, what was
\* read of the payload, what can be read and what is on the wire.
Taken == Len(rxHeader) + rxPayloadOffset
Total == Taken + Len(available) + Len(wire)
Stream ==
    [i \in 1 .. Total |->
        IF i <= Len(rxHeader) THEN rxHeader[i]
        ELSE IF i <= Taken THEN <<rxHeader[1][1], rxHeader[1][2], i - Len(rxHeader)>>
        ELSE IF i <= Taken + Len(available) THEN available[i - Taken]
        ELSE wire[i - Taken - Len(available)]]

TypesInv ==
    /\ link \in {"active", "closed"}
    /\ pc \in {"receive", "payload", "process", "send"}
    /\ rxHeader \in Seq(Byte) /\ available \in Seq(Byte) /\ wire \in Seq(Byte)
    /\ rxPayloadOffset \in Nat /\ written \in Nat
    /\ buffer \in [Frame!Cells -> Cell]
    /\ delivered \in [frame : Nat, payload : Seq(Cell)]

\* What was read of the current frame.
PartInv ==
    /\ Len(rxHeader) <= kHeaderSize
    /\ Len(rxHeader) < kHeaderSize => rxPayloadOffset = 0 /\ pc # "process"
    /\ Len(rxHeader) = kHeaderSize =>
           /\ rxPayloadOffset <= rxHeader[1][2]
           /\ pc = "process" <=> rxPayloadOffset = rxHeader[1][2]
    /\ pc = "payload" => Len(rxHeader) = kHeaderSize

\* The payload that was read is in the buffer, but for frames of the device.
BufferInv ==
    \A i \in 1 .. rxPayloadOffset :
        \/ buffer[i] = <<rxHeader[1][1], rxHeader[1][2], i>>
        \/ buffer[i] = Frame!OwnByte

ReceiverInv ==
    /\ TypesInv
    /\ link = "closed" => rxHeader = <<>> /\ rxPayloadOffset = 0
    /\ link = "active" =>
           PartInv /\ BufferInv /\ Whole(Stream, Total, delivered.frame + 1, written)
    /\ Frame!SpoiledOnlyBySends

--------------------------------------------------------------------------------
\* The buffer holds any payload.
LEMMA CellsLemma ==
    \E top \in Sizes : Frame!Cells = 1 .. top /\ \A n \in Sizes : n <= top
    BY FrameAssumption DEF Frame!ReceiverAssumption, Frame!Cells

LEMMA BytesLemma ==
    /\ \A b \in Byte : b[1] \in Nat /\ b[2] \in Nat
    /\ \A f \in Nat, n \in Nat, p \in Int : <<f, n, p>> \in Byte
    BY DEF Byte

\* A frame of the Hub, byte by byte.
LEMMA FrameBytes ==
    ASSUME NEW f \in Nat, NEW n \in Sizes
    PROVE  LET frame == Frame!Header(f, n) \o Frame!Payload(f, n)
           IN  /\ frame \in Seq(Byte) /\ Len(frame) = FrameSize(n)
               /\ \A i \in 1 .. FrameSize(n) : frame[i] = At(f, n, i)
<1> DEFINE header == Frame!Header(f, n)
           payload == Frame!Payload(f, n)
<1>0. kHeaderSize \in Nat \ {0} /\ n \in Nat
    BY SizesLemma
<1>1. header = [i \in 1 .. kHeaderSize |-> <<f, n, -i>>] /\ payload = [i \in 1 .. n |-> <<f, n, i>>]
    BY DEF Frame!Header, Frame!Payload
<1>2. /\ \A i \in 1 .. kHeaderSize : header[i] = <<f, n, -i>> /\ <<f, n, -i>> \in Byte
      /\ \A i \in 1 .. n : payload[i] = <<f, n, i>> /\ <<f, n, i>> \in Byte
    BY <1>0, <1>1, BytesLemma
<1>3. header \in [1 .. kHeaderSize -> Byte] /\ payload \in [1 .. n -> Byte]
    BY <1>1, <1>2
<1> HIDE DEF header, payload
<1>4. /\ header \in Seq(Byte) /\ Len(header) = kHeaderSize
      /\ payload \in Seq(Byte) /\ Len(payload) = n
    BY <1>0, <1>3
<1>5. /\ header \o payload \in Seq(Byte) /\ Len(header \o payload) = FrameSize(n)
      /\ \A i \in 1 .. FrameSize(n) :
             (header \o payload)[i] = IF i <= kHeaderSize THEN header[i]
                                                          ELSE payload[i - kHeaderSize]
    BY <1>0, <1>4 DEF FrameSize
<1>6. ASSUME NEW i \in 1 .. FrameSize(n) PROVE (header \o payload)[i] = At(f, n, i)
  <2>1. CASE i <= kHeaderSize
    <3>1. i \in 1 .. kHeaderSize
      BY <1>0, <2>1
    <3> QED
      BY <1>2, <1>5, <2>1, <3>1 DEF At
  <2>2. CASE ~(i <= kHeaderSize)
    <3>1. i - kHeaderSize \in 1 .. n
      BY <1>0, <2>2 DEF FrameSize
    <3> QED
      BY <1>2, <1>5, <2>2, <3>1 DEF At
  <2> QED
    BY <2>1, <2>2
<1> QED
    BY <1>5, <1>6 DEF header, payload

LEMMA WholeSame ==
    ASSUME NEW s, NEW len \in Nat, NEW first, NEW last, Whole(s, len, first, last),
           NEW t, \A i \in 1 .. len : t[i] = s[i]
    PROVE  Whole(t, len, first, last)
<1>1. \A i \in 1 .. len - 1 : i \in 1 .. len /\ i + 1 \in 1 .. len
    OBVIOUS
<1>2. len > 0 => 1 \in 1 .. len /\ len \in 1 .. len
    OBVIOUS
<1> QED
    BY <1>1, <1>2 DEF Whole

\* The lengths are numbers and the parts of the stream are where they are said to be.
LEMMA StreamLemma ==
    ASSUME TypesInv
    PROVE  /\ Len(rxHeader) \in Nat /\ Len(available) \in Nat /\ Len(wire) \in Nat
           /\ Taken \in Nat /\ Total \in Nat /\ Taken <= Total
           /\ \A i \in 1 .. Len(rxHeader) : Stream[i] = rxHeader[i]
           /\ \A i \in 1 .. rxPayloadOffset :
                  Stream[Len(rxHeader) + i] = <<rxHeader[1][1], rxHeader[1][2], i>>
           /\ \A i \in 1 .. Len(available) : Stream[Taken + i] = available[i]
           /\ \A i \in 1 .. Len(wire) : Stream[Taken + Len(available) + i] = wire[i]
<1>1. /\ Len(rxHeader) \in Nat /\ Len(available) \in Nat /\ Len(wire) \in Nat
      /\ rxPayloadOffset \in Nat
    BY DEF TypesInv
<1>2. Taken \in Nat /\ Total \in Nat /\ Taken <= Total
    BY <1>1 DEF Taken, Total
<1>3. ASSUME NEW i \in 1 .. Len(rxHeader) PROVE Stream[i] = rxHeader[i]
    BY <1>1, <1>3 DEF Stream, Taken, Total
<1>4. ASSUME NEW i \in 1 .. rxPayloadOffset
      PROVE  Stream[Len(rxHeader) + i] = <<rxHeader[1][1], rxHeader[1][2], i>>
  <2>1. /\ Len(rxHeader) + i \in 1 .. Total /\ ~(Len(rxHeader) + i <= Len(rxHeader))
        /\ Len(rxHeader) + i <= Taken /\ (Len(rxHeader) + i) - Len(rxHeader) = i
    BY <1>1, <1>4 DEF Taken, Total
  <2> QED
    BY <2>1 DEF Stream
<1>5. ASSUME NEW i \in 1 .. Len(available) PROVE Stream[Taken + i] = available[i]
  <2>1. /\ Taken + i \in 1 .. Total /\ ~(Taken + i <= Len(rxHeader)) /\ ~(Taken + i <= Taken)
        /\ Taken + i <= Taken + Len(available) /\ (Taken + i) - Taken = i
    BY <1>1, <1>5 DEF Taken, Total
  <2> QED
    BY <2>1 DEF Stream
<1>6. ASSUME NEW i \in 1 .. Len(wire) PROVE Stream[Taken + Len(available) + i] = wire[i]
  <2> DEFINE k == Taken + Len(available) + i
  <2>1. /\ k \in 1 .. Total /\ ~(k <= Len(rxHeader)) /\ ~(k <= Taken)
        /\ ~(k <= Taken + Len(available)) /\ k - Taken - Len(available) = i
    BY <1>1, <1>6 DEF Taken, Total
  <2> QED
    BY <2>1 DEF Stream
<1> QED
    BY <1>1, <1>2, <1>3, <1>4, <1>5, <1>6

\* The first frame of the stream is the one that is being read.
LEMMA CurrentFrame ==
    ASSUME ReceiverInv, link = "active", Len(rxHeader) > 0
    PROVE  /\ rxHeader[1][1] = delivered.frame + 1 /\ rxHeader[1][2] \in Sizes
           /\ FrameSize(rxHeader[1][2]) <= Total
           /\ \A i \in 1 .. FrameSize(rxHeader[1][2]) :
                  Stream[i] = At(rxHeader[1][1], rxHeader[1][2], i)
<1>1. TypesInv /\ Whole(Stream, Total, delivered.frame + 1, written)
    BY DEF ReceiverInv
<1>2. Total \in Nat \ {0} /\ Stream[1] = rxHeader[1]
  <2>1. Len(rxHeader) \in Nat /\ Len(rxHeader) <= Total /\ Total \in Nat
    BY <1>1, StreamLemma DEF Taken, TypesInv
  <2>2. 1 \in 1 .. Len(rxHeader)
    BY <2>1
  <2> QED
    BY <1>1, <2>1, <2>2, StreamLemma
<1> DEFINE first == delivered.frame + 1
<1>3. Whole(Stream, Total, first, written)
    BY <1>1
<1> HIDE DEF first
<1>4. /\ Stream[1][1] = first /\ Stream[1][2] \in Sizes
      /\ FrameSize(Stream[1][2]) <= Total
      /\ \A i \in 1 .. FrameSize(Stream[1][2]) : Stream[i] = At(first, Stream[1][2], i)
  <2> DEFINE s == Stream
             len == Total
             last == written
  <2>1. len \in Nat \ {0} /\ Whole(s, len, first, last)
    BY <1>2, <1>3
  <2> HIDE DEF s, len, last
  <2>2. /\ s[1][1] = first /\ s[1][2] \in Sizes /\ FrameSize(s[1][2]) <= len
        /\ \A i \in 1 .. FrameSize(s[1][2]) : s[i] = At(first, s[1][2], i)
    BY <2>1, HeadFrame
  <2> QED
    BY <2>2 DEF s, len
<1> QED
    BY <1>2, <1>4 DEF first
--------------------------------------------------------------------------------
\* The stream after a step that moves bytes from one part to the next.
LEMMA MovedLemma ==
    ASSUME ReceiverInv, link = "active", TypesInv',
           UNCHANGED <<delivered, written>>, Total' = Total,
           \A i \in 1 .. Total : Stream'[i] = Stream[i]
    PROVE  Whole(Stream, Total, delivered.frame + 1, written)'
<1> DEFINE s == Stream
           t == Stream'
           len == Total
           first == delivered.frame + 1
           last == written
<1>1. len \in Nat /\ Whole(s, len, first, last) /\ \A i \in 1 .. len : t[i] = s[i]
    BY StreamLemma DEF ReceiverInv
<1> HIDE DEF s, t, len, first, last
<1>2. Whole(t, len, first, last)
    BY <1>1, WholeSame
<1> QED
    BY <1>2 DEF t, len, first, last

LEMMA FrameInitLemma == Frame!Init => ReceiverInv
<1> SUFFICES ASSUME Frame!Init PROVE ReceiverInv
    OBVIOUS
<1> USE DEF Frame!Init
<1>1. TypesInv
  <2>1. buffer \in [Frame!Cells -> Cell]
    BY DEF Cell
  <2> QED
    BY <2>1 DEF TypesInv
<1>2. Frame!SpoiledOnlyBySends
    BY DEF Frame!SpoiledOnlyBySends
<1> QED
    BY <1>1, <1>2 DEF ReceiverInv

\* disconnectAndBackoff leaves nothing of a frame.
LEMMA DisconnectLemma ==
    ASSUME ReceiverInv, Frame!Disconnect, delivered' \in [frame : Nat, payload : Seq(Cell)],
           Frame!SpoiledOnlyBySends'
    PROVE  ReceiverInv'
<1>1. link' = "closed" /\ rxHeader' = <<>> /\ rxPayloadOffset' = 0 /\ pc' = "receive"
      /\ UNCHANGED <<written, wire, available>>
    BY DEF Frame!Disconnect, Frame!ResetSessionRx
<1>2. buffer' \in [Frame!Cells -> Cell]
    BY DEF Frame!Disconnect, Cell
<1>3. TypesInv'
    BY <1>1, <1>2 DEF ReceiverInv, TypesInv
<1> QED
    BY <1>1, <1>3 DEF ReceiverInv

\* Where a byte lies that is written behind all that are under way.
LEMMA BehindLemma ==
    ASSUME NEW header \in Nat, NEW taken \in Nat, header <= taken, NEW readable \in Nat,
           NEW size \in Nat, NEW i \in 1 .. size
    PROVE  /\ (taken + readable) + i \in 1 .. (taken + readable) + size
           /\ ~((taken + readable) + i <= header) /\ ~((taken + readable) + i <= taken)
           /\ ~((taken + readable) + i <= taken + readable)
           /\ (taken + readable) + i - taken - readable = i
    OBVIOUS

\* The Hub writes a frame.
LEMMA HubWritesKeeps == ReceiverInv /\ Frame!HubWrites => ReceiverInv'
<1> SUFFICES ASSUME ReceiverInv, Frame!HubWrites PROVE ReceiverInv'
    OBVIOUS
<1>1. /\ link = "active" /\ wire = <<>> /\ written' = written + 1
      /\ UNCHANGED <<link, available, pc, rxHeader, rxPayloadOffset, buffer, delivered>>
    BY DEF Frame!HubWrites, Frame!rx
<1>2. PICK n \in Sizes : wire' = Frame!Header(written', n) \o Frame!Payload(written', n)
    BY DEF Frame!HubWrites
<1>3. written \in Nat /\ written' \in Nat /\ TypesInv
    BY <1>1 DEF ReceiverInv, TypesInv
<1>4. /\ wire' \in Seq(Byte) /\ Len(wire') = FrameSize(n)
      /\ \A i \in 1 .. FrameSize(n) : wire'[i] = At(written', n, i)
    BY <1>2, <1>3, FrameBytes
<1>5. TypesInv'
    BY <1>1, <1>3, <1>4 DEF TypesInv
<1>6. PartInv' /\ BufferInv' /\ Frame!SpoiledOnlyBySends'
    BY <1>1 DEF ReceiverInv, PartInv, BufferInv, Frame!SpoiledOnlyBySends
<1>7. Whole(Stream, Total, delivered.frame + 1, written)'
  <2> DEFINE s == Stream
             t == Stream'
             len == Total
             first == delivered.frame + 1
             last == written
             size == FrameSize(n)
  <2>1. /\ len \in Nat /\ first \in Nat /\ last \in Nat /\ Whole(s, len, first, last)
        /\ size \in Nat
    BY <1>1, <1>3, StreamLemma, SizesLemma DEF ReceiverInv, TypesInv
  <2>0. len \in Nat /\ size \in Nat
    BY <2>1
  <2>2. Len(wire) = 0 /\ Taken' = Taken /\ Total' = Total + size
    BY <1>1, <1>3, <1>4, StreamLemma DEF Taken, Total
  <2>3. /\ Len(rxHeader) \in Nat /\ Len(available) \in Nat /\ Taken \in Nat
        /\ Total = Taken + Len(available) /\ Taken = Len(rxHeader) + rxPayloadOffset
        /\ Len(rxHeader) <= Taken
    BY <1>3, <2>2, StreamLemma DEF TypesInv, Taken, Total
  <2>4. \A i \in 1 .. len : t[i] = s[i]
    <3> SUFFICES ASSUME NEW i \in 1 .. len PROVE t[i] = s[i]
      OBVIOUS
    <3>1. i \in 1 .. Total' /\ i <= Taken + Len(available)
      BY <2>0, <2>2, <2>3
    <3> QED
      BY <1>1, <2>2, <3>1 DEF Stream
  <2>5. \A i \in 1 .. size : t[len + i] = At(last + 1, n, i)
    <3> SUFFICES ASSUME NEW i \in 1 .. size PROVE t[len + i] = At(last + 1, n, i)
      OBVIOUS
    <3> DEFINE k == len + i
    <3>1. /\ k \in 1 .. Total' /\ ~(k <= Len(rxHeader)) /\ ~(k <= Taken)
          /\ ~(k <= Taken + Len(available)) /\ k - Taken - Len(available) = i
      <4>1. k = (Taken + Len(available)) + i /\ Total' = (Taken + Len(available)) + size
        BY <2>2, <2>3
      <4>2. /\ Len(rxHeader) \in Nat /\ Taken \in Nat /\ Len(rxHeader) <= Taken
            /\ Len(available) \in Nat /\ size \in Nat /\ i \in 1 .. size
        BY <2>0, <2>3
      <4> HIDE DEF k, size
      <4> QED
        BY <4>1, <4>2, BehindLemma
    <3> HIDE DEF k
    <3>2. /\ k \in 1 .. Total' /\ ~(k <= Len(rxHeader')) /\ ~(k <= Taken')
          /\ ~(k <= Taken' + Len(available')) /\ k - Taken' - Len(available') = i
      BY <1>1, <2>2, <3>1
    <3>3. t[k] = wire'[i]
      BY <3>2 DEF Stream
    <3> QED
      BY <1>1, <1>4, <3>3 DEF k
  <2> HIDE DEF s, t, len, first, last
  <2>6. Whole(t, len + size, first, last + 1)
    BY <2>1, <2>4, <2>5, AddFrame
  <2> QED
    BY <1>1, <2>2, <2>6 DEF t, len, first, last
<1> QED
    BY <1>1, <1>5, <1>6, <1>7 DEF ReceiverInv

\* A piece of a frame becomes readable.
LEMMA ArriveKeeps ==
    ASSUME ReceiverInv, NEW n \in 1 .. Len(wire), Frame!Arrive(n)
    PROVE  ReceiverInv'
<1>1. /\ link = "active" /\ available' = available \o SubSeq(wire, 1, n)
      /\ wire' = SubSeq(wire, n + 1, Len(wire))
      /\ UNCHANGED <<link, written, pc, rxHeader, rxPayloadOffset, buffer, delivered>>
    BY DEF Frame!Arrive, Frame!rx
<1>2. /\ TypesInv /\ wire \in Seq(Byte) /\ available \in Seq(Byte)
      /\ Len(wire) \in Nat /\ Len(available) \in Nat /\ Len(rxHeader) \in Nat /\ n \in Nat
      /\ Taken \in Nat /\ Taken = Len(rxHeader) + rxPayloadOffset
      /\ rxPayloadOffset \in Nat
    BY StreamLemma DEF ReceiverInv, TypesInv, Taken
<1>3. /\ available' \in Seq(Byte) /\ Len(available') = Len(available) + n
      /\ \A i \in 1 .. Len(available) : available'[i] = available[i]
      /\ \A i \in 1 .. n : available'[Len(available) + i] = wire[i]
    BY <1>1, <1>2
<1>4. /\ wire' \in Seq(Byte) /\ Len(wire') = Len(wire) - n
      /\ \A i \in 1 .. Len(wire) - n : wire'[i] = wire[n + i]
    BY <1>1, <1>2
<1>5. TypesInv'
    BY <1>1, <1>2, <1>3, <1>4 DEF TypesInv
<1>6. PartInv' /\ BufferInv' /\ Frame!SpoiledOnlyBySends'
    BY <1>1 DEF ReceiverInv, PartInv, BufferInv, Frame!SpoiledOnlyBySends
<1>7. Taken' = Taken /\ Total' = Total
  <2>1. Taken' = Taken
    BY <1>1 DEF Taken
  <2>2. Total' = Taken + (Len(available) + n) + (Len(wire) - n)
    BY <1>3, <1>4, <2>1 DEF Total
  <2>3. Total = Taken + Len(available) + Len(wire)
    BY DEF Total
  <2> QED
    BY <1>2, <2>1, <2>2, <2>3
<1>8. \A i \in 1 .. Total : Stream'[i] = Stream[i]
  <2> SUFFICES ASSUME NEW i \in 1 .. Total PROVE Stream'[i] = Stream[i]
    OBVIOUS
  <2>1. CASE i <= Taken
    BY <1>1, <1>2, <1>7, <2>1 DEF Stream
  <2>2. CASE i > Taken /\ i <= Taken + Len(available)
    <3>1. i - Taken \in 1 .. Len(available)
      BY <1>2, <2>2
    <3> QED
      BY <1>1, <1>2, <1>3, <1>7, <2>2, <3>1 DEF Stream
  <2>3. CASE i > Taken + Len(available) /\ i <= Taken + Len(available) + n
    <3>1. /\ i - Taken - Len(available) \in 1 .. n
          /\ i - Taken = Len(available) + (i - Taken - Len(available))
      BY <1>2, <2>3
    <3>2. Stream[i] = wire[i - Taken - Len(available)]
      BY <1>2, <2>3 DEF Stream
    <3>3. Stream'[i] = available'[i - Taken]
      <4>1. /\ i \in 1 .. Total' /\ ~(i <= Len(rxHeader)) /\ ~(i <= Taken)
            /\ i <= Taken + (Len(available) + n)
        BY <1>2, <1>7, <2>3
      <4> QED
        BY <1>1, <1>3, <1>7, <4>1 DEF Stream
    <3> QED
      BY <1>3, <3>1, <3>2, <3>3
  <2>4. CASE i > Taken + Len(available) + n
    <3> DEFINE k == i - Taken - Len(available')
    <3>1. /\ i <= Taken + Len(available) + Len(wire) /\ i \in Nat
          /\ Len(available') = Len(available) + n
      BY <1>2, <1>3 DEF Total
    <3>2. k \in 1 .. Len(wire) - n /\ i - Taken - Len(available) = n + k
      BY <1>2, <2>4, <3>1
    <3>3. Stream[i] = wire[i - Taken - Len(available)]
      BY <1>2, <2>4 DEF Stream
    <3>4. /\ i \in 1 .. Total' /\ ~(i <= Len(rxHeader')) /\ ~(i <= Taken')
          /\ ~(i <= Taken' + Len(available')) /\ i - Taken' - Len(available') = k
      BY <1>1, <1>2, <1>7, <2>4, <3>1
    <3>5. Stream'[i] = wire'[k]
      BY <3>4 DEF Stream
    <3> QED
      BY <1>4, <3>2, <3>3, <3>5
  <2> QED
    BY <1>2, <1>3, <2>1, <2>2, <2>3, <2>4
<1>9. Whole(Stream, Total, delivered.frame + 1, written)'
    BY <1>1, <1>5, <1>7, <1>8, MovedLemma
<1> QED
    BY <1>1, <1>5, <1>6, <1>9 DEF ReceiverInv

\* A new session begins with a new frame.
LEMMA ConnectKeeps == ReceiverInv /\ Frame!Connect => ReceiverInv'
<1> SUFFICES ASSUME ReceiverInv, Frame!Connect PROVE ReceiverInv'
    OBVIOUS
<1>1. /\ link' = "active" /\ written' = 0 /\ wire' = <<>> /\ available' = <<>>
      /\ pc' = "receive" /\ delivered' = [frame |-> 0, payload |-> <<>>]
      /\ rxHeader' = <<>> /\ rxPayloadOffset' = 0 /\ buffer' = buffer
    BY DEF Frame!Connect, Frame!rx, ReceiverInv
<1>2. TypesInv'
    BY <1>1 DEF ReceiverInv, TypesInv
<1>3. Total' = 0 /\ Len(rxHeader') = 0
    BY <1>1 DEF Total, Taken
<1>4. Whole(Stream', 0, 1, 0)
    BY DEF Whole
<1>5. PartInv' /\ BufferInv'
    BY <1>1, <1>3, SizesLemma DEF PartInv, BufferInv
<1>6. Frame!SpoiledOnlyBySends'
    BY <1>1 DEF Frame!SpoiledOnlyBySends
<1> QED
    BY <1>1, <1>2, <1>3, <1>4, <1>5, <1>6 DEF ReceiverInv

\* StreamLemma of the next state.
Parts ==
    /\ \A i \in 1 .. Len(rxHeader) : Stream[i] = rxHeader[i]
    /\ \A i \in 1 .. rxPayloadOffset :
           Stream[Len(rxHeader) + i] = <<rxHeader[1][1], rxHeader[1][2], i>>

LEMMA PartsLemma == TypesInv => Parts
    BY StreamLemma DEF Parts

LEMMA NextParts == TypesInv' => Parts'
    BY PartsLemma, PTL

\* What is left when the first n bytes are read.
LEMMA RestLemma ==
    ASSUME NEW s \in Seq(Byte), NEW n \in 1 .. Len(s)
    PROVE  /\ SubSeq(s, n + 1, Len(s)) \in Seq(Byte)
           /\ Len(SubSeq(s, n + 1, Len(s))) = Len(s) - n
           /\ \A i \in 1 .. Len(s) - n : SubSeq(s, n + 1, Len(s))[i] = s[n + i]
    OBVIOUS

\* Bytes that were not read stay where they are in the stream.
LEMMA ConsumeLemma ==
    ASSUME TypesInv, NEW n \in 1 .. Len(available), wire' = wire,
           available' \in Seq(Byte), Len(available') = Len(available) - n,
           \A i \in 1 .. Len(available) - n : available'[i] = available[n + i],
           rxHeader' \in Seq(Byte), rxPayloadOffset' \in Nat, Taken' = Taken + n
    PROVE  /\ Total' = Total
           /\ \A i \in 1 .. Total : i > Taken + n => Stream'[i] = Stream[i]
<1>1. /\ Len(available) \in Nat /\ Len(wire) \in Nat /\ Taken \in Nat /\ n \in Nat
      /\ n <= Len(available) /\ Len(rxHeader) <= Taken
      /\ Len(rxHeader) \in Nat /\ Len(rxHeader') \in Nat /\ Len(rxHeader') <= Taken'
  <2>1. /\ Len(available) \in Nat /\ Len(wire) \in Nat /\ Taken \in Nat
        /\ Len(rxHeader) \in Nat /\ rxPayloadOffset \in Nat
    BY StreamLemma DEF TypesInv
  <2>2. Len(rxHeader') \in Nat
    OBVIOUS
  <2>3. Taken = Len(rxHeader) + rxPayloadOffset /\ Taken' = Len(rxHeader') + rxPayloadOffset'
    BY DEF Taken
  <2>4. n \in Nat /\ n <= Len(available)
    BY <2>1
  <2>5. Len(rxHeader) <= Taken
    BY <2>1, <2>3
  <2>6. Len(rxHeader') <= Taken'
    BY <2>2, <2>3
  <2> QED
    BY <2>1, <2>2, <2>4, <2>5, <2>6
<1>2. Total' = Total /\ Total = Taken + Len(available) + Len(wire) /\ Total \in Nat
  <2>1. Total' = Taken' + Len(available') + Len(wire)
    BY DEF Total
  <2>2. Total = Taken + Len(available) + Len(wire)
    BY DEF Total
  <2> QED
    BY <1>1, <2>1, <2>2
<1>3. ASSUME NEW i \in 1 .. Total, i > Taken + n PROVE Stream'[i] = Stream[i]
  <2>1. /\ i \in Int /\ ~(i <= Len(rxHeader)) /\ ~(i <= Taken) /\ ~(i <= Len(rxHeader'))
        /\ ~(i <= Taken') /\ Taken' + Len(available') = Taken + Len(available)
    BY <1>1, <1>2, <1>3
  <2>2. i \in 1 .. Total'
    BY <1>2
  <2>3. CASE i <= Taken + Len(available)
    <3>1. i - Taken' \in 1 .. Len(available) - n /\ n + (i - Taken') = i - Taken
      BY <1>1, <1>3, <2>1, <2>3
    <3>2. Stream[i] = available[i - Taken]
      BY <2>1, <2>3 DEF Stream
    <3>3. Stream'[i] = available'[i - Taken']
      BY <2>1, <2>2, <2>3 DEF Stream
    <3> QED
      BY <3>1, <3>2, <3>3
  <2>4. CASE ~(i <= Taken + Len(available))
    <3>1. i - Taken' - Len(available') = i - Taken - Len(available)
      BY <1>1, <2>1
    <3>2. Stream[i] = wire[i - Taken - Len(available)]
      BY <2>1, <2>4 DEF Stream
    <3>3. Stream'[i] = wire'[i - Taken' - Len(available')]
      BY <2>1, <2>2, <2>4 DEF Stream
    <3> QED
      BY <3>1, <3>2, <3>3
  <2> QED
    BY <2>3, <2>4
<1> QED
    BY <1>2, <1>3

\* Bytes of the header are collected.
LEMMA ReadHeaderKeeps == ReceiverInv /\ Frame!ReadHeader => ReceiverInv'
<1> SUFFICES ASSUME ReceiverInv, Frame!ReadHeader PROVE ReceiverInv'
    OBVIOUS
<1> DEFINE n == Frame!Readable(kHeaderSize - Len(rxHeader))
           header == rxHeader \o SubSeq(available, 1, n)
<1>1. /\ link = "active" /\ pc = "receive" /\ available # <<>>
      /\ Len(rxHeader) < kHeaderSize /\ delivered' = delivered
    BY DEF Frame!ReadHeader, Frame!LoopGoes
<1>2. TypesInv /\ PartInv /\ BufferInv /\ Frame!SpoiledOnlyBySends
    BY <1>1 DEF ReceiverInv
<1>3. Frame!SpoiledOnlyBySends'
    BY <1>1, <1>2 DEF Frame!SpoiledOnlyBySends
<1>4. CASE Frame!Disconnect
    BY <1>1, <1>2, <1>3, <1>4, DisconnectLemma DEF TypesInv
<1>5. CASE /\ Frame!Consume(n) /\ rxHeader' = header
           /\ pc' = IF Len(header) < kHeaderSize THEN "receive"
                    ELSE IF header[1][2] = 0 THEN "process" ELSE "payload"
           /\ UNCHANGED <<link, written, wire, rxPayloadOffset, buffer>>
  <2>1. /\ rxHeader \in Seq(Byte) /\ available \in Seq(Byte) /\ Len(rxHeader) \in Nat
        /\ Len(available) \in Nat /\ Len(available) > 0 /\ kHeaderSize \in Nat
        /\ rxPayloadOffset = 0 /\ Taken = Len(rxHeader)
    BY <1>1, <1>2, StreamLemma, SizesLemma DEF TypesInv, PartInv, Taken
  <2>2. n \in 1 .. Len(available) /\ n <= kHeaderSize - Len(rxHeader) /\ n \in Nat
    BY <1>1, <2>1 DEF Frame!Readable
  <2> HIDE DEF n
  <2>3. /\ header \in Seq(Byte) /\ Len(header) = Len(rxHeader) + n
        /\ \A i \in 1 .. Len(rxHeader) : header[i] = rxHeader[i]
        /\ \A i \in 1 .. n : header[Len(rxHeader) + i] = available[i]
    BY <2>1, <2>2
  <2>4. header[1] \in Byte /\ header[1][2] \in Nat
    <3>1. header[1] \in Byte
      BY <2>1, <2>2, <2>3
    <3> QED
      BY <3>1, BytesLemma
  <2> HIDE DEF header
  <2>5. /\ available' \in Seq(Byte) /\ Len(available') = Len(available) - n
        /\ \A i \in 1 .. Len(available) - n : available'[i] = available[n + i]
    <3>1. available' = SubSeq(available, n + 1, Len(available))
      BY <1>5 DEF Frame!Consume
    <3> QED
      BY <2>1, <2>2, <3>1, RestLemma
  <2>6. rxHeader' \in Seq(Byte) /\ rxPayloadOffset' \in Nat /\ Taken' = Taken + n
    BY <1>5, <2>1, <2>2, <2>3 DEF Taken
  <2>7. /\ Total' = Total
        /\ \A i \in 1 .. Total : i > Taken + n => Stream'[i] = Stream[i]
    BY <1>2, <1>5, <2>2, <2>5, <2>6, ConsumeLemma
  <2>8. TypesInv'
    BY <1>1, <1>2, <1>5, <2>5, <2>6 DEF TypesInv
  <2>9. ASSUME NEW i \in 1 .. Total PROVE Stream'[i] = Stream[i]
    <3>1. CASE i <= Len(rxHeader)
      <4>1. i \in 1 .. Len(rxHeader) /\ i \in 1 .. Len(rxHeader')
        BY <1>5, <2>1, <2>2, <2>3, <3>1
      <4> QED
        BY <1>2, <1>5, <2>3, <2>8, <4>1, StreamLemma, NextParts DEF Parts
    <3>2. CASE ~(i <= Len(rxHeader)) /\ i <= Taken + n
      <4>1. /\ i \in 1 .. Len(rxHeader') /\ i - Taken \in 1 .. n
            /\ i = Taken + (i - Taken) /\ i - Taken \in 1 .. Len(available)
        BY <1>5, <2>1, <2>2, <2>3, <3>2
      <4>2. Stream'[i] = header[i]
        BY <1>5, <2>8, <4>1, NextParts DEF Parts
      <4>3. Stream[i] = available[i - Taken]
        BY <1>2, <4>1, StreamLemma
      <4> QED
        BY <2>1, <2>3, <4>1, <4>2, <4>3
    <3> QED
      BY <2>1, <2>2, <2>7, <3>1, <3>2
  <2>10. Whole(Stream, Total, delivered.frame + 1, written)'
    BY <1>1, <1>5, <2>7, <2>8, <2>9, MovedLemma
  <2>11. Len(header) \in Nat /\ Len(header) <= kHeaderSize
    BY <2>1, <2>2, <2>3
  <2>12. PartInv'
    <3>1. CASE Len(header) < kHeaderSize
      <4>1. pc' = "receive" /\ Len(rxHeader') < kHeaderSize /\ rxPayloadOffset' = 0
        BY <1>5, <2>1, <3>1
      <4> QED
        BY <2>1, <2>11, <4>1 DEF PartInv
    <3>2. CASE Len(header) = kHeaderSize /\ header[1][2] = 0
      BY <1>5, <2>1, <2>11, <3>2 DEF PartInv
    <3>3. CASE Len(header) = kHeaderSize /\ header[1][2] # 0
      BY <1>5, <2>1, <2>4, <2>11, <3>3 DEF PartInv
    <3> QED
      BY <2>1, <2>11, <3>1, <3>2, <3>3
  <2>13. BufferInv'
    BY <1>5, <2>1 DEF BufferInv
  <2> QED
    BY <1>1, <1>3, <1>5, <2>8, <2>10, <2>12, <2>13 DEF ReceiverInv
<1> QED
    BY <1>4, <1>5 DEF Frame!ReadHeader

\* The part of the current frame that is beyond its header.
LEMMA CurrentPayload ==
    ASSUME ReceiverInv, link = "active", Len(rxHeader) = kHeaderSize
    PROVE  /\ kHeaderSize \in Nat \ {0} /\ rxHeader[1][2] \in Sizes
           /\ rxHeader[1][1] \in Nat /\ rxHeader[1][2] \in Nat
           /\ \A i \in 1 .. rxHeader[1][2] :
                  Stream[kHeaderSize + i] = <<rxHeader[1][1], rxHeader[1][2], i>>
<1> DEFINE f == rxHeader[1][1]
           size == rxHeader[1][2]
<1>1. kHeaderSize \in Nat \ {0}
    BY SizesLemma
<1>2. f = delivered.frame + 1 /\ size \in Sizes
    BY <1>1, CurrentFrame
<1>3. size \in Nat /\ f \in Nat
  <2>1. delivered.frame \in Nat
    BY DEF ReceiverInv, TypesInv
  <2>2. size \in Nat
    BY <1>2, SizesLemma
  <2> QED
    BY <1>2, <2>1, <2>2
<1>6. \A i \in 1 .. FrameSize(size) : Stream[i] = At(f, size, i)
    BY <1>1, CurrentFrame
<1> HIDE DEF f, size
<1>4. ASSUME NEW i \in 1 .. size PROVE Stream[kHeaderSize + i] = <<f, size, i>>
  <2>1. /\ kHeaderSize + i \in 1 .. FrameSize(size) /\ ~(kHeaderSize + i <= kHeaderSize)
        /\ (kHeaderSize + i) - kHeaderSize = i
    BY <1>1, <1>3 DEF FrameSize
  <2> QED
    BY <1>6, <2>1 DEF At
<1> QED
    BY <1>1, <1>2, <1>3, <1>4 DEF f, size

\* Bytes of the payload are collected.
LEMMA ReadPayloadKeeps == ReceiverInv /\ Frame!ReadPayload => ReceiverInv'
<1> SUFFICES ASSUME ReceiverInv, Frame!ReadPayload PROVE ReceiverInv'
    OBVIOUS
<1> DEFINE f == rxHeader[1][1]
           size == rxHeader[1][2]
           n == Frame!Readable(size - rxPayloadOffset)
<1>1. /\ link = "active" /\ available # <<>> /\ delivered' = delivered
      /\ pc = "payload" \/ (pc = "receive" /\ Len(rxHeader) = kHeaderSize)
      /\ Frame!Consume(n) /\ rxPayloadOffset' = rxPayloadOffset + n
      /\ buffer' = [i \in Frame!Cells |->
                       IF i \in rxPayloadOffset + 1 .. rxPayloadOffset + n
                       THEN available[i - rxPayloadOffset] ELSE buffer[i]]
      /\ pc' = (IF rxPayloadOffset' = size THEN "process" ELSE "receive")
      /\ UNCHANGED <<link, written, wire, rxHeader>>
    BY DEF Frame!ReadPayload, Frame!rxPayloadLength
<1>2. TypesInv /\ PartInv /\ BufferInv /\ Frame!SpoiledOnlyBySends
    BY <1>1 DEF ReceiverInv
<1>3. Len(rxHeader) = kHeaderSize /\ pc # "process"
    BY <1>1, <1>2 DEF PartInv
<1>4. /\ kHeaderSize \in Nat \ {0} /\ size \in Sizes /\ f \in Nat /\ size \in Nat
      /\ \A i \in 1 .. size : Stream[kHeaderSize + i] = <<f, size, i>>
    BY <1>1, <1>3, CurrentPayload
<1>5. /\ rxPayloadOffset \in Nat /\ rxPayloadOffset < size
      /\ Len(available) \in Nat /\ Len(available) > 0 /\ available \in Seq(Byte)
      /\ Taken = kHeaderSize + rxPayloadOffset
  <2>1. /\ rxPayloadOffset \in Nat /\ rxPayloadOffset <= size /\ rxPayloadOffset # size
        /\ Taken = kHeaderSize + rxPayloadOffset
    BY <1>2, <1>3 DEF TypesInv, PartInv, Taken
  <2>2. Len(available) \in Nat /\ Len(available) > 0 /\ available \in Seq(Byte)
    BY <1>1, <1>2, StreamLemma DEF TypesInv
  <2> QED
    BY <1>4, <2>1, <2>2
<1>6. n \in 1 .. Len(available) /\ n <= size - rxPayloadOffset /\ n \in Nat
    BY <1>4, <1>5 DEF Frame!Readable
<1> HIDE DEF n
<1>7. /\ available' \in Seq(Byte) /\ Len(available') = Len(available) - n
      /\ \A i \in 1 .. Len(available) - n : available'[i] = available[n + i]
  <2>1. available' = SubSeq(available, n + 1, Len(available))
    BY <1>1 DEF Frame!Consume
  <2> QED
    BY <1>5, <1>6, <2>1, RestLemma
<1> HIDE DEF f, size
<1>8. rxHeader' \in Seq(Byte) /\ rxPayloadOffset' \in Nat /\ Taken' = Taken + n
  <2>1. rxHeader' = rxHeader /\ rxPayloadOffset' = rxPayloadOffset + n
    BY <1>1
  <2>2. rxHeader' \in Seq(Byte) /\ rxPayloadOffset' \in Nat
    BY <1>2, <1>5, <1>6, <2>1 DEF TypesInv
  <2>3. Taken' = kHeaderSize + (rxPayloadOffset + n)
    BY <1>3, <2>1 DEF Taken
  <2> QED
    BY <1>4, <1>5, <1>6, <2>2, <2>3
<1>9. /\ Total' = Total
      /\ \A i \in 1 .. Total : i > Taken + n => Stream'[i] = Stream[i]
    BY <1>1, <1>2, <1>6, <1>7, <1>8, ConsumeLemma
<1>10. ASSUME NEW i \in rxPayloadOffset + 1 .. rxPayloadOffset + n
       PROVE  available[i - rxPayloadOffset] = <<f, size, i>>
  <2>1. /\ i \in 1 .. size /\ i - rxPayloadOffset \in 1 .. Len(available)
        /\ Taken + (i - rxPayloadOffset) = kHeaderSize + i
    BY <1>4, <1>5, <1>6
  <2>2. Stream[Taken + (i - rxPayloadOffset)] = available[i - rxPayloadOffset]
    BY <1>2, <2>1, StreamLemma
  <2> QED
    BY <1>4, <2>1, <2>2
<1>11. <<f, size, 0>>[1] = f /\ \A i \in 1 .. size : <<f, size, i>> \in Cell
    BY <1>4, BytesLemma DEF Cell
<1>12. buffer' \in [Frame!Cells -> Cell]
  <2>1. ASSUME NEW i \in Frame!Cells, i \in rxPayloadOffset + 1 .. rxPayloadOffset + n
        PROVE  available[i - rxPayloadOffset] \in Cell
    <3>1. i \in 1 .. size
      BY <1>4, <1>5, <1>6, <2>1
    <3> QED
      BY <1>10, <1>11, <2>1, <3>1
  <2>2. \A i \in Frame!Cells : buffer[i] \in Cell
    BY <1>2 DEF TypesInv
  <2> QED
    BY <1>1, <2>1, <2>2
<1>13. TypesInv'
  <2>1. pc' \in {"receive", "payload", "process", "send"}
    BY <1>1
  <2> QED
    BY <1>1, <1>2, <1>7, <1>8, <1>12, <2>1 DEF TypesInv
<1>14. \A i \in 1 .. size : i \in Frame!Cells
  <2>1. PICK top \in Sizes : Frame!Cells = 1 .. top /\ size <= top
    BY <1>4, CellsLemma
  <2>2. top \in Nat
    BY SizesLemma
  <2> QED
    BY <1>4, <2>1, <2>2
<1>15. BufferInv'
  <2> SUFFICES ASSUME NEW i \in 1 .. rxPayloadOffset'
               PROVE  buffer'[i] = <<f, size, i>> \/ buffer'[i] = Frame!OwnByte
    BY <1>1 DEF BufferInv, f, size
  <2>1. i \in 1 .. size /\ i \in Frame!Cells
    BY <1>1, <1>4, <1>5, <1>6, <1>14
  <2>2. CASE i <= rxPayloadOffset
    <3>1. i \in 1 .. rxPayloadOffset /\ i \notin rxPayloadOffset + 1 .. rxPayloadOffset + n
      BY <1>5, <2>2
    <3>2. buffer[i] = <<f, size, i>> \/ buffer[i] = Frame!OwnByte
      BY <1>2, <3>1 DEF BufferInv, f, size
    <3> QED
      BY <1>1, <2>1, <3>1, <3>2
  <2>3. CASE ~(i <= rxPayloadOffset)
    <3>1. i \in rxPayloadOffset + 1 .. rxPayloadOffset + n
      BY <1>1, <1>5, <1>6, <2>3
    <3> QED
      BY <1>1, <1>10, <2>1, <3>1
  <2> QED
    BY <2>2, <2>3
<1>16. PartInv'
  <2>1. /\ rxPayloadOffset' <= size /\ (pc' = "process" <=> rxPayloadOffset' = size)
        /\ pc' # "payload" /\ Len(rxHeader') = kHeaderSize /\ rxHeader'[1][2] = size
    BY <1>1, <1>3, <1>4, <1>5, <1>6 DEF size
  <2> QED
    BY <1>4, <2>1 DEF PartInv
<1>17. ASSUME NEW i \in 1 .. Total PROVE Stream'[i] = Stream[i]
  <2>0. /\ i \in Nat /\ i >= 1 /\ Taken = kHeaderSize + rxPayloadOffset
        /\ rxPayloadOffset' = rxPayloadOffset + n
    BY <1>1, <1>2, <1>5, StreamLemma
  <2>1. CASE i <= Taken
    <3>1. /\ rxHeader' = rxHeader /\ i \in 1 .. Total' /\ i <= Taken'
          /\ Len(rxHeader) = kHeaderSize
      BY <1>1, <1>3, <1>4, <1>5, <1>6, <1>8, <1>9, <2>1
    <3> QED
      BY <2>1, <3>1 DEF Stream
  <2>2. CASE ~(i <= Taken) /\ i <= Taken + n
    <3> DEFINE k == i - kHeaderSize
    <3>1. k \in 1 .. size /\ k \in 1 .. rxPayloadOffset' /\ kHeaderSize + k = i
      BY <1>4, <1>5, <1>6, <2>0, <2>2
    <3>2. Stream[i] = <<f, size, k>>
      BY <1>4, <3>1
    <3>3. Stream'[Len(rxHeader') + k] = <<rxHeader'[1][1], rxHeader'[1][2], k>>
      BY <1>13, <3>1, NextParts DEF Parts
    <3> QED
      BY <1>1, <1>3, <3>1, <3>2, <3>3 DEF f, size
  <2>3. CASE ~(i <= Taken + n)
    <3>1. i > Taken + n
      BY <1>4, <1>5, <1>6, <2>0, <2>3
    <3> QED
      BY <1>9, <3>1
  <2> QED
    BY <2>1, <2>2, <2>3
<1>18. Whole(Stream, Total, delivered.frame + 1, written)'
    BY <1>1, <1>9, <1>13, <1>17, MovedLemma
<1>19. Frame!SpoiledOnlyBySends'
    BY <1>1, <1>2 DEF Frame!SpoiledOnlyBySends
<1> QED
    BY <1>1, <1>13, <1>15, <1>16, <1>18, <1>19 DEF ReceiverInv

\* The payload that was read and what is given to processFrame.
LEMMA DeliveredLemma ==
    ASSUME ReceiverInv, Frame!Process
    PROVE  /\ delivered'.frame = delivered.frame + 1
           /\ delivered' \in [frame : Nat, payload : Seq(Cell)]
           /\ Frame!SpoiledOnlyBySends'
<1> DEFINE f == rxHeader[1][1]
           size == rxHeader[1][2]
           payload == SubSeq(buffer, 1, size)
<1>1. /\ link = "active" /\ pc = "process"
      /\ delivered' = [frame |-> f, payload |-> payload]
    BY DEF Frame!Process, Frame!rxPayloadLength
<1>2. TypesInv /\ PartInv /\ BufferInv
    BY <1>1 DEF ReceiverInv
<1>3. Len(rxHeader) = kHeaderSize /\ rxPayloadOffset = size
  <2>1. Len(rxHeader) \in Nat /\ kHeaderSize \in Nat
    BY <1>2, SizesLemma DEF TypesInv
  <2> QED
    BY <1>1, <1>2, <2>1 DEF PartInv
<1>4. f \in Nat /\ size \in Sizes /\ size \in Nat
    BY <1>1, <1>3, CurrentPayload
<1>5. f = delivered.frame + 1
    BY <1>1, <1>3, SizesLemma, CurrentFrame
<1>6. PICK top \in Sizes : Frame!Cells = 1 .. top /\ size <= top
    BY <1>4, CellsLemma
<1>7. buffer \in Seq(Cell) /\ Len(buffer) = top /\ top \in Nat
  <2>1. top \in Nat /\ buffer \in [1 .. top -> Cell]
    BY <1>2, <1>6, SizesLemma DEF TypesInv
  <2> QED
    BY <2>1
<1>8. /\ \A i \in 1 .. size : \/ buffer[i] = <<f, size, i>>
                              \/ buffer[i] = Frame!OwnByte
    BY <1>2, <1>3 DEF BufferInv
<1> HIDE DEF f, size
<1>9. /\ payload \in Seq(Cell) /\ Len(payload) = size /\ DOMAIN payload = 1 .. size
      /\ \A i \in 1 .. size : payload[i] = buffer[i]
    BY <1>4, <1>6, <1>7
<1> HIDE DEF payload
<1>10. delivered'.frame = f /\ delivered'.payload = payload
    BY <1>1
<1>11. delivered' \in [frame : Nat, payload : Seq(Cell)]
    BY <1>1, <1>4, <1>9
<1>12. Frame!SpoiledOnlyBySends'
    BY <1>8, <1>9, <1>10 DEF Frame!SpoiledOnlyBySends
<1> QED
    BY <1>5, <1>10, <1>11, <1>12

\* processFrame, and the next frame begins.
LEMMA ProcessKeeps == ReceiverInv /\ Frame!Process => ReceiverInv'
<1> SUFFICES ASSUME ReceiverInv, Frame!Process PROVE ReceiverInv'
    OBVIOUS
<1>1. /\ delivered'.frame = delivered.frame + 1
      /\ delivered' \in [frame : Nat, payload : Seq(Cell)]
      /\ Frame!SpoiledOnlyBySends'
    BY DeliveredLemma
<1>2. CASE Frame!Disconnect
    BY <1>1, <1>2, DisconnectLemma
<1>3. ASSUME buffer' = [i \in Frame!Cells |-> IF i <= Frame!rxPayloadLength
                                              THEN Frame!ZeroByte ELSE buffer[i]],
             Frame!NextFrameRx, pc' = "receive", UNCHANGED <<link, written, wire, available>>
      PROVE  ReceiverInv'
  <2>1. link = "active" /\ pc = "process" /\ TypesInv /\ PartInv
    BY DEF Frame!Process, ReceiverInv
  <2>2. rxHeader' = <<>> /\ rxPayloadOffset' = 0
    BY <1>3 DEF Frame!NextFrameRx
  <2>3. buffer' \in [Frame!Cells -> Cell]
    <3>1. \A i \in Frame!Cells : buffer[i] \in Cell /\ Frame!ZeroByte \in Cell
      BY <2>1 DEF TypesInv, Cell
    <3> QED
      BY <1>3, <3>1
  <2>4. TypesInv'
    BY <1>1, <1>3, <2>1, <2>2, <2>3 DEF TypesInv
  <2>5. /\ Len(rxHeader) = kHeaderSize /\ rxPayloadOffset = rxHeader[1][2]
        /\ kHeaderSize \in Nat \ {0} /\ Taken = FrameSize(rxHeader[1][2])
    <3>1. Len(rxHeader) \in Nat /\ kHeaderSize \in Nat \ {0}
      BY <2>1, SizesLemma DEF TypesInv
    <3>2. Len(rxHeader) = kHeaderSize /\ rxPayloadOffset = rxHeader[1][2]
      BY <2>1, <3>1 DEF PartInv
    <3> QED
      BY <3>1, <3>2 DEF Taken, FrameSize
  <2>6. PartInv' /\ BufferInv'
    BY <1>3, <2>2, <2>5 DEF PartInv, BufferInv
  <2>7. Whole(Stream, Total, delivered.frame + 1, written)'
    <3> DEFINE s == Stream
               t == Stream'
               len == Total
               size == Taken
               first == delivered.frame + 1
               last == written
    <3>1. /\ Taken \in Nat /\ Total \in Nat /\ Taken <= Total /\ Len(available) \in Nat
          /\ Len(wire) \in Nat /\ Total = Taken + Len(available) + Len(wire)
          /\ Len(rxHeader) \in Nat /\ Len(rxHeader) <= Taken
      BY <2>1, StreamLemma DEF Total, Taken, TypesInv
    <3>2. rxPayloadOffset \in Nat
      BY <2>1 DEF TypesInv
    <3>3. Stream[1] = rxHeader[1] /\ Taken > 0
      <4>1. 1 \in 1 .. Len(rxHeader) /\ Taken > 0
        BY <2>5, <3>2 DEF Taken
      <4> QED
        BY <2>1, <4>1, StreamLemma
    <3>4. /\ len \in Nat \ {0} /\ Whole(s, len, first, last) /\ size = FrameSize(s[1][2])
      BY <2>1, <2>5, <3>1, <3>3 DEF ReceiverInv
    <3>5. Taken' = 0 /\ Total' = Len(available) + Len(wire) /\ len - size = Total'
      BY <1>3, <2>2, <3>1 DEF Taken, Total
    <3>6. \A i \in 1 .. len - size : t[i] = s[i + size]
      <4> SUFFICES ASSUME NEW i \in 1 .. Total' PROVE Stream'[i] = Stream[i + Taken]
        BY <3>5
      <4>1. /\ i + Taken \in 1 .. Total /\ ~(i + Taken <= Taken)
            /\ ~(i + Taken <= Len(rxHeader)) /\ (i + Taken) - Taken = i
            /\ i + Taken <= Taken + Len(available) <=> i <= Len(available)
            /\ (i + Taken) - Taken - Len(available) = i - Len(available)
        BY <3>1, <3>5
      <4>2. Len(rxHeader') = 0 /\ ~(i <= 0) /\ i - 0 = i /\ 0 + Len(available) = Len(available)
        BY <2>2, <3>1, <3>5
      <4>3. Stream[i + Taken] = IF i <= Len(available) THEN available[i]
                                                       ELSE wire[i - Len(available)]
        BY <4>1 DEF Stream
      <4>4. Stream'[i] = IF i <= Len(available) THEN available[i]
                                                ELSE wire[i - Len(available)]
        BY <1>3, <3>5, <4>2 DEF Stream
      <4> QED
        BY <4>3, <4>4
    <3> HIDE DEF s, t, len, size, first, last
    <3>7. Whole(t, len - size, first + 1, last)
      BY <3>4, <3>6, DropFrame
    <3> QED
      BY <1>1, <1>3, <3>5, <3>7 DEF t, first, last
  <2> QED
    BY <1>1, <1>3, <2>1, <2>4, <2>6, <2>7 DEF ReceiverInv
<1> QED
    BY <1>2, <1>3 DEF Frame!Process

\* Steps that leave the stream alone.
LEMMA StillLemma ==
    ASSUME ReceiverInv,
           UNCHANGED <<link, written, wire, available, rxHeader, rxPayloadOffset, delivered>>,
           buffer' \in [Frame!Cells -> Cell], link = "active" => BufferInv',
           pc' = pc \/ (link = "active" /\ pc # "process" /\ pc' \in {"receive", "send"})
    PROVE  ReceiverInv'
<1>1. TypesInv'
    BY DEF ReceiverInv, TypesInv
<1>2. Frame!SpoiledOnlyBySends'
    BY DEF ReceiverInv, Frame!SpoiledOnlyBySends
<1>3. ASSUME link = "active" PROVE PartInv'
    BY <1>3 DEF ReceiverInv, PartInv
<1>4. ASSUME link = "active" PROVE Whole(Stream, Total, delivered.frame + 1, written)'
  <2>1. Taken' = Taken /\ Total' = Total
    BY DEF Taken, Total
  <2>2. \A i \in 1 .. Total : Stream'[i] = Stream[i]
    BY <2>1 DEF Stream
  <2> QED
    BY <1>1, <1>4, <2>1, <2>2, MovedLemma
<1> QED
    BY <1>1, <1>2, <1>3, <1>4 DEF ReceiverInv

\* receiveFrames returns.
LEMMA EndPassKeeps == ReceiverInv /\ Frame!EndPass => ReceiverInv'
<1> SUFFICES ASSUME ReceiverInv, Frame!EndPass PROVE ReceiverInv'
    OBVIOUS
<1>1. link = "active" /\ pc \in {"receive", "payload"} /\ delivered' = delivered
    BY DEF Frame!EndPass
<1>2. /\ TypesInv /\ BufferInv /\ delivered' \in [frame : Nat, payload : Seq(Cell)]
      /\ Frame!SpoiledOnlyBySends'
    BY <1>1 DEF ReceiverInv, TypesInv, Frame!SpoiledOnlyBySends
<1>3. CASE Frame!Disconnect
    BY <1>2, <1>3, DisconnectLemma
<1>4. CASE pc' = "send" /\ UNCHANGED <<link, written, wire, available, Frame!rx, buffer>>
  <2>1. rxHeader' = rxHeader /\ rxPayloadOffset' = rxPayloadOffset
    BY <1>4 DEF Frame!rx
  <2>2. buffer' \in [Frame!Cells -> Cell] /\ BufferInv'
    BY <1>2, <1>4, <2>1 DEF TypesInv, BufferInv
  <2> QED
    BY <1>1, <1>4, <2>1, <2>2, StillLemma
<1> QED
    BY <1>3, <1>4 DEF Frame!EndPass

\* The device builds a frame over the payload.
LEMMA SendKeeps ==
    ASSUME ReceiverInv, NEW n, Frame!Send(n)
    PROVE  ReceiverInv'
<1>1. link = "active" /\ pc = "send" /\ delivered' = delivered
    BY DEF Frame!Send
<1>2. /\ TypesInv /\ PartInv /\ BufferInv
      /\ delivered' \in [frame : Nat, payload : Seq(Cell)] /\ Frame!SpoiledOnlyBySends'
    BY <1>1 DEF ReceiverInv, TypesInv, Frame!SpoiledOnlyBySends
<1>3. CASE Frame!Disconnect
    BY <1>2, <1>3, DisconnectLemma
<1>4. CASE /\ buffer' = [i \in Frame!Cells |-> IF i <= n THEN Frame!OwnByte ELSE buffer[i]]
           /\ pc' = "receive" /\ UNCHANGED <<link, written, wire, available, Frame!rx>>
  <2>1. rxHeader' = rxHeader /\ rxPayloadOffset' = rxPayloadOffset
    BY <1>4 DEF Frame!rx
  <2>2. buffer' \in [Frame!Cells -> Cell]
    <3>1. \A i \in Frame!Cells : buffer[i] \in Cell /\ Frame!OwnByte \in Cell
      BY <1>2 DEF TypesInv, Cell
    <3> QED
      BY <1>4, <3>1
  <2>3. \A i \in 1 .. rxPayloadOffset : i \in Frame!Cells
    <3>1. CASE Len(rxHeader) = kHeaderSize
      <4>1. rxHeader[1][2] \in Sizes
        BY <1>1, <3>1, CurrentPayload
      <4>2. PICK top \in Sizes : Frame!Cells = 1 .. top /\ rxHeader[1][2] <= top
        BY <4>1, CellsLemma
      <4>3. rxPayloadOffset <= rxHeader[1][2] /\ rxPayloadOffset \in Nat
        BY <1>2, <3>1 DEF PartInv, TypesInv
      <4>4. top \in Nat /\ rxHeader[1][2] \in Nat
        BY <4>1, SizesLemma
      <4> QED
        BY <4>2, <4>3, <4>4
    <3>2. CASE Len(rxHeader) # kHeaderSize
      <4>1. Len(rxHeader) \in Nat /\ kHeaderSize \in Nat
        BY <1>2, SizesLemma DEF TypesInv
      <4>2. rxPayloadOffset = 0
        BY <1>2, <3>2, <4>1 DEF PartInv
      <4> QED
        BY <4>2
    <3> QED
      BY <3>1, <3>2
  <2>4. BufferInv'
    BY <1>2, <1>4, <2>1, <2>3 DEF BufferInv
  <2> QED
    BY <1>1, <1>4, <2>1, <2>2, <2>4, StillLemma
<1> QED
    BY <1>3, <1>4 DEF Frame!Send

\* Time passes, or nothing happens to the link.
LEMMA QuietKeeps ==
    ASSUME ReceiverInv, Frame!Tick \/ UNCHANGED frameVars
    PROVE  ReceiverInv'
<1>1. UNCHANGED <<link, written, wire, available, rxHeader, rxPayloadOffset, delivered,
                  buffer, pc>>
    BY DEF Frame!Tick, frameVars
<1>2. buffer' \in [Frame!Cells -> Cell] /\ (link = "active" => BufferInv')
    BY <1>1 DEF ReceiverInv, TypesInv, BufferInv
<1> QED
    BY <1>1, <1>2, StillLemma

LEMMA ReceiverStep == ReceiverInv /\ [MCNext]_mcVars => ReceiverInv'
<1> SUFFICES ASSUME ReceiverInv, Frame!Next \/ UNCHANGED frameVars PROVE ReceiverInv'
    BY DEF MCNext, mcVars
<1>1. CASE Frame!HubWrites
    BY <1>1, HubWritesKeeps
<1>2. CASE Frame!Connect
    BY <1>2, ConnectKeeps
<1>3. CASE Frame!Tick
    BY <1>3, QuietKeeps
<1>4. ASSUME NEW n \in 1 .. Len(wire), Frame!Arrive(n) PROVE ReceiverInv'
    BY <1>4, ArriveKeeps
<1>5. CASE Frame!ReadHeader
    BY <1>5, ReadHeaderKeeps
<1>6. CASE Frame!ReadPayload
    BY <1>6, ReadPayloadKeeps
<1>7. CASE Frame!Process
    BY <1>7, ProcessKeeps
<1>8. CASE Frame!EndPass
    BY <1>8, EndPassKeeps
<1>9. ASSUME NEW n \in Frame!Cells \cup {0}, Frame!Send(n) PROVE ReceiverInv'
    BY <1>9, SendKeeps
<1>10. CASE UNCHANGED frameVars
    BY <1>10, QuietKeeps
<1> QED
    BY <1>1, <1>2, <1>3, <1>4, <1>5, <1>6, <1>7, <1>8, <1>9, <1>10
    DEF Frame!Next, Frame!IoPass

LEMMA ReceiverSafety == MCSpec => []ReceiverInv
<1>1. MCInit => ReceiverInv
    BY FrameInitLemma DEF MCInit
<1> QED
    BY <1>1, ReceiverStep, PTL DEF MCSpec
--------------------------------------------------------------------------------
\* What is in rxHeader_, what will be read and what is on the wire are the next bytes of
\* the Hub's stream, whatever the pieces they arrive in and the budgets of a pass
\* (Runtime.cpp:1694-1751): no frame boundary is ever misread.
THEOREM StreamIsAligned == MCSpec => []Aligned
<1>1. ReceiverInv => Aligned
  <2> SUFFICES ASSUME ReceiverInv, link = "active", pc # "process",
                      available \o wire # <<>>
               PROVE  LET size == Len(rxHeader)
                          next == Head(available \o wire)
                      IN  IF size = 0 THEN next[3] = -1
                          ELSE /\ next[1] = rxHeader[1][1]
                               /\ next[3] = IF size < kHeaderSize THEN -(size + 1)
                                            ELSE rxPayloadOffset + 1
    BY DEF Aligned, Frame!Aligned
  <2> DEFINE next == Head(available \o wire)
  <2>1. TypesInv /\ PartInv /\ Whole(Stream, Total, delivered.frame + 1, written)
    BY DEF ReceiverInv
  <2>2. /\ Len(rxHeader) \in Nat /\ Len(available) \in Nat /\ Len(wire) \in Nat
        /\ available \in Seq(Byte) /\ wire \in Seq(Byte) /\ rxPayloadOffset \in Nat
        /\ kHeaderSize \in Nat \ {0} /\ Taken \in Nat /\ Taken = Len(rxHeader) + rxPayloadOffset
        /\ Total = Taken + Len(available) + Len(wire)
    BY <2>1, StreamLemma, SizesLemma DEF TypesInv, Taken, Total
  <2>3. next = Stream[Taken + 1] /\ Taken + 1 \in 1 .. Total
    <3>1. CASE Len(available) > 0
      <4>1. next = available[1] /\ 1 \in 1 .. Len(available)
        BY <2>2, <3>1
      <4> QED
        BY <2>1, <2>2, <4>1, StreamLemma
    <3>2. CASE Len(available) = 0
      <4>1. available = <<>> /\ wire # <<>> /\ available \o wire = wire
        BY <2>2, <3>2
      <4>2. next = wire[1] /\ 1 \in 1 .. Len(wire)
        BY <2>2, <4>1
      <4>3. Taken + Len(available) + 1 = Taken + 1 /\ Taken + 1 \in 1 .. Total
        BY <2>2, <3>2, <4>2
      <4>4. Stream[Taken + Len(available) + 1] = wire[1]
        BY <2>1, <4>2, StreamLemma
      <4> QED
        BY <4>2, <4>3, <4>4
    <3> QED
      BY <2>2, <3>1, <3>2
  <2> HIDE DEF next
  <2>4. CASE Len(rxHeader) = 0
    <3>1. Taken = 0 /\ Total > 0 /\ Total \in Nat
      BY <2>1, <2>2, <2>3, <2>4 DEF PartInv
    <3>2. Sound(next) /\ Place(next) = 1
      <4>1. next = Stream[1] /\ 1 \in 1 .. Total
        BY <2>3, <3>1
      <4> QED
        BY <2>1, <3>1, <4>1 DEF Whole
    <3>3. next[3] = -1
      <4>1. next = At(next[1], next[2], 1)
        BY <3>2 DEF Sound
      <4> QED
        BY <2>2, <4>1 DEF At
    <3> QED
      BY <2>4, <3>3 DEF next
  <2>5. CASE Len(rxHeader) > 0
    <3> DEFINE f == rxHeader[1][1]
               n == rxHeader[1][2]
    <3>1. n \in Sizes /\ n \in Nat
      BY <2>5, CurrentFrame, SizesLemma
    <3>2. \A i \in 1 .. FrameSize(n) : Stream[i] = At(f, n, i)
      BY <2>5, CurrentFrame
    <3>3. Taken + 1 \in 1 .. FrameSize(n)
      <4>1. CASE Len(rxHeader) < kHeaderSize
        <5>1. rxPayloadOffset = 0
          BY <2>1, <4>1 DEF PartInv
        <5> HIDE DEF n
        <5> QED
          BY <2>2, <3>1, <4>1, <5>1 DEF FrameSize
      <4>2. CASE Len(rxHeader) = kHeaderSize
        <5>1. rxPayloadOffset <= n /\ rxPayloadOffset # n
          BY <2>1, <4>2 DEF PartInv
        <5> HIDE DEF n
        <5> QED
          BY <2>2, <3>1, <4>2, <5>1 DEF FrameSize
      <4>3. Len(rxHeader) <= kHeaderSize
        BY <2>1 DEF PartInv
      <4> QED
        BY <2>2, <4>1, <4>2, <4>3
    <3> HIDE DEF f, n
    <3>4. next = At(f, n, Taken + 1)
      BY <2>3, <3>2, <3>3
    <3>5. next[1] = f
      BY <3>4 DEF At
    <3>6. next[3] = IF Taken + 1 <= kHeaderSize THEN -(Taken + 1)
                    ELSE (Taken + 1) - kHeaderSize
      BY <3>4 DEF At
    <3>7. next[3] = IF Len(rxHeader) < kHeaderSize THEN -(Len(rxHeader) + 1)
                    ELSE rxPayloadOffset + 1
      <4>1. CASE Len(rxHeader) < kHeaderSize
        <5>1. rxPayloadOffset = 0
          BY <2>1, <4>1 DEF PartInv
        <5> QED
          BY <2>2, <3>6, <4>1, <5>1
      <4>2. CASE Len(rxHeader) = kHeaderSize
        BY <2>2, <3>6, <4>2
      <4>3. Len(rxHeader) <= kHeaderSize
        BY <2>1 DEF PartInv
      <4> QED
        BY <2>2, <4>1, <4>2, <4>3
    <3> QED
      BY <2>5, <3>5, <3>7 DEF f, next
  <2> QED
    BY <2>2, <2>4, <2>5
<1> QED
    BY <1>1, ReceiverSafety, PTL

\* processFrame is given the bytes of one frame of the Hub, but for bytes of the frames
\* that the device built in framePayload() in the meantime (Runtime.cpp:1725): none of
\* another frame, of an earlier session or wiped (1727).
THEOREM PayloadIsOneFrame == MCSpec => []SpoiledOnlyBySends
<1>1. ReceiverInv => SpoiledOnlyBySends
    BY DEF ReceiverInv, SpoiledOnlyBySends
<1> QED
    BY <1>1, ReceiverSafety, PTL

\* Frames are processed in the order the Hub wrote them, none twice and none skipped
\* (Runtime.cpp:1716-1751).
THEOREM FramesInOrder == MCSpec => InOrder
<1>1. ReceiverInv /\ [MCNext]_mcVars =>
          [delivered' # delivered /\ link = "active" =>
              delivered'.frame = delivered.frame + 1]_Frame!vars
  <2> SUFFICES ASSUME ReceiverInv, Frame!Next \/ UNCHANGED frameVars,
                      delivered' # delivered, link = "active"
               PROVE  delivered'.frame = delivered.frame + 1
    BY DEF MCNext, mcVars
  <2>1. Frame!Process
    BY DEF frameVars, Frame!Next, Frame!IoPass, Frame!HubWrites, Frame!Connect, Frame!Tick,
           Frame!Arrive, Frame!ReadHeader, Frame!ReadPayload, Frame!EndPass, Frame!Send
  <2> QED
    BY <2>1, DeliveredLemma
<1> QED
    BY <1>1, ReceiverSafety, PTL DEF MCSpec, InOrder, Frame!InOrder
================================================================================
