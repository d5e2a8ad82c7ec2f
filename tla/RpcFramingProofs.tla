-------------------------- MODULE RpcFramingProofs --------------------------
(***************************************************************************)
(* Proofs about RpcFraming: the length prefix survives its two conversions    *)
(* for every base and every legal length, and a client gets every response    *)
(* whole for any sizes of the sends, the receives and the pieces in between.  *)
(***************************************************************************)
EXTENDS RpcFraming, SequenceTheorems, TLAPS

\* A byte and the rest make up a number again.
LEMMA DivMod ==
    ASSUME NEW n \in Nat, NEW b \in Nat \ {0}
    PROVE  /\ n \div b \in Nat
           /\ n % b \in Nat
           /\ n = (n \div b) * b + (n % b)
  BY SMT

\* What FramesStayAligned asks of the two conversions.
LengthSurvives == \A n \in 1 .. MaxLen : DecodeLength(EncodeLength(n)) = n

\* The client's shifts give back every length the server's shifts can send.
THEOREM LengthRoundTrip == LengthSurvives
  <1> SUFFICES ASSUME NEW n \in 1 .. MaxLen
               PROVE  DecodeLength(EncodeLength(n)) = n
    BY DEF LengthSurvives
  <1> DEFINE b1 == n \div Base
             b2 == b1 \div Base
             b3 == b2 \div Base
             d  == <<n % Base, b1 % Base, b2 % Base, b3 % Base>>
  <1>1. Base \in Nat \ {0} /\ n \in Nat
    BY SizesAssumption
  <1>2. b1 \in Nat /\ n % Base \in Nat /\ n = b1 * Base + (n % Base)
    BY <1>1, DivMod, Zenon
  <1>3. b2 \in Nat /\ b1 % Base \in Nat /\ b1 = b2 * Base + (b1 % Base)
    BY <1>1, <1>2, DivMod, Zenon
  <1>4. b3 \in Nat /\ b2 % Base \in Nat /\ b2 = b3 * Base + (b2 % Base)
    BY <1>1, <1>3, DivMod, Zenon
  <1>5. 2 * b3 < Base
    BY LengthAssumption, Zenon
  <1>6. b3 % Base = b3
    <2> HIDE DEF b3
    <2> QED  BY <1>1, <1>4, <1>5, SMT
  <1>7. EncodeLength(n) = d
    BY DEF EncodeLength
  <1>8. DecodeLength(d) = ((d[4] * Base + d[3]) * Base + d[2]) * Base + d[1]
    <2>1. 2 * d[4] < Base
      BY <1>5, <1>6
    <2> QED  BY <2>1 DEF DecodeLength
  <1>9. d[1] = n % Base /\ d[2] = b1 % Base /\ d[3] = b2 % Base /\ d[4] = b3
    BY <1>6
  <1>10. ((b3 * Base + (b2 % Base)) * Base + (b1 % Base)) * Base + (n % Base) = n
    <2> HIDE DEF b1, b2, b3
    <2> QED  BY <1>2, <1>3, <1>4, Zenon
  <1> QED  BY <1>7, <1>8, <1>9, <1>10, Zenon

-----------------------------------------------------------------------------
(* The frame of a response, and the segments it is cut into. *)

\* The q-th byte of the frame of the k-th response, which has n bytes.
FrameByte(n, k, q) == IF q <= 4 THEN Digit(EncodeLength(n)[q]) ELSE BodyByte(k, q - 4)

\* Segments w continue the frame after its first bytes: off[j] bytes of it come before the
\* j-th segment, and none is empty.
Cuts(off, w, first, n, k) ==
    /\ off \in [1 .. Len(w) + 1 -> Nat]
    /\ off[1] = first
    /\ \A i, j \in 1 .. Len(w) + 1 : i < j => off[i] < off[j]
    /\ \A j \in 1 .. Len(w) : off[j + 1] = off[j] + Len(w[j])
    /\ \A j \in 1 .. Len(w) : \A i \in 1 .. Len(w[j]) : w[j][i] = FrameByte(n, k, off[j] + i)

\* A piece sent goes on where the last one ended.
LEMMA CutsAppend ==
    ASSUME NEW w \in Seq(Seq(Bytes)), NEW off, NEW first, NEW n, NEW k, Cuts(off, w, first, n, k),
           NEW seg \in Seq(Bytes), Len(seg) > 0,
           \A i \in 1 .. Len(seg) : seg[i] = FrameByte(n, k, off[Len(w) + 1] + i)
    PROVE  \E o : /\ Cuts(o, Append(w, seg), first, n, k)
                  /\ o[Len(Append(w, seg)) + 1] = off[Len(w) + 1] + Len(seg)
<1> DEFINE l == Len(w)
           v == Append(w, seg)
           o == [j \in 1 .. l + 2 |-> IF j <= l + 1 THEN off[j] ELSE off[l + 1] + Len(seg)]
<1>1. l \in Nat /\ Len(seg) \in Nat
  BY LenProperties
<1>2. /\ Len(v) = l + 1
      /\ \A j \in 1 .. l : v[j] = w[j]
      /\ v[l + 1] = seg
  BY <1>1, AppendProperties
<1>3. /\ off \in [1 .. l + 1 -> Nat] /\ off[1] = first
      /\ \A i, j \in 1 .. l + 1 : i < j => off[i] < off[j]
      /\ \A j \in 1 .. l : off[j + 1] = off[j] + Len(w[j])
      /\ \A j \in 1 .. l : \A i \in 1 .. Len(w[j]) : w[j][i] = FrameByte(n, k, off[j] + i)
      /\ \A i \in 1 .. Len(seg) : seg[i] = FrameByte(n, k, off[l + 1] + i)
  BY DEF Cuts
<1> HIDE DEF l, v
<1>4. /\ o \in [1 .. l + 2 -> Nat]
      /\ \A j \in 1 .. l + 1 : o[j] = off[j]
      /\ o[l + 2] = off[l + 1] + Len(seg)
  BY <1>1, <1>3
<1> HIDE DEF o
<1>5. o[1] = first
  BY <1>1, <1>3, <1>4
<1>6. ASSUME NEW i \in 1 .. l + 2, NEW j \in 1 .. l + 2, i < j PROVE o[i] < o[j]
  <2>1. CASE j <= l + 1
    <3>1. i \in 1 .. l + 1 /\ j \in 1 .. l + 1
      BY <1>1, <1>6, <2>1
    <3> QED
      BY ONLY <1>3, <1>4, <1>6, <3>1
  <2>2. CASE j = l + 2
    <3>1. i \in 1 .. l + 1 /\ l + 1 \in 1 .. l + 1
      BY <1>1, <1>6, <2>2
    <3>2. off[i] <= off[l + 1]
      <4>1. off[l + 1] \in Nat /\ (i = l + 1 \/ i < l + 1)
        BY <1>1, <1>3, <3>1
      <4> QED
        BY <1>3, <3>1, <4>1
    <3> QED
      BY <1>1, <1>3, <1>4, <2>2, <3>1, <3>2
  <2> QED
    BY <1>1, <2>1, <2>2
<1>7. ASSUME NEW j \in 1 .. l + 1
      PROVE  /\ o[j + 1] = o[j] + Len(v[j])
             /\ \A i \in 1 .. Len(v[j]) : v[j][i] = FrameByte(n, k, o[j] + i)
  <2>1. CASE j \in 1 .. l
    <3>1. j + 1 \in 1 .. l + 1 /\ j \in 1 .. l + 1
      BY <1>1, <2>1
    <3> QED
      BY <1>2, <1>3, <1>4, <2>1, <3>1
  <2>2. CASE j = l + 1
    <3>1. (l + 1) + 1 = l + 2
      BY <1>1
    <3> QED
      BY <1>2, <1>3, <1>4, <2>2, <3>1
  <2>3. j \in 1 .. l \/ j = l + 1
    BY <1>1
  <2> QED
    BY <2>1, <2>2, <2>3
<1>8. (l + 1) + 1 = l + 2
  BY <1>1
<1>9. Cuts(o, v, first, n, k)
  BY <1>2, <1>4, <1>5, <1>6, <1>7, <1>8 DEF Cuts
<1> QED
  BY <1>2, <1>4, <1>8, <1>9 DEF l, v

\* A whole segment that arrives leaves the others.
LEMMA CutsTail ==
    ASSUME NEW w \in Seq(Seq(Bytes)), w # <<>>, NEW off, NEW first, NEW n, NEW k,
           Cuts(off, w, first, n, k)
    PROVE  \E o : /\ Cuts(o, Tail(w), first + Len(Head(w)), n, k)
                  /\ o[Len(Tail(w)) + 1] = off[Len(w) + 1]
<1> DEFINE l == Len(w)
           v == Tail(w)
           o == [j \in 1 .. l |-> off[j + 1]]
<1>1. l \in Nat /\ l > 0 /\ Head(w) = w[1]
  BY LenProperties, EmptySeq
<1>2. Len(v) = l - 1 /\ \A j \in 1 .. Len(v) : v[j] = w[j + 1]
  BY HeadTailProperties
<1>3. /\ off \in [1 .. l + 1 -> Nat] /\ off[1] = first
      /\ \A i, j \in 1 .. l + 1 : i < j => off[i] < off[j]
      /\ \A j \in 1 .. l : off[j + 1] = off[j] + Len(w[j])
      /\ \A j \in 1 .. l : \A i \in 1 .. Len(w[j]) : w[j][i] = FrameByte(n, k, off[j] + i)
  BY DEF Cuts
<1> HIDE DEF l, v
<1>4. o \in [1 .. l -> Nat] /\ \A j \in 1 .. l : o[j] = off[j + 1]
  BY <1>1, <1>3
<1> HIDE DEF o
<1>5. (l - 1) + 1 = l /\ 1 \in 1 .. l /\ l \in 1 .. l
  BY <1>1
<1>6. o[1] = first + Len(Head(w))
  BY <1>1, <1>3, <1>4, <1>5
<1>7. ASSUME NEW i \in 1 .. l, NEW j \in 1 .. l, i < j PROVE o[i] < o[j]
  <2>1. i + 1 \in 1 .. l + 1 /\ j + 1 \in 1 .. l + 1 /\ i + 1 < j + 1
    BY <1>1, <1>7
  <2>2. off[i + 1] < off[j + 1]
    BY <1>3, <2>1
  <2> QED
    BY <1>4, <2>2
<1>8. ASSUME NEW j \in 1 .. Len(v)
      PROVE  /\ o[j + 1] = o[j] + Len(v[j])
             /\ \A i \in 1 .. Len(v[j]) : v[j][i] = FrameByte(n, k, o[j] + i)
  <2>1. j \in 1 .. l /\ j + 1 \in 1 .. l
    BY <1>1, <1>2
  <2>2. v[j] = w[j + 1] /\ o[j] = off[j + 1] /\ o[j + 1] = off[(j + 1) + 1]
    BY <1>2, <1>4, <2>1
  <2> QED
    BY <1>3, <2>1, <2>2
<1>9. Cuts(o, v, first + Len(Head(w)), n, k)
  BY <1>2, <1>4, <1>5, <1>6, <1>7, <1>8 DEF Cuts
<1> QED
  BY <1>2, <1>4, <1>5, <1>9 DEF l, v

\* A part of a segment that arrives leaves the rest of it.
LEMMA CutsPart ==
    ASSUME NEW w \in Seq(Seq(Bytes)), w # <<>>, NEW off, NEW first, NEW n, NEW k,
           Cuts(off, w, first, n, k), NEW m \in 1 .. Len(Head(w)) - 1
    PROVE  LET v == <<SubSeq(Head(w), m + 1, Len(Head(w)))>> \o Tail(w)
           IN  \E o : Cuts(o, v, first + m, n, k) /\ o[Len(v) + 1] = off[Len(w) + 1]
<1> DEFINE l == Len(w)
           h == Head(w)
           r == SubSeq(h, m + 1, Len(h))
           v == <<r>> \o Tail(w)
           o == [off EXCEPT ![1] = first + m]
<1>1. l \in Nat /\ l > 0 /\ h = w[1] /\ h \in Seq(Bytes)
  BY LenProperties, EmptySeq, HeadTailProperties
<1>2. Len(h) \in Nat /\ m \in 1 .. Len(h) - 1
  BY <1>1, LenProperties
<1>3. r \in Seq(Bytes) /\ Len(r) = Len(h) - m /\ \A i \in 1 .. Len(h) - m : r[i] = h[m + i]
  <2>1. \A i \in m + 1 .. Len(h) : h[i] \in Bytes
    BY <1>1, <1>2, ElementOfSeq
  <2> QED
    BY <1>2, <2>1, SubSeqProperties
<1> HIDE DEF h, r
<1>4. Len(v) = l /\ v[1] = r /\ \A j \in 2 .. l : v[j] = w[j]
  <2>1. /\ Tail(w) \in Seq(Seq(Bytes)) /\ Len(Tail(w)) = l - 1
        /\ \A j \in 1 .. Len(Tail(w)) : Tail(w)[j] = w[j + 1]
    BY HeadTailProperties
  <2>2. <<r>> \in Seq(Seq(Bytes)) /\ Len(<<r>>) = 1 /\ <<r>>[1] = r
    BY <1>3
  <2>3. /\ Len(v) = 1 + (l - 1)
        /\ \A j \in 1 .. 1 + (l - 1) : v[j] = IF j <= 1 THEN <<r>>[j] ELSE Tail(w)[j - 1]
    BY <2>1, <2>2, ConcatProperties
  <2> HIDE DEF v
  <2>4. ASSUME NEW j \in 2 .. l PROVE v[j] = w[j]
    <3>1. v[j] = Tail(w)[j - 1] /\ j - 1 \in 1 .. l - 1 /\ (j - 1) + 1 = j
      BY <1>1, <2>3
    <3> QED
      BY <2>1, <3>1
  <2>5. v[1] = r /\ Len(v) = l
    BY <1>1, <2>2, <2>3
  <2> QED
    BY <2>4, <2>5
<1>5. /\ off \in [1 .. l + 1 -> Nat] /\ off[1] = first
      /\ \A i, j \in 1 .. l + 1 : i < j => off[i] < off[j]
      /\ \A j \in 1 .. l : off[j + 1] = off[j] + Len(w[j])
      /\ \A j \in 1 .. l : \A i \in 1 .. Len(w[j]) : w[j][i] = FrameByte(n, k, off[j] + i)
  BY DEF Cuts
<1> HIDE DEF l, v
<1>6. /\ o \in [1 .. l + 1 -> Nat] /\ o[1] = first + m
      /\ \A j \in 2 .. l + 1 : o[j] = off[j]
  BY <1>1, <1>2, <1>5
<1> HIDE DEF o
<1>7. off[2] = first + Len(h)
  BY <1>1, <1>5
<1>8. ASSUME NEW i \in 1 .. l + 1, NEW j \in 1 .. l + 1, i < j PROVE o[i] < o[j]
  <2>1. j \in 2 .. l + 1 /\ o[j] = off[j] /\ off[j] \in Nat
    BY <1>1, <1>5, <1>6, <1>8
  <2>2. CASE i = 1
    <3>1. off[2] <= off[j]
      <4>1. off[2] \in Nat /\ (j = 2 \/ 2 < j)
        BY <1>1, <1>5, <2>1
      <4> QED
        BY <1>1, <1>5, <2>1, <4>1
    <3> QED
      BY <1>2, <1>5, <1>6, <1>7, <2>1, <2>2, <3>1
  <2>3. CASE i \in 2 .. l + 1
    BY <1>5, <1>6, <1>8, <2>1, <2>3
  <2> QED
    BY <1>1, <2>2, <2>3
<1>9. ASSUME NEW j \in 1 .. l
      PROVE  /\ o[j + 1] = o[j] + Len(v[j])
             /\ \A i \in 1 .. Len(v[j]) : v[j][i] = FrameByte(n, k, o[j] + i)
  <2>1. CASE j = 1
    <3>1. o[2] = o[1] + Len(r)
      BY <1>1, <1>2, <1>3, <1>5, <1>6, <1>7
    <3>2. ASSUME NEW i \in 1 .. Len(r) PROVE r[i] = FrameByte(n, k, o[1] + i)
      <4>1. r[i] = h[m + i] /\ m + i \in 1 .. Len(h)
        BY <1>2, <1>3
      <4>2. h[m + i] = FrameByte(n, k, first + (m + i))
        BY <1>1, <1>5, <4>1
      <4>3. first + (m + i) = o[1] + i
        <5>1. first \in Nat /\ m \in Nat /\ i \in Nat
          BY <1>1, <1>2, <1>3, <1>5
        <5>2. first + (m + i) = (first + m) + i
          BY <5>1
        <5> QED
          BY <1>6, <5>2
      <4> QED
        BY <4>1, <4>2, <4>3
    <3> QED
      BY <1>4, <2>1, <3>1, <3>2
  <2>2. CASE j \in 2 .. l
    <3>1. j + 1 \in 2 .. l + 1 /\ j \in 2 .. l + 1
      BY <1>1, <2>2
    <3>2. v[j] = w[j] /\ o[j] = off[j] /\ o[j + 1] = off[j + 1]
      BY ONLY <1>4, <1>6, <2>2, <3>1
    <3>3. /\ off[j + 1] = off[j] + Len(w[j])
          /\ \A i \in 1 .. Len(w[j]) : w[j][i] = FrameByte(n, k, off[j] + i)
      BY <1>1, <1>5, <2>2
    <3> QED
      BY ONLY <3>2, <3>3
  <2>3. j = 1 \/ j \in 2 .. l
    BY <1>1
  <2> QED
    BY <2>1, <2>2, <2>3
<1>10. Cuts(o, v, first + m, n, k)
  BY <1>4, <1>6, <1>8, <1>9 DEF Cuts
<1>11. o[l + 1] = off[l + 1]
  BY <1>1, <1>6
<1> QED
  BY <1>4, <1>10, <1>11 DEF l, v, r, h

-----------------------------------------------------------------------------
(* Bytes of frames. *)

\* A remainder is a digit.
LEMMA DigitBelow ==
    ASSUME NEW n \in Nat, NEW b \in Nat \ {0}
    PROVE  n % b \in 0 .. b - 1
  BY SMT

\* The prefix has four bytes.
LEMMA LengthDigits ==
    ASSUME NEW n \in Nat
    PROVE  \A i \in 1 .. 4 : EncodeLength(n)[i] \in 0 .. Base - 1
<1> DEFINE b1 == n \div Base
           b2 == b1 \div Base
           b3 == b2 \div Base
<1>1. Base \in Nat \ {0}
  BY SizesAssumption
<1>2. b1 \in Nat /\ n % Base \in 0 .. Base - 1
  BY <1>1, DivMod, DigitBelow
<1>3. b2 \in Nat /\ b1 % Base \in 0 .. Base - 1
  BY <1>1, <1>2, DivMod, DigitBelow
<1>4. b3 \in Nat /\ b2 % Base \in 0 .. Base - 1
  BY <1>1, <1>3, DivMod, DigitBelow
<1>5. b3 % Base \in 0 .. Base - 1
  BY <1>1, <1>4, DigitBelow
<1>6. EncodeLength(n) = <<n % Base, b1 % Base, b2 % Base, b3 % Base>>
  BY DEF EncodeLength
<1> HIDE DEF b1, b2, b3
<1> QED
  BY <1>2, <1>3, <1>4, <1>5, <1>6

\* A piece of a body.
LEMMA BodyIs ==
    ASSUME NEW k \in 1 .. MaxCalls, NEW a \in 1 .. MaxLen, NEW b \in a .. MaxLen
    PROVE  /\ Body(k, a, b) \in Seq(Bytes)
           /\ Len(Body(k, a, b)) = b - a + 1
           /\ \A i \in 1 .. b - a + 1 : Body(k, a, b)[i] = BodyByte(k, a + i - 1)
<1>1. MaxLen \in Nat /\ b - a + 1 \in Nat
  BY SizesAssumption
<1>2. \A i \in 1 .. b - a + 1 : BodyByte(k, a + i - 1) \in Bytes
  BY <1>1 DEF BodyByte, Bytes
<1>3. Body(k, a, b) \in [1 .. b - a + 1 -> Bytes]
  BY <1>2 DEF Body
<1>4. Body(k, a, b) \in Seq(Bytes)
  BY <1>1, <1>3, SeqDef
<1> QED
  BY <1>1, <1>3, <1>4, LenProperties DEF Body

-----------------------------------------------------------------------------
(* The inductive invariant. *)

\* Bytes of the frame that are with the client.
Received == (IF cpc = "header" THEN 0 ELSE 4 + Len(msg)) + Len(rx)

\* The server's program counter says how much of the frame was sent.
InStep(end) ==
    /\ end <= 4 + Size
    /\ spc = "length" => end = 0
    /\ spc = "chunks" => end = 4 + sentBytes
    /\ spc = "recv" => end = 4 + Size

\* Responses are counted, and one that is sent is the last.
CountInv ==
    /\ Len(lens) <= MaxCalls
    /\ spc \in {"length", "chunks"} \/ cpc \in {"header", "body"} => lens # <<>>
    /\ spc = "chunks" => sentBytes <= Size

\* During a call the frame is what was taken, what has arrived and what is on its way, in
\* this order, and nothing follows it.
CallInv ==
    cpc \in {"header", "body"} =>
        /\ \A i \in 1 .. Len(rx) : rx[i] = FrameByte(Size, Len(lens), Received - Len(rx) + i)
        /\ cpc = "body" => msgLen = Size /\ \A i \in 1 .. Len(msg) : msg[i] = BodyByte(Len(lens), i)
        /\ \E off : Cuts(off, wire, Received, Size, Len(lens)) /\ InStep(off[Len(wire) + 1])

\* Between calls nothing is on its way, and nothing will be.
IdleInv ==
    cpc = "idle" =>
        /\ rx = <<>> /\ wire = <<>>
        /\ spc # "length"
        /\ spc = "chunks" => sentBytes = Size

\* There is a result for each response but the one of a call that is going on or stopped.
ResultsInv ==
    /\ Len(results) <= Len(lens)
    /\ cpc = "idle" => Len(results) = Len(lens)
    /\ cpc \in {"header", "body"} => Len(results) + 1 = Len(lens)
    /\ ResponsesIntact

FramingInv == TypeOK /\ CountInv /\ CallInv /\ IdleInv /\ ResultsInv

\* The response being sent.
LEMMA Sizes ==
    ASSUME TypeOK, CountInv, lens # <<>>
    PROVE  /\ Size \in 1 .. MaxLen /\ Size \in Nat /\ Len(lens) \in 1 .. MaxCalls
           /\ MaxLen \in Nat /\ MaxCalls \in Nat
<1>1. lens \in Seq(1 .. MaxLen) /\ Len(lens) \in Nat /\ Len(lens) # 0
  BY LenProperties, EmptySeq DEF TypeOK
<1>2. Size \in 1 .. MaxLen
  <2>1. Len(lens) \in 1 .. Len(lens)
    BY <1>1
  <2> QED
    BY <1>1, <2>1, ElementOfSeq DEF Size
<1> QED
  BY <1>1, <1>2, SizesAssumption DEF CountInv

\* What a send writes, and what was written before it.
Piece == IF spc = "length" THEN Prefix ELSE Body(Len(lens), sentBytes + 1, NextEnd)
Written == IF spc = "length" THEN 0 ELSE 4 + sentBytes

\* A send writes the next bytes of the frame.
LEMMA NextPiece ==
    ASSUME TypeOK, CountInv, spc = "length" \/ (spc = "chunks" /\ sentBytes < Size)
    PROVE  /\ Piece \in Seq(Bytes) /\ Len(Piece) > 0 /\ Len(Piece) \in Nat /\ Written \in Nat
           /\ \A i \in 1 .. Len(Piece) : Piece[i] = FrameByte(Size, Len(lens), Written + i)
           /\ spc = "length" => Written + Len(Piece) = 4
           /\ spc = "chunks" => /\ Written + Len(Piece) = 4 + NextEnd
                                /\ NextEnd \in 0 .. MaxLen /\ NextEnd <= Size
           /\ Written + Len(Piece) <= 4 + Size
<1>1. /\ Size \in 1 .. MaxLen /\ Size \in Nat /\ Len(lens) \in 1 .. MaxCalls
      /\ MaxLen \in Nat /\ MsgChunk \in Nat \ {0} /\ sentBytes \in Nat
  BY Sizes, SizesAssumption DEF CountInv, TypeOK
<1>2. CASE spc = "length"
  <2>1. Piece = Prefix /\ Written = 0
    BY <1>2 DEF Piece, Written
  <2>2. \A i \in 1 .. 4 : Digit(EncodeLength(Size)[i]) \in Bytes
    BY <1>1, LengthDigits DEF Digit, Bytes
  <2>3. Prefix \in [1 .. 4 -> Bytes] /\ \A i \in 1 .. 4 : Prefix[i] = Digit(EncodeLength(Size)[i])
    BY <2>2 DEF Prefix
  <2>4. Prefix \in Seq(Bytes) /\ Len(Prefix) = 4
    <3>1. \E n \in Nat : Prefix \in [1 .. n -> Bytes]
      <4>1. 4 \in Nat
        OBVIOUS
      <4> QED
        BY <2>3, <4>1
    <3>2. Prefix \in Seq(Bytes)
      BY <3>1, SeqDef, Zenon
    <3>3. DOMAIN Prefix = 1 .. 4 /\ DOMAIN Prefix = 1 .. Len(Prefix) /\ Len(Prefix) \in Nat
      BY <2>3, <3>2, LenProperties
    <3> QED
      BY <3>2, <3>3
  <2>5. \A i \in 1 .. 4 : FrameByte(Size, Len(lens), 0 + i) = Digit(EncodeLength(Size)[i])
    BY DEF FrameByte
  <2> QED
    BY <1>1, <1>2, <2>1, <2>3, <2>4, <2>5
<1>3. CASE spc = "chunks" /\ sentBytes < Size
  <2>1. Piece = Body(Len(lens), sentBytes + 1, NextEnd) /\ Written = 4 + sentBytes
    BY <1>3 DEF Piece, Written
  <2>2. NextEnd \in sentBytes + 1 .. Size
    BY <1>1, <1>3 DEF NextEnd
  <2>3. /\ Piece \in Seq(Bytes) /\ Len(Piece) = NextEnd - sentBytes
        /\ \A i \in 1 .. NextEnd - sentBytes : Piece[i] = BodyByte(Len(lens), sentBytes + i)
    <3>1. sentBytes + 1 \in 1 .. MaxLen /\ NextEnd \in sentBytes + 1 .. MaxLen
      BY <1>1, <1>3, <2>2
    <3>2. /\ Piece \in Seq(Bytes) /\ Len(Piece) = NextEnd - (sentBytes + 1) + 1
          /\ \A i \in 1 .. NextEnd - (sentBytes + 1) + 1 :
                Piece[i] = BodyByte(Len(lens), (sentBytes + 1) + i - 1)
      BY <1>1, <2>1, <3>1, BodyIs
    <3>3. NextEnd - (sentBytes + 1) + 1 = NextEnd - sentBytes
      BY <1>1, <2>2
    <3>4. \A i \in 1 .. NextEnd - sentBytes : (sentBytes + 1) + i - 1 = sentBytes + i
      BY <1>1, <2>2
    <3> QED
      BY <3>2, <3>3, <3>4
  <2>4. \A i \in 1 .. NextEnd - sentBytes :
          FrameByte(Size, Len(lens), Written + i) = BodyByte(Len(lens), sentBytes + i)
    <3> SUFFICES ASSUME NEW i \in 1 .. NextEnd - sentBytes
                 PROVE  FrameByte(Size, Len(lens), Written + i) = BodyByte(Len(lens), sentBytes + i)
      OBVIOUS
    <3>1. ~ (Written + i <= 4) /\ (Written + i) - 4 = sentBytes + i
      BY <1>1, <2>1, <2>2
    <3> QED
      BY <3>1 DEF FrameByte
  <2>5. Len(Piece) > 0 /\ Len(Piece) \in Nat /\ Written \in Nat /\ Written + Len(Piece) = 4 + NextEnd
    <3>1. NextEnd \in Nat /\ NextEnd > sentBytes
      BY <1>1, <2>2
    <3> QED
      BY ONLY <1>1, <2>1, <2>3, <3>1
  <2>6. NextEnd \in 0 .. MaxLen /\ NextEnd <= Size /\ NextEnd \in Nat
    BY <1>1, <2>2
  <2>7. ASSUME NEW i \in 1 .. Len(Piece) PROVE Piece[i] = FrameByte(Size, Len(lens), Written + i)
    BY <2>3, <2>4
  <2>8. Written + Len(Piece) <= 4 + Size /\ spc # "length"
    BY ONLY <1>1, <1>3, <2>5, <2>6
  <2> QED
    BY ONLY <2>3, <2>5, <2>6, <2>7, <2>8
<1> QED
  BY <1>2, <1>3

-----------------------------------------------------------------------------
(* Steps. *)

\* A send that is made, or cut short by an error, continues the frame.
LEMMA Sends ==
    ASSUME FramingInv, spc = "length" \/ (spc = "chunks" /\ sentBytes < Size),
           UNCHANGED <<lens, rx, cpc, msgLen, msg, results>>,
           NEW seg \in Seq(Bytes), Len(seg) > 0, Len(seg) <= Len(Piece),
           \A i \in 1 .. Len(seg) : seg[i] = Piece[i],
           wire' = Append(wire, seg),
           spc' = "dead" \/ (spc' = "chunks" /\ 4 + sentBytes' = Written + Len(seg))
    PROVE  CallInv' /\ IdleInv'
<1> USE DEF FramingInv
<1>1. Size' = Size /\ Received' = Received
  BY DEF Size, Received
<1>2. /\ Len(Piece) \in Nat /\ Written \in Nat /\ Len(seg) \in Nat
      /\ \A i \in 1 .. Len(Piece) : Piece[i] = FrameByte(Size, Len(lens), Written + i)
      /\ Written + Len(Piece) <= 4 + Size
  BY NextPiece, LenProperties
<1>3. cpc # "idle"
  BY Sizes DEF IdleInv, CountInv
<1>4. IdleInv'
  BY <1>3 DEF IdleInv
<1>5. ASSUME cpc \in {"header", "body"} PROVE CallInv'
  <2>1. PICK off : Cuts(off, wire, Received, Size, Len(lens)) /\ InStep(off[Len(wire) + 1])
    BY <1>5 DEF CallInv
  <2>2. off[Len(wire) + 1] = Written
    BY <2>1 DEF InStep, Written
  <2>3. \A i \in 1 .. Len(seg) : seg[i] = FrameByte(Size, Len(lens), off[Len(wire) + 1] + i)
    BY <1>2, <2>2
  <2>a. PICK o : /\ Cuts(o, Append(wire, seg), Received, Size, Len(lens))
                 /\ o[Len(Append(wire, seg)) + 1] = off[Len(wire) + 1] + Len(seg)
    <3>1. wire \in Seq(Seq(Bytes))
      BY DEF TypeOK
    <3>2. seg \in Seq(Bytes) /\ Len(seg) > 0 /\ Cuts(off, wire, Received, Size, Len(lens))
      BY <2>1
    <3> QED
      BY ONLY <2>3, <3>1, <3>2, CutsAppend
  <2>4. Cuts(o, wire', Received, Size, Len(lens)) /\ o[Len(wire') + 1] = Written + Len(seg)
    BY <2>2, <2>a
  <2>5. Size \in Nat
    BY Sizes DEF CountInv
  <2>6. InStep(o[Len(wire) + 1])'
    <3>1. Written + Len(seg) <= 4 + Size
      BY <1>2, <2>5
    <3> QED
      BY <1>1, <2>4, <3>1 DEF InStep
  <2>7. \A i \in 1 .. Len(rx) : rx[i] = FrameByte(Size, Len(lens), Received - Len(rx) + i)
    BY <1>5 DEF CallInv
  <2>8. cpc = "body" => msgLen = Size /\ \A i \in 1 .. Len(msg) : msg[i] = BodyByte(Len(lens), i)
    BY <1>5 DEF CallInv
  <2> QED
    BY <1>1, <2>4, <2>6, <2>7, <2>8 DEF CallInv, InStep
<1>6. ASSUME cpc = "stopped" PROVE CallInv'
  <2>1. cpc' = "stopped"
    BY <1>6
  <2> QED
    BY ONLY <2>1 DEF CallInv
<1>7. cpc \in {"header", "body"} \/ cpc = "stopped"
  BY <1>3 DEF TypeOK
<1>8. CallInv'
  BY ONLY <1>5, <1>6, <1>7
<1> QED
  BY <1>4, <1>8

\* The server.
LEMMA ServerStep ==
    ASSUME FramingInv, Server
    PROVE  FramingInv'
<1> USE DEF FramingInv, serverUnchanged
<1>1. /\ lens' = lens /\ rx' = rx /\ cpc' = cpc /\ msgLen' = msgLen /\ msg' = msg
      /\ results' = results
  BY DEF Server, SendLength, SendChunk, ChunksSent, HandlerRaises, EndOfStream
<1>2. ResultsInv' /\ Size' = Size /\ Received' = Received
  BY <1>1 DEF ResultsInv, ResponsesIntact, Size, Received
<1>3. CASE SendLength
  <2>1. /\ spc = "length" /\ spc' = "chunks" /\ sentBytes' = 0 /\ wire' = Append(wire, Prefix)
        /\ ended' = ended
    BY <1>3 DEF SendLength
  <2>2. Piece = Prefix /\ Prefix \in Seq(Bytes) /\ Len(Prefix) = 4 /\ Written = 0
    <3>1. Piece = Prefix /\ Written = 0
      BY <2>1 DEF Piece, Written
    <3> QED
      BY <2>1, <3>1, NextPiece
  <2>3. wire' \in Seq(Seq(Bytes))
    BY <2>1, <2>2, AppendProperties DEF TypeOK
  <2>4. TypeOK'
    BY <1>1, <2>1, <2>3, SizesAssumption DEF TypeOK
  <2>5. CountInv'
    BY <1>1, <1>2, <2>1, Sizes DEF CountInv
  <2>6. CallInv' /\ IdleInv'
    <3>1. /\ wire' = Append(wire, Piece) /\ Piece \in Seq(Bytes) /\ Len(Piece) = 4
          /\ 4 + sentBytes' = Written + Len(Piece)
      BY <2>1, <2>2
    <3>2. Len(Piece) > 0 /\ Len(Piece) <= Len(Piece)
      BY <3>1
    <3> QED
      BY <1>1, <2>1, <3>1, <3>2, Sends
  <2> QED
    BY <1>2, <2>4, <2>5, <2>6
<1>4. CASE SendChunk
  <2>1. /\ spc = "chunks" /\ sentBytes < Size /\ spc' = spc /\ sentBytes' = NextEnd
        /\ wire' = Append(wire, Piece) /\ ended' = ended
    BY <1>4 DEF SendChunk, Piece
  <2>2. /\ Piece \in Seq(Bytes) /\ Len(Piece) > 0 /\ Len(Piece) \in Nat
        /\ Written + Len(Piece) = 4 + NextEnd /\ NextEnd \in 0 .. MaxLen /\ NextEnd <= Size
    BY <2>1, NextPiece
  <2>3. wire' \in Seq(Seq(Bytes))
    BY <2>1, <2>2, AppendProperties DEF TypeOK
  <2>4. TypeOK'
    BY <1>1, <2>1, <2>2, <2>3 DEF TypeOK
  <2>5. CountInv'
    BY <1>1, <1>2, <2>1, <2>2 DEF CountInv
  <2>6. CallInv' /\ IdleInv'
    BY <1>1, <2>1, <2>2, Sends
  <2> QED
    BY <1>2, <2>4, <2>5, <2>6
<1>5. CASE ChunksSent
  <2>1. /\ spc = "chunks" /\ sentBytes = Size /\ spc' = "recv"
        /\ sentBytes' = sentBytes /\ wire' = wire /\ ended' = ended
    BY <1>5 DEF ChunksSent
  <2>2. TypeOK' /\ CountInv' /\ IdleInv'
    BY <1>1, <2>1 DEF TypeOK, CountInv, IdleInv
  <2>3. CallInv'
    <3> SUFFICES ASSUME cpc \in {"header", "body"} PROVE CallInv'
      BY <1>1 DEF CallInv
    <3>1. PICK off : Cuts(off, wire, Received, Size, Len(lens)) /\ InStep(off[Len(wire) + 1])
      BY DEF CallInv
    <3>2. InStep(off[Len(wire) + 1])'
      BY <1>2, <2>1, <3>1 DEF InStep
    <3> QED
      BY <1>1, <1>2, <2>1, <3>1, <3>2 DEF CallInv, InStep
  <2> QED
    BY <1>2, <2>2, <2>3
<1>6. CASE HandlerRaises
  <2>1. /\ spc = "length" \/ (spc = "chunks" /\ sentBytes < Size)
        /\ spc' = "dead" /\ sentBytes' = sentBytes /\ ended' = ended
    BY <1>6 DEF HandlerRaises
  <2>2. PICK n \in 0 .. Len(Piece) - 1 :
          wire' = IF n = 0 THEN wire ELSE Append(wire, SubSeq(Piece, 1, n))
    BY <1>6 DEF HandlerRaises, Piece
  <2>3. Piece \in Seq(Bytes) /\ Len(Piece) \in Nat
    BY <2>1, NextPiece
  <2>4. CountInv'
    BY <1>1, <2>1 DEF CountInv
  <2>5. CASE n = 0
    <3>1. TypeOK' /\ IdleInv'
      BY <1>1, <2>1, <2>2, <2>5 DEF TypeOK, IdleInv
    <3>2. CallInv'
      <4> SUFFICES ASSUME cpc \in {"header", "body"} PROVE CallInv'
        BY <1>1 DEF CallInv
      <4>1. PICK off : Cuts(off, wire, Received, Size, Len(lens)) /\ InStep(off[Len(wire) + 1])
        BY DEF CallInv
      <4>2. InStep(off[Len(wire) + 1])'
        BY <1>2, <2>1, <2>2, <2>5, <4>1 DEF InStep
      <4> QED
        BY <1>1, <1>2, <2>2, <2>5, <4>1, <4>2 DEF CallInv, InStep
    <3> QED
      BY <1>2, <2>4, <3>1, <3>2
  <2>6. CASE n # 0
    <3>1. n \in 1 .. Len(Piece)
      BY <2>2, <2>3, <2>6
    <3>2. /\ SubSeq(Piece, 1, n) \in Seq(Bytes) /\ Len(SubSeq(Piece, 1, n)) = n
          /\ \A i \in 1 .. n : SubSeq(Piece, 1, n)[i] = Piece[i]
      <4>1. \A i \in 1 .. n : Piece[i] \in Bytes
        BY <2>3, <3>1, ElementOfSeq
      <4> QED
        BY <2>3, <3>1, <4>1, SubSeqProperties
    <3>3. wire' \in Seq(Seq(Bytes))
      BY <2>2, <2>6, <3>2, AppendProperties DEF TypeOK
    <3>4. TypeOK'
      BY <1>1, <2>1, <3>3 DEF TypeOK
    <3>5. CallInv' /\ IdleInv'
      <4> DEFINE seg == SubSeq(Piece, 1, n)
      <4>1. /\ seg \in Seq(Bytes) /\ Len(seg) > 0 /\ Len(seg) <= Len(Piece)
            /\ \A i \in 1 .. Len(seg) : seg[i] = Piece[i]
        BY <2>3, <3>1, <3>2
      <4>2. wire' = Append(wire, seg)
        BY <2>2, <2>6
      <4> HIDE DEF seg
      <4> QED
        BY <1>1, <2>1, <4>1, <4>2, Sends
    <3> QED
      BY <1>2, <2>4, <3>4, <3>5
  <2> QED
    BY <2>5, <2>6
<1>7. CASE EndOfStream
  <2>1. ended' = TRUE /\ spc' = spc /\ sentBytes' = sentBytes /\ wire' = wire
    BY <1>7 DEF EndOfStream
  <2>2. TypeOK' /\ CountInv' /\ IdleInv'
    BY <1>1, <2>1 DEF TypeOK, CountInv, IdleInv, Size
  <2>3. CallInv'
    BY <1>1, <1>2, <2>1 DEF CallInv, InStep
  <2> QED
    BY <1>2, <2>2, <2>3
<1> QED
  BY <1>3, <1>4, <1>5, <1>6, <1>7 DEF Server

\* A piece of a sequence that is taken, and what is left of it.
LEMMA Taking ==
    ASSUME NEW S, NEW s \in Seq(S), NEW n \in 1 .. Len(s)
    PROVE  /\ SubSeq(s, 1, n) \in Seq(S) /\ Len(SubSeq(s, 1, n)) = n
           /\ \A i \in 1 .. n : SubSeq(s, 1, n)[i] = s[i]
           /\ SubSeq(s, n + 1, Len(s)) \in Seq(S) /\ Len(SubSeq(s, n + 1, Len(s))) = Len(s) - n
           /\ \A i \in 1 .. Len(s) - n : SubSeq(s, n + 1, Len(s))[i] = s[n + i]
<1>1. Len(s) \in Nat /\ n \in Nat /\ \A i \in 1 .. Len(s) : s[i] \in S
  BY LenProperties, ElementOfSeq
<1>2. \A i \in 1 .. n : s[i] \in S
  BY <1>1
<1>3. \A i \in n + 1 .. Len(s) : s[i] \in S
  BY <1>1
<1>4. /\ SubSeq(s, 1, n) \in Seq(S) /\ Len(SubSeq(s, 1, n)) = n
      /\ \A i \in 1 .. n : SubSeq(s, 1, n)[i] = s[i]
  BY <1>1, <1>2, SubSeqProperties
<1>5. /\ SubSeq(s, n + 1, Len(s)) \in Seq(S) /\ Len(SubSeq(s, n + 1, Len(s))) = Len(s) - n
      /\ \A i \in 1 .. Len(s) - n : SubSeq(s, n + 1, Len(s))[i] = s[n + i]
  BY <1>1, <1>3, SubSeqProperties
<1> QED
  BY <1>4, <1>5

\* The stream hands over a segment, or the first bytes of one.
LEMMA ArriveStep ==
    ASSUME FramingInv, Arrive
    PROVE  FramingInv'
<1> DEFINE seg == Head(wire)
<1>0. TypeOK /\ CountInv /\ CallInv /\ IdleInv /\ ResultsInv
  BY DEF FramingInv
<1>1. PICK n \in 1 .. Len(seg) :
        /\ rx' = rx \o SubSeq(seg, 1, n)
        /\ wire' = IF n = Len(seg) THEN Tail(wire)
                   ELSE <<SubSeq(seg, n + 1, Len(seg))>> \o Tail(wire)
  BY DEF Arrive
<1>2. /\ wire # <<>> /\ lens' = lens /\ spc' = spc /\ sentBytes' = sentBytes /\ ended' = ended
      /\ cpc' = cpc /\ msgLen' = msgLen /\ msg' = msg /\ results' = results /\ Size' = Size
  BY DEF Arrive, Size
<1>3. wire \in Seq(Seq(Bytes)) /\ Len(wire) \in Nat /\ Len(wire) > 0 /\ wire[1] = seg
  BY <1>0, <1>2, LenProperties, EmptySeq DEF TypeOK
<1>4. seg \in Seq(Bytes) /\ Tail(wire) \in Seq(Seq(Bytes)) /\ Len(seg) \in Nat
  BY <1>2, <1>3, HeadTailProperties, LenProperties
<1> HIDE DEF seg
<1>5. /\ SubSeq(seg, 1, n) \in Seq(Bytes) /\ Len(SubSeq(seg, 1, n)) = n
      /\ \A i \in 1 .. n : SubSeq(seg, 1, n)[i] = seg[i]
      /\ SubSeq(seg, n + 1, Len(seg)) \in Seq(Bytes)
  BY <1>4, Taking
<1>6. rx \in Seq(Bytes) /\ Len(rx) \in Nat
  BY <1>0, LenProperties DEF TypeOK
<1>7. /\ rx' \in Seq(Bytes) /\ Len(rx') = Len(rx) + n
      /\ \A i \in 1 .. Len(rx) + n : rx'[i] = IF i <= Len(rx) THEN rx[i] ELSE SubSeq(seg, 1, n)[i - Len(rx)]
  BY <1>1, <1>5, <1>6, ConcatProperties
<1>8. wire' \in Seq(Seq(Bytes))
  <2>1. <<SubSeq(seg, n + 1, Len(seg))>> \in Seq(Seq(Bytes))
    BY <1>5
  <2>2. <<SubSeq(seg, n + 1, Len(seg))>> \o Tail(wire) \in Seq(Seq(Bytes))
    BY <1>4, <2>1, ConcatProperties
  <2> QED
    BY <1>1, <1>4, <2>2
<1>9. TypeOK'
  BY <1>0, <1>2, <1>7, <1>8 DEF TypeOK
<1>10. CountInv'
  BY <1>0, <1>2 DEF CountInv
<1>11. IdleInv'
  BY <1>0, <1>2 DEF IdleInv
<1>12. ResultsInv'
  BY <1>0, <1>2 DEF ResultsInv, ResponsesIntact
<1>13. ASSUME cpc \in {"header", "body"} PROVE CallInv'
  <2>1. PICK off : Cuts(off, wire, Received, Size, Len(lens)) /\ InStep(off[Len(wire) + 1])
    BY <1>0, <1>13 DEF CallInv
  <2>2. Received \in Nat /\ Received' = Received + n
    <3>1. Len(msg) \in Nat
      BY <1>0, LenProperties DEF TypeOK
    <3>2. Received \in Nat /\ Received' = Received + n
      <4>1. \E k \in Nat : Received = k + Len(rx) /\ Received' = k + Len(rx')
        <5>1. CASE cpc = "header"
          BY <1>2, <5>1 DEF Received
        <5>2. CASE cpc # "header"
          <6>1. 4 + Len(msg) \in Nat /\ Received = (4 + Len(msg)) + Len(rx)
            BY <3>1, <5>2 DEF Received
          <6>2. Received' = (4 + Len(msg)) + Len(rx')
            BY <1>2, <5>2 DEF Received
          <6> QED
            BY <6>1, <6>2
        <5> QED
          BY <5>1, <5>2
      <4> QED
        BY ONLY <1>4, <1>6, <1>7, <4>1
    <3> QED
      BY <3>2
  <2>3. PICK o : Cuts(o, wire', Received + n, Size, Len(lens)) /\ o[Len(wire') + 1] = off[Len(wire) + 1]
    <3>1. CASE n = Len(seg)
      <4>1. wire' = Tail(wire)
        BY <1>1, <3>1
      <4> QED
        BY <1>2, <1>3, <2>1, <3>1, <4>1, CutsTail DEF seg
    <3>2. CASE n # Len(seg)
      <4>1. n \in 1 .. Len(seg) - 1
        BY <1>4, <3>2
      <4>2. wire' = <<SubSeq(seg, n + 1, Len(seg))>> \o Tail(wire)
        BY <1>1, <3>2
      <4> QED
        BY <1>2, <1>3, <2>1, <4>1, <4>2, CutsPart DEF seg
    <3> QED
      BY <3>1, <3>2
  <2>4. \A i \in 1 .. Len(seg) : seg[i] = FrameByte(Size, Len(lens), Received + i)
    <3>1. /\ off[1] = Received /\ 1 \in 1 .. Len(wire)
          /\ \A j \in 1 .. Len(wire) : \A i \in 1 .. Len(wire[j]) :
                wire[j][i] = FrameByte(Size, Len(lens), off[j] + i)
      BY <1>3, <2>1 DEF Cuts
    <3> QED
      BY <1>3, <3>1
  <2>5. ASSUME NEW i \in 1 .. Len(rx')
        PROVE  rx'[i] = FrameByte(Size, Len(lens), Received' - Len(rx') + i)
    <3>1. Received' - Len(rx') = Received - Len(rx)
      BY <1>6, <1>7, <2>2
    <3>2. CASE i <= Len(rx)
      <4>1. i \in 1 .. Len(rx) /\ rx'[i] = rx[i]
        BY <1>6, <1>7, <3>2
      <4> QED
        BY <1>0, <1>13, <3>1, <4>1 DEF CallInv
    <3>3. CASE ~ (i <= Len(rx))
      <4>1. i - Len(rx) \in 1 .. n /\ i - Len(rx) \in 1 .. Len(seg)
        BY <1>4, <1>6, <1>7, <3>3
      <4>2. rx'[i] = seg[i - Len(rx)]
        BY <1>5, <1>6, <1>7, <3>3, <4>1
      <4>3. Received + (i - Len(rx)) = Received - Len(rx) + i
        BY <1>6, <1>7, <2>2
      <4> QED
        BY <2>4, <3>1, <4>1, <4>2, <4>3
    <3> QED
      BY <3>2, <3>3
  <2>6. InStep(o[Len(wire) + 1])'
    BY <1>2, <2>1, <2>3 DEF InStep
  <2>7. cpc = "body" => msgLen = Size /\ \A i \in 1 .. Len(msg) : msg[i] = BodyByte(Len(lens), i)
    BY <1>0, <1>13 DEF CallInv
  <2> QED
    BY <1>2, <2>2, <2>3, <2>5, <2>6, <2>7 DEF CallInv, InStep
<1>14. CallInv'
  <2>1. CASE cpc \in {"header", "body"}
    BY <1>13, <2>1
  <2>2. CASE cpc \notin {"header", "body"}
    BY <1>2, <2>2 DEF CallInv
  <2> QED
    BY <2>1, <2>2
<1> QED
  BY <1>9, <1>10, <1>11, <1>12, <1>14 DEF FramingInv

\* A call starts a frame.
LEMMA CallStep ==
    ASSUME FramingInv, Call
    PROVE  FramingInv'
<1>0. TypeOK /\ CountInv /\ IdleInv /\ ResultsInv
  BY DEF FramingInv
<1>1. PICK n \in 1 .. MaxLen : lens' = Append(lens, n)
  BY DEF Call
<1>2. /\ cpc = "idle" /\ Len(lens) < MaxCalls /\ spc' = "length" /\ cpc' = "header"
      /\ rx' = rx /\ msgLen' = msgLen /\ msg' = msg /\ results' = results
      /\ sentBytes' = sentBytes /\ wire' = wire /\ ended' = ended
  BY DEF Call, clientUnchanged
<1>3. rx = <<>> /\ wire = <<>> /\ Len(results) = Len(lens)
  BY <1>0, <1>2 DEF IdleInv, ResultsInv
<1>4. /\ lens \in Seq(1 .. MaxLen) /\ Len(lens) \in Nat /\ lens' \in Seq(1 .. MaxLen)
      /\ Len(lens') = Len(lens) + 1 /\ lens' # <<>>
      /\ \A i \in 1 .. Len(lens) : lens'[i] = lens[i]
      /\ lens'[Len(lens) + 1] = n
  <2>1. lens \in Seq(1 .. MaxLen)
    BY <1>0 DEF TypeOK
  <2>2. /\ Append(lens, n) \in Seq(1 .. MaxLen) /\ Len(Append(lens, n)) = Len(lens) + 1
        /\ Append(lens, n) # <<>>
        /\ \A i \in 1 .. Len(lens) : Append(lens, n)[i] = lens[i]
        /\ Append(lens, n)[Len(lens) + 1] = n
    BY ONLY <2>1, AppendProperties
  <2>3. Len(lens) \in Nat
    BY ONLY <2>1, LenProperties
  <2> QED
    BY ONLY <1>1, <2>1, <2>2, <2>3
<1>5. Size' = n /\ n \in Nat
  BY <1>4, SizesAssumption DEF Size
<1>6. TypeOK'
  BY <1>0, <1>2, <1>4 DEF TypeOK
<1>7. CountInv'
  <2>1. Len(lens') <= MaxCalls
    BY <1>2, <1>4, SizesAssumption
  <2> QED
    BY <1>2, <1>4, <2>1 DEF CountInv
<1>8. IdleInv'
  BY <1>2 DEF IdleInv
<1>9. ResultsInv'
  <2>1. ResponsesIntact'
    BY <1>0, <1>2, <1>3, <1>4 DEF ResultsInv, ResponsesIntact
  <2> QED
    BY <1>2, <1>3, <1>4, <2>1 DEF ResultsInv
<1>10. CallInv'
  <2>1. Len(rx') = 0 /\ Len(wire') = 0 /\ Received' = 0
    BY <1>2, <1>3, EmptySeq DEF Received
  <2> DEFINE o == [j \in 1 .. 1 |-> 0]
  <2>2. Cuts(o, wire', 0, n, Len(lens'))
    BY <2>1 DEF Cuts
  <2>3. o[Len(wire') + 1] = 0
    BY <2>1
  <2> HIDE DEF o
  <2>4. InStep(o[Len(wire) + 1])'
    BY <1>2, <1>5, <2>3 DEF InStep
  <2>5. \E off : Cuts(off, wire', Received', Size', Len(lens')) /\ InStep(off[Len(wire) + 1])'
    BY <1>5, <2>1, <2>2, <2>4
  <2>6. \A i \in 1 .. Len(rx') : rx'[i] = FrameByte(Size', Len(lens'), Received' - Len(rx') + i)
    BY <2>1
  <2> QED
    BY <1>2, <2>5, <2>6 DEF CallInv
<1> QED
  BY <1>6, <1>7, <1>8, <1>9, <1>10 DEF FramingInv

\* The client's int32 is the length that the first four bytes of the frame were cut from.
LEMMA HeaderIsLength ==
    ASSUME NEW n \in 1 .. MaxLen, NEW k, NEW r, \A i \in 1 .. 4 : r[i] = FrameByte(n, k, i)
    PROVE  DecodeLength([i \in 1 .. 4 |-> r[i].val]) = n
<1> DEFINE d == [i \in 1 .. 4 |-> r[i].val]
<1>1. \A i \in 1 .. 4 : d[i] = EncodeLength(n)[i]
  <2>1. \A i \in 1 .. 4 : FrameByte(n, k, i) = Digit(EncodeLength(n)[i])
    BY DEF FrameByte
  <2> QED
    BY <2>1 DEF Digit
<1> HIDE DEF d
<1>2. DecodeLength(d) = DecodeLength(EncodeLength(n))
  <2>1. /\ d[1] = EncodeLength(n)[1] /\ d[2] = EncodeLength(n)[2]
        /\ d[3] = EncodeLength(n)[3] /\ d[4] = EncodeLength(n)[4]
    BY <1>1
  <2> QED
    BY ONLY <2>1 DEF DecodeLength
<1> QED
  BY <1>2, LengthRoundTrip DEF LengthSurvives, d

\* execRpc takes what has arrived.
LEMMA ClientStep ==
    ASSUME FramingInv, Client
    PROVE  FramingInv'
<1>0. TypeOK /\ CountInv /\ CallInv /\ IdleInv /\ ResultsInv
  BY DEF FramingInv
<1>1. /\ lens' = lens /\ spc' = spc /\ sentBytes' = sentBytes /\ wire' = wire /\ ended' = ended
      /\ cpc \in {"header", "body"} /\ Size' = Size
  BY DEF Client, RecvHeader, RecvShortHeader, RecvBody, RecvNothing, Return, clientUnchanged, Size
<1>2. lens # <<>>
  BY <1>0, <1>1 DEF CountInv
<1>3. Size \in 1 .. MaxLen /\ Size \in Nat /\ Len(lens) \in 1 .. MaxCalls /\ MaxLen \in Nat
  BY <1>0, <1>2, Sizes
<1>4. CountInv'
  BY <1>0, <1>1, <1>2 DEF CountInv
<1>5. /\ rx \in Seq(Bytes) /\ msg \in Seq(Bytes) /\ Len(rx) \in Nat /\ Len(msg) \in Nat
      /\ results \in Seq(Seq(Bytes))
  BY <1>0, LenProperties DEF TypeOK
<1>6. PICK off : Cuts(off, wire, Received, Size, Len(lens)) /\ InStep(off[Len(wire) + 1])
  BY <1>0, <1>1 DEF CallInv
<1>7. \A i \in 1 .. Len(rx) : rx[i] = FrameByte(Size, Len(lens), Received - Len(rx) + i)
  BY <1>0, <1>1 DEF CallInv
<1>8. cpc = "body" => msgLen = Size /\ \A i \in 1 .. Len(msg) : msg[i] = BodyByte(Len(lens), i)
  BY <1>0, <1>1 DEF CallInv
<1>9. InStep(off[Len(wire) + 1])'
  BY <1>1, <1>6 DEF InStep
<1>10. CASE RecvHeader
  <2>1. /\ cpc = "header" /\ Len(rx) >= 4 /\ msgLen' = DecodeLength([i \in 1 .. 4 |-> rx[i].val])
        /\ rx' = SubSeq(rx, 5, Len(rx)) /\ msg' = <<>> /\ cpc' = "body" /\ results' = results
    BY <1>10 DEF RecvHeader
  <2>2. Received = Len(rx) /\ \A i \in 1 .. Len(rx) : rx[i] = FrameByte(Size, Len(lens), i)
    <3>1. Received = Len(rx)
      BY <1>5, <2>1 DEF Received
    <3>2. \A i \in 1 .. Len(rx) : Received - Len(rx) + i = i
      BY <1>5, <3>1
    <3> QED
      BY <1>7, <3>1, <3>2
  <2>3. msgLen' = Size
    <3>1. \A i \in 1 .. 4 : rx[i] = FrameByte(Size, Len(lens), i)
      BY <1>5, <2>1, <2>2
    <3> QED
      BY <1>3, <2>1, <3>1, HeaderIsLength
  <2>4. /\ rx' \in Seq(Bytes) /\ Len(rx') = Len(rx) - 4
        /\ \A i \in 1 .. Len(rx) - 4 : rx'[i] = rx[4 + i]
    <3>1. 4 \in 1 .. Len(rx)
      BY <1>5, <2>1
    <3>2. /\ SubSeq(rx, 4 + 1, Len(rx)) \in Seq(Bytes)
          /\ Len(SubSeq(rx, 4 + 1, Len(rx))) = Len(rx) - 4
          /\ \A i \in 1 .. Len(rx) - 4 : SubSeq(rx, 4 + 1, Len(rx))[i] = rx[4 + i]
      BY <1>5, <3>1, Taking
    <3>3. 4 + 1 = 5
      OBVIOUS
    <3> QED
      BY <2>1, <3>2, <3>3
  <2>5. Len(msg') = 0 /\ msg' \in Seq(Bytes) /\ Received' = Received
    <3>1. Len(msg') = 0 /\ msg' \in Seq(Bytes)
      BY <2>1, EmptySeq
    <3> QED
      BY <1>5, <2>1, <2>2, <2>4, <3>1 DEF Received
  <2>6. TypeOK'
    BY <1>0, <1>1, <1>3, <2>1, <2>3, <2>4, <2>5 DEF TypeOK
  <2>7. IdleInv' /\ ResultsInv'
    BY <1>0, <1>1, <2>1 DEF IdleInv, ResultsInv, ResponsesIntact
  <2>8. ASSUME NEW i \in 1 .. Len(rx')
        PROVE  rx'[i] = FrameByte(Size, Len(lens), Received' - Len(rx') + i)
    <3>1. 4 + i \in 1 .. Len(rx) /\ Received' - Len(rx') + i = 4 + i
      <4>1. i \in 1 .. Len(rx) - 4 /\ Len(rx') = Len(rx) - 4 /\ Received' = Len(rx) /\ Len(rx) \in Nat
        BY <1>5, <2>2, <2>4, <2>5
      <4> QED
        BY ONLY <4>1
    <3> QED
      BY <2>2, <2>4, <3>1
  <2>9. CallInv'
    BY <1>1, <1>6, <1>9, <2>3, <2>5, <2>8 DEF CallInv, InStep
  <2> QED
    BY <1>4, <2>6, <2>7, <2>9 DEF FramingInv
<1>11. CASE RecvShortHeader \/ RecvNothing
  <2>1. /\ rx' \in Seq(Bytes) /\ cpc' = "stopped" /\ msgLen' = msgLen /\ msg' = msg
        /\ results' = results
    BY <1>5, <1>11, EmptySeq DEF RecvShortHeader, RecvNothing
  <2>2. TypeOK'
    BY <1>0, <1>1, <2>1 DEF TypeOK
  <2>3. IdleInv' /\ CallInv'
    BY <2>1 DEF IdleInv, CallInv
  <2>4. ResultsInv'
    BY <1>0, <1>1, <2>1 DEF ResultsInv, ResponsesIntact
  <2> QED
    BY <1>4, <2>2, <2>3, <2>4 DEF FramingInv
<1>12. CASE RecvBody
  <2> DEFINE n == IF Len(rx) < RecvSize THEN Len(rx) ELSE RecvSize
  <2>1. /\ cpc = "body" /\ rx # <<>> /\ msg' = msg \o SubSeq(rx, 1, n)
        /\ rx' = SubSeq(rx, n + 1, Len(rx)) /\ cpc' = cpc /\ msgLen' = msgLen /\ results' = results
    BY <1>12 DEF RecvBody
  <2>2. n \in 1 .. Len(rx)
    <3>1. Len(rx) > 0
      BY <1>5, <2>1, EmptySeq
    <3> QED
      BY <1>5, <3>1, SizesAssumption
  <2> HIDE DEF n
  <2>3. /\ SubSeq(rx, 1, n) \in Seq(Bytes) /\ Len(SubSeq(rx, 1, n)) = n
        /\ \A i \in 1 .. n : SubSeq(rx, 1, n)[i] = rx[i]
        /\ rx' \in Seq(Bytes) /\ Len(rx') = Len(rx) - n
        /\ \A i \in 1 .. Len(rx) - n : rx'[i] = rx[n + i]
    BY <1>5, <2>1, <2>2, Taking
  <2>4. /\ msg' \in Seq(Bytes) /\ Len(msg') = Len(msg) + n
        /\ \A i \in 1 .. Len(msg) + n :
              msg'[i] = IF i <= Len(msg) THEN msg[i] ELSE SubSeq(rx, 1, n)[i - Len(msg)]
    BY <1>5, <2>1, <2>3, ConcatProperties
  <2>5. Received = (4 + Len(msg)) + Len(rx) /\ Received' = Received
    <3>1. Received = (4 + Len(msg)) + Len(rx) /\ Received' = (4 + Len(msg')) + Len(rx')
      BY <2>1 DEF Received
    <3> QED
      BY <1>5, <2>2, <2>3, <2>4, <3>1
  <2>6. TypeOK'
    BY <1>0, <1>1, <2>1, <2>3, <2>4 DEF TypeOK
  <2>7. IdleInv' /\ ResultsInv'
    BY <1>0, <1>1, <2>1 DEF IdleInv, ResultsInv, ResponsesIntact
  <2>8. ASSUME NEW i \in 1 .. Len(rx')
        PROVE  rx'[i] = FrameByte(Size, Len(lens), Received' - Len(rx') + i)
    <3>1. /\ n + i \in 1 .. Len(rx) /\ rx'[i] = rx[n + i]
          /\ Received' - Len(rx') + i = Received - Len(rx) + (n + i)
      BY <1>5, <2>2, <2>3, <2>5
    <3> QED
      BY <1>7, <3>1
  <2>9. ASSUME NEW i \in 1 .. Len(msg') PROVE msg'[i] = BodyByte(Len(lens), i)
    <3>1. CASE i <= Len(msg)
      BY <1>5, <1>8, <2>1, <2>4, <3>1
    <3>2. CASE ~ (i <= Len(msg))
      <4>1. i - Len(msg) \in 1 .. n /\ i - Len(msg) \in 1 .. Len(rx) /\ i \in Nat /\ i > 0
        BY <1>5, <2>2, <2>4, <3>2
      <4>2. msg'[i] = rx[i - Len(msg)]
        BY <1>5, <2>3, <2>4, <3>2, <4>1
      <4>3. Received - Len(rx) + (i - Len(msg)) = 4 + i
        BY <1>5, <2>5, <4>1
      <4>4. FrameByte(Size, Len(lens), 4 + i) = BodyByte(Len(lens), i)
        <5>1. ~ (4 + i <= 4) /\ (4 + i) - 4 = i
          BY <4>1
        <5> QED
          BY <5>1 DEF FrameByte
      <4> QED
        BY <1>7, <4>1, <4>2, <4>3, <4>4
    <3> QED
      BY <3>1, <3>2
  <2>10. CallInv'
    BY <1>1, <1>6, <1>8, <1>9, <2>1, <2>5, <2>8, <2>9 DEF CallInv, InStep
  <2> QED
    BY <1>4, <2>6, <2>7, <2>10 DEF FramingInv
<1>13. CASE Return
  <2>1. /\ cpc = "body" /\ Len(msg) >= msgLen /\ results' = Append(results, msg) /\ cpc' = "idle"
        /\ rx' = rx /\ msgLen' = msgLen /\ msg' = msg
    BY <1>13 DEF Return
  <2>2. Received = (4 + Len(msg)) + Len(rx) /\ Len(msg) >= Size
    BY <1>8, <2>1 DEF Received
  <2> DEFINE end == off[Len(wire) + 1]
  <2>3. Len(wire) \in Nat /\ wire \in Seq(Seq(Bytes))
    BY <1>0, LenProperties DEF TypeOK
  <2>4. /\ off \in [1 .. Len(wire) + 1 -> Nat] /\ off[1] = Received
        /\ \A i, j \in 1 .. Len(wire) + 1 : i < j => off[i] < off[j]
    BY <1>6 DEF Cuts
  <2>5. end \in Nat /\ end <= 4 + Size
    BY <1>6, <2>3, <2>4 DEF InStep
  <2>6. Len(wire) = 0
    <3> SUFFICES ASSUME Len(wire) # 0 PROVE FALSE
      OBVIOUS
    <3>1. 1 \in 1 .. Len(wire) + 1 /\ Len(wire) + 1 \in 1 .. Len(wire) + 1 /\ 1 < Len(wire) + 1
      BY <2>3
    <3>2. Received < end
      BY <2>4, <3>1
    <3> HIDE DEF end
    <3> QED
      BY <1>3, <1>5, <2>2, <2>5, <3>2
  <2>7. end = Received
    BY <2>4, <2>6
  <2> HIDE DEF end
  <2>8. Len(msg) = Size /\ Len(rx) = 0 /\ end = 4 + Size
    BY <1>3, <1>5, <2>2, <2>5, <2>7
  <2>9. rx = <<>> /\ wire = <<>>
    BY <1>5, <2>3, <2>6, <2>8, EmptySeq
  <2>10. spc # "length" /\ (spc = "chunks" => sentBytes = Size)
    <3>1. (spc = "length" => end = 0) /\ (spc = "chunks" => end = 4 + sentBytes) /\ sentBytes \in Nat
      BY <1>0, <1>3, <1>6 DEF InStep, end, TypeOK
    <3> QED
      BY <1>3, <2>8, <3>1
  <2>11. IdleInv' /\ CallInv'
    BY <1>1, <2>1, <2>9, <2>10 DEF IdleInv, CallInv
  <2>12. msg = Body(Len(lens), 1, Size)
    <3>1. /\ Body(Len(lens), 1, Size) \in Seq(Bytes)
          /\ Len(Body(Len(lens), 1, Size)) = Size - 1 + 1
          /\ \A i \in 1 .. Size - 1 + 1 : Body(Len(lens), 1, Size)[i] = BodyByte(Len(lens), 1 + i - 1)
      <4>1. 1 \in 1 .. MaxLen /\ Size \in 1 .. MaxLen
        BY <1>3
      <4> QED
        BY <1>3, <4>1, BodyIs
    <3>2. Size - 1 + 1 = Size /\ \A i \in 1 .. Size : 1 + i - 1 = i
      BY <1>3
    <3>3. \A i \in 1 .. Size : msg[i] = Body(Len(lens), 1, Size)[i]
      BY <1>8, <2>1, <2>8, <3>1, <3>2
    <3> QED
      BY <1>5, <2>8, <3>1, <3>2, <3>3, SeqEqual
  <2>13. /\ results' \in Seq(Seq(Bytes)) /\ Len(results) \in Nat /\ Len(results') = Len(results) + 1
         /\ \A i \in 1 .. Len(results) : results'[i] = results[i]
         /\ results'[Len(results) + 1] = msg
    BY <1>5, <2>1, AppendProperties, LenProperties
  <2>14. TypeOK'
    BY <1>0, <1>1, <2>1, <2>13 DEF TypeOK
  <2>15. Len(results) + 1 = Len(lens) /\ ResponsesIntact
    BY <1>0, <1>1 DEF ResultsInv
  <2>16. ResponsesIntact'
    <3> SUFFICES ASSUME NEW k \in 1 .. Len(results) + 1
                 PROVE  results'[k] = Body(k, 1, lens[k])
      BY <1>1, <2>13 DEF ResponsesIntact
    <3>1. CASE k = Len(results) + 1
      BY <2>12, <2>13, <2>15, <3>1 DEF Size
    <3>2. CASE k \in 1 .. Len(results)
      BY <2>13, <2>15, <3>2 DEF ResponsesIntact
    <3> QED
      BY <2>13, <3>1, <3>2
  <2>17. ResultsInv'
    BY <1>1, <2>1, <2>13, <2>15, <2>16 DEF ResultsInv
  <2> QED
    BY <1>4, <2>11, <2>14, <2>17 DEF FramingInv
<1> QED
  BY <1>10, <1>11, <1>12, <1>13 DEF Client

-----------------------------------------------------------------------------

\* The invariant of server, stream and client.
LEMMA FramingInvariance == Spec => []FramingInv
<1>1. Init => FramingInv
  <2> SUFFICES ASSUME Init PROVE FramingInv
    OBVIOUS
  <2>1. /\ lens = <<>> /\ wire = <<>> /\ rx = <<>> /\ msg = <<>> /\ results = <<>>
        /\ spc = "recv" /\ cpc = "idle" /\ sentBytes = 0 /\ msgLen = 0 /\ ended = FALSE
    BY DEF Init
  <2>2. Len(lens) = 0 /\ Len(results) = 0
    BY <2>1, EmptySeq
  <2>3. TypeOK
    <3>1. lens \in Seq(1 .. MaxLen) /\ rx \in Seq(Bytes) /\ msg \in Seq(Bytes)
      BY <2>1, EmptySeq
    <3>2. wire \in Seq(Seq(Bytes)) /\ results \in Seq(Seq(Bytes))
      BY <2>1, EmptySeq
    <3>3. sentBytes \in 0 .. MaxLen /\ msgLen \in 0 .. MaxLen
      BY <2>1, SizesAssumption
    <3>4. spc \in {"recv", "length", "chunks", "dead"} /\ cpc \in {"idle", "header", "body", "stopped"}
      BY <2>1
    <3>5. ended \in BOOLEAN
      BY <2>1
    <3> QED
      BY <3>1, <3>2, <3>3, <3>4, <3>5 DEF TypeOK
  <2>4. CountInv /\ IdleInv /\ CallInv
    BY <2>1, <2>2, SizesAssumption DEF CountInv, IdleInv, CallInv
  <2>5. ResultsInv
    BY <2>1, <2>2 DEF ResultsInv, ResponsesIntact
  <2> QED
    BY <2>3, <2>4, <2>5 DEF FramingInv
<1>2. FramingInv /\ [Next]_vars => FramingInv'
  <2>1. ASSUME FramingInv, Next PROVE FramingInv'
    BY <2>1, ServerStep, ArriveStep, CallStep, ClientStep DEF Next
  <2>2. ASSUME FramingInv, UNCHANGED vars PROVE FramingInv'
    <3>1. /\ lens' = lens /\ spc' = spc /\ sentBytes' = sentBytes /\ wire' = wire /\ rx' = rx
          /\ ended' = ended /\ cpc' = cpc /\ msgLen' = msgLen /\ msg' = msg /\ results' = results
      BY <2>2 DEF vars
    <3>2. Size' = Size /\ Received' = Received
      BY <3>1 DEF Size, Received
    <3>3. TypeOK'
      BY <2>2, <3>1 DEF FramingInv, TypeOK
    <3>4. CountInv' /\ IdleInv'
      BY <2>2, <3>1, <3>2 DEF FramingInv, CountInv, IdleInv
    <3>5. CallInv'
      BY <2>2, <3>1, <3>2 DEF FramingInv, CallInv, InStep
    <3>6. ResultsInv'
      BY <2>2, <3>1 DEF FramingInv, ResultsInv, ResponsesIntact
    <3> QED
      BY <3>3, <3>4, <3>5, <3>6 DEF FramingInv
  <2> QED
    BY <2>1, <2>2
<1> QED
  BY <1>1, <1>2, PTL DEF Spec

\* A call returns its own response, whole, whatever the sizes of the sends and receives
\* and wherever the stream is cut and joined.
THEOREM ResponsesAreWhole == Spec => []ResponsesIntact
<1>1. FramingInv => ResponsesIntact
  BY DEF FramingInv, ResultsInv
<1> QED
  BY <1>1, FramingInvariance, PTL

\* No call takes a byte of the next one's response, and each knows its length.
THEOREM FramesAlign == Spec => []FramesStayAligned
<1>1. FramingInv => FramesStayAligned
  <2> SUFFICES ASSUME FramingInv PROVE FramesStayAligned
    OBVIOUS
  <2>1. ASSUME cpc = "header", rx # <<>> PROVE rx[1] = Digit(EncodeLength(Size)[1])
    <3>1. Len(rx) \in Nat /\ Len(rx) > 0
      BY <2>1, LenProperties, EmptySeq DEF FramingInv, TypeOK
    <3>2. Received = Len(rx)
      BY <2>1, <3>1 DEF Received
    <3>3. 1 \in 1 .. Len(rx) /\ Received - Len(rx) + 1 = 1
      BY <3>1, <3>2
    <3>4. rx[1] = FrameByte(Size, Len(lens), 1)
      BY <2>1, <3>3 DEF FramingInv, CallInv
    <3> QED
      BY <3>4 DEF FrameByte
  <2>2. cpc = "body" => msgLen = Size
    BY DEF FramingInv, CallInv
  <2>3. cpc = "idle" => rx = <<>> /\ wire = <<>>
    BY DEF FramingInv, IdleInv
  <2> QED
    BY <2>1, <2>2, <2>3 DEF FramesStayAligned
<1> QED
  BY <1>1, FramingInvariance, PTL

\* The types, for any constants.
THEOREM TypeCorrect == Spec => []TypeOK
<1>1. FramingInv => TypeOK
  BY DEF FramingInv
<1> QED
  BY <1>1, FramingInvariance, PTL
=============================================================================
