--------------------------- MODULE ByteCodecProofs ---------------------------
(***************************************************************************)
(* Proof that binary data comes back whole or not at all (RoundTrip of     *)
(* ByteCodec) for every size of the chunks and of the data, and that what  *)
(* comes back is at least a beginning of it (Beginning).                   *)
(***************************************************************************)
EXTENDS ByteCodec, SequenceTheorems, TLAPS

Ops == Chunks \cup {"data", "next"}

Element == [op : Ops, n : Nat]

Phases == {"encode", "transit", "code", "ok", "false"}

TypeOK ==
    /\ \E n \in Nat : data = [i \in 1 .. n |-> i]
    /\ peer \in BOOLEAN /\ cut \in BOOLEAN
    /\ sent \in 0 .. Len(data)
    /\ wire \in Seq(Element)
    /\ phase \in Phases
    /\ pos \in 0 .. Len(wire)
    /\ output \in Seq(Nat)

\* How many bytes of data come before element i of the wire: bytes are
\* numbered, and a code follows the last byte of the chunk before it.
Before(i) == IF i = 1 THEN 0 ELSE wire[i - 1].n

IsCode(i) == wire[i].op \in Chunks

\* Where the chunk of the code at i ends.
End(i) == i + wire[i].n

\* The chunk of the code at i carries on with the data where the one before
\* it stopped; after it comes another code, unless it takes what is left.
ChunkOK(i) ==
    /\ Before(i) \in Nat /\ Before(i) + wire[i].n <= Len(data)
    /\ \A j \in 1 .. wire[i].n :
           i + j <= Len(wire) => wire[i + j] = Code("data", Before(i) + j)
    /\ IF wire[i].op = "A"
       THEN wire[i].n > 0 /\ (End(i) < Len(wire) => IsCode(End(i) + 1))
       ELSE Before(i) + wire[i].n = Len(data)

WireOK ==
    /\ wire # <<>> => IsCode(1)
    /\ \A i \in 1 .. Len(wire) : IsCode(i) => ChunkOK(i)

\* How far the chunk of the code at i reaches.
EndOK(i) ==
    /\ phase = "encode" => wire[i].op = "A" /\ End(i) <= Len(wire)
    /\ phase # "encode" /\ ~cut /\ wire[i].op = "A" => End(i) < Len(wire)
    /\ phase # "encode" /\ ~cut /\ wire[i].op # "A" =>
           Len(wire) = IF phase = "transit" THEN End(i) ELSE End(i) + 1
    /\ cut /\ wire[i].op # "A" => End(i) > Len(wire)

EndsOK == \A i \in 1 .. Len(wire) : IsCode(i) => EndOK(i)

\* Before the transport: the encoder has not come to the end of its loop.
SenderOK ==
    phase \in {"encode", "transit"} =>
        /\ ~cut /\ pos = 0 /\ output = <<>>
        /\ phase = "transit" => wire # <<>>
        /\ phase = "encode" => sent = Before(Len(wire) + 1)
        /\ phase = "encode" /\ ~peer =>
               sent = 0 \/ (Mid <= Len(data) /\ sent < Len(data))

\* Between two chunks the decoder has the data that came before.
DecoderOK ==
    phase = "code" =>
        /\ Before(pos + 1) \in Nat /\ Before(pos + 1) <= Len(data)
        /\ Len(output) = Before(pos + 1)
        /\ \A i \in 1 .. Len(output) : output[i] = i
        /\ pos < Len(wire) => IsCode(pos + 1)
        /\ ~cut => pos < Len(wire)

Inv == TypeOK /\ WireOK /\ EndsOK /\ SenderOK /\ DecoderOK /\ RoundTrip

-----------------------------------------------------------------------------
\* The data, as a sequence of numbered bytes.
LEMMA DataFacts ==
    ASSUME TypeOK
    PROVE  /\ data \in Seq(Nat) /\ Len(data) \in Nat
           /\ \A i \in 1 .. Len(data) : data[i] = i
BY DEF TypeOK

\* The elements for a piece of the data.
LEMMA BytesFacts ==
    ASSUME TypeOK, NEW m \in Nat, NEW n \in Nat, m + n <= Len(data)
    PROVE  LET b == Bytes(SubSeq(data, m + 1, m + n))
           IN  /\ b \in Seq(Element) /\ Len(b) = n
               /\ \A j \in 1 .. n : b[j] = Code("data", m + j)
<1> DEFINE s == SubSeq(data, m + 1, m + n)
<1>1. /\ s \in Seq(Nat) /\ Len(s) = n
      /\ \A j \in 1 .. n : s[j] = m + j
  <2>1. \A i \in m + 1 .. m + n : data[i] \in Nat /\ data[i] = i
    BY DataFacts
  <2>2. /\ s \in Seq(Nat)
        /\ Len(s) = IF m + 1 <= m + n THEN m + n - (m + 1) + 1 ELSE 0
        /\ \A j \in 1 .. m + n - (m + 1) + 1 : s[j] = data[m + 1 + j - 1]
    BY <2>1, SubSeqProperties
  <2> QED
    BY <2>1, <2>2
<1> HIDE DEF s
<1>2. Bytes(s) = [j \in 1 .. n |-> Code("data", s[j])]
  BY <1>1 DEF Bytes
<1>3. \A j \in 1 .. n : Code("data", s[j]) = Code("data", m + j)
                        /\ Code("data", s[j]) \in Element
  BY <1>1 DEF Code, Element, Ops
<1>4. Bytes(s) \in Seq(Element) /\ Len(Bytes(s)) = n
  BY <1>2, <1>3
<1> QED
  BY <1>2, <1>3, <1>4 DEF s

\* A concatenation, piece by piece.
LEMMA ConcatPieces ==
    ASSUME NEW S, NEW s \in Seq(S), NEW t \in Seq(S)
    PROVE  /\ s \o t \in Seq(S) /\ Len(s \o t) = Len(s) + Len(t)
           /\ \A i \in 1 .. Len(s) : (s \o t)[i] = s[i]
           /\ \A j \in 1 .. Len(t) : (s \o t)[Len(s) + j] = t[j]
<1>1. Len(s) \in Nat /\ Len(t) \in Nat
  BY LenProperties
<1>2. /\ s \o t \in Seq(S) /\ Len(s \o t) = Len(s) + Len(t)
      /\ \A i \in 1 .. Len(s) + Len(t) :
             (s \o t)[i] = IF i <= Len(s) THEN s[i] ELSE t[i - Len(s)]
  BY ConcatProperties
<1>3. ASSUME NEW i \in 1 .. Len(s) PROVE (s \o t)[i] = s[i]
  BY <1>1, <1>2
<1>4. ASSUME NEW j \in 1 .. Len(t) PROVE (s \o t)[Len(s) + j] = t[j]
  <2>1. /\ Len(s) + j \in 1 .. Len(s) + Len(t) /\ ~(Len(s) + j <= Len(s))
        /\ Len(s) + j - Len(s) = j
    BY <1>1
  <2> QED
    BY <1>2, <2>1
<1> QED
  BY <1>2, <1>3, <1>4

\* What WriteChunk does to the wire, element by element.
LEMMA WireAfterChunk ==
    ASSUME TypeOK, NEW op \in Chunks, NEW n \in Nat, sent + n <= Len(data),
           WriteChunk(op, n)
    PROVE  /\ wire' \in Seq(Element) /\ Len(wire') = Len(wire) + 1 + n
           /\ \A i \in 1 .. Len(wire) : wire'[i] = wire[i]
           /\ wire'[Len(wire) + 1] = Code(op, n)
           /\ \A j \in 1 .. n : wire'[Len(wire) + 1 + j] = Code("data", sent + j)
<1> DEFINE b == Bytes(SubSeq(data, sent + 1, sent + n))
           c == <<Code(op, n)>>
<1>1. sent \in Nat /\ wire \in Seq(Element) /\ Len(wire) \in Nat
  BY DataFacts, LenProperties DEF TypeOK
<1>2. b \in Seq(Element) /\ Len(b) = n /\ \A j \in 1 .. n : b[j] = Code("data", sent + j)
  BY <1>1, BytesFacts
<1>3. c \in Seq(Element) /\ Len(c) = 1 /\ c[1] = Code(op, n)
  BY DEF Code, Element, Ops
<1>4. wire' = (wire \o c) \o b
  BY DEF WriteChunk
<1> HIDE DEF b, c
<1>5. /\ wire \o c \in Seq(Element) /\ Len(wire \o c) = Len(wire) + 1
      /\ \A i \in 1 .. Len(wire) : (wire \o c)[i] = wire[i]
      /\ (wire \o c)[Len(wire) + 1] = Code(op, n)
  <2>0. wire \in Seq(Element) /\ c \in Seq(Element)
    BY <1>1, <1>3
  <2>1. wire \o c \in Seq(Element)
    BY <2>0, ConcatPieces
  <2>2. Len(wire \o c) = Len(wire) + Len(c)
    BY <2>0, ConcatPieces
  <2>3. \A i \in 1 .. Len(wire) : (wire \o c)[i] = wire[i]
    BY <2>0, ConcatPieces
  <2>4. \A j \in 1 .. Len(c) : (wire \o c)[Len(wire) + j] = c[j]
    BY <2>0, ConcatPieces
  <2> QED
    BY <1>3, <2>1, <2>2, <2>3, <2>4
<1> DEFINE w == wire \o c
<1> HIDE DEF w
<1>6. /\ wire' \in Seq(Element) /\ Len(wire') = Len(w) + Len(b)
      /\ \A i \in 1 .. Len(w) : wire'[i] = w[i]
      /\ \A j \in 1 .. Len(b) : wire'[Len(w) + j] = b[j]
  <2>1. w \in Seq(Element) /\ wire' = w \o b
    BY <1>4, <1>5 DEF w
  <2>2. w \o b \in Seq(Element)
    BY <1>2, <2>1, ConcatPieces
  <2>3. Len(w \o b) = Len(w) + Len(b)
    BY <1>2, <2>1, ConcatPieces
  <2>4. \A i \in 1 .. Len(w) : (w \o b)[i] = w[i]
    BY <1>2, <2>1, ConcatPieces
  <2>5. \A j \in 1 .. Len(b) : (w \o b)[Len(w) + j] = b[j]
    BY <1>2, <2>1, ConcatPieces
  <2> QED
    BY <2>1, <2>2, <2>3, <2>4, <2>5
<1>7. wire'[Len(wire) + 1] = Code(op, n) /\ Len(w) = Len(wire) + 1
  BY <1>1, <1>5, <1>6 DEF w
<1>8. ASSUME NEW i \in 1 .. Len(wire) PROVE wire'[i] = wire[i]
  <2>1. i \in 1 .. Len(w) /\ w[i] = wire[i]
    BY <1>1, <1>5, <1>7 DEF w
  <2> QED
    BY <1>6, <2>1
<1>9. ASSUME NEW j \in 1 .. n PROVE wire'[Len(wire) + 1 + j] = Code("data", sent + j)
  BY <1>1, <1>2, <1>6, <1>7
<1> QED
  BY <1>1, <1>2, <1>6, <1>7, <1>8, <1>9

\* Elements of the wire are typed.
LEMMA WireFacts ==
    ASSUME TypeOK
    PROVE  /\ Len(wire) \in Nat /\ pos \in Nat /\ pos <= Len(wire)
           /\ \A i \in 1 .. Len(wire) : wire[i].n \in Nat /\ wire[i].op \in Ops
           /\ \A i \in 1 .. Len(wire) + 1 : Before(i) \in Nat
<1>1. Len(wire) \in Nat /\ pos \in Nat /\ pos <= Len(wire)
  BY LenProperties DEF TypeOK
<1>2. \A i \in 1 .. Len(wire) : wire[i] \in Element
  BY ElementOfSeq DEF TypeOK
<1>3. \A i \in 1 .. Len(wire) : wire[i].n \in Nat /\ wire[i].op \in Ops
  BY <1>2 DEF Element
<1>4. ASSUME NEW i \in 1 .. Len(wire) + 1 PROVE Before(i) \in Nat
  <2>1. CASE i = 1
    BY <2>1 DEF Before
  <2>2. CASE i # 1
    <3>1. i - 1 \in 1 .. Len(wire)
      BY <1>1, <2>2
    <3> QED
      BY <1>3, <2>2, <3>1 DEF Before
  <2> QED
    BY <2>1, <2>2
<1> QED
  BY <1>1, <1>3, <1>4

\* Writing a chunk that may come next keeps the wire in order.
LEMMA ChunkAppended ==
    ASSUME Inv, NEW op \in Chunks, NEW n \in Nat, sent + n <= Len(data),
           op = "A" => n > 0, op # "A" => sent + n = Len(data),
           phase = "encode", phase' = IF op = "A" THEN "encode" ELSE "transit",
           WriteChunk(op, n)
    PROVE  /\ TypeOK' /\ WireOK' /\ EndsOK' /\ DecoderOK' /\ RoundTrip'
           /\ ~cut' /\ pos' = 0 /\ output' = <<>> /\ wire' # <<>>
           /\ phase' = "encode" => sent' = Before(Len(wire) + 1)'
<1> USE DEF Inv
<1>l. PICK L \in Nat : L = Len(wire)
  BY WireFacts
<1>1. /\ sent \in Nat /\ Len(data) \in Nat
      /\ \A i \in 1 .. L : wire[i].n \in Nat
      /\ \A i \in 1 .. L + 1 : Before(i) \in Nat
  <2>1. sent \in Nat /\ Len(data) \in Nat
    BY DataFacts DEF TypeOK
  <2> QED
    BY <1>l, <2>1, WireFacts
<1>2. /\ wire' \in Seq(Element) /\ Len(wire') = L + 1 + n
      /\ \A i \in 1 .. L : wire'[i] = wire[i]
      /\ wire'[L + 1] = Code(op, n)
      /\ \A j \in 1 .. n : wire'[L + 1 + j] = Code("data", sent + j)
  BY <1>l, WireAfterChunk
<1>3. /\ data' = data /\ peer' = peer /\ sent' = sent + n
      /\ UNCHANGED <<cut, pos, output>>
  BY DEF WriteChunk
<1>4. ~cut /\ pos = 0 /\ output = <<>> /\ sent = Before(L + 1)
  BY <1>l DEF SenderOK
<1>5. TypeOK'
  <2>1. sent' \in 0 .. Len(data') /\ pos' \in 0 .. Len(wire')
    BY <1>1, <1>2, <1>3, <1>4
  <2>2. phase' \in Phases
    BY DEF Phases
  <2> QED
    BY <1>2, <1>3, <2>1, <2>2 DEF TypeOK
<1>6. wire' # <<>> /\ (phase' = "encode" => sent' = Before(Len(wire) + 1)')
  <2>1. wire' # <<>>
    BY <1>1, <1>2, EmptySeq
  <2>2. ASSUME op = "A" PROVE sent' = Before(Len(wire) + 1)'
    <3>1. wire'[L + 1 + n] = Code("data", sent + n) /\ L + 1 + n # 0
      BY <1>1, <1>2, <2>2
    <3>2. Before(Len(wire) + 1)' = wire'[L + 1 + n].n
      BY <1>1, <1>2, <3>1 DEF Before
    <3> QED
      BY <1>3, <3>1, <3>2 DEF Code
  <2> QED
    BY <2>1, <2>2
<1>7. /\ \A i \in 1 .. L : IsCode(i)' <=> IsCode(i)
      /\ \A i \in 1 .. L + 1 : Before(i)' = Before(i)
      /\ IsCode(L + 1)'
  <2>1. ASSUME NEW i \in 1 .. L PROVE IsCode(i)' <=> IsCode(i)
    BY <1>2 DEF IsCode, Chunks
  <2>2. ASSUME NEW i \in 1 .. L + 1 PROVE Before(i)' = Before(i)
    <3>1. i = 1 \/ i - 1 \in 1 .. L
      BY <1>1
    <3> QED
      BY <1>2, <3>1 DEF Before
  <2>3. IsCode(L + 1)'
    BY <1>2 DEF IsCode, Code, Chunks
  <2> QED
    BY <2>1, <2>2, <2>3
<1>8. ASSUME NEW i \in 1 .. Len(wire'), IsCode(i)'
      PROVE  (i \in 1 .. L /\ IsCode(i)) \/ i = L + 1
  <2>1. CASE i > L + 1
    <3>1. i - (L + 1) \in 1 .. n /\ L + 1 + (i - (L + 1)) = i
      BY <1>1, <1>2, <2>1
    <3>2. wire'[i] = Code("data", sent + (i - (L + 1)))
      BY <1>2, <3>1
    <3>3. wire'[i].op = "data"
      BY <3>2 DEF Code
    <3> QED
      BY <1>8, <3>3 DEF IsCode, Chunks
  <2> QED
    BY <1>1, <1>2, <1>7, <1>8, <2>1
<1>9. WireOK'
  <2>1. IsCode(1)'
    <3>1. CASE L = 0
      BY <1>7, <3>1
    <3>2. CASE L # 0
      <4>1. wire # <<>> /\ 1 \in 1 .. L
        BY <1>l, <3>2, EmptySeq DEF TypeOK
      <4> QED
        BY <1>7, <4>1 DEF WireOK
    <3> QED
      BY <3>1, <3>2
  <2>2. ASSUME NEW i \in 1 .. Len(wire'), IsCode(i)' PROVE ChunkOK(i)'
    <3>1. CASE i = L + 1
      <4>1. /\ wire'[i].n = n /\ wire'[i].op = op /\ Before(i)' = sent
            /\ End(i)' = Len(wire')
        BY <1>1, <1>2, <1>4, <1>7, <3>1 DEF Code, End
      <4>2. \A j \in 1 .. n : wire'[i + j] = Code("data", sent + j)
        BY <1>2, <3>1
      <4>3. Before(i)' \in Nat /\ Before(i)' + wire'[i].n <= Len(data')
        BY <1>1, <1>3, <4>1
      <4>4. \A j \in 1 .. wire'[i].n :
                i + j <= Len(wire') => wire'[i + j] = Code("data", Before(i)' + j)
        BY <4>1, <4>2
      <4>5. IF wire'[i].op = "A"
            THEN wire'[i].n > 0 /\ (End(i)' < Len(wire') => IsCode(End(i) + 1)')
            ELSE Before(i)' + wire'[i].n = Len(data')
        BY <1>1, <1>2, <1>3, <4>1
      <4> QED
        BY <4>3, <4>4, <4>5 DEF ChunkOK
    <3>2. CASE i \in 1 .. L /\ IsCode(i)
      <4>1. ChunkOK(i) /\ EndOK(i)
        BY <1>l, <3>2 DEF WireOK, EndsOK
      <4>2. wire'[i] = wire[i] /\ End(i)' = End(i) /\ Before(i)' = Before(i)
        BY <1>1, <1>2, <1>7, <3>2 DEF End
      <4>3. wire[i].op = "A" /\ End(i) <= L /\ wire[i].n \in Nat /\ End(i) = i + wire[i].n
        BY <1>l, <1>1, <3>2, <4>1 DEF EndOK, End
      <4>4. ASSUME NEW j \in 1 .. wire[i].n PROVE wire'[i + j] = Code("data", Before(i) + j)
        <5>1. i + j \in 1 .. L
          <6>1. PICK m \in Nat : m = wire[i].n /\ i + m <= L /\ j \in 1 .. m
            BY <4>3
          <6> QED
            BY <3>2, <6>1
        <5> QED
          BY <1>l, <1>2, <4>1, <5>1 DEF ChunkOK
      <4>5. IsCode(End(i) + 1)'
        <5>1. CASE End(i) = L
          BY <1>7, <4>2, <5>1
        <5>2. CASE End(i) < L
          <6>1. End(i) + 1 \in 1 .. L /\ IsCode(End(i) + 1)
            BY <1>l, <1>1, <3>2, <4>1, <4>3, <5>2 DEF ChunkOK
          <6> QED
            BY <1>7, <4>2, <6>1
        <5> QED
          BY <1>l, <1>1, <3>2, <4>3, <5>1, <5>2
      <4> QED
        BY <1>3, <4>1, <4>2, <4>3, <4>4, <4>5 DEF ChunkOK
    <3> QED
      BY <1>8, <2>2, <3>1, <3>2
  <2> QED
    BY <2>1, <2>2 DEF WireOK
<1>10. EndsOK'
  <2>1. ASSUME NEW i \in 1 .. Len(wire'), IsCode(i)' PROVE EndOK(i)'
    <3>1. CASE i = L + 1
      <4>1. wire'[i].op = op /\ End(i)' = Len(wire')
        BY <1>1, <1>2, <3>1 DEF Code, End
      <4> QED
        BY <1>1, <1>2, <1>3, <1>4, <4>1 DEF EndOK
    <3>2. CASE i \in 1 .. L /\ IsCode(i)
      <4>1. wire[i].op = "A" /\ End(i) <= L /\ End(i) \in Nat
        BY <1>l, <1>1, <3>2 DEF EndsOK, EndOK, End
      <4>2. wire'[i] = wire[i] /\ End(i)' = End(i)
        BY <1>2, <3>2 DEF End
      <4> QED
        BY <1>1, <1>2, <1>3, <1>4, <4>1, <4>2 DEF EndOK
    <3> QED
      BY <1>8, <2>1, <3>1, <3>2
  <2> QED
    BY <2>1 DEF EndsOK
<1>11. DecoderOK' /\ RoundTrip'
  BY DEF DecoderOK, RoundTrip
<1> QED
  BY <1>3, <1>4, <1>5, <1>6, <1>9, <1>10, <1>11

-----------------------------------------------------------------------------
\* Nothing is written yet.
LEMMA InitInv == Init => Inv
<1> SUFFICES ASSUME Init PROVE Inv
  OBVIOUS
<1>1. PICK n \in 0 .. MaxSize : data = [i \in 1 .. n |-> i]
  BY DEF Init
<1>2. n \in Nat /\ Len(data) = n
  BY <1>1, ByteAssumption
<1>3. wire = <<>> /\ wire \in Seq(Element) /\ Len(wire) = 0
  BY EmptySeq DEF Init
<1>4. TypeOK
  <2>1. sent \in 0 .. Len(data) /\ pos \in 0 .. Len(wire) /\ output \in Seq(Nat)
    BY <1>2, <1>3, EmptySeq DEF Init
  <2>2. \E m \in Nat : data = [i \in 1 .. m |-> i]
    BY <1>1, <1>2
  <2> QED
    BY <1>3, <2>1, <2>2 DEF Init, TypeOK, Phases
<1>5. WireOK /\ EndsOK /\ DecoderOK /\ RoundTrip
  BY <1>3 DEF Init, WireOK, EndsOK, DecoderOK, RoundTrip
<1>6. SenderOK
  <2>1. Before(Len(wire) + 1) = 0
    BY <1>3 DEF Before
  <2> QED
    BY <2>1 DEF Init, SenderOK
<1> QED
  BY <1>4, <1>5, <1>6 DEF Inv

\* Encoder::encode for data below Mid: one final chunk with all of it.
LEMMA EncodeWholeInv == ASSUME Inv, EncodeWhole PROVE Inv'
<1> DEFINE op == IF Len(data) < Short THEN "short" ELSE "mid"
<1>1. /\ phase = "encode" /\ ~peer /\ Len(data) < Mid
      /\ WriteChunk(op, Len(data)) /\ phase' = "transit"
  BY DEF EncodeWhole
<1>2. op \in Chunks /\ op # "A"
  BY DEF Chunks
<1> HIDE DEF op
<1>3. Len(data) \in Nat /\ Mid \in Nat
  BY DataFacts, ByteAssumption DEF Inv
<1>4. sent = 0
  BY <1>1, <1>3 DEF Inv, SenderOK
<1>5. sent + Len(data) <= Len(data) /\ sent + Len(data) = Len(data)
  BY <1>3, <1>4
<1>6. /\ TypeOK' /\ WireOK' /\ EndsOK' /\ DecoderOK' /\ RoundTrip'
      /\ ~cut' /\ pos' = 0 /\ output' = <<>> /\ wire' # <<>>
  BY <1>1, <1>2, <1>3, <1>5, ChunkAppended
<1>7. SenderOK'
  BY <1>1, <1>6 DEF SenderOK
<1> QED
  BY <1>6, <1>7 DEF Inv

\* An iteration of the loop of Encoder::encode leaves a byte for the last chunk.
LEMMA EncodeChunkInv == ASSUME Inv, EncodeChunk PROVE Inv'
<1>1. /\ phase = "encode" /\ ~peer /\ Len(data) >= Mid /\ Left > CHUNK_SIZE
      /\ WriteChunk("A", CHUNK_SIZE) /\ phase' = "encode"
  BY DEF EncodeChunk
<1>2. /\ Len(data) \in Nat /\ sent \in Nat /\ Mid \in Nat
      /\ CHUNK_SIZE \in Nat /\ CHUNK_SIZE > 0
  BY DataFacts, ByteAssumption DEF Inv, TypeOK
<1>3. sent + CHUNK_SIZE < Len(data) /\ "A" \in Chunks
  BY <1>1, <1>2 DEF Left, Chunks
<1>4. /\ TypeOK' /\ WireOK' /\ EndsOK' /\ DecoderOK' /\ RoundTrip'
      /\ ~cut' /\ pos' = 0 /\ output' = <<>> /\ wire' # <<>>
      /\ sent' = Before(Len(wire) + 1)'
  BY <1>1, <1>2, <1>3, ChunkAppended
<1>5. sent' < Len(data') /\ Mid <= Len(data')
  BY <1>1, <1>2, <1>3 DEF WriteChunk
<1>6. SenderOK'
  BY <1>1, <1>4, <1>5 DEF SenderOK
<1> QED
  BY <1>4, <1>6 DEF Inv

\* The last chunk of Encoder::encode is never empty and never missing.
LEMMA EncodeLastInv == ASSUME Inv, EncodeLast PROVE Inv'
<1>1. phase = "encode" /\ ~peer /\ Len(data) >= Mid /\ phase' = "transit"
  BY DEF EncodeLast
<1>2. /\ Len(data) \in Nat /\ sent \in Nat /\ sent <= Len(data)
      /\ Mid \in Nat /\ Mid > 0
  BY DataFacts, ByteAssumption DEF Inv, TypeOK
<1>3. sent < Len(data)
  BY <1>1, <1>2 DEF Inv, SenderOK
<1>4. Left \in Nat /\ Left > 0 /\ sent + Left = Len(data)
  BY <1>2, <1>3 DEF Left
<1>5. WriteChunk("B", Left) /\ "B" \in Chunks
  BY <1>4 DEF EncodeLast, Chunks
<1>6. /\ TypeOK' /\ WireOK' /\ EndsOK' /\ DecoderOK' /\ RoundTrip'
      /\ ~cut' /\ pos' = 0 /\ output' = <<>> /\ wire' # <<>>
  BY <1>1, <1>2, <1>4, <1>5, ChunkAppended
<1>7. SenderOK'
  BY <1>1, <1>6 DEF SenderOK
<1> QED
  BY <1>6, <1>7 DEF Inv

\* A chunk of a peer that more follows.
LEMMA PeerChunkInv == ASSUME Inv, PeerChunk PROVE Inv'
<1>1. /\ phase = "encode" /\ peer /\ phase' = "encode"
  BY DEF PeerChunk
<1>2. PICK n \in 1 .. Left : WriteChunk("A", n)
  BY DEF PeerChunk
<1>3. Len(data) \in Nat /\ sent \in Nat
  BY DataFacts DEF Inv, TypeOK
<1>4. n \in Nat /\ n > 0 /\ sent + n <= Len(data) /\ "A" \in Chunks
  BY <1>3 DEF Left, Chunks
<1>5. /\ TypeOK' /\ WireOK' /\ EndsOK' /\ DecoderOK' /\ RoundTrip'
      /\ ~cut' /\ pos' = 0 /\ output' = <<>> /\ wire' # <<>>
      /\ sent' = Before(Len(wire) + 1)'
  BY <1>1, <1>2, <1>4, ChunkAppended
<1>6. peer'
  BY <1>1, <1>2 DEF WriteChunk
<1>7. SenderOK'
  BY <1>1, <1>5, <1>6 DEF SenderOK
<1> QED
  BY <1>5, <1>7 DEF Inv

\* The final chunk of a peer, in whichever form.
LEMMA PeerLastInv == ASSUME Inv, PeerLast PROVE Inv'
<1>1. phase = "encode" /\ phase' = "transit"
  BY DEF PeerLast
<1>2. PICK op \in {"short", "mid", "B"} : WriteChunk(op, Left)
  BY DEF PeerLast
<1>3. Len(data) \in Nat /\ sent \in Nat /\ sent <= Len(data)
  BY DataFacts DEF Inv, TypeOK
<1>4. Left \in Nat /\ sent + Left = Len(data) /\ op \in Chunks /\ op # "A"
  BY <1>3 DEF Left, Chunks
<1>5. /\ TypeOK' /\ WireOK' /\ EndsOK' /\ DecoderOK' /\ RoundTrip'
      /\ ~cut' /\ pos' = 0 /\ output' = <<>> /\ wire' # <<>>
  BY <1>1, <1>2, <1>3, <1>4, ChunkAppended
<1>6. SenderOK'
  BY <1>1, <1>5 DEF SenderOK
<1> QED
  BY <1>5, <1>6 DEF Inv

\* What arrives is the first k elements of the wire, and either another
\* value follows or something is missing.
LEMMA Delivered ==
    ASSUME Inv, phase = "transit", phase' = "code",
           UNCHANGED <<data, peer, sent, pos, output>>,
           NEW k \in 0 .. Len(wire), wire' \in Seq(Element),
           \A i \in 1 .. k : wire'[i] = wire[i],
           \/ cut' /\ cut' \in BOOLEAN /\ k < Len(wire) /\ Len(wire') = k
           \/ ~cut' /\ cut' \in BOOLEAN /\ k = Len(wire) /\ Len(wire') = k + 1
              /\ wire'[k + 1] = Next8
    PROVE  Inv'
<1> USE DEF Inv
<1>l. PICK L \in Nat : L = Len(wire)
  BY WireFacts
<1>1. /\ k \in Nat /\ k <= L /\ Len(data) \in Nat /\ wire # <<>>
      /\ ~cut /\ pos = 0 /\ output = <<>>
      /\ \A i \in 1 .. L : wire[i].n \in Nat
  BY <1>l, WireFacts, DataFacts DEF SenderOK
<1>2. L > 0
  BY <1>l, <1>1, EmptySeq DEF TypeOK
<1>3. Len(wire') = k \/ (Len(wire') = k + 1 /\ ~IsCode(k + 1)')
  <2>1. ASSUME wire'[k + 1] = Next8, NEW m \in Nat, m = k + 1
        PROVE ~(wire'[m].op \in Chunks)
    BY <2>1 DEF Next8, Code, Chunks
  <2> QED
    BY <1>1, <2>1 DEF IsCode
<1>4. TypeOK'
  <2>1. \E n \in Nat : data' = [i \in 1 .. n |-> i]
    BY DEF TypeOK
  <2>2. peer' \in BOOLEAN /\ cut' \in BOOLEAN /\ phase' \in Phases
    BY DEF TypeOK, Phases
  <2>3. sent' \in 0 .. Len(data')
    BY DEF TypeOK
  <2>4. pos' \in 0 .. Len(wire')
    BY <1>1
  <2>5. output' \in Seq(Nat)
    BY DEF TypeOK
  <2> QED
    BY <2>1, <2>2, <2>3, <2>4, <2>5 DEF TypeOK
<1>5. ASSUME NEW i \in 1 .. Len(wire'), IsCode(i)'
      PROVE  /\ i \in 1 .. k /\ wire'[i] = wire[i] /\ IsCode(i)
             /\ Before(i)' = Before(i) /\ End(i)' = End(i)
             /\ ChunkOK(i) /\ EndOK(i)
  <2>1. i \in 1 .. k
    <3>1. Len(wire') = k \/ Len(wire') = k + 1
      OBVIOUS
    <3>2. CASE i = k + 1
      <4>1. wire'[i] = Next8
        BY <1>1, <3>1, <3>2
      <4> QED
        BY <1>5, <4>1 DEF IsCode, Next8, Code, Chunks
    <3> QED
      BY <1>1, <3>1, <3>2
  <2>2. wire'[i] = wire[i] /\ i \in 1 .. L
    BY <1>1, <2>1
  <2>3. IsCode(i)
    BY <1>5, <2>2 DEF IsCode, Chunks
  <2>4. Before(i)' = Before(i)
    <3>1. i = 1 \/ i - 1 \in 1 .. k
      BY <1>1, <2>1
    <3> QED
      BY <3>1 DEF Before
  <2>5. End(i)' = End(i)
    BY <2>2 DEF End
  <2>6. ChunkOK(i) /\ EndOK(i)
    BY <1>l, <2>2, <2>3 DEF WireOK, EndsOK
  <2> QED
    BY <2>1, <2>2, <2>3, <2>4, <2>5, <2>6
<1>6. \A i \in 1 .. L : IsCode(i) => i + wire[i].n = End(i) /\ End(i) \in Nat /\ End(i) <= L
  <2>1. ASSUME NEW i \in 1 .. L, IsCode(i)
        PROVE  i + wire[i].n = End(i) /\ End(i) \in Nat /\ End(i) <= L
    <3>1. EndOK(i)
      BY <1>l, <2>1 DEF EndsOK
    <3>2. i + wire[i].n = End(i) /\ End(i) \in Nat
      BY <1>1 DEF End
    <3> QED
      BY <1>l, <1>1, <3>1, <3>2 DEF EndOK
  <2> QED
    BY <2>1
<1>7. ASSUME NEW i \in 1 .. Len(wire'), IsCode(i)' PROVE ChunkOK(i)'
  <2>1. /\ i \in 1 .. k /\ wire'[i] = wire[i] /\ Before(i)' = Before(i)
        /\ End(i)' = End(i) /\ ChunkOK(i) /\ i \in 1 .. L /\ wire[i].n \in Nat
        /\ i + wire[i].n = End(i) /\ End(i) \in Nat /\ End(i) <= L
    BY <1>1, <1>5, <1>6, <1>7
  <2>2. ASSUME NEW j \in 1 .. wire[i].n, i + j <= Len(wire')
        PROVE  wire'[i + j] = Code("data", Before(i) + j)
    <3>1. i + j \in 1 .. k /\ i + j <= Len(wire)
      BY <1>l, <1>1, <2>1, <2>2
    <3>2. wire[i + j] = Code("data", Before(i) + j)
      BY <2>1, <3>1 DEF ChunkOK
    <3>3. wire'[i + j] = wire[i + j]
      BY <3>1
    <3> QED
      BY <3>2, <3>3
  <2>3. ASSUME wire[i].op = "A", End(i) < Len(wire') PROVE IsCode(End(i) + 1)'
    <3>1. EndOK(i)
      BY <1>5, <1>7
    <3>2. End(i) < L
      BY <1>l, <1>1, <2>3, <3>1 DEF EndOK
    <3>3. PICK m \in Nat : m = End(i) + 1
      BY <2>1
    <3>4. m \in 1 .. k /\ IsCode(m)
      BY <1>l, <1>1, <2>1, <2>3, <3>2, <3>3 DEF ChunkOK
    <3>5. wire'[m].op \in Chunks
      BY <3>4 DEF IsCode
    <3> QED
      BY <2>1, <3>3, <3>5 DEF IsCode, Chunks
  <2> QED
    BY <2>1, <2>2, <2>3 DEF ChunkOK
<1>8. WireOK'
  <2>1. ASSUME wire' # <<>> PROVE IsCode(1)'
    <3>1. 1 \in 1 .. k
      BY <1>l, <1>1, <1>2, <2>1, EmptySeq
    <3> QED
      BY <1>1, <3>1 DEF WireOK, IsCode, Chunks
  <2> QED
    BY <1>7, <2>1 DEF WireOK
<1>9. EndsOK'
  <2>1. ASSUME NEW i \in 1 .. Len(wire'), IsCode(i)' PROVE EndOK(i)'
    <3>1. /\ i \in 1 .. k /\ wire'[i] = wire[i] /\ End(i)' = End(i) /\ EndOK(i)
          /\ i \in 1 .. L /\ End(i) \in Nat /\ End(i) <= L
      BY <1>1, <1>5, <1>6, <2>1
    <3> QED
      BY <1>l, <1>1, <3>1 DEF EndOK
  <2> QED
    BY <2>1 DEF EndsOK
<1>10. DecoderOK'
  <2>1. Before(pos + 1)' = 0 /\ Len(output') = 0 /\ pos' = 0
    BY <1>1, EmptySeq DEF Before
  <2>2. pos' < Len(wire') => IsCode(pos + 1)'
    <3>1. ASSUME pos' < Len(wire') PROVE wire' # <<>>
      BY <2>1, <3>1, EmptySeq
    <3>2. wire' # <<>> => IsCode(1)'
      BY <1>8 DEF WireOK
    <3> QED
      BY <2>1, <3>1, <3>2 DEF IsCode, Chunks
  <2>3. ~cut' => pos' < Len(wire')
    BY <1>1, <2>1
  <2> QED
    BY <1>1, <2>1, <2>2, <2>3 DEF DecoderOK
<1>11. SenderOK' /\ RoundTrip'
  BY DEF SenderOK, RoundTrip
<1> QED
  BY <1>4, <1>8, <1>9, <1>10, <1>11

\* Both outcomes of the transport are instances of Delivered.
LEMMA DeliverInv == ASSUME Inv, Deliver PROVE Inv'
<1>1. /\ phase = "transit" /\ phase' = "code"
      /\ UNCHANGED <<data, peer, sent, pos, output>>
  BY DEF Deliver
<1>2. Len(wire) \in Nat /\ wire \in Seq(Element) /\ ~cut /\ cut \in BOOLEAN
  BY <1>1, WireFacts DEF Inv, SenderOK, TypeOK
<1>3. CASE wire' = Append(wire, Next8) /\ UNCHANGED cut
  <2>1. Next8 \in Element
    BY DEF Next8, Code, Element, Ops
  <2>2. /\ wire' \in Seq(Element) /\ Len(wire') = Len(wire) + 1
        /\ \A i \in 1 .. Len(wire) : wire'[i] = wire[i]
        /\ wire'[Len(wire) + 1] = Next8
    BY <1>2, <1>3, <2>1, AppendProperties
  <2>3. Len(wire) \in 0 .. Len(wire)
    BY <1>2
  <2> QED
    BY <1>1, <1>2, <1>3, <2>2, <2>3, Delivered
<1>4. CASE \E k \in 0 .. Len(wire) - 1 : wire' = SubSeq(wire, 1, k) /\ cut' = TRUE
  <2>1. PICK k \in 0 .. Len(wire) - 1 : wire' = SubSeq(wire, 1, k) /\ cut' = TRUE
    BY <1>4
  <2>2. \A i \in 1 .. k : wire[i] \in Element
    BY <1>2, ElementOfSeq
  <2>3. /\ wire' \in Seq(Element) /\ Len(wire') = IF 1 <= k THEN k - 1 + 1 ELSE 0
        /\ \A i \in 1 .. k - 1 + 1 : wire'[i] = wire[1 + i - 1]
    BY <1>2, <2>1, <2>2, SubSeqProperties
  <2>4. /\ Len(wire') = k /\ \A i \in 1 .. k : wire'[i] = wire[i]
        /\ k \in 0 .. Len(wire) /\ k < Len(wire)
    BY <1>2, <2>3
  <2> QED
    BY <1>1, <2>1, <2>3, <2>4, Delivered
<1> QED
  BY <1>3, <1>4 DEF Deliver

-----------------------------------------------------------------------------
\* The decoder reads the wire and leaves it alone.
LEMMA WireKept ==
    ASSUME Inv, phase = "code", UNCHANGED <<data, peer, sent, wire, cut>>,
           phase' \in {"code", "ok", "false"}, pos' \in 0 .. Len(wire),
           output' \in Seq(Nat)
    PROVE  TypeOK' /\ WireOK' /\ EndsOK' /\ SenderOK'
<1> USE DEF Inv
<1>1. TypeOK'
  <2>1. phase' \in Phases
    BY DEF Phases
  <2> QED
    BY <2>1 DEF TypeOK
<1>2. WireOK'
  BY DEF WireOK, ChunkOK, IsCode, Before, End
<1>3. EndsOK'
  <2>1. ASSUME NEW i \in 1 .. Len(wire), IsCode(i) PROVE EndOK(i)'
    <3>1. EndOK(i)
      BY <2>1 DEF EndsOK
    <3> QED
      BY <3>1 DEF EndOK, End
  <2> QED
    BY <2>1 DEF EndsOK, IsCode
<1>4. SenderOK'
  BY DEF SenderOK
<1> QED
  BY <1>1, <1>2, <1>3, <1>4

\* The decoder stands at a code whenever it stands at anything, so only a cut
\* wire leaves it without one.
LEMMA DecodeNoChunkInv == ASSUME Inv, DecodeNoChunk PROVE Inv'
<1>1. /\ phase = "code" /\ phase' = "false"
      /\ Available > 0 => wire[pos + 1].op \notin Chunks
      /\ UNCHANGED <<data, peer, sent, wire, cut, pos, output>>
  BY DEF DecodeNoChunk
<1>2. Len(wire) \in Nat /\ pos \in Nat /\ pos \in 0 .. Len(wire) /\ output \in Seq(Nat)
  BY WireFacts DEF Inv, TypeOK
<1>3. cut
  <2>1. ASSUME pos < Len(wire) PROVE FALSE
    <3>1. Available > 0
      BY <1>2, <2>1 DEF Available
    <3> QED
      BY <1>1, <2>1, <3>1 DEF Inv, DecoderOK, IsCode
  <2> QED
    BY <1>1, <2>1 DEF Inv, DecoderOK
<1>4. TypeOK' /\ WireOK' /\ EndsOK' /\ SenderOK'
  BY <1>1, <1>2, WireKept
<1>5. DecoderOK' /\ RoundTrip'
  BY <1>1, <1>3 DEF DecoderOK, RoundTrip
<1> QED
  BY <1>4, <1>5 DEF Inv

\* The code the decoder is about to read, and its chunk.
LEMMA CodeAhead ==
    ASSUME Inv, phase = "code", Available > 0
    PROVE  /\ pos + 1 \in 1 .. Len(wire) /\ IsCode(pos + 1)
           /\ ChunkOK(pos + 1) /\ EndOK(pos + 1)
           /\ Len(output) = Before(pos + 1) /\ Len(output) \in Nat
           /\ \A i \in 1 .. Len(output) : output[i] = i
           /\ wire[pos + 1].n \in Nat
<1>1. Len(wire) \in Nat /\ pos \in Nat /\ pos < Len(wire)
  BY WireFacts DEF Inv, Available
<1>2. pos + 1 \in 1 .. Len(wire)
  BY <1>1
<1>3. IsCode(pos + 1)
  BY <1>1 DEF Inv, DecoderOK
<1>4. ChunkOK(pos + 1) /\ EndOK(pos + 1)
  BY <1>2, <1>3 DEF Inv, WireOK, EndsOK
<1>5. wire[pos + 1].n \in Nat
  BY <1>2, WireFacts DEF Inv
<1>6. /\ Len(output) = Before(pos + 1) /\ Before(pos + 1) \in Nat
      /\ \A i \in 1 .. Len(output) : output[i] = i
  BY DEF Inv, DecoderOK
<1> QED
  BY <1>2, <1>3, <1>4, <1>5, <1>6

\* As many bytes as there are, each with its number, are the data.
LEMMA AllBytes ==
    ASSUME TypeOK, NEW s \in Seq(Nat), Len(s) = Len(data),
           \A i \in 1 .. Len(s) : s[i] = i
    PROVE  s = data
<1>1. data \in Seq(Nat) /\ \A i \in 1 .. Len(data) : data[i] = i
  BY DataFacts
<1>2. \A i \in 1 .. Len(s) : s[i] = data[i]
  BY <1>1
<1> QED
  BY <1>1, <1>2, SeqEqual

\* Appending a chunk of data that carries on where the output stops.
LEMMA OutputGrows ==
    ASSUME TypeOK, NEW m \in Nat,
           \A i \in 1 .. Len(output) : output[i] = i,
           \A i \in 1 .. m : wire[pos + 1 + i] = Code("data", Len(output) + i),
           output' = output \o [i \in 1 .. m |-> wire[pos + 1 + i].n]
    PROVE  /\ output' \in Seq(Nat) /\ Len(output') = Len(output) + m
           /\ \A i \in 1 .. Len(output') : output'[i] = i
<1> DEFINE b == [i \in 1 .. m |-> wire[pos + 1 + i].n]
<1>1. output \in Seq(Nat) /\ Len(output) \in Nat
  BY LenProperties DEF TypeOK
<1>2. ASSUME NEW i \in 1 .. m PROVE wire[pos + 1 + i].n = Len(output) + i
  <2>1. wire[pos + 1 + i] = Code("data", Len(output) + i)
    OBVIOUS
  <2> QED
    BY <2>1 DEF Code
<1>3. b \in Seq(Nat) /\ Len(b) = m /\ \A i \in 1 .. m : b[i] = Len(output) + i
  BY <1>1, <1>2
<1> HIDE DEF b
<1>4. output' = output \o b
  BY DEF b
<1>5. output' \in Seq(Nat)
  BY <1>1, <1>3, <1>4, ConcatPieces
<1>6. Len(output') = Len(output) + m
  BY <1>1, <1>3, <1>4, ConcatPieces
<1>7. \A i \in 1 .. Len(output) : output'[i] = i
  <2>1. \A i \in 1 .. Len(output) : (output \o b)[i] = output[i]
    BY <1>1, <1>3, ConcatPieces
  <2> QED
    BY <1>1, <1>4, <2>1
<1>8. \A i \in 1 .. m : output'[Len(output) + i] = Len(output) + i
  <2>1. \A i \in 1 .. Len(b) : (output \o b)[Len(output) + i] = b[i]
    BY <1>1, <1>3, ConcatPieces
  <2> QED
    BY <1>3, <1>4, <2>1
<1>9. ASSUME NEW i \in 1 .. Len(output') PROVE output'[i] = i
  <2>1. CASE i \in 1 .. Len(output)
    BY <1>7, <2>1
  <2>2. CASE i > Len(output)
    <3>1. i - Len(output) \in 1 .. m /\ Len(output) + (i - Len(output)) = i
      BY <1>1, <1>6, <2>2
    <3> QED
      BY <1>8, <3>1
  <2> QED
    BY <1>1, <1>6, <2>1, <2>2
<1> QED
  BY <1>5, <1>6, <1>9

\* The decoder's output after a chunk that it read whole.
LEMMA OutputAfterChunk ==
    ASSUME Inv, phase = "code", Available > 0,
           NEW m \in Nat, m = wire[pos + 1].n, m < Available,
           output' = output \o [i \in 1 .. m |-> wire[pos + 1 + i].n]
    PROVE  /\ output' \in Seq(Nat) /\ Len(output') = Before(pos + 1) + m
           /\ \A i \in 1 .. Len(output') : output'[i] = i
           /\ \A i \in 1 .. m : wire[pos + 1 + i] = Code("data", Before(pos + 1) + i)
<1>1. /\ ChunkOK(pos + 1) /\ Len(output) = Before(pos + 1)
      /\ \A i \in 1 .. Len(output) : output[i] = i
      /\ TypeOK
  BY CodeAhead DEF Inv
<1>2. Len(wire) \in Nat /\ pos \in Nat /\ pos + 1 + m <= Len(wire)
  BY WireFacts DEF Inv, Available
<1>3. ASSUME NEW i \in 1 .. m
      PROVE  wire[pos + 1 + i] = Code("data", Before(pos + 1) + i)
  <2>1. pos + 1 + i <= Len(wire)
    BY <1>2
  <2> QED
    BY <1>1, <2>1 DEF ChunkOK
<1>4. \A i \in 1 .. m : wire[pos + 1 + i] = Code("data", Len(output) + i)
  BY <1>1, <1>3
<1> QED
  BY <1>1, <1>3, <1>4, OutputGrows

\* What the code the decoder has read says of the end of the data.
LEMMA LastChunk ==
    ASSUME Inv, phase = "code", Available > 0,
           NEW m \in Nat, m = wire[pos + 1].n
    PROVE  /\ wire[pos + 1].op # "A" =>
                  /\ Before(pos + 1) + m = Len(data)
                  /\ m < Available => ~cut /\ Len(wire) = pos + 2 + m
           /\ wire[pos + 1].op = "A" =>
                  /\ m > 0 /\ (~cut => m < Available - 1)
                  /\ m < Available - 1 => IsCode(pos + 2 + m)
           /\ ~cut => m < Available
<1>1. ChunkOK(pos + 1) /\ EndOK(pos + 1) /\ Len(wire) \in Nat /\ pos \in Nat
  BY CodeAhead, WireFacts DEF Inv
<1>2. End(pos + 1) = pos + 1 + m /\ Available = Len(wire) - pos
  BY DEF End, Available
<1>3. CASE wire[pos + 1].op # "A"
  <2>1. Before(pos + 1) + m = Len(data)
    BY <1>1, <1>3 DEF ChunkOK
  <2>2. cut => pos + 1 + m > Len(wire)
    BY <1>1, <1>2, <1>3 DEF EndOK
  <2>3. ~cut => Len(wire) = pos + 2 + m
    BY <1>1, <1>2, <1>3 DEF EndOK
  <2> QED
    BY <1>1, <1>2, <1>3, <2>1, <2>2, <2>3
<1>4. CASE wire[pos + 1].op = "A"
  <2>1. m > 0 /\ (pos + 1 + m < Len(wire) => IsCode(pos + 1 + m + 1))
    BY <1>1, <1>2, <1>4 DEF ChunkOK
  <2>2. ~cut => pos + 1 + m < Len(wire)
    BY <1>1, <1>2, <1>4 DEF EndOK
  <2>3. pos + 1 + m + 1 = pos + 2 + m
    BY <1>1
  <2> QED
    BY <1>1, <1>2, <1>4, <2>1, <2>2, <2>3
<1> QED
  BY <1>3, <1>4

\* One call of readBytes: the end of the data, too little input, or a whole chunk.
LEMMA DecodeChunkInv == ASSUME Inv, DecodeChunk PROVE Inv'
<1>1. /\ phase = "code" /\ Available > 0
      /\ UNCHANGED <<data, peer, sent, wire, cut>>
  BY DEF DecodeChunk
<1>2. PICK m \in Nat : m = wire[pos + 1].n
  BY <1>1, CodeAhead
<1>3. /\ Len(wire) \in Nat /\ pos \in Nat /\ pos + 1 \in 0 .. Len(wire)
      /\ output \in Seq(Nat) /\ TypeOK
  BY <1>1, CodeAhead, WireFacts DEF Inv, TypeOK
<1>4. /\ Len(output) = Before(pos + 1) /\ Len(output) \in Nat
      /\ \A i \in 1 .. Len(output) : output[i] = i
      /\ ChunkOK(pos + 1)
  BY <1>1, CodeAhead
<1>5. CASE m = 0 /\ phase' = "ok" /\ pos' = pos + 1 /\ UNCHANGED output
  <2>1. TypeOK' /\ WireOK' /\ EndsOK' /\ SenderOK'
    BY <1>1, <1>3, <1>5, WireKept
  <2>2. wire[pos + 1].op # "A"
    BY <1>1, <1>2, <1>5, LastChunk
  <2>3. Len(output) = Len(data) /\ ~cut /\ Len(wire) = pos + 2
    BY <1>1, <1>2, <1>3, <1>4, <1>5, <2>2, LastChunk
  <2>4. output = data
    BY <1>3, <1>4, <2>3, AllBytes
  <2>5. Available' = 1
    BY <1>1, <1>3, <1>5, <2>3 DEF Available
  <2>6. DecoderOK' /\ RoundTrip'
    BY <1>1, <1>5, <2>3, <2>4, <2>5 DEF DecoderOK, RoundTrip
  <2> QED
    BY <2>1, <2>6 DEF Inv
<1>6. CASE m > Available - 1 /\ phase' = "false" /\ pos' = pos + 1 /\ UNCHANGED output
  <2>1. TypeOK' /\ WireOK' /\ EndsOK' /\ SenderOK'
    BY <1>1, <1>3, <1>6, WireKept
  <2>2. cut
    BY <1>1, <1>2, <1>3, <1>6, LastChunk DEF Available
  <2>3. DecoderOK' /\ RoundTrip'
    BY <1>1, <1>6, <2>2 DEF DecoderOK, RoundTrip
  <2> QED
    BY <2>1, <2>3 DEF Inv
<1>7. CASE /\ 0 < m /\ m < Available
           /\ output' = output \o [i \in 1 .. m |-> wire[pos + 1 + i].n]
           /\ pos' = pos + 1 + m
           /\ phase' = IF wire[pos + 1].op = "A" THEN "code" ELSE "ok"
  <2>1. /\ output' \in Seq(Nat) /\ Len(output') = Before(pos + 1) + m
        /\ \A i \in 1 .. Len(output') : output'[i] = i
        /\ \A i \in 1 .. m : wire[pos + 1 + i] = Code("data", Before(pos + 1) + i)
    BY <1>1, <1>2, <1>7, OutputAfterChunk
  <2>2. pos' \in 0 .. Len(wire)
    BY <1>3, <1>7 DEF Available
  <2>3. TypeOK' /\ WireOK' /\ EndsOK' /\ SenderOK'
    BY <1>1, <1>7, <2>1, <2>2, WireKept
  <2>4. CASE wire[pos + 1].op = "A"
    <3>1. Before(pos + 1)' = Before(pos + 1) + m
      <4>1. wire[pos + 1 + m] = Code("data", Before(pos + 1) + m)
        BY <1>7, <2>1
      <4>2. PICK p \in Nat : p = pos + 1 + m
        BY <1>3
      <4>3. pos' = p /\ p # 0 /\ wire' = wire
        BY <1>1, <1>3, <1>7, <4>2
      <4>4. Before(pos + 1)' = wire[p].n
        BY <4>3 DEF Before
      <4> QED
        BY <4>1, <4>2, <4>4 DEF Code
    <3>2. Len(output') \in Nat /\ Len(output') <= Len(data)
      BY <1>2, <1>4, <2>1 DEF ChunkOK
    <3>3. pos' < Len(wire) => IsCode(pos' + 1)
      <4>1. pos' < Len(wire) => m < Available - 1
        BY <1>3, <1>7 DEF Available
      <4>2. pos' + 1 = pos + 2 + m
        BY <1>3, <1>7
      <4> QED
        BY <1>1, <1>2, <2>4, <4>1, <4>2, LastChunk
    <3>4. ~cut => pos' < Len(wire)
      BY <1>1, <1>2, <1>3, <1>7, <2>4, LastChunk DEF Available
    <3>5. DecoderOK'
      BY <1>1, <2>1, <3>1, <3>2, <3>3, <3>4 DEF DecoderOK, IsCode
    <3>6. RoundTrip'
      BY <1>7, <2>4 DEF RoundTrip
    <3> QED
      BY <2>3, <3>5, <3>6 DEF Inv
  <2>5. CASE wire[pos + 1].op # "A"
    <3>1. Before(pos + 1) + m = Len(data) /\ ~cut /\ Len(wire) = pos + 2 + m
      BY <1>1, <1>2, <1>7, <2>5, LastChunk
    <3>2. output' = data
      BY <1>3, <2>1, <3>1, AllBytes
    <3>3. Available' = 1
      BY <1>1, <1>3, <1>7, <3>1 DEF Available
    <3>4. DecoderOK' /\ RoundTrip'
      BY <1>1, <1>7, <2>5, <3>1, <3>2, <3>3 DEF DecoderOK, RoundTrip
    <3> QED
      BY <2>3, <3>4 DEF Inv
  <2> QED
    BY <2>4, <2>5
<1> QED
  BY <1>2, <1>5, <1>6, <1>7 DEF DecodeChunk

-----------------------------------------------------------------------------
\* Every step, and every stuttering step.
LEMMA NextInv == ASSUME Inv, [Next]_vars PROVE hollow' \/ Inv'
<1>1. CASE EncodeWhole
  BY <1>1, EncodeWholeInv
<1>2. CASE EncodeChunk
  BY <1>2, EncodeChunkInv
<1>3. CASE EncodeLast
  BY <1>3, EncodeLastInv
<1>4. CASE PeerChunk
  BY <1>4, PeerChunkInv
<1>5. CASE PeerLast
  BY <1>5, PeerLastInv
<1>6. CASE Deliver
  BY <1>6, DeliverInv
<1>7. CASE Decode
  BY <1>7, DecodeNoChunkInv, DecodeChunkInv DEF Decode
<1>8. CASE UNCHANGED vars
  BY <1>8 DEF vars, Inv, TypeOK, WireOK, ChunkOK, IsCode, Before, End, EndsOK,
              EndOK, SenderOK, DecoderOK, RoundTrip, Available
<1>9. CASE PeerEmptyChunk
  BY <1>9 DEF PeerEmptyChunk
<1> QED
  BY <1>1, <1>2, <1>3, <1>4, <1>5, <1>6, <1>7, <1>8, <1>9 DEF Next

\* Once a peer has sent an empty chunk before the last, RoundTrip asks nothing.
LEMMA HollowStays == ASSUME hollow, [Next]_vars PROVE hollow'
BY DEF Next, PeerEmptyChunk, vars

\* The wire is a row of chunks that carry on where the one before stopped,
\* and the decoder between two of them has what came before (decodeBytesWithReader).
THEOREM InvInvariant == Spec => [](hollow \/ Inv)
<1>1. Init => hollow \/ Inv
  BY InitInv
<1>2. (hollow \/ Inv) /\ [Next]_vars => hollow' \/ Inv'
  BY NextInv, HollowStays
<1> QED
  BY <1>1, <1>2, PTL DEF Spec

\* Binary data comes back whole or not at all: for every size of the data and
\* of the chunks, every peer and every place the transport stops, "true" from
\* decodeBytesWithReader means the whole data and the reader at the next
\* value, and "false" means that the end was lost.
THEOREM BytesComeBack == Spec => []RoundTrip
<1>1. hollow \/ Inv => RoundTrip
  BY DEF Inv, RoundTrip
<1> QED
  BY <1>1, InvInvariant, PTL
-----------------------------------------------------------------------------
(* What the decoder gives back, whoever sent it: an empty chunk that is    *)
(* not the last one ends a call early and shifts everything behind it, so  *)
(* that Inv fails.  What is in front of it is still in order, and the      *)
(* decoder does not come further.                                          *)

\* No empty chunk that is not the last one comes before element i.
Clear(i) == \A j \in 1 .. Len(wire) : j < i => wire[j] # Code("A", 0)

\* The chunk of the code at i carries on with the data, up to its end or to
\* where the transport stopped.
PieceOK(i) ==
    /\ Before(i) + wire[i].n <= Len(data)
    /\ \A j \in 1 .. wire[i].n :
           i + j <= Len(wire) => wire[i + j] = Code("data", Before(i) + j)
    /\ phase \in {"encode", "transit"} => End(i) <= Len(wire)

PiecesOK == \A i \in 1 .. Len(wire) : IsCode(i) /\ Clear(i) => PieceOK(i)

WriterOK ==
    phase \in {"encode", "transit"} =>
        /\ pos = 0 /\ output = <<>>
        /\ phase = "encode" /\ Clear(Len(wire) + 1) => sent = Before(Len(wire) + 1)
        /\ phase = "encode" /\ ~peer /\ Len(data) < Mid => sent = 0

\* The decoder has come past no empty chunk.
ReaderOK == phase = "code" => Clear(pos + 1) /\ Len(output) = Before(pos + 1)

Numbered ==
    /\ \A i \in 1 .. Len(output) : output[i] = i
    /\ Len(output) <= Len(data)

BeginningInv == TypeOK /\ PiecesOK /\ WriterOK /\ ReaderOK /\ Numbered

\* Bytes with their numbers, not more than there are, are the beginning of the data.
LEMMA NumberedBeginning == ASSUME TypeOK, Numbered PROVE Beginning
<1> DEFINE n == Len(output)
           s == SubSeq(data, 1, n)
<1>1. /\ data \in Seq(Nat) /\ Len(data) \in Nat
      /\ \A i \in 1 .. Len(data) : data[i] = i
  BY DataFacts
<1>2. output \in Seq(Nat) /\ n \in Nat /\ n <= Len(data)
  BY LenProperties DEF TypeOK, Numbered
<1>3. \A i \in 1 .. n : data[i] \in Nat /\ data[i] = i
  BY <1>1, <1>2
<1>4. /\ s \in Seq(Nat) /\ Len(s) = IF 1 <= n THEN n - 1 + 1 ELSE 0
      /\ \A i \in 1 .. n - 1 + 1 : s[i] = data[1 + i - 1]
  BY <1>2, <1>3, SubSeqProperties
<1>5. Len(s) = n /\ \A i \in 1 .. n : s[i] = output[i]
  BY <1>2, <1>3, <1>4 DEF Numbered
<1> HIDE DEF s
<1>6. output = s
  BY <1>2, <1>4, <1>5, SeqEqual
<1> QED
  BY <1>2, <1>6 DEF Beginning, s

LEMMA BeginningInit == Init => BeginningInv
<1> SUFFICES ASSUME Init PROVE BeginningInv
  OBVIOUS
<1>1. TypeOK
  BY InitInv DEF Inv
<1>2. wire = <<>> /\ output = <<>> /\ Len(wire) = 0 /\ Len(output) = 0
  BY EmptySeq DEF Init
<1>3. PiecesOK /\ ReaderOK
  BY <1>2 DEF Init, PiecesOK, ReaderOK
<1>4. WriterOK
  <2>1. Before(Len(wire) + 1) = 0
    BY <1>2 DEF Before
  <2> QED
    BY <2>1 DEF Init, WriterOK
<1>5. Numbered
  BY <1>1, <1>2, DataFacts DEF Numbered
<1> QED
  BY <1>1, <1>3, <1>4, <1>5 DEF BeginningInv

\* Whatever chunk is written next, an empty one included.
LEMMA BeginningWrite ==
    ASSUME BeginningInv, NEW op \in Chunks, NEW n \in Nat, sent + n <= Len(data),
           phase = "encode", phase' = IF op = "A" THEN "encode" ELSE "transit",
           op = "A" => peer \/ ~(Len(data) < Mid), WriteChunk(op, n)
    PROVE  BeginningInv'
<1> USE DEF BeginningInv
<1>l. PICK L \in Nat : L = Len(wire)
  BY WireFacts
<1>1. /\ sent \in Nat /\ Len(data) \in Nat
      /\ \A i \in 1 .. L : wire[i].n \in Nat
      /\ \A i \in 1 .. L + 1 : Before(i) \in Nat
  <2>1. sent \in Nat /\ Len(data) \in Nat
    BY DataFacts DEF TypeOK
  <2> QED
    BY <1>l, <2>1, WireFacts
<1>2. /\ wire' \in Seq(Element) /\ Len(wire') = L + 1 + n
      /\ \A i \in 1 .. L : wire'[i] = wire[i]
      /\ wire'[L + 1] = Code(op, n)
      /\ \A j \in 1 .. n : wire'[L + 1 + j] = Code("data", sent + j)
  BY <1>l, WireAfterChunk
<1>3. /\ data' = data /\ peer' = peer /\ sent' = sent + n
      /\ UNCHANGED <<cut, pos, output>>
  BY DEF WriteChunk
<1>4. pos = 0 /\ output = <<>> /\ (Clear(L + 1) => sent = Before(L + 1))
  BY <1>l DEF WriterOK
<1>5. TypeOK'
  <2>1. sent' \in 0 .. Len(data') /\ pos' \in 0 .. Len(wire')
    BY <1>1, <1>2, <1>3, <1>4
  <2>2. phase' \in Phases
    BY DEF Phases
  <2> QED
    BY <1>2, <1>3, <2>1, <2>2 DEF TypeOK
<1>6. /\ \A i \in 1 .. L : IsCode(i)' <=> IsCode(i)
      /\ \A i \in 1 .. L + 1 : Before(i)' = Before(i)
  <2>1. ASSUME NEW i \in 1 .. L PROVE IsCode(i)' <=> IsCode(i)
    BY <1>2 DEF IsCode, Chunks
  <2>2. ASSUME NEW i \in 1 .. L + 1 PROVE Before(i)' = Before(i)
    <3>1. i = 1 \/ i - 1 \in 1 .. L
      BY <1>1
    <3> QED
      BY <1>2, <3>1 DEF Before
  <2> QED
    BY <2>1, <2>2
<1>7. ASSUME NEW i \in 1 .. Len(wire'), IsCode(i)'
      PROVE  (i \in 1 .. L /\ IsCode(i)) \/ i = L + 1
  <2>1. CASE i > L + 1
    <3>1. i - (L + 1) \in 1 .. n /\ L + 1 + (i - (L + 1)) = i
      BY <1>1, <1>2, <2>1
    <3>2. wire'[i] = Code("data", sent + (i - (L + 1)))
      BY <1>2, <3>1
    <3>3. wire'[i].op = "data"
      BY <3>2 DEF Code
    <3> QED
      BY <1>7, <3>3 DEF IsCode, Chunks
  <2> QED
    BY <1>1, <1>2, <1>6, <1>7, <2>1
<1>8. \A i \in Nat : i <= L + 1 => (Clear(i)' => Clear(i))
  <2>1. ASSUME NEW i \in Nat, Clear(i)', NEW j \in 1 .. Len(wire), j < i
        PROVE  wire[j] # Code("A", 0)
    <3>1. j \in 1 .. Len(wire') /\ wire'[j] = wire[j]
      BY <1>l, <1>2
    <3> QED
      BY <2>1, <3>1 DEF Clear
  <2> QED
    BY <2>1 DEF Clear
<1>9. PiecesOK'
  <2>1. ASSUME NEW i \in 1 .. Len(wire'), IsCode(i)', Clear(i)' PROVE PieceOK(i)'
    <3>1. CASE i = L + 1
      <4>1. /\ wire'[i].n = n /\ Before(i)' = sent /\ End(i)' = Len(wire')
        <5>1. wire'[i].n = n /\ End(i)' = Len(wire')
          BY <1>1, <1>2, <3>1 DEF Code, End
        <5>2. Clear(L + 1)
          BY <1>8, <2>1, <3>1
        <5> QED
          BY <1>4, <1>6, <3>1, <5>1, <5>2
      <4>2. \A j \in 1 .. n : wire'[i + j] = Code("data", sent + j)
        BY <1>2, <3>1
      <4>3. Before(i)' + wire'[i].n <= Len(data')
        BY <1>1, <1>3, <4>1
      <4>4. End(i)' <= Len(wire')
        BY <1>2, <4>1
      <4>5. \A j \in 1 .. wire'[i].n :
                i + j <= Len(wire') => wire'[i + j] = Code("data", Before(i)' + j)
        BY <4>1, <4>2
      <4> QED
        BY <4>3, <4>4, <4>5 DEF PieceOK
    <3>2. CASE i \in 1 .. L /\ IsCode(i)
      <4>1. PieceOK(i) /\ End(i) <= L
        <5>1. Clear(i)
          BY <1>8, <2>1, <3>2
        <5> QED
          BY <1>l, <3>2, <5>1 DEF PiecesOK, PieceOK
      <4>2. /\ wire'[i] = wire[i] /\ End(i)' = End(i) /\ Before(i)' = Before(i)
        BY <1>1, <1>2, <1>6, <3>2 DEF End
      <4>3. ASSUME NEW j \in 1 .. wire[i].n
            PROVE  wire'[i + j] = Code("data", Before(i) + j)
        <5>1. i + j \in 1 .. L
          BY <1>1, <3>2, <4>1 DEF End
        <5> QED
          BY <1>l, <1>2, <4>1, <5>1 DEF PieceOK
      <4>4. End(i)' <= Len(wire')
        BY <1>1, <1>2, <3>2, <4>1, <4>2 DEF End
      <4> QED
        BY <1>3, <4>1, <4>2, <4>3, <4>4 DEF PieceOK
    <3> QED
      BY <1>7, <2>1, <3>1, <3>2
  <2> QED
    BY <2>1 DEF PiecesOK
<1>10. WriterOK'
  <2>1. ASSUME op = "A", Clear(Len(wire) + 1)' PROVE sent' = Before(Len(wire) + 1)'
    <3>1. n # 0 /\ Clear(L + 1)
      <4>1. wire'[L + 1] # Code("A", 0)
        <5>1. L + 1 \in 1 .. Len(wire') /\ L + 1 < Len(wire') + 1
          BY <1>2
        <5> QED
          BY <2>1, <5>1 DEF Clear
      <4>2. Clear(L + 1)'
        <5>1. ASSUME NEW j \in 1 .. Len(wire'), j < L + 1 PROVE wire'[j] # Code("A", 0)
          <6>1. j < Len(wire') + 1
            BY <1>2, <5>1
          <6> QED
            BY <2>1, <6>1 DEF Clear
        <5> QED
          BY <5>1 DEF Clear
      <4> QED
        BY <1>2, <1>8, <2>1, <4>1, <4>2
    <3>2. wire'[L + 1 + n] = Code("data", sent + n) /\ L + 1 + n # 0
      BY <1>1, <1>2, <3>1
    <3>3. Before(Len(wire) + 1)' = wire'[L + 1 + n].n
      BY <1>1, <1>2, <3>2 DEF Before
    <3> QED
      BY <1>3, <3>2, <3>3 DEF Code
  <2> QED
    BY <1>3, <1>4, <2>1 DEF WriterOK
<1>11. ReaderOK' /\ Numbered'
  <2>1. Numbered'
    BY <1>3 DEF Numbered
  <2> QED
    BY <2>1 DEF ReaderOK
<1> QED
  BY <1>5, <1>9, <1>10, <1>11

\* The last step of the loop of Encoder::encode when there is nothing left to write.
LEMMA BeginningNoChunk ==
    ASSUME BeginningInv, phase = "encode", phase' = "transit",
           UNCHANGED <<data, peer, sent, wire, cut, pos, output>>
    PROVE  BeginningInv'
<1> USE DEF BeginningInv
<1>1. TypeOK'
  BY DEF TypeOK, Phases
<1>2. PiecesOK'
  <2>1. ASSUME NEW i \in 1 .. Len(wire), IsCode(i), Clear(i) PROVE PieceOK(i)'
    <3>1. PieceOK(i)
      BY <2>1 DEF PiecesOK
    <3> QED
      BY <3>1 DEF PieceOK, Before, End
  <2> QED
    BY <2>1 DEF PiecesOK, IsCode, Clear
<1>3. WriterOK' /\ ReaderOK' /\ Numbered'
  BY DEF WriterOK, ReaderOK, Numbered
<1> QED
  BY <1>1, <1>2, <1>3

\* The encoder and the peer write chunks only.
LEMMA BeginningSend ==
    ASSUME BeginningInv,
           EncodeWhole \/ EncodeChunk \/ EncodeLast \/ PeerChunk \/ PeerEmptyChunk \/ PeerLast
    PROVE  BeginningInv'
<1>1. /\ Len(data) \in Nat /\ sent \in Nat /\ sent <= Len(data) /\ CHUNK_SIZE \in Nat
      /\ Left \in Nat /\ sent + Left = Len(data)
  BY DataFacts, ByteAssumption DEF BeginningInv, TypeOK, Left
<1>2. CASE EncodeWhole
  <2>1. PICK op \in {"short", "mid"} : WriteChunk(op, Len(data))
    BY <1>2 DEF EncodeWhole
  <2>2. sent + Len(data) <= Len(data)
    BY <1>1, <1>2 DEF BeginningInv, WriterOK, EncodeWhole
  <2> QED
    BY <1>1, <1>2, <2>1, <2>2, BeginningWrite DEF EncodeWhole, Chunks
<1>3. CASE EncodeChunk
  <2>1. /\ phase = "encode" /\ phase' = "encode" /\ ~(Len(data) < Mid)
        /\ WriteChunk("A", CHUNK_SIZE) /\ sent + CHUNK_SIZE <= Len(data)
    BY <1>1, <1>3, ByteAssumption DEF EncodeChunk, Left
  <2> QED
    BY <1>1, <2>1, BeginningWrite DEF Chunks
<1>4. CASE EncodeLast
  BY <1>1, <1>4, BeginningWrite, BeginningNoChunk DEF EncodeLast, Chunks
<1>5. CASE PeerChunk
  <2>1. PICK n \in 1 .. Left : WriteChunk("A", n)
    BY <1>5 DEF PeerChunk
  <2>2. n \in Nat /\ sent + n <= Len(data)
    BY <1>1
  <2> QED
    BY <1>5, <2>1, <2>2, BeginningWrite DEF PeerChunk, Chunks
<1>6. CASE PeerEmptyChunk
  <2>1. sent + 0 <= Len(data)
    BY <1>1
  <2> QED
    BY <1>6, <2>1, BeginningWrite DEF PeerEmptyChunk, Chunks
<1>7. CASE PeerLast
  <2>1. PICK op \in {"short", "mid", "B"} : WriteChunk(op, Left)
    BY <1>7 DEF PeerLast
  <2> QED
    BY <1>1, <1>7, <2>1, BeginningWrite DEF PeerLast, Chunks
<1> QED
  BY <1>2, <1>3, <1>4, <1>5, <1>6, <1>7

\* A wire that arrives whole or cut is in order as far as it goes.
LEMMA BeginningArrival ==
    ASSUME BeginningInv, phase = "transit", phase' = "code",
           UNCHANGED <<data, peer, sent, pos, output>>, cut' \in BOOLEAN,
           NEW k \in 0 .. Len(wire), wire' \in Seq(Element),
           \A i \in 1 .. k : wire'[i] = wire[i],
           Len(wire') = k \/ (k = Len(wire) /\ Len(wire') = k + 1 /\ wire'[k + 1] = Next8)
    PROVE  BeginningInv'
<1> USE DEF BeginningInv
<1>1. /\ Len(wire) \in Nat /\ k \in Nat /\ k <= Len(wire)
      /\ pos = 0 /\ output = <<>>
  BY WireFacts DEF WriterOK
<1>2. TypeOK'
  <2>1. \E n \in Nat : data' = [i \in 1 .. n |-> i]
    BY DEF TypeOK
  <2>2. peer' \in BOOLEAN /\ phase' \in Phases /\ sent' \in 0 .. Len(data')
    BY DEF TypeOK, Phases
  <2>3. pos' \in 0 .. Len(wire') /\ output' \in Seq(Nat)
    BY <1>1 DEF TypeOK
  <2> QED
    BY <2>1, <2>2, <2>3 DEF TypeOK
<1>3. ASSUME NEW i \in 1 .. Len(wire'), IsCode(i)', Clear(i)' PROVE PieceOK(i)'
  <2>1. i \in 1 .. k
    <3>1. CASE i = k + 1
      <4>1. wire'[i] = Next8
        BY <1>1, <3>1
      <4> QED
        BY <1>3, <4>1 DEF IsCode, Next8, Code, Chunks
    <3> QED
      BY <1>1, <3>1
  <2>2. wire'[i] = wire[i] /\ i \in 1 .. Len(wire) /\ wire[i].n \in Nat
    BY <1>1, <2>1, WireFacts
  <2>3. IsCode(i)
    BY <1>3, <2>2 DEF IsCode, Chunks
  <2>4. Clear(i)
    <3>1. ASSUME NEW j \in 1 .. Len(wire), j < i PROVE wire[j] # Code("A", 0)
      <4>1. j \in 1 .. Len(wire') /\ wire'[j] = wire[j]
        BY <1>1, <2>1, <3>1
      <4> QED
        BY <1>3, <3>1, <4>1 DEF Clear
    <3> QED
      BY <3>1 DEF Clear
  <2>5. Before(i)' = Before(i)
    <3>1. i = 1 \/ i - 1 \in 1 .. k
      BY <1>1, <2>1
    <3> QED
      BY <3>1 DEF Before
  <2>6. PieceOK(i) /\ End(i) <= Len(wire)
    BY <2>2, <2>3, <2>4 DEF PiecesOK, PieceOK
  <2>7. ASSUME NEW j \in 1 .. wire[i].n, i + j <= Len(wire')
        PROVE  wire'[i + j] = Code("data", Before(i) + j)
    <3>1. PICK e \in Nat : e = i + j
      BY <2>1, <2>2
    <3>2. e <= Len(wire)
      BY <1>1, <2>1, <2>2, <2>6, <3>1 DEF End
    <3>3. wire[e] = Code("data", Before(i) + j)
      BY <2>6, <3>1, <3>2 DEF PieceOK
    <3>4. CASE e <= k
      <4>1. e \in 1 .. k
        BY <2>1, <3>1, <3>4
      <4> QED
        BY <3>1, <3>3, <4>1
    <3>5. e <= k
      BY <1>1, <2>7, <3>1, <3>2
    <3> QED
      BY <3>4, <3>5
  <2> QED
    BY <2>2, <2>5, <2>6, <2>7 DEF PieceOK
<1>4. PiecesOK'
  BY <1>3 DEF PiecesOK
<1>5. ReaderOK'
  <2>1. Clear(pos + 1)'
    BY <1>1 DEF Clear
  <2>2. Len(output') = Before(pos + 1)'
    BY <1>1, EmptySeq DEF Before
  <2> QED
    BY <2>1, <2>2 DEF ReaderOK
<1>6. WriterOK' /\ Numbered'
  BY DEF WriterOK, Numbered
<1> QED
  BY <1>2, <1>4, <1>5, <1>6

LEMMA BeginningDeliver == ASSUME BeginningInv, Deliver PROVE BeginningInv'
<1>1. /\ phase = "transit" /\ phase' = "code"
      /\ UNCHANGED <<data, peer, sent, pos, output>>
  BY DEF Deliver
<1>2. Len(wire) \in Nat /\ wire \in Seq(Element) /\ cut \in BOOLEAN
  BY WireFacts DEF BeginningInv, TypeOK
<1>3. CASE wire' = Append(wire, Next8) /\ UNCHANGED cut
  <2>1. Next8 \in Element
    BY DEF Next8, Code, Element, Ops
  <2>2. /\ wire' \in Seq(Element) /\ Len(wire') = Len(wire) + 1
        /\ \A i \in 1 .. Len(wire) : wire'[i] = wire[i]
        /\ wire'[Len(wire) + 1] = Next8
    BY <1>2, <1>3, <2>1, AppendProperties
  <2>3. Len(wire) \in 0 .. Len(wire)
    BY <1>2
  <2> QED
    BY <1>1, <1>2, <1>3, <2>2, <2>3, BeginningArrival
<1>4. CASE \E k \in 0 .. Len(wire) - 1 : wire' = SubSeq(wire, 1, k) /\ cut' = TRUE
  <2>1. PICK k \in 0 .. Len(wire) - 1 : wire' = SubSeq(wire, 1, k) /\ cut' = TRUE
    BY <1>4
  <2>2. \A i \in 1 .. k : wire[i] \in Element
    BY <1>2, ElementOfSeq
  <2>3. /\ wire' \in Seq(Element) /\ Len(wire') = IF 1 <= k THEN k - 1 + 1 ELSE 0
        /\ \A i \in 1 .. k - 1 + 1 : wire'[i] = wire[1 + i - 1]
    BY <1>2, <2>1, <2>2, SubSeqProperties
  <2>4. /\ Len(wire') = k /\ \A i \in 1 .. k : wire'[i] = wire[i]
        /\ k \in 0 .. Len(wire)
    BY <1>2, <2>3
  <2> QED
    BY <1>1, <2>1, <2>3, <2>4, BeginningArrival
<1> QED
  BY <1>3, <1>4 DEF Deliver

\* The decoder reads the wire and leaves it alone.
LEMMA BeginningRead ==
    ASSUME BeginningInv, phase = "code", UNCHANGED <<data, peer, sent, wire, cut>>,
           phase' \in {"code", "ok", "false"}, pos' \in 0 .. Len(wire),
           output' \in Seq(Nat)
    PROVE  TypeOK' /\ PiecesOK' /\ WriterOK'
<1> USE DEF BeginningInv
<1>1. TypeOK'
  <2>1. phase' \in Phases
    BY DEF Phases
  <2> QED
    BY <2>1 DEF TypeOK
<1>2. PiecesOK'
  <2>1. ASSUME NEW i \in 1 .. Len(wire), IsCode(i), Clear(i) PROVE PieceOK(i)'
    <3>1. PieceOK(i)
      BY <2>1 DEF PiecesOK
    <3> QED
      BY <3>1 DEF PieceOK, Before, End
  <2> QED
    BY <2>1 DEF PiecesOK, IsCode, Clear
<1>3. WriterOK'
  BY DEF WriterOK
<1> QED
  BY <1>1, <1>2, <1>3

\* One step of the decoder: nothing is added to the output, or the next bytes.
LEMMA BeginningDecode == ASSUME BeginningInv, Decode PROVE BeginningInv'
<1> USE DEF BeginningInv
<1>1. phase = "code" /\ UNCHANGED <<data, peer, sent, wire, cut>>
  BY DEF Decode, DecodeNoChunk, DecodeChunk
<1>2. /\ Len(wire) \in Nat /\ pos \in Nat /\ pos <= Len(wire)
      /\ output \in Seq(Nat) /\ Len(data) \in Nat
  BY WireFacts, DataFacts DEF TypeOK
<1>3. CASE phase' \in {"ok", "false"} /\ UNCHANGED output /\ pos' \in 0 .. Len(wire)
  <2>1. TypeOK' /\ PiecesOK' /\ WriterOK'
    BY <1>1, <1>2, <1>3, BeginningRead
  <2>2. ReaderOK' /\ Numbered'
    BY <1>1, <1>3 DEF ReaderOK, Numbered
  <2> QED
    BY <2>1, <2>2
<1>4. CASE DecodeNoChunk
  BY <1>2, <1>3, <1>4 DEF DecodeNoChunk
<1>5. CASE DecodeChunk
  <2>1. Available > 0 /\ pos + 1 \in 1 .. Len(wire) /\ IsCode(pos + 1)
    BY <1>2, <1>5 DEF DecodeChunk, Available, IsCode
  <2>2. PICK m \in Nat : m = wire[pos + 1].n
    BY <2>1, WireFacts
  <2>3. CASE m = 0 /\ phase' = "ok" /\ pos' = pos + 1 /\ UNCHANGED output
    BY <1>2, <1>3, <2>1, <2>3
  <2>4. CASE m > Available - 1 /\ phase' = "false" /\ pos' = pos + 1 /\ UNCHANGED output
    BY <1>2, <1>3, <2>1, <2>4
  <2>5. CASE /\ 0 < m /\ m < Available
             /\ output' = output \o [i \in 1 .. m |-> wire[pos + 1 + i].n]
             /\ pos' = pos + 1 + m
             /\ phase' = IF wire[pos + 1].op = "A" THEN "code" ELSE "ok"
    <3>1. Clear(pos + 1) /\ Len(output) = Before(pos + 1) /\ PieceOK(pos + 1)
      BY <1>1, <2>1 DEF ReaderOK, PiecesOK
    <3>2. pos + 1 + m <= Len(wire) /\ pos' \in 0 .. Len(wire)
      BY <1>2, <2>5 DEF Available
    <3>3. \A i \in 1 .. m : wire[pos + 1 + i] = Code("data", Len(output) + i)
      <4>1. ASSUME NEW i \in 1 .. m
            PROVE  wire[pos + 1 + i] = Code("data", Len(output) + i)
        <5>1. pos + 1 + i <= Len(wire)
          BY <1>2, <3>2
        <5> QED
          BY <2>2, <3>1, <5>1 DEF PieceOK
      <4> QED
        BY <4>1
    <3>4. /\ output' \in Seq(Nat) /\ Len(output') = Len(output) + m
          /\ \A i \in 1 .. Len(output') : output'[i] = i
      BY <2>5, <3>3, OutputGrows DEF Numbered
    <3>5. TypeOK' /\ PiecesOK' /\ WriterOK'
      BY <1>1, <2>5, <3>2, <3>4, BeginningRead
    <3>6. Numbered'
      BY <1>1, <2>2, <3>1, <3>4 DEF Numbered, PieceOK
    <3>7. Len(output') = Before(pos + 1)'
      <4>1. wire[pos + 1 + m] = Code("data", Len(output) + m)
        BY <2>5, <3>3
      <4>2. PICK p \in Nat : p = pos + 1 + m
        BY <1>2
      <4>3. pos' = p /\ p # 0 /\ wire' = wire
        BY <1>1, <1>2, <2>5, <4>2
      <4>4. Before(pos + 1)' = wire[p].n
        BY <4>3 DEF Before
      <4> QED
        BY <3>4, <4>1, <4>2, <4>4 DEF Code
    <3>8. Clear(pos + 1)'
      <4>1. ASSUME NEW j \in 1 .. Len(wire), j < pos' + 1 PROVE wire[j] # Code("A", 0)
        <5>1. CASE j < pos + 1
          BY <3>1, <5>1 DEF Clear
        <5>2. CASE j = pos + 1
          BY <2>2, <2>5, <5>2 DEF Code
        <5>3. CASE j > pos + 1
          <6>1. j - (pos + 1) \in 1 .. m /\ pos + 1 + (j - (pos + 1)) = j
            BY <1>2, <2>5, <4>1, <5>3
          <6>2. wire[j] = Code("data", Len(output) + (j - (pos + 1)))
            BY <3>3, <6>1
          <6> QED
            BY <6>2 DEF Code
        <5> QED
          BY <1>2, <5>1, <5>2, <5>3
      <4> QED
        BY <1>1, <4>1 DEF Clear
    <3> QED
      BY <3>5, <3>6, <3>7, <3>8 DEF ReaderOK
  <2> QED
    BY <1>5, <2>2, <2>3, <2>4, <2>5 DEF DecodeChunk
<1> QED
  BY <1>4, <1>5 DEF Decode

LEMMA BeginningStep == ASSUME BeginningInv, [Next]_vars PROVE BeginningInv'
<1>1. CASE EncodeWhole \/ EncodeChunk \/ EncodeLast \/ PeerChunk \/ PeerEmptyChunk \/ PeerLast
  BY <1>1, BeginningSend
<1>2. CASE Deliver
  BY <1>2, BeginningDeliver
<1>3. CASE Decode
  BY <1>3, BeginningDecode
<1>4. CASE UNCHANGED vars
  BY <1>4 DEF vars, BeginningInv, TypeOK, PiecesOK, PieceOK, IsCode, Clear, Before, End,
              WriterOK, ReaderOK, Numbered
<1> QED
  BY <1>1, <1>2, <1>3, <1>4 DEF Next

\* Whoever sends, an empty chunk in the middle and a wire that is cut included: the
\* vector that decodeBytesWithReader fills holds, at any moment, the first bytes of
\* the data in their order and nothing else.
THEOREM OutputIsBeginning == Spec => []Beginning
<1>1. Init => BeginningInv
  BY BeginningInit
<1>2. BeginningInv /\ [Next]_vars => BeginningInv'
  BY BeginningStep
<1>3. BeginningInv => Beginning
  BY NumberedBeginning DEF BeginningInv
<1> QED
  BY <1>1, <1>2, <1>3, PTL DEF Spec

=============================================================================
