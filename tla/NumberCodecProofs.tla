-------------------------- MODULE NumberCodecProofs --------------------------
(***************************************************************************)
(* Proof that numbers, booleans and null come back (RoundTrip of           *)
(* NumberCodec) for every int32_t, int64_t and double, in every form this  *)
(* encoder or a peer may choose, and that integers are written in the      *)
(* shortest form (Shortest).                                               *)
(***************************************************************************)
EXTENDS NumberCodec, SequenceTheorems, TLAPS

\* What a wire is made of: bytes, and the eight pieces of a double.
Atom == Int \cup (Numbers \X (1 .. 8))

\* The type decode is called for to get v back.
KindOf(v) == IF IsDouble(v) THEN "double" ELSE v.kind

DecodeAs(t, w) ==
    CASE t = "int"    -> DecodeInt(w)
      [] t = "long"   -> DecodeLong(w)
      [] t = "double" -> DecodeDouble(w)
      [] t = "bool"   -> DecodeBool(w)
      [] t = "null"   -> DecodeNull(w)

\* The first bytes of the values of a type.
BytesOf(t) ==
    CASE t = "int"    -> (128 .. 215) \cup {73}
      [] t = "long"   -> (56 .. 63) \cup (216 .. 255) \cup {89, 76}
      [] t = "double" -> (91 .. 95) \cup {68}
      [] t = "bool"   -> {70, 84}
      [] t = "null"   -> {78}

\* w is a form of the number v.
IntForm(v, w) ==
    \/ w = <<73>> \o Low(v.lo, 4)
    \/ \E f \in IntCodes : v.lo \in Span(f) /\ w = Written(f, v.lo)

LongForm(v, w) ==
    \/ w = <<76>> \o Low(v.hi, 4) \o Low(v.lo, 4)
    \/ IsNarrow(v) /\ w = <<89>> \o Low(v.lo, 4)
    \/ \E f \in LongCodes : IsNarrow(v) /\ v.lo \in Span(f) /\ w = Written(f, v.lo)

DoubleForm(v, w) ==
    \/ v \in Numbers /\ w = <<68>> \o Memory(v)
    \/ v.kind = "thousandths" /\ w = <<95>> \o Low(v.lo, 4)
    \/ v.kind = "double" /\ v.lo \in {0, 1} /\ w = <<91 + v.lo>>
    \/ v.kind = "double" /\ v.lo \in Int8 /\ w = <<93>> \o Low(v.lo, 1)
    \/ v.kind = "double" /\ v.lo \in Int16 /\ w = <<94>> \o Low(v.lo, 2)

Form(v, w) ==
    \/ v.kind = "int" /\ IntForm(v, w)
    \/ v.kind = "long" /\ LongForm(v, w)
    \/ IsDouble(v) /\ DoubleForm(v, w)
    \/ v.kind = "bool" /\ w = <<IF v.lo = 1 THEN 84 ELSE 70>>
    \/ v.kind = "null" /\ w = <<78>>

\* The reader has a, of a wire w and perhaps what comes after it.
Agrees(a, w) == Len(a) >= 1 /\ \A i \in 1 .. Len(a) : i <= Len(w) => a[i] = w[i]

\* All of w gives v, less of it nothing.
Outcome(a, w, v) ==
    IF Len(a) < Len(w) THEN Nothing(1) ELSE [value |-> v, used |-> Len(w)]

\* If the k bytes after the code of w were read as m where n was written,
\* then what is made of m is the outcome.
Gives(a, w, k, m, n) == \A v, x : (m = n => x = v) => After(a, k, x) = Outcome(a, w, v)

-----------------------------------------------------------------------------
(* Bytes *)

LEMMA BytesFacts ==
    /\ \A b : b \in BytesOf("int") <=> b = 73 \/ (b \in Int /\ 128 <= b /\ b <= 215)
    /\ \A b : b \in BytesOf("long") <=>
                  \/ b = 89 \/ b = 76
                  \/ b \in Int /\ 56 <= b /\ b <= 63
                  \/ b \in Int /\ 216 <= b /\ b <= 255
    /\ \A b : b \in BytesOf("double") <=> b = 68 \/ (b \in Int /\ 91 <= b /\ b <= 95)
    /\ \A b : b \in BytesOf("bool") <=> b = 70 \/ b = 84
    /\ \A b : b \in BytesOf("null") <=> b = 78
<1>1. BytesOf("int") = (128 .. 215) \cup {73}
  BY DEF BytesOf
<1>2. BytesOf("long") = (56 .. 63) \cup (216 .. 255) \cup {89, 76}
  BY DEF BytesOf
<1>3. BytesOf("double") = (91 .. 95) \cup {68}
  BY DEF BytesOf
<1>4. BytesOf("bool") = {70, 84} /\ BytesOf("null") = {78}
  BY DEF BytesOf
<1>5. \A b : b \in BytesOf("int") <=> b = 73 \/ (b \in Int /\ 128 <= b /\ b <= 215)
  BY SMT, <1>1
<1>6. \A b : b \in BytesOf("long") <=>
                 \/ b = 89 \/ b = 76
                 \/ b \in Int /\ 56 <= b /\ b <= 63
                 \/ b \in Int /\ 216 <= b /\ b <= 255
  BY SMT, <1>2
<1>7. \A b : b \in BytesOf("double") <=> b = 68 \/ (b \in Int /\ 91 <= b /\ b <= 95)
  BY SMT, <1>3
<1> QED
  BY <1>4, <1>5, <1>6, <1>7

LEMMA Shifts ==
    /\ Shift(0) = 1 /\ Shift(1) = 256 /\ Shift(2) = 65536 /\ Shift(3) = 16777216
BY SMT DEF Shift

Sizes == {1, 256, 65536, 16777216}

LEMMA Int32IsInt == \A n \in Int32 : n \in Int
BY SMT DEF Int32

\* Each byte of an int32_t.
LEMMA ByteOf ==
    ASSUME NEW n \in Int, NEW s \in Sizes
    PROVE  (n \div s) % 256 \in Int
BY SMT DEF Sizes

\* The low bytes, highest first (writeBE).
LEMMA LowBytes ==
    ASSUME NEW n \in Int, NEW k \in 0 .. 4
    PROVE  /\ Low(n, k) \in Seq(Atom) /\ Len(Low(n, k)) = k
           /\ \A i \in 1 .. k : Low(n, k)[i] = (n \div Shift(k - i)) % 256
<1> DEFINE byte(i) == (n \div Shift(k - i)) % 256
<1>1. \A i \in 1 .. k : byte(i) \in Atom
  <2>1. ASSUME NEW j \in 0 .. 3 PROVE Shift(j) \in Sizes
    <3>1. j = 0 \/ j = 1 \/ j = 2 \/ j = 3
      OBVIOUS
    <3> QED
      BY SMT, <3>1, Shifts DEF Sizes
  <2>2. ASSUME NEW i \in 1 .. k PROVE byte(i) \in Int
    <3>1. k - i \in 0 .. 3
      OBVIOUS
    <3> QED
      BY SMT, <2>1, <3>1, ByteOf
  <2> QED
    BY <2>2 DEF Atom
<1>2. Low(n, k) = [i \in 1 .. k |-> byte(i)]
  BY DEF Low
<1> HIDE DEF byte
<1>3. Low(n, k) \in Seq(Atom) /\ Len(Low(n, k)) = k
  BY <1>1, <1>2
<1>4. \A i \in 1 .. k : Low(n, k)[i] = byte(i)
  BY <1>2
<1> QED
  BY <1>3, <1>4 DEF byte

\* The bytes of an int32_t put together again (readBE).
LEMMA Bytes1 ==
    ASSUME NEW n \in Int, -128 <= n, n <= 127, NEW b, b = n % 256
    PROVE  (IF b < 128 THEN b ELSE b - 256) = n
BY SMT

LEMMA Split ==
    ASSUME NEW n \in Int
    PROVE  n \div 256 \in Int /\ n = (n \div 256) * 256 + (n % 256) /\ n % 256 \in 0 .. 255
BY SMT

LEMMA Bytes2 ==
    ASSUME NEW n \in Int, -32768 <= n, n <= 32767, NEW b, NEW c, b = (n \div 256) % 256, c = n % 256
    PROVE  (IF b < 128 THEN b ELSE b - 256) * 256 + c = n
<1>1. PICK q \in Int : q = n \div 256 /\ n = q * 256 + c /\ c \in 0 .. 255
  BY SMT, Split
<1>2. -128 <= q /\ q <= 127 /\ b = q % 256
  BY SMT, <1>1
<1>3. (IF b < 128 THEN b ELSE b - 256) = q
  BY SMT, <1>2, Bytes1
<1> QED
  BY SMT, <1>1, <1>3

LEMMA Quotients ==
    ASSUME NEW n \in Int
    PROVE  /\ n \div 65536 = (n \div 256) \div 256
           /\ n \div 16777216 = ((n \div 256) \div 256) \div 256
BY SMT

LEMMA Bytes4 ==
    ASSUME NEW n \in Int32, NEW b, NEW c, NEW d, NEW e,
           b = (n \div 16777216) % 256, c = (n \div 65536) % 256,
           d = (n \div 256) % 256, e = n % 256
    PROVE  (IF b < 128 THEN b ELSE b - 256) * 16777216 + (c * 65536 + d * 256 + e) = n
<1>1. PICK q \in Int : q = n \div 256 /\ n = q * 256 + e /\ e \in 0 .. 255
  BY SMT DEF Int32
<1>2. PICK r \in Int : r = q \div 256 /\ q = r * 256 + d /\ d \in 0 .. 255
  BY SMT, <1>1
<1>3. PICK s \in Int : s = r \div 256 /\ r = s * 256 + c /\ c \in 0 .. 255
  BY SMT, <1>1, <1>2, Quotients DEF Int32
<1>4. b = s % 256
  BY SMT, <1>1, <1>2, <1>3, Quotients DEF Int32
<1>5. n = s * 16777216 + c * 65536 + d * 256 + e
  BY SMT, <1>1, <1>2, <1>3
<1>6. -128 <= s /\ s <= 127
  BY SMT, <1>1, <1>2, <1>3, <1>5 DEF Int32
<1>7. (IF b < 128 THEN b ELSE b - 256) = s
  BY SMT, <1>4, <1>6, Bytes1
<1> QED
  BY SMT, <1>5, <1>7

\* A number of k bytes at i is read as it was written (readBE).
LEMMA SignedLow1 ==
    ASSUME NEW n \in Int, -128 <= n, n <= 127, NEW w, NEW i \in Nat,
           w[i + 1] = Low(n, 1)[1]
    PROVE  Signed(w, i, 1) = n
<1>1. w[i + 1] = n % 256
  <2>1. Low(n, 1)[1] = (n \div 1) % 256
    <3>1. Low(n, 1)[1] = (n \div Shift(1 - 1)) % 256
      BY SMT, LowBytes
    <3> QED
      BY SMT, <3>1, Shifts
  <2>2. n \div 1 = n
    BY SMT
  <2> QED
    BY SMT, <2>1, <2>2
<1>2. (IF w[i + 1] < 128 THEN w[i + 1] ELSE w[i + 1] - 256) = n
  BY SMT, <1>1, Bytes1
<1>3. Unsigned(w, i + 1, 0) = 0
  BY SMT DEF Unsigned
<1> QED
  BY SMT, <1>2, <1>3, Shifts DEF Signed

LEMMA SignedLow2 ==
    ASSUME NEW n \in Int, -32768 <= n, n <= 32767, NEW w, NEW i \in Nat,
           w[i + 1] = Low(n, 2)[1], w[i + 2] = Low(n, 2)[2]
    PROVE  Signed(w, i, 2) = n
<1> DEFINE h == IF w[i + 1] < 128 THEN w[i + 1] ELSE w[i + 1] - 256
<1>1. w[i + 1] = (n \div 256) % 256 /\ w[i + 2] = n % 256
  <2>1. Low(n, 2)[1] = (n \div Shift(1)) % 256 /\ Low(n, 2)[2] = (n \div Shift(0)) % 256
    BY SMT, LowBytes
  <2>2. n \div 1 = n
    BY SMT
  <2> QED
    BY SMT, <2>1, <2>2, Shifts
<1>2. h * 256 + w[i + 2] = n
  BY SMT, <1>1, Bytes2
<1>3. Unsigned(w, i + 1, 1) = w[i + 2]
  <2>1. Unsigned(w, i + 1, 1) = w[i + 1 + 1]
    BY SMT DEF Unsigned
  <2> QED
    BY SMT, <2>1
<1> QED
  BY SMT, <1>2, <1>3, Shifts DEF Signed

LEMMA SignedLow4 ==
    ASSUME NEW n \in Int32, NEW w, NEW i \in Nat,
           \A j \in 1 .. 4 : w[i + j] = Low(n, 4)[j]
    PROVE  Signed(w, i, 4) = n
<1> DEFINE b == w[i + 1]
           c == w[i + 2]
           d == w[i + 3]
           e == w[i + 4]
<1>0. n \in Int
  BY SMT DEF Int32
<1>1. /\ b = (n \div 16777216) % 256 /\ c = (n \div 65536) % 256
      /\ d = (n \div 256) % 256 /\ e = n % 256
  <2>1. /\ Low(n, 4)[1] = (n \div Shift(3)) % 256 /\ Low(n, 4)[2] = (n \div Shift(2)) % 256
        /\ Low(n, 4)[3] = (n \div Shift(1)) % 256 /\ Low(n, 4)[4] = (n \div Shift(0)) % 256
    BY SMT, <1>0, LowBytes
  <2>2. n \div 1 = n
    BY SMT, <1>0
  <2> QED
    BY SMT, <2>1, <2>2, Shifts
<1> HIDE DEF b, c, d, e
<1>2. (IF b < 128 THEN b ELSE b - 256) * 16777216 + (c * 65536 + d * 256 + e) = n
  BY ONLY SMT, <1>1, Bytes4, n \in Int32
<1>3. Unsigned(w, i + 1, 3) = c * 65536 + d * 256 + e
  <2>1. Unsigned(w, i + 1, 3) = w[i + 1 + 1] * 65536 + w[i + 1 + 2] * 256 + w[i + 1 + 3]
    BY SMT DEF Unsigned
  <2>2. i + 1 + 1 = i + 2 /\ i + 1 + 2 = i + 3 /\ i + 1 + 3 = i + 4
    BY SMT
  <2> QED
    BY SMT, <2>1, <2>2 DEF c, d, e
<1>4. Signed(w, i, 4) =
          (IF w[i + 1] < 128 THEN w[i + 1] ELSE w[i + 1] - 256) * Shift(4 - 1)
              + Unsigned(w, i + 1, 4 - 1)
  BY SMT DEF Signed
<1>5. 4 - 1 = 3
  BY SMT
<1> QED
  BY SMT, <1>2, <1>3, <1>4, <1>5, Shifts DEF b

-----------------------------------------------------------------------------
(* A code and what follows it *)

LEMMA Framed ==
    ASSUME NEW S, NEW c \in S, NEW s \in Seq(S)
    PROVE  /\ <<c>> \o s \in Seq(S) /\ Len(<<c>> \o s) = 1 + Len(s)
           /\ (<<c>> \o s)[1] = c
           /\ \A i \in 1 .. Len(s) : (<<c>> \o s)[1 + i] = s[i]
<1> DEFINE h == <<c>>
<1>1. h \in Seq(S) /\ Len(h) = 1 /\ h[1] = c /\ Len(s) \in Nat
  BY LenProperties
<1> HIDE DEF h
<1>2. /\ h \o s \in Seq(S) /\ Len(h \o s) = Len(h) + Len(s)
      /\ \A i \in 1 .. Len(h) + Len(s) :
             (h \o s)[i] = IF i <= Len(h) THEN h[i] ELSE s[i - Len(h)]
  BY <1>1, ConcatProperties
<1>3. (h \o s)[1] = c
  BY <1>1, <1>2
<1>4. ASSUME NEW i \in 1 .. Len(s) PROVE (h \o s)[1 + i] = s[i]
  <2>1. 1 + i \in 1 .. Len(h) + Len(s) /\ ~(1 + i <= Len(h)) /\ 1 + i - Len(h) = i
    BY <1>1
  <2> QED
    BY <1>2, <2>1
<1> QED
  BY <1>1, <1>2, <1>3, <1>4 DEF h

\* A code and the k bytes of n.
LEMMA FramedLow ==
    ASSUME NEW c \in 0 .. 255, NEW n \in Int, NEW k \in 0 .. 4
    PROVE  /\ <<c>> \o Low(n, k) \in Seq(Atom) /\ Len(<<c>> \o Low(n, k)) = 1 + k
           /\ (<<c>> \o Low(n, k))[1] = c
           /\ \A i \in 1 .. k : (<<c>> \o Low(n, k))[1 + i] = Low(n, k)[i]
<1> DEFINE s == Low(n, k)
<1>1. s \in Seq(Atom) /\ Len(s) = k
  BY LowBytes
<1>c. c \in Atom
  <2>1. c \in Int
    OBVIOUS
  <2> QED
    BY <2>1 DEF Atom
<1> HIDE DEF s
<1>2. /\ <<c>> \o s \in Seq(Atom) /\ Len(<<c>> \o s) = 1 + Len(s)
      /\ (<<c>> \o s)[1] = c
      /\ \A i \in 1 .. Len(s) : (<<c>> \o s)[1 + i] = s[i]
  BY <1>1, <1>c, Framed
<1> QED
  BY <1>1, <1>2 DEF s

\* What the reader has begins like the wire.
LEMMA Agreeing ==
    ASSUME NEW a \in Seq(Atom), NEW w \in Seq(Atom), Len(w) >= 1, Agrees(a, w)
    PROVE  /\ a # <<>> /\ CodeOf(a) = w[1] /\ a[1] = w[1]
           /\ ~(Len(a) < Len(w)) => \A i \in 1 .. Len(w) : a[i] = w[i]
<1>1. Len(a) \in Nat /\ Len(w) \in Nat /\ Len(a) >= 1
  BY LenProperties DEF Agrees
<1>2. a # <<>>
  BY <1>1, EmptySeq
<1>3. a[1] = w[1]
  BY <1>1 DEF Agrees
<1>4. ASSUME ~(Len(a) < Len(w)), NEW i \in 1 .. Len(w) PROVE a[i] = w[i]
  BY <1>1, <1>4 DEF Agrees
<1> QED
  BY <1>2, <1>3, <1>4 DEF CodeOf

LEMMA AfterAgreeing ==
    ASSUME NEW a \in Seq(Atom), NEW w \in Seq(Atom), NEW size \in Nat, Len(w) = 1 + size,
           NEW x, NEW v, ~(Len(a) < Len(w)) => x = v
    PROVE  After(a, size, x) = Outcome(a, w, v)
<1>1. Len(a) \in Nat
  BY LenProperties
<1>2. Len(a) - 1 < size <=> Len(a) < Len(w)
  BY <1>1
<1> QED
  BY <1>2 DEF After, Outcome

-----------------------------------------------------------------------------
(* The compact forms *)

\* A range of first bytes, and what is added to them.
Usable(f) ==
    /\ f.zero \in Int /\ f.min \in Int /\ f.max \in Int
    /\ 0 <= f.min /\ f.max < 256
    /\ f.further \in {0, 1, 2}

LEMMA CodesUsable ==
    /\ \A f \in IntCodes : Usable(f) /\ 128 <= f.min /\ f.max <= 215
    /\ \A f \in LongCodes :
           Usable(f) /\ ((56 <= f.min /\ f.max <= 63) \/ (216 <= f.min /\ f.max <= 255))
<1>1. ASSUME NEW f \in IntCodes PROVE Usable(f) /\ 128 <= f.min /\ f.max <= 215
  BY SMT DEF IntCodes, Compact, Usable
<1>2. ASSUME NEW f \in LongCodes
      PROVE  Usable(f) /\ ((56 <= f.min /\ f.max <= 63) \/ (216 <= f.min /\ f.max <= 255))
  BY SMT DEF LongCodes, Compact, Usable
<1> QED
  BY <1>1, <1>2

LEMMA Quotient ==
    ASSUME NEW n \in Int, NEW lo \in Int, NEW hi \in Int, NEW s \in Sizes,
           lo * s <= n, n <= hi * s + s - 1
    PROVE  n \div s \in Int /\ lo <= n \div s /\ n \div s <= hi
<1>1. CASE s = 1
  BY SMT, <1>1
<1>2. CASE s = 256
  BY SMT, <1>2
<1>3. CASE s = 65536
  BY SMT, <1>3
<1>4. CASE s = 16777216
  BY SMT, <1>4
<1> QED
  BY SMT, <1>1, <1>2, <1>3, <1>4 DEF Sizes

\* The first byte of a number in the span of a form is one of the form's codes.
LEMMA LeadByte ==
    ASSUME NEW f, Usable(f), NEW n \in Int, n \in Span(f),
           NEW c, c = f.zero + n \div Shift(f.further)
    PROVE  c \in Int /\ f.min <= c /\ c <= f.max /\ c % 256 = c /\ c \div 1 = c
<1>1. PICK s \in Sizes : s = Shift(f.further)
  BY SMT, Shifts DEF Usable, Sizes
<1>2. PICK lo \in Int, hi \in Int : lo = f.min - f.zero /\ hi = f.max - f.zero
  BY SMT DEF Usable
<1>3. lo * s <= n /\ n <= hi * s + s - 1
  <2>1. n \in lo * s .. hi * s + s - 1
    BY <1>1, <1>2 DEF Span
  <2>2. s \in Int /\ lo * s \in Int /\ hi * s \in Int
    BY SMT DEF Sizes
  <2> QED
    BY SMT, <2>1, <2>2
<1>4. PICK q \in Int : q = n \div s /\ lo <= q /\ q <= hi
  BY <1>3, Quotient
<1>5. c = f.zero + q /\ c \in Int /\ f.min <= c /\ c <= f.max /\ 0 <= c /\ c < 256
  BY SMT, <1>1, <1>2, <1>4 DEF Usable
<1> QED
  BY SMT, <1>5

\* A compact form, byte by byte.
LEMMA WrittenBytes ==
    ASSUME NEW f, Usable(f), NEW n \in Int, n \in Span(f)
    PROVE  /\ Written(f, n) \in Seq(Atom) /\ Len(Written(f, n)) = 1 + f.further
           /\ Written(f, n)[1] = f.zero + n \div Shift(f.further)
           /\ \A i \in 1 .. f.further : Written(f, n)[1 + i] = Low(n, f.further)[i]
<1> DEFINE c == f.zero + n \div Shift(f.further)
           h == Low(c, 1)
           s == Low(n, f.further)
<1>1. c \in Int /\ c % 256 = c /\ c \div 1 = c
  BY LeadByte
<1>2. h \in Seq(Atom) /\ Len(h) = 1 /\ h[1] = c
  <2>1. h \in Seq(Atom) /\ Len(h) = 1 /\ h[1] = (c \div Shift(1 - 1)) % 256
    BY <1>1, LowBytes
  <2>2. 1 - 1 = 0
    OBVIOUS
  <2> QED
    BY <1>1, <2>1, <2>2, Shifts
<1>3. f.further \in 0 .. 4 /\ f.further \in Nat
  BY DEF Usable
<1>4. s \in Seq(Atom) /\ Len(s) = f.further
  BY <1>3, LowBytes
<1>5. Written(f, n) = h \o s
  BY DEF Written
<1> HIDE DEF h, s, c
<1>6. /\ h \o s \in Seq(Atom) /\ Len(h \o s) = 1 + f.further
      /\ \A i \in 1 .. 1 + f.further :
             (h \o s)[i] = IF i <= 1 THEN h[i] ELSE s[i - 1]
  <2>1. /\ h \o s \in Seq(Atom) /\ Len(h \o s) = Len(h) + Len(s)
        /\ \A i \in 1 .. Len(h) + Len(s) :
               (h \o s)[i] = IF i <= Len(h) THEN h[i] ELSE s[i - Len(h)]
    BY <1>2, <1>4, ConcatProperties
  <2> QED
    BY <1>2, <1>4, <2>1
<1>7. (h \o s)[1] = c
  BY <1>2, <1>3, <1>6
<1>8. ASSUME NEW i \in 1 .. f.further PROVE (h \o s)[1 + i] = s[i]
  <2>1. 1 + i \in 1 .. 1 + f.further /\ ~(1 + i <= 1) /\ 1 + i - 1 = i
    BY <1>3
  <2> QED
    BY <1>6, <2>1
<1> QED
  BY <1>5, <1>6, <1>7, <1>8 DEF s, c

\* LeftShift of the code and the further bytes gives the number back.
LEMMA ReadWritten ==
    ASSUME NEW f, Usable(f), NEW n \in Int, n \in Span(f), NEW a,
           \A i \in 1 .. 1 + f.further : a[i] = Written(f, n)[i]
    PROVE  Read(f, a) = n
<1> DEFINE k == f.further
           q == n \div Shift(k)
<1>1. k \in {0, 1, 2} /\ f.zero \in Int
  BY DEF Usable
<1>2. a[1] = f.zero + q
  BY <1>1, WrittenBytes
<1>3. ASSUME NEW i \in 1 .. k PROVE a[1 + i] = (n \div Shift(k - i)) % 256
  <2>1. k \in 0 .. 4 /\ 1 + i \in 1 .. 1 + k
    BY <1>1
  <2>2. a[1 + i] = Low(n, k)[i]
    BY <2>1, WrittenBytes
  <2> QED
    BY <2>1, <2>2, LowBytes
<1>4. Read(f, a) = (a[1] - f.zero) * Shift(k) + Unsigned(a, 1, k)
  BY DEF Read
<1>5. CASE k = 0
  <2>1. q = n /\ Shift(k) = 1
    BY SMT, <1>5, Shifts
  <2>2. Unsigned(a, 1, k) = 0
    BY <1>5 DEF Unsigned
  <2> HIDE DEF q, k
  <2> QED
    BY SMT, <1>1, <1>2, <1>4, <2>1, <2>2
<1>6. CASE k = 1
  <2>1. q = n \div 256 /\ Shift(k) = 256
    BY SMT, <1>6, Shifts
  <2>2. Unsigned(a, 1, k) = a[1 + 1]
    BY <1>6 DEF Unsigned
  <2>3. a[1 + 1] = (n \div Shift(1 - 1)) % 256
    BY <1>3, <1>6
  <2>4. a[1 + 1] = n % 256
    BY SMT, <2>3, Shifts
  <2> HIDE DEF q, k
  <2> QED
    BY SMT, <1>1, <1>2, <1>4, <2>1, <2>2, <2>4, Split
<1>7. CASE k = 2
  <2>1. q = n \div 65536 /\ Shift(k) = 65536
    BY SMT, <1>7, Shifts
  <2>2. Unsigned(a, 1, k) = a[1 + 1] * 256 + a[1 + 2]
    BY <1>7 DEF Unsigned
  <2>3. a[1 + 1] = (n \div Shift(2 - 1)) % 256 /\ a[1 + 2] = (n \div Shift(2 - 2)) % 256
    BY <1>3, <1>7
  <2>4. a[1 + 1] = (n \div 256) % 256 /\ a[1 + 2] = n % 256
    BY SMT, <2>3, Shifts
  <2> HIDE DEF q, k
  <2>5. (n \div 65536) * 65536 + (((n \div 256) % 256) * 256 + (n % 256)) = n
    BY SMT
  <2>6. (a[1] - f.zero) * 65536 = (n \div 65536) * 65536
    BY SMT, <1>1, <1>2, <2>1
  <2> QED
    BY SMT, <1>4, <2>1, <2>2, <2>4, <2>5, <2>6
<1> QED
  BY <1>1, <1>5, <1>6, <1>7

\* The table of a decoder gives the form of a byte.
LEMMA TheForm ==
    ASSUME NEW forms, NEW f \in forms, NEW b, f.further \in Int,
           \A g \in forms : g.min <= b /\ b <= g.max <=> g = f
    PROVE  FormsFor(forms, b) # {} /\ FormFor(forms, b) = f
<1>1. FormsFor(forms, b) = {f}
  BY DEF FormsFor
<1>2. FormFor(forms, b) = CHOOSE g \in {f} : \A h \in {f} : g.further <= h.further
  BY <1>1 DEF FormFor
<1>3. f.further <= f.further
  OBVIOUS
<1> QED
  BY <1>1, <1>2, <1>3

LEMMA IntCodeForm ==
    ASSUME NEW f \in IntCodes, NEW b \in Int, f.min <= b, b <= f.max
    PROVE  FormsFor(IntCodes, b) # {} /\ FormFor(IntCodes, b) = f
<1>1. \A g \in IntCodes : g.min <= b /\ b <= g.max <=> g = f
  BY SMT DEF IntCodes, Compact
<1>2. f.further \in Int
  BY CodesUsable DEF Usable
<1> QED
  BY <1>1, <1>2, TheForm

LEMMA LongCodeForm ==
    ASSUME NEW f \in LongCodes, NEW b \in Int, f.min <= b, b <= f.max
    PROVE  FormsFor(LongCodes, b) # {} /\ FormFor(LongCodes, b) = f
<1>1. \A g \in LongCodes : g.min <= b /\ b <= g.max <=> g = f
  BY SMT DEF LongCodes, Compact
<1>2. f.further \in Int
  BY CodesUsable DEF Usable
<1> QED
  BY <1>1, <1>2, TheForm

LEMMA NoIntForm ==
    ASSUME NEW b \in Int, ~(128 <= b /\ b <= 215)
    PROVE  FormsFor(IntCodes, b) = {}
BY SMT DEF FormsFor, IntCodes, Compact

LEMMA NoLongForm ==
    ASSUME NEW b \in Int, ~(56 <= b /\ b <= 63), ~(216 <= b /\ b <= 255)
    PROVE  FormsFor(LongCodes, b) = {}
BY SMT DEF FormsFor, LongCodes, Compact

\* A compact form whose first bytes a decoder finds in its table.
LEMMA CompactDecoded ==
    ASSUME NEW f, Usable(f), NEW n \in Int, n \in Span(f), NEW w, w = Written(f, n),
           NEW a \in Seq(Atom), Agrees(a, w)
    PROVE  /\ w \in Seq(Atom) /\ Len(w) >= 1
           /\ w[1] \in Int /\ f.min <= w[1] /\ w[1] <= f.max
           /\ CodeOf(a) = w[1] /\ a[1] = w[1]
           /\ Gives(a, w, f.further, Read(f, a), n)
<1>1. f.further \in Nat
  BY DEF Usable
<1>2. /\ w \in Seq(Atom) /\ Len(w) = 1 + f.further
      /\ w[1] = f.zero + n \div Shift(f.further)
  BY WrittenBytes
<1>3. w[1] \in Int /\ f.min <= w[1] /\ w[1] <= f.max
  BY <1>2, LeadByte
<1>4. Len(w) >= 1
  BY <1>1, <1>2
<1>5. CodeOf(a) = w[1] /\ a[1] = w[1] /\ (~(Len(a) < Len(w)) => \A i \in 1 .. Len(w) : a[i] = w[i])
  BY <1>2, <1>4, Agreeing
<1>6. ASSUME NEW v, NEW x, Read(f, a) = n => x = v
      PROVE  After(a, f.further, x) = Outcome(a, w, v)
  <2>1. ~(Len(a) < Len(w)) => Read(f, a) = n
    BY <1>2, <1>5, ReadWritten
  <2> QED
    BY <1>1, <1>2, <1>6, <2>1, AfterAgreeing
<1>7. Gives(a, w, f.further, Read(f, a), n)
  BY <1>6 DEF Gives
<1> QED
  BY <1>2, <1>3, <1>4, <1>5, <1>7

\* n is a number of k bytes.
Wide(n, k) ==
    \/ k = 1 /\ n \in Int8
    \/ k = 2 /\ n \in Int16
    \/ k = 4 /\ n \in Int32

Coded(w, c, n, k) == w = <<c>> \o Low(n, k)

\* A code and the k bytes of a number.
LEMMA BytesDecoded ==
    ASSUME NEW c \in 0 .. 255, NEW n \in Int, NEW k \in 0 .. 4, Wide(n, k),
           NEW w, Coded(w, c, n, k), NEW a \in Seq(Atom), Agrees(a, w)
    PROVE  /\ w \in Seq(Atom) /\ Len(w) >= 1 /\ w[1] = c
           /\ CodeOf(a) = c /\ a[1] = c
           /\ Gives(a, w, k, Signed(a, 1, k), n)
<1>1. /\ w \in Seq(Atom) /\ Len(w) = 1 + k /\ w[1] = c
      /\ \A i \in 1 .. k : w[1 + i] = Low(n, k)[i]
  BY FramedLow DEF Coded
<1>2. Len(w) >= 1
  BY <1>1
<1>3. CodeOf(a) = c /\ a[1] = c /\ (~(Len(a) < Len(w)) => \A i \in 1 .. Len(w) : a[i] = w[i])
  BY <1>1, <1>2, Agreeing
<1>4. ASSUME ~(Len(a) < Len(w)) PROVE Signed(a, 1, k) = n
  <2>1. ASSUME NEW i \in 1 .. k PROVE a[1 + i] = Low(n, k)[i]
    <3>1. 1 + i \in 1 .. Len(w)
      BY <1>1
    <3> QED
      BY <1>1, <1>3, <1>4, <3>1
  <2>2. CASE k = 1 /\ n \in Int8
    <3>1. 1 \in 1 .. 1 /\ 1 \in Nat
      OBVIOUS
    <3>2. a[1 + 1] = Low(n, 1)[1]
      BY <2>1, <2>2, <3>1
    <3> QED
      BY SMT, <2>2, <3>1, <3>2, SignedLow1 DEF Int8
  <2>3. CASE k = 2 /\ n \in Int16
    <3>1. a[1 + 1] = Low(n, 2)[1] /\ a[1 + 2] = Low(n, 2)[2]
      BY <2>1, <2>3
    <3> QED
      BY SMT, <2>3, <3>1, SignedLow2 DEF Int16
  <2>4. CASE k = 4 /\ n \in Int32
    <3>1. \A i \in 1 .. 4 : a[1 + i] = Low(n, 4)[i]
      BY <2>1, <2>4
    <3>2. 1 \in Nat
      OBVIOUS
    <3> QED
      BY <2>4, <3>1, <3>2, SignedLow4
  <2> QED
    BY SMT, <2>2, <2>3, <2>4 DEF Wide
<1>5. ASSUME NEW v, NEW x, Signed(a, 1, k) = n => x = v
      PROVE  After(a, k, x) = Outcome(a, w, v)
  <2>1. ~(Len(a) < Len(w)) => x = v
    BY <1>4, <1>5
  <2>2. k \in Nat /\ a \in Seq(Atom) /\ w \in Seq(Atom) /\ Len(w) = 1 + k
    BY <1>1
  <2> QED
    BY ONLY <2>1, <2>2, AfterAgreeing
<1>6. Gives(a, w, k, Signed(a, 1, k), n)
  BY <1>5 DEF Gives
<1> QED
  BY <1>1, <1>2, <1>3, <1>6

\* Every form of an int32_t decodes to it (decode<int32_t>).
LEMMA IntDecoded ==
    ASSUME NEW n \in Int32, NEW w, IntForm(IntOf(n), w), NEW a \in Seq(Atom), Agrees(a, w)
    PROVE  /\ w \in Seq(Atom) /\ Len(w) >= 1
           /\ w[1] \in BytesOf("int") /\ DecodeInt(a) = Outcome(a, w, IntOf(n))
<1>0. IntOf(n).lo = n /\ n \in Int
  BY Int32IsInt DEF IntOf, Value
<1>1. CASE w = <<73>> \o Low(n, 4)
  <2>1. PICK c \in 0 .. 255, k \in 0 .. 4 : c = 73 /\ k = 4
    OBVIOUS
  <2>2. Wide(n, k)
    BY <2>1 DEF Wide
  <2>3. Coded(w, c, n, k)
    BY <1>1, <2>1 DEF Coded
  <2>4. /\ w \in Seq(Atom) /\ Len(w) >= 1 /\ w[1] = c /\ CodeOf(a) = c
        /\ Gives(a, w, k, Signed(a, 1, k), n)
    <3>1. c \in 0 .. 255 /\ n \in Int /\ k \in 0 .. 4 /\ a \in Seq(Atom) /\ Agrees(a, w)
      BY <1>0
    <3> QED
      BY ONLY <2>2, <2>3, <3>1, BytesDecoded
  <2>5. After(a, k, IntOf(Signed(a, 1, k))) = Outcome(a, w, IntOf(n))
    BY <2>4 DEF Gives
  <2>6. w[1] \in BytesOf("int")
    BY <2>1, <2>4, BytesFacts
  <2> QED
    BY <2>1, <2>4, <2>5, <2>6 DEF DecodeInt
<1>2. CASE \E f \in IntCodes : n \in Span(f) /\ w = Written(f, n)
  <2>1. PICK f \in IntCodes : n \in Span(f) /\ w = Written(f, n)
    BY <1>2
  <2>2. Usable(f) /\ 128 <= f.min /\ f.max <= 215
    BY <2>1, CodesUsable
  <2>3. /\ w \in Seq(Atom) /\ Len(w) >= 1
        /\ w[1] \in Int /\ f.min <= w[1] /\ w[1] <= f.max
        /\ CodeOf(a) = w[1] /\ a[1] = w[1]
        /\ Gives(a, w, f.further, Read(f, a), n)
    BY <1>0, <2>1, <2>2, CompactDecoded
  <2>4. FormsFor(IntCodes, CodeOf(a)) # {} /\ FormFor(IntCodes, a[1]) = f
    BY <2>1, <2>3, IntCodeForm
  <2>5. CodeOf(a) # 73 /\ 128 <= w[1] /\ w[1] <= 215
    BY <2>2, <2>3 DEF Usable
  <2>6. w[1] \in BytesOf("int")
    BY <2>3, <2>5, BytesFacts
  <2>7. After(a, f.further, IntOf(Read(f, a))) = Outcome(a, w, IntOf(n))
    BY <2>3 DEF Gives
  <2> QED
    BY <2>3, <2>4, <2>5, <2>6, <2>7 DEF DecodeInt
<1> QED
  BY <1>0, <1>1, <1>2 DEF IntForm

LongCoded(w, hi, lo) == w = <<76>> \o Low(hi, 4) \o Low(lo, 4)

\* Eight bytes: the halves one after the other.
LEMMA LongBytes ==
    ASSUME NEW hi \in Int32, NEW lo \in Int32, NEW w, LongCoded(w, hi, lo),
           NEW a \in Seq(Atom), Agrees(a, w)
    PROVE  /\ w \in Seq(Atom) /\ Len(w) = 9 /\ CodeOf(a) = 76 /\ w[1] = 76
           /\ ~(Len(a) < Len(w)) => Signed(a, 1, 4) = hi /\ Signed(a, 5, 4) = lo
<1> DEFINE h == <<76>> \o Low(hi, 4)
           l == Low(lo, 4)
<1>0. hi \in Int /\ lo \in Int
  BY Int32IsInt
<1>1. PICK c \in 0 .. 255, k \in 0 .. 4 : c = 76 /\ k = 4
  OBVIOUS
<1>2. /\ h \in Seq(Atom) /\ Len(h) = 1 + k /\ h[1] = c
      /\ \A i \in 1 .. k : h[1 + i] = Low(hi, k)[i]
  <2>1. h = <<c>> \o Low(hi, k)
    BY <1>1
  <2> HIDE DEF h
  <2>2. hi \in Int /\ c \in 0 .. 255 /\ k \in 0 .. 4
    BY <1>0
  <2> QED
    BY ONLY <2>1, <2>2, FramedLow
<1>3. l \in Seq(Atom) /\ Len(l) = 4
  BY <1>0, LowBytes
<1>4. w = h \o l
  BY DEF LongCoded
<1>5. Len(h) = 5
  BY <1>1, <1>2
<1> HIDE DEF h, l
<1>6. /\ h \o l \in Seq(Atom) /\ Len(h \o l) = Len(h) + Len(l)
      /\ \A i \in 1 .. Len(h) + Len(l) :
             (h \o l)[i] = IF i <= Len(h) THEN h[i] ELSE l[i - Len(h)]
  BY <1>2, <1>3, ConcatProperties
<1>7. w \in Seq(Atom) /\ Len(w) = 9 /\ \A i \in 1 .. 9 : w[i] = IF i <= 5 THEN h[i] ELSE l[i - 5]
  <2>1. Len(h) + Len(l) = 9
    BY <1>3, <1>5
  <2>2. w \in Seq(Atom) /\ Len(w) = 9
    BY <1>4, <1>6, <2>1
  <2>3. ASSUME NEW i \in 1 .. 9 PROVE w[i] = IF i <= 5 THEN h[i] ELSE l[i - 5]
    BY <1>4, <1>5, <1>6, <2>1
  <2> QED
    BY <2>2, <2>3
<1>8. w[1] = 76
  BY <1>1, <1>2, <1>7
<1>9. CodeOf(a) = 76 /\ (~(Len(a) < Len(w)) => \A i \in 1 .. 9 : a[i] = w[i])
  <2>1. Len(w) >= 1
    BY <1>7
  <2>2. CodeOf(a) = w[1] /\ (~(Len(a) < Len(w)) => \A i \in 1 .. Len(w) : a[i] = w[i])
    BY ONLY <1>7, <2>1, Agreeing, a \in Seq(Atom), Agrees(a, w)
  <2> QED
    BY <1>7, <1>8, <2>2
<1>10. ASSUME ~(Len(a) < Len(w)) PROVE Signed(a, 1, 4) = hi /\ Signed(a, 5, 4) = lo
  <2>1. ASSUME NEW j \in 1 .. 4 PROVE a[1 + j] = Low(hi, 4)[j]
    <3>1. PICK i \in 1 .. 9 : i = 1 + j /\ i <= 5
      OBVIOUS
    <3>2. a[i] = h[i]
      BY <1>7, <1>9, <1>10, <3>1
    <3> QED
      BY <1>1, <1>2, <3>1, <3>2
  <2>2. ASSUME NEW j \in 1 .. 4 PROVE a[5 + j] = Low(lo, 4)[j]
    <3>1. PICK i \in 1 .. 9 : i = 5 + j /\ ~(i <= 5) /\ i - 5 = j
      OBVIOUS
    <3>2. a[i] = l[j]
      BY <1>7, <1>9, <1>10, <3>1
    <3> QED
      BY <3>1, <3>2 DEF l
  <2>3. 1 \in Nat /\ 5 \in Nat
    OBVIOUS
  <2> QED
    BY <2>1, <2>2, <2>3, SignedLow4
<1> QED
  BY <1>7, <1>8, <1>9, <1>10

\* Every form of an int64_t decodes to it (decode<int64_t>).
LEMMA LongDecoded ==
    ASSUME NEW hi \in Int32, NEW lo \in Int32, NEW v, v = LongOf(hi, lo), NEW w, LongForm(v, w),
           NEW a \in Seq(Atom), Agrees(a, w)
    PROVE  /\ w \in Seq(Atom) /\ Len(w) >= 1
           /\ w[1] \in BytesOf("long") /\ DecodeLong(a) = Outcome(a, w, v)
<1>0. v.lo = lo /\ v.hi = hi /\ lo \in Int
  BY Int32IsInt DEF LongOf, Value
<1>1. CASE w = <<76>> \o Low(hi, 4) \o Low(lo, 4)
  <2>1. /\ w \in Seq(Atom) /\ Len(w) = 9 /\ CodeOf(a) = 76 /\ w[1] = 76
        /\ ~(Len(a) < Len(w)) => Signed(a, 1, 4) = hi /\ Signed(a, 5, 4) = lo
    <3>1. LongCoded(w, hi, lo)
      BY <1>1 DEF LongCoded
    <3>2. hi \in Int32 /\ lo \in Int32 /\ a \in Seq(Atom) /\ Agrees(a, w)
      OBVIOUS
    <3> QED
      BY ONLY <3>1, <3>2, LongBytes
  <2>2. PICK k \in Nat : k = 8 /\ Len(w) = 1 + k /\ Len(w) >= 1
    BY <2>1
  <2> DEFINE x == LongOf(Signed(a, 1, 4), Signed(a, 5, 4))
  <2>3. ~(Len(a) < Len(w)) => x = v
    BY <2>1
  <2>4. DecodeLong(a) = After(a, k, x)
    BY <2>1, <2>2 DEF DecodeLong
  <2> HIDE DEF x
  <2>5. After(a, k, x) = Outcome(a, w, v)
    <3>1. a \in Seq(Atom) /\ w \in Seq(Atom) /\ k \in Nat /\ Len(w) = 1 + k
      BY <2>1, <2>2
    <3> QED
      BY ONLY <2>3, <3>1, AfterAgreeing
  <2>6. w[1] \in BytesOf("long")
    BY <2>1, BytesFacts
  <2> QED
    BY <2>1, <2>2, <2>4, <2>5, <2>6
<1>2. CASE IsNarrow(v) /\ w = <<89>> \o Low(lo, 4)
  <2>1. PICK c \in 0 .. 255, k \in 0 .. 4 : c = 89 /\ k = 4
    OBVIOUS
  <2>2. Wide(lo, k)
    BY <2>1 DEF Wide
  <2>3. Coded(w, c, lo, k)
    BY <1>2, <2>1 DEF Coded
  <2>4. /\ w \in Seq(Atom) /\ Len(w) >= 1 /\ w[1] = c /\ CodeOf(a) = c
        /\ Gives(a, w, k, Signed(a, 1, k), lo)
    <3>1. c \in 0 .. 255 /\ lo \in Int /\ k \in 0 .. 4 /\ a \in Seq(Atom) /\ Agrees(a, w)
      BY <1>0
    <3> QED
      BY ONLY <2>2, <2>3, <3>1, BytesDecoded
  <2>5. After(a, k, Widen(Signed(a, 1, k))) = Outcome(a, w, v)
    BY <1>0, <1>2, <2>4 DEF Gives, IsNarrow
  <2>6. w[1] \in BytesOf("long")
    BY <2>1, <2>4, BytesFacts
  <2> QED
    BY <2>1, <2>4, <2>5, <2>6 DEF DecodeLong
<1>3. CASE \E f \in LongCodes : IsNarrow(v) /\ lo \in Span(f) /\ w = Written(f, lo)
  <2>1. PICK f \in LongCodes : IsNarrow(v) /\ lo \in Span(f) /\ w = Written(f, lo)
    BY <1>3
  <2>2. Usable(f) /\ ((56 <= f.min /\ f.max <= 63) \/ (216 <= f.min /\ f.max <= 255))
    BY <2>1, CodesUsable
  <2>3. /\ w \in Seq(Atom) /\ Len(w) >= 1
        /\ w[1] \in Int /\ f.min <= w[1] /\ w[1] <= f.max
        /\ CodeOf(a) = w[1] /\ a[1] = w[1]
        /\ Gives(a, w, f.further, Read(f, a), lo)
    BY <1>0, <2>1, <2>2, CompactDecoded
  <2>4. FormsFor(LongCodes, CodeOf(a)) # {} /\ FormFor(LongCodes, a[1]) = f
    BY <2>1, <2>3, LongCodeForm
  <2>5. /\ CodeOf(a) # 76 /\ CodeOf(a) # 89
        /\ (56 <= w[1] /\ w[1] <= 63) \/ (216 <= w[1] /\ w[1] <= 255)
    BY <2>2, <2>3 DEF Usable
  <2>6. w[1] \in BytesOf("long")
    BY <2>3, <2>5, BytesFacts
  <2>7. After(a, f.further, Widen(Read(f, a))) = Outcome(a, w, v)
    BY <1>0, <2>1, <2>3 DEF Gives, IsNarrow
  <2> QED
    BY <2>3, <2>4, <2>5, <2>6, <2>7 DEF DecodeLong
<1> QED
  BY <1>0, <1>1, <1>2, <1>3 DEF LongForm

\* A code alone.
LEMMA CodeDecoded ==
    ASSUME NEW c \in Int, NEW w, w = <<c>>, NEW a \in Seq(Atom), Agrees(a, w)
    PROVE  /\ w \in Seq(Atom) /\ Len(w) = 1 /\ Len(w) >= 1 /\ w[1] = c
           /\ CodeOf(a) = c /\ a[1] = c /\ a # <<>>
           /\ \A v : After(a, 0, v) = Outcome(a, w, v)
<1>1. w \in Seq(Atom) /\ Len(w) = 1 /\ w[1] = c
  BY DEF Atom
<1>2. Len(w) >= 1
  BY <1>1
<1>3. CodeOf(a) = c /\ a[1] = c /\ a # <<>>
  BY <1>1, <1>2, Agreeing
<1>4. ASSUME NEW v PROVE After(a, 0, v) = Outcome(a, w, v)
  <2>1. PICK k \in Nat : k = 0 /\ Len(w) = 1 + k
    BY <1>1
  <2>2. After(a, k, v) = Outcome(a, w, v)
    <3>1. a \in Seq(Atom) /\ w \in Seq(Atom) /\ k \in Nat /\ Len(w) = 1 + k
      BY <1>1, <2>1
    <3> QED
      BY ONLY <3>1, AfterAgreeing
  <2> QED
    BY <2>1, <2>2
<1> QED
  BY <1>1, <1>2, <1>3, <1>4

InMemory(w, v) == w = <<68>> \o Memory(v)

\* The eight bytes of a double are what was written (memcpy).
LEMMA MemoryDecoded ==
    ASSUME NEW v \in Numbers, NEW w, InMemory(w, v), NEW a \in Seq(Atom), Agrees(a, w)
    PROVE  /\ w \in Seq(Atom) /\ Len(w) >= 1 /\ w[1] = 68
           /\ CodeOf(a) = 68 /\ After(a, 8, a[2][1]) = Outcome(a, w, v)
<1> DEFINE s == Memory(v)
<1>1. s \in Seq(Atom) /\ Len(s) = 8 /\ s[1] = <<v, 1>>
  <2>1. \A i \in 1 .. 8 : <<v, i>> \in Atom
    BY DEF Atom
  <2>2. s = [i \in 1 .. 8 |-> <<v, i>>]
    BY DEF Memory
  <2> HIDE DEF s
  <2>3. s \in [1 .. 8 -> Atom]
    BY <2>1, <2>2
  <2>4. s \in Seq(Atom) /\ Len(s) = 8
    BY <2>2, <2>3
  <2> QED
    BY <2>2, <2>4
<1>2. PICK c \in Atom : c = 68
  BY DEF Atom
<1>3. w = <<c>> \o s
  BY <1>2 DEF InMemory
<1> HIDE DEF s
<1>4. /\ <<c>> \o s \in Seq(Atom) /\ Len(<<c>> \o s) = 1 + Len(s)
      /\ (<<c>> \o s)[1] = c
      /\ \A i \in 1 .. Len(s) : (<<c>> \o s)[1 + i] = s[i]
  <2>1. c \in Atom /\ s \in Seq(Atom)
    BY <1>1
  <2> QED
    BY ONLY <2>1, Framed
<1>5. PICK k \in Nat : k = 8 /\ Len(w) = 1 + k /\ Len(w) >= 1 /\ Len(w) = 9
  BY <1>1, <1>3, <1>4
<1>6. w \in Seq(Atom) /\ w[1] = 68 /\ w[1 + 1] = <<v, 1>>
  <2>1. PICK i \in 1 .. Len(s) : i = 1
    BY <1>1
  <2>2. w[1 + i] = s[i]
    BY <1>3, <1>4, <2>1
  <2> QED
    BY <1>1, <1>2, <1>3, <1>4, <2>1, <2>2
<1>7. CodeOf(a) = w[1] /\ (~(Len(a) < Len(w)) => \A i \in 1 .. Len(w) : a[i] = w[i])
  <2>1. a \in Seq(Atom) /\ Agrees(a, w)
    OBVIOUS
  <2> QED
    BY ONLY <1>5, <1>6, <2>1, Agreeing
<1>8. ~(Len(a) < Len(w)) => a[2][1] = v
  <2>1. w[2] = <<v, 1>> /\ 2 \in 1 .. Len(w)
    BY <1>5, <1>6
  <2> QED
    BY <1>7, <2>1
<1>9. After(a, k, a[2][1]) = Outcome(a, w, v)
  <2>1. a \in Seq(Atom) /\ w \in Seq(Atom) /\ k \in Nat /\ Len(w) = 1 + k
    BY <1>5, <1>6
  <2> QED
    BY ONLY <1>8, <2>1, AfterAgreeing
<1> QED
  BY <1>5, <1>6, <1>7, <1>9

\* Every form of a double decodes to it (decode<double>).
LEMMA DoubleDecoded ==
    ASSUME NEW v, IsNumber(v), IsDouble(v), NEW w, DoubleForm(v, w),
           NEW a \in Seq(Atom), Agrees(a, w)
    PROVE  /\ w \in Seq(Atom) /\ Len(w) >= 1
           /\ w[1] \in BytesOf("double") /\ DecodeDouble(a) = Outcome(a, w, v)
<1> DEFINE n == v.lo
<1>0. /\ n \in Int32 /\ n \in Int /\ v = Value(v.kind, 0, n)
      /\ v.kind = "double" => v = DoubleOf(n)
  <2>1. v.kind # "long"
    BY DEF IsDouble, OtherDoubles
  <2>2. v.hi = 0 /\ v = Value(v.kind, v.hi, v.lo) /\ v.lo \in Int32
    BY <2>1 DEF IsNumber
  <2> QED
    BY <2>2, Int32IsInt DEF DoubleOf
<1>a. a \in Seq(Atom) /\ Agrees(a, w)
  OBVIOUS
<1> HIDE DEF n
<1>1. CASE v \in Numbers /\ w = <<68>> \o Memory(v)
  <2>1. /\ w \in Seq(Atom) /\ Len(w) >= 1 /\ w[1] = 68
        /\ CodeOf(a) = 68 /\ After(a, 8, a[2][1]) = Outcome(a, w, v)
    <3>1. v \in Numbers /\ InMemory(w, v)
      BY <1>1 DEF InMemory
    <3> QED
      BY ONLY <3>1, <1>a, MemoryDecoded
  <2>2. DecodeDouble(a) = After(a, 8, a[2][1])
    BY <2>1 DEF DecodeDouble
  <2> QED
    BY <2>1, <2>2, BytesFacts
<1>2. CASE v.kind = "thousandths" /\ w = <<95>> \o Low(n, 4)
  <2>1. PICK c \in 0 .. 255, k \in 0 .. 4 : c = 95 /\ k = 4
    OBVIOUS
  <2>2. Wide(n, k) /\ Coded(w, c, n, k)
    BY <1>0, <1>2, <2>1 DEF Wide, Coded
  <2>3. /\ w \in Seq(Atom) /\ Len(w) >= 1 /\ w[1] = c /\ CodeOf(a) = c
        /\ Gives(a, w, k, Signed(a, 1, k), n)
    BY ONLY <1>0, <1>a, <2>2, BytesDecoded, c \in 0 .. 255, k \in 0 .. 4
  <2>4. After(a, k, Value("thousandths", 0, Signed(a, 1, k))) = Outcome(a, w, v)
    BY <1>0, <1>2, <2>3 DEF Gives
  <2>5. DecodeDouble(a) = After(a, k, Value("thousandths", 0, Signed(a, 1, k)))
    BY <2>1, <2>3 DEF DecodeDouble
  <2> QED
    BY <2>1, <2>3, <2>4, <2>5, BytesFacts
<1>3. CASE v.kind = "double" /\ n \in {0, 1} /\ w = <<91 + n>>
  <2>1. PICK c \in Int : c = 91 + n /\ w = <<c>>
    BY <1>0, <1>3
  <2>2. /\ w \in Seq(Atom) /\ Len(w) >= 1 /\ w[1] = c /\ CodeOf(a) = c
        /\ \A x : After(a, 0, x) = Outcome(a, w, x)
    BY <1>a, <2>1, CodeDecoded
  <2>3. DecodeDouble(a) = After(a, 0, DoubleOf(n))
    <3>1. CASE n = 0
      BY <2>1, <2>2, <3>1 DEF DecodeDouble
    <3>2. CASE n = 1
      BY <2>1, <2>2, <3>2 DEF DecodeDouble
    <3> QED
      BY <1>3, <3>1, <3>2
  <2>4. c \in BytesOf("double")
    BY <1>3, <2>1, BytesFacts
  <2> QED
    BY <1>0, <1>3, <2>2, <2>3, <2>4
<1>4. CASE v.kind = "double" /\ n \in Int8 /\ w = <<93>> \o Low(n, 1)
  <2>1. PICK c \in 0 .. 255, k \in 0 .. 4 : c = 93 /\ k = 1
    OBVIOUS
  <2>2. Wide(n, k) /\ Coded(w, c, n, k)
    BY <1>0, <1>4, <2>1 DEF Wide, Coded
  <2>3. /\ w \in Seq(Atom) /\ Len(w) >= 1 /\ w[1] = c /\ CodeOf(a) = c
        /\ Gives(a, w, k, Signed(a, 1, k), n)
    BY ONLY <1>0, <1>a, <2>2, BytesDecoded, c \in 0 .. 255, k \in 0 .. 4
  <2>4. After(a, k, DoubleOf(Signed(a, 1, k))) = Outcome(a, w, v)
    BY <1>0, <1>4, <2>3 DEF Gives
  <2>5. DecodeDouble(a) = After(a, k, DoubleOf(Signed(a, 1, k)))
    BY <2>1, <2>3 DEF DecodeDouble
  <2> QED
    BY <2>1, <2>3, <2>4, <2>5, BytesFacts
<1>5. CASE v.kind = "double" /\ n \in Int16 /\ w = <<94>> \o Low(n, 2)
  <2>1. PICK c \in 0 .. 255, k \in 0 .. 4 : c = 94 /\ k = 2
    OBVIOUS
  <2>2. Wide(n, k) /\ Coded(w, c, n, k)
    BY <1>0, <1>5, <2>1 DEF Wide, Coded
  <2>3. /\ w \in Seq(Atom) /\ Len(w) >= 1 /\ w[1] = c /\ CodeOf(a) = c
        /\ Gives(a, w, k, Signed(a, 1, k), n)
    BY ONLY <1>0, <1>a, <2>2, BytesDecoded, c \in 0 .. 255, k \in 0 .. 4
  <2>4. After(a, k, DoubleOf(Signed(a, 1, k))) = Outcome(a, w, v)
    BY <1>0, <1>5, <2>3 DEF Gives
  <2>5. DecodeDouble(a) = After(a, k, DoubleOf(Signed(a, 1, k)))
    BY <2>1, <2>3 DEF DecodeDouble
  <2> QED
    BY <2>1, <2>3, <2>4, <2>5, BytesFacts
<1> QED
  BY <1>1, <1>2, <1>3, <1>4, <1>5 DEF DoubleForm, n

-----------------------------------------------------------------------------
(* The dispatch on the first byte *)

Types == {"int", "long", "double", "bool", "null"}

LEMMA BoolDecoded ==
    ASSUME NEW v, v = Bool(0) \/ v = Bool(1), NEW w, w = <<IF v.lo = 1 THEN 84 ELSE 70>>,
           NEW a \in Seq(Atom), Agrees(a, w)
    PROVE  /\ w \in Seq(Atom) /\ Len(w) >= 1
           /\ w[1] \in BytesOf("bool") /\ DecodeBool(a) = Outcome(a, w, v)
<1>1. (v.lo = 0 /\ v = Bool(0)) \/ (v.lo = 1 /\ v = Bool(1))
  <2>1. Bool(0).lo = 0 /\ Bool(1).lo = 1
    BY DEF Bool, Value
  <2>2. v = Bool(0) \/ v = Bool(1)
    OBVIOUS
  <2> QED
    BY ONLY <2>1, <2>2
<1>2. PICK c \in Int : w = <<c>> /\ ((c = 70 /\ v = Bool(0)) \/ (c = 84 /\ v = Bool(1)))
  BY <1>1
<1>3. /\ w \in Seq(Atom) /\ Len(w) >= 1 /\ w[1] = c /\ CodeOf(a) = c
      /\ \A x : After(a, 0, x) = Outcome(a, w, x)
  <2>1. a \in Seq(Atom) /\ Agrees(a, w)
    OBVIOUS
  <2> QED
    BY ONLY <1>2, <2>1, CodeDecoded
<1>4. DecodeBool(a) = After(a, 0, v)
  BY <1>2, <1>3 DEF DecodeBool
<1> QED
  BY <1>2, <1>3, <1>4, BytesFacts

LEMMA NullDecoded ==
    ASSUME NEW w, w = << 78 >>, NEW a \in Seq(Atom), Agrees(a, w)
    PROVE  /\ w \in Seq(Atom) /\ Len(w) >= 1
           /\ w[1] \in BytesOf("null") /\ DecodeNull(a) = Outcome(a, w, NullOb)
<1>1. PICK c \in Int : c = 78 /\ w = <<c>>
  OBVIOUS
<1>2. /\ w \in Seq(Atom) /\ Len(w) >= 1 /\ w[1] = c /\ a # <<>>
      /\ \A x : After(a, 0, x) = Outcome(a, w, x)
  <2>1. a \in Seq(Atom) /\ Agrees(a, w)
    OBVIOUS
  <2> QED
    BY ONLY <1>1, <2>1, CodeDecoded
<1> QED
  BY <1>1, <1>2, BytesFacts DEF DecodeNull

\* The first bytes of two types are different.
LEMMA Disjoint ==
    ASSUME NEW t \in Types, NEW u \in Types, t # u, NEW b, b \in BytesOf(t)
    PROVE  b \notin BytesOf(u)
BY SMT, BytesFacts DEF Types

LEMMA SomeBytes ==
    ASSUME NEW b
    PROVE  /\ b \in (56 .. 63) \cup (216 .. 239) \cup (240 .. 255) \cup {89, 76}
                  <=> b \in BytesOf("long")
           /\ b \in (128 .. 191) \cup (192 .. 207) \cup (208 .. 215) \cup {73}
                  <=> b \in BytesOf("int")
           /\ b \in (91 .. 95) \cup {68} <=> b \in BytesOf("double")
           /\ b \in {70, 84} <=> b \in BytesOf("bool")
           /\ b = 78 <=> b \in BytesOf("null")
<1>1. b \in 216 .. 255 <=> b \in 216 .. 239 \/ b \in 240 .. 255
  BY SMT
<1>2. b \in 128 .. 215 <=> b \in 128 .. 191 \/ b \in 192 .. 207 \/ b \in 208 .. 215
  BY SMT
<1> QED
  BY SMT, <1>1, <1>2 DEF BytesOf

\* decode<Object> peeks at the first byte and calls the decode of its type.
LEMMA Dispatch ==
    ASSUME NEW a, a # <<>>, NEW t \in Types, a[1] \in BytesOf(t)
    PROVE  DecodeObject(a) = DecodeAs(t, a)
<1> DEFINE b == a[1]
           doubles == (91 .. 95) \cup {68}
           longs == (56 .. 63) \cup (216 .. 239) \cup (240 .. 255) \cup {89, 76}
           ints == (128 .. 191) \cup (192 .. 207) \cup (208 .. 215) \cup {73}
<1>1. DecodeObject(a) =
          CASE b = 78          -> DecodeNull(a)
            [] b \in {70, 84}  -> DecodeBool(a)
            [] b \in doubles   -> DecodeDouble(a)
            [] b \in longs     -> DecodeLong(a)
            [] b \in ints      -> DecodeInt(a)
            [] OTHER           -> Nothing(0)
  BY DEF DecodeObject
<1>2. /\ b \in doubles <=> b \in BytesOf("double")
      /\ b \in longs <=> b \in BytesOf("long")
      /\ b \in ints <=> b \in BytesOf("int")
      /\ b \in {70, 84} <=> b \in BytesOf("bool")
      /\ b = 78 <=> b \in BytesOf("null")
  BY SomeBytes
<1>6. b \in BytesOf(t)
  OBVIOUS
<1> HIDE DEF b, doubles, longs, ints
<1>3. ASSUME NEW u \in Types, u # t PROVE b \notin BytesOf(u)
  BY <1>6, <1>3, Disjoint
<1>7. CASE t = "null"
  <2>1. b = 78 /\ b \notin {70, 84} /\ b \notin doubles /\ b \notin longs /\ b \notin ints
    BY <1>2, <1>3, <1>6, <1>7 DEF Types
  <2>2. DecodeObject(a) = DecodeNull(a)
    BY ONLY <1>1, <2>1
  <2>3. DecodeAs(t, a) = DecodeNull(a)
    BY <1>7 DEF DecodeAs
  <2> QED
    BY <2>2, <2>3
<1>8. CASE t = "bool"
  <2>1. b \in {70, 84} /\ b # 78 /\ b \notin doubles /\ b \notin longs /\ b \notin ints
    BY <1>2, <1>3, <1>6, <1>8 DEF Types
  <2>2. DecodeObject(a) = DecodeBool(a)
    BY ONLY <1>1, <2>1
  <2>3. DecodeAs(t, a) = DecodeBool(a)
    BY <1>8 DEF DecodeAs
  <2> QED
    BY <2>2, <2>3
<1>9. CASE t = "double"
  <2>1. b \in doubles /\ b # 78 /\ b \notin {70, 84} /\ b \notin longs /\ b \notin ints
    BY <1>2, <1>3, <1>6, <1>9 DEF Types
  <2>2. DecodeObject(a) = DecodeDouble(a)
    BY ONLY <1>1, <2>1
  <2>3. DecodeAs(t, a) = DecodeDouble(a)
    BY <1>9 DEF DecodeAs
  <2> QED
    BY <2>2, <2>3
<1>10. CASE t = "long"
  <2>1. b \in longs /\ b # 78 /\ b \notin {70, 84} /\ b \notin doubles /\ b \notin ints
    BY <1>2, <1>3, <1>6, <1>10 DEF Types
  <2>2. DecodeObject(a) = DecodeLong(a)
    BY ONLY <1>1, <2>1
  <2>3. DecodeAs(t, a) = DecodeLong(a)
    BY <1>10 DEF DecodeAs
  <2> QED
    BY <2>2, <2>3
<1>11. CASE t = "int"
  <2>1. b \in ints /\ b # 78 /\ b \notin {70, 84} /\ b \notin doubles /\ b \notin longs
    BY <1>2, <1>3, <1>6, <1>11 DEF Types
  <2>2. DecodeObject(a) = DecodeInt(a)
    BY ONLY <1>1, <2>1
  <2>3. DecodeAs(t, a) = DecodeInt(a)
    BY <1>11 DEF DecodeAs
  <2> QED
    BY <2>2, <2>3
<1> QED
  BY <1>7, <1>8, <1>9, <1>10, <1>11 DEF Types

\* A value is not read by the decode of another type (decode<T>, except of
\* NullObject, which only asserts the code).
LEMMA OthersRefused ==
    ASSUME NEW a, NEW u \in Types \ {"null"}, a = <<>> \/ (a[1] \in Int /\ a[1] \notin BytesOf(u))
    PROVE  DecodeAs(u, a).value = Null
<1> DEFINE c == CodeOf(a)
<1>1. c \in Int /\ c \notin BytesOf(u)
  <2>1. CASE a = <<>>
    <3>1. c = 0
      BY <2>1 DEF CodeOf
    <3> QED
      BY SMT, <3>1, BytesFacts DEF Types
  <2>2. CASE a # <<>>
    BY <2>2 DEF CodeOf
  <2> QED
    BY <2>1, <2>2
<1> HIDE DEF c
<1>2. Refused(a).value = Null
  BY DEF Refused, Nothing
<1>3. CASE u = "int"
  <2>1. c # 73 /\ ~(128 <= c /\ c <= 215)
    BY <1>1, <1>3, BytesFacts
  <2>2. FormsFor(IntCodes, c) = {}
    BY <1>1, <2>1, NoIntForm
  <2>3. DecodeInt(a) = Refused(a)
    BY <2>1, <2>2 DEF DecodeInt, c
  <2> QED
    BY <1>2, <1>3, <2>3 DEF DecodeAs
<1>4. CASE u = "long"
  <2>1. c # 76 /\ c # 89 /\ ~(56 <= c /\ c <= 63) /\ ~(216 <= c /\ c <= 255)
    BY <1>1, <1>4, BytesFacts
  <2>2. FormsFor(LongCodes, c) = {}
    BY <1>1, <2>1, NoLongForm
  <2>3. DecodeLong(a) = Refused(a)
    BY <2>1, <2>2 DEF DecodeLong, c
  <2> QED
    BY <1>2, <1>4, <2>3 DEF DecodeAs
<1>5. CASE u = "double"
  <2>1. c # 91 /\ c # 92 /\ c # 93 /\ c # 94 /\ c # 95 /\ c # 68
    BY <1>1, <1>5, BytesFacts
  <2>2. DecodeDouble(a) = Refused(a)
    BY <2>1 DEF DecodeDouble, c
  <2> QED
    BY <1>2, <1>5, <2>2 DEF DecodeAs
<1>6. CASE u = "bool"
  <2>1. c # 70 /\ c # 84
    BY <1>1, <1>6, BytesFacts
  <2>2. DecodeBool(a) = Refused(a)
    BY <2>1 DEF DecodeBool, c
  <2> QED
    BY <1>2, <1>6, <2>2 DEF DecodeAs
<1> QED
  BY <1>3, <1>4, <1>5, <1>6 DEF Types

\* Every form of every number decodes to it, as what it is.
LEMMA FormDecoded ==
    ASSUME NEW v, IsNumber(v), v.kind # "uint32", NEW w, Form(v, w),
           NEW a \in Seq(Atom), Agrees(a, w)
    PROVE  /\ KindOf(v) \in Types /\ w \in Seq(Atom) /\ Len(w) >= 1
           /\ w[1] \in BytesOf(KindOf(v)) /\ DecodeAs(KindOf(v), a) = Outcome(a, w, v)
<1>1. /\ v = Value(v.kind, v.hi, v.lo) /\ v.hi \in Int32 /\ v.lo \in Int32
      /\ v.kind # "long" => v.hi = 0
      /\ v.kind = "null" => v.lo = 0
      /\ v.kind = "bool" => v.lo \in {0, 1}
  BY DEF IsNumber
<1>2. a \in Seq(Atom) /\ Agrees(a, w)
  OBVIOUS
<1>3. CASE v.kind = "int" /\ IntForm(v, w)
  <2>1. v = IntOf(v.lo) /\ KindOf(v) = "int"
    BY <1>1, <1>3 DEF IntOf, KindOf, IsDouble, OtherDoubles
  <2>2. PICK n \in Int32 : n = v.lo /\ v = IntOf(n)
    BY <1>1, <2>1
  <2>3. IntForm(IntOf(n), w)
    BY <1>3, <2>2
  <2>4. /\ w \in Seq(Atom) /\ Len(w) >= 1
        /\ w[1] \in BytesOf("int") /\ DecodeInt(a) = Outcome(a, w, IntOf(n))
    BY ONLY <1>2, <2>3, IntDecoded, n \in Int32
  <2> QED
    BY <2>1, <2>2, <2>4 DEF DecodeAs, Types
<1>4. CASE v.kind = "long" /\ LongForm(v, w)
  <2>1. v = LongOf(v.hi, v.lo) /\ KindOf(v) = "long"
    BY <1>1, <1>4 DEF LongOf, KindOf, IsDouble, OtherDoubles
  <2>2. PICK hi \in Int32, lo \in Int32 : v = LongOf(hi, lo)
    BY <1>1, <2>1
  <2>3. LongForm(v, w)
    BY <1>4
  <2>4. /\ w \in Seq(Atom) /\ Len(w) >= 1
        /\ w[1] \in BytesOf("long") /\ DecodeLong(a) = Outcome(a, w, v)
    BY ONLY <1>2, <2>2, <2>3, LongDecoded, hi \in Int32, lo \in Int32
  <2> QED
    BY <2>1, <2>4 DEF DecodeAs, Types
<1>5. CASE IsDouble(v) /\ DoubleForm(v, w)
  <2>1. KindOf(v) = "double"
    BY <1>5 DEF KindOf
  <2>2. /\ w \in Seq(Atom) /\ Len(w) >= 1
        /\ w[1] \in BytesOf("double") /\ DecodeDouble(a) = Outcome(a, w, v)
    BY ONLY <1>2, <1>5, DoubleDecoded, IsNumber(v)
  <2> QED
    BY <2>1, <2>2 DEF DecodeAs, Types
<1>6. CASE v.kind = "bool" /\ w = <<IF v.lo = 1 THEN 84 ELSE 70>>
  <2>1. (v = Bool(0) \/ v = Bool(1)) /\ KindOf(v) = "bool"
    BY <1>1, <1>6 DEF Bool, KindOf, IsDouble, OtherDoubles
  <2>2. /\ w \in Seq(Atom) /\ Len(w) >= 1
        /\ w[1] \in BytesOf("bool") /\ DecodeBool(a) = Outcome(a, w, v)
    BY ONLY <1>2, <1>6, <2>1, BoolDecoded
  <2> QED
    BY <2>1, <2>2 DEF DecodeAs, Types
<1>7. CASE v.kind = "null" /\ w = <<78>>
  <2>1. v = NullOb /\ KindOf(v) = "null"
    BY <1>1, <1>7 DEF NullOb, KindOf, IsDouble, OtherDoubles
  <2>2. /\ w \in Seq(Atom) /\ Len(w) >= 1
        /\ w[1] \in BytesOf("null") /\ DecodeNull(a) = Outcome(a, w, NullOb)
    BY ONLY <1>2, <1>7, NullDecoded
  <2> QED
    BY <2>1, <2>2 DEF DecodeAs, Types
<1> QED
  BY <1>3, <1>4, <1>5, <1>6, <1>7 DEF Form

-----------------------------------------------------------------------------
(* The forms the encoder chooses *)

\* The codes f are those of the numbers that the encoder writes in the form g.
Same(f, g) ==
    /\ f.further = g.further /\ f.zero = g.zero /\ f.further \in {0, 1, 2}
    /\ \A n \in Int : n \in Span(f) <=> (g.min <= n /\ n <= g.max)

Matching(codes, forms) ==
    /\ \A g \in forms : \E f \in codes : Same(f, g)
    /\ \A f \in codes : \E g \in forms : Same(f, g)

\* The ranges of Encoder::encode are those of the codes of Decoder::decode.
LEMMA IntsMatch == Matching(IntCodes, IntForms)
<1>1. Same(Compact(128, 191, 144, 0), Compact(-16, 47, 144, 0))
  BY SMT, Shifts DEF Same, Compact, Span
<1>2. Same(Compact(192, 207, 200, 1), Compact(-2048, 2047, 200, 1))
  BY SMT, Shifts DEF Same, Compact, Span
<1>3. Same(Compact(208, 215, 212, 2), Compact(-262144, 262143, 212, 2))
  BY SMT, Shifts DEF Same, Compact, Span
<1> QED
  BY SMT, <1>1, <1>2, <1>3 DEF Matching, IntCodes, IntForms

LEMMA LongsMatch == Matching(LongCodes, LongForms)
<1>1. Same(Compact(216, 239, 224, 0), Compact(-8, 15, 224, 0))
  BY SMT, Shifts DEF Same, Compact, Span
<1>2. Same(Compact(240, 255, 248, 1), Compact(-2048, 2047, 248, 1))
  BY SMT, Shifts DEF Same, Compact, Span
<1>3. Same(Compact(56, 63, 60, 2), Compact(-262144, 262143, 60, 2))
  BY SMT, Shifts DEF Same, Compact, Span
<1> QED
  BY SMT, <1>1, <1>2, <1>3 DEF Matching, LongCodes, LongForms

\* Some form has the fewest bytes.
LEMMA FirstForm ==
    ASSUME NEW forms, NEW n, \A f \in forms : f.further \in {0, 1, 2}, FormsFor(forms, n) # {}
    PROVE  /\ FormFor(forms, n) \in FormsFor(forms, n)
           /\ \A g \in FormsFor(forms, n) : FormFor(forms, n).further <= g.further
<1> DEFINE S == FormsFor(forms, n)
           least(f) == \A g \in S : f.further <= g.further
<1>1. S # {} /\ \A f \in S : f.further \in {0, 1, 2}
  BY DEF FormsFor
<1>2. FormFor(forms, n) = CHOOSE f \in S : least(f)
  BY DEF FormFor
<1> HIDE DEF S
<1>3. \E f \in S : least(f)
  <2>1. CASE \E f \in S : f.further = 0
    BY <1>1, <2>1
  <2>2. CASE (\A f \in S : f.further # 0) /\ \E f \in S : f.further = 1
    BY <1>1, <2>2
  <2>3. CASE \A f \in S : f.further = 2
    BY <1>1, <2>3
  <2> QED
    BY <1>1, <2>1, <2>2, <2>3
<1> HIDE DEF least
<1>4. FormFor(forms, n) \in S /\ least(FormFor(forms, n))
  BY <1>2, <1>3
<1> QED
  BY <1>4 DEF S, least

\* The form chosen is one that the decoder knows, and the shortest of those.
LEMMA Chosen ==
    ASSUME NEW codes, NEW forms, Matching(codes, forms), NEW n \in Int
    PROVE  /\ FormsFor(forms, n) # {} =>
                  \E f \in codes : /\ n \in Span(f)
                                   /\ f.further = FormFor(forms, n).further
                                   /\ Written(FormFor(forms, n), n) = Written(f, n)
           /\ \A f \in codes : n \in Span(f) =>
                  FormsFor(forms, n) # {} /\ FormFor(forms, n).further <= f.further
<1> DEFINE g == FormFor(forms, n)
<1>1. \A h \in forms : h.further \in {0, 1, 2}
  BY DEF Matching, Same
<1>2. ASSUME FormsFor(forms, n) # {}
      PROVE  /\ g \in FormsFor(forms, n)
             /\ \A h \in FormsFor(forms, n) : g.further <= h.further
  BY <1>1, <1>2, FirstForm
<1> HIDE DEF g
<1>3. ASSUME FormsFor(forms, n) # {}
      PROVE  \E f \in codes : /\ n \in Span(f) /\ f.further = g.further
                              /\ Written(g, n) = Written(f, n)
  <2>1. g \in forms /\ g.min <= n /\ n <= g.max
    BY <1>2, <1>3 DEF FormsFor
  <2>2. PICK f \in codes : Same(f, g)
    BY <2>1 DEF Matching
  <2>3. n \in Span(f) /\ f.further = g.further /\ f.zero = g.zero
    BY <2>1, <2>2 DEF Same
  <2>4. Written(g, n) = Written(f, n)
    BY <2>3 DEF Written
  <2> QED
    BY <2>3, <2>4
<1>4. ASSUME NEW f \in codes, n \in Span(f)
      PROVE  FormsFor(forms, n) # {} /\ g.further <= f.further
  <2>1. PICK h \in forms : Same(f, h)
    BY DEF Matching
  <2>2. h \in FormsFor(forms, n) /\ h.further = f.further
    BY <1>4, <2>1 DEF Same, FormsFor
  <2> QED
    BY <1>2, <2>2
<1> QED
  BY <1>3, <1>4 DEF g

LEMMA IntEncoded ==
    ASSUME NEW n \in Int32
    PROVE  IntForm(IntOf(n), EncodeInt(n))
<1>1. IntOf(n).lo = n /\ n \in Int
  BY Int32IsInt DEF IntOf, Value
<1>2. CASE FormsFor(IntForms, n) # {}
  <2>1. PICK f \in IntCodes : n \in Span(f) /\ Written(FormFor(IntForms, n), n) = Written(f, n)
    BY <1>1, <1>2, IntsMatch, Chosen
  <2>2. EncodeInt(n) = Written(f, n)
    BY <1>2, <2>1 DEF EncodeInt
  <2> QED
    BY <1>1, <2>1, <2>2 DEF IntForm
<1>3. CASE FormsFor(IntForms, n) = {}
  <2>1. EncodeInt(n) = <<73>> \o Low(n, 4)
    BY <1>3 DEF EncodeInt
  <2> QED
    BY <1>1, <2>1 DEF IntForm
<1> QED
  BY <1>2, <1>3

LEMMA LongEncoded ==
    ASSUME NEW v, v.lo \in Int32
    PROVE  LongForm(v, EncodeLong(v))
<1>1. v.lo \in Int
  BY Int32IsInt
<1>2. CASE IsNarrow(v) /\ FormsFor(LongForms, v.lo) # {}
  <2>1. PICK f \in LongCodes : /\ v.lo \in Span(f)
                               /\ Written(FormFor(LongForms, v.lo), v.lo) = Written(f, v.lo)
    BY <1>1, <1>2, LongsMatch, Chosen
  <2>2. EncodeLong(v) = Written(f, v.lo)
    BY <1>2, <2>1 DEF EncodeLong
  <2> QED
    BY <1>2, <2>1, <2>2 DEF LongForm
<1>3. CASE IsNarrow(v) /\ FormsFor(LongForms, v.lo) = {}
  <2>1. EncodeLong(v) = <<89>> \o Low(v.lo, 4)
    BY <1>3 DEF EncodeLong
  <2> QED
    BY <1>3, <2>1 DEF LongForm
<1>4. CASE ~IsNarrow(v)
  <2>1. EncodeLong(v) = <<76>> \o Low(v.hi, 4) \o Low(v.lo, 4)
    BY <1>4 DEF EncodeLong
  <2> QED
    BY <2>1 DEF LongForm
<1> QED
  BY <1>2, <1>3, <1>4

\* A short form is written of a whole number alone, and of minus zero that of 0.
LEMMA DoubleEncoded ==
    ASSUME NEW v \in Numbers, IsDouble(v), NEW n \in CastOf(v),
           NEW u, u = IF v.kind = "minus zero" THEN DoubleOf(0) ELSE v
    PROVE  DoubleForm(u, EncodeDouble(v, n))
<1>1. IsNumber(v)
  BY NumberAssumption
<1>2. CASE EqualsInt(v, n)
  <2>1. u = DoubleOf(n)
    <3>1. CASE v = DoubleOf(n)
      BY <3>1 DEF DoubleOf, Value
    <3>2. CASE v.kind = "minus zero" /\ n = 0
      BY <3>2
    <3> QED
      BY <1>2, <3>1, <3>2 DEF EqualsInt
  <2>2. u.kind = "double" /\ u.lo = n
    <3>1. DoubleOf(n).kind = "double" /\ DoubleOf(n).lo = n
      BY DEF DoubleOf, Value
    <3> QED
      BY ONLY <2>1, <3>1
  <2>3. CASE n \in {0, 1}
    <3>1. EncodeDouble(v, n) = <<91 + n>>
      BY <1>2, <2>3 DEF EncodeDouble
    <3> QED
      BY <2>2, <2>3, <3>1 DEF DoubleForm
  <2>4. CASE n \notin {0, 1} /\ n \in Int8
    <3>1. EncodeDouble(v, n) = <<93>> \o Low(n, 1)
      BY <1>2, <2>4 DEF EncodeDouble
    <3> QED
      BY <2>2, <2>4, <3>1 DEF DoubleForm
  <2>5. CASE n \notin {0, 1} /\ n \notin Int8 /\ n \in Int16
    <3>1. EncodeDouble(v, n) = <<94>> \o Low(n, 2)
      BY <1>2, <2>5 DEF EncodeDouble
    <3> QED
      BY <2>2, <2>5, <3>1 DEF DoubleForm
  <2>6. CASE n \notin {0, 1} /\ n \notin Int8 /\ n \notin Int16
    <3>1. EncodeDouble(v, n) = <<68>> \o Memory(v)
      BY <1>2, <2>6 DEF EncodeDouble
    <3>2. v.kind # "minus zero"
      <4>1. ASSUME v.kind = "minus zero" PROVE n = 0
        BY <1>1, <4>1 DEF CastOf, IsNumber
      <4> QED
        BY <2>6, <4>1
    <3> QED
      BY <3>1, <3>2 DEF DoubleForm
  <2> QED
    BY <2>3, <2>4, <2>5, <2>6
<1>3. CASE ~EqualsInt(v, n)
  <2>1. EncodeDouble(v, n) = <<68>> \o Memory(v)
    BY <1>3 DEF EncodeDouble
  <2>2. v.kind # "minus zero"
    <3>1. ASSUME v.kind = "minus zero" PROVE n = 0
      BY <1>1, <3>1 DEF CastOf, IsNumber
    <3> QED
      BY <1>3, <3>1 DEF EqualsInt
  <2> QED
    BY <2>1, <2>2 DEF DoubleForm
<1> QED
  BY <1>2, <1>3

-----------------------------------------------------------------------------
(* The run *)

\* What the wire holds is a form of the number, and what has arrived begins
\* like the wire.
CodecInv ==
    /\ value \in Numbers
    /\ phase \in {"encode", "transit", "decode", "done"}
    /\ phase = "encode" => byPeer = FALSE
    /\ phase # "encode" => Form(Number, wire)
    /\ phase \in {"decode", "done"} =>
           arrived \in Seq(Atom) /\ (arrived = <<>> \/ Agrees(arrived, wire))

LEMMA NumberFacts ==
    ASSUME value \in Numbers
    PROVE  /\ IsNumber(value) /\ IsNumber(Number) /\ Number.kind # "uint32" /\ Number # Null
           /\ KindOf(Number) = TypeSent
           /\ value = NullOb => TypeSent = "null"
<1>1. IsNumber(value)
  BY NumberAssumption
<1>z. 0 \in Int32 /\ value.lo \in Int32 /\ value.kind \in Kinds
  <2>1. 0 \in Int32
    BY SMT DEF Int32
  <2> QED
    BY <1>1, <2>1 DEF IsNumber
<1>n. NullOb.kind = "null" /\ Null.kind = "nullptr" /\ "nullptr" \notin Kinds
  BY DEF NullOb, Null, Value, Kinds, OtherDoubles
<1>2. CASE value.kind = "uint32"
  <2>1. Number = LongOf(0, value.lo)
    BY <1>2 DEF Number
  <2>2. Number.kind = "long" /\ Number.hi = 0 /\ Number.lo = value.lo /\ Number = Value("long", 0, value.lo)
    BY <2>1 DEF LongOf, Value
  <2>3. IsNumber(Number)
    BY ONLY <1>z, <2>2 DEF IsNumber, Kinds
  <2>4. TypeSent = "long" /\ KindOf(Number) = "long"
    BY <1>2, <2>2 DEF TypeSent, KindOf, IsDouble, OtherDoubles
  <2>5. value # NullOb
    BY <1>2, <1>n
  <2>6. Number # Null
    BY <2>2, <1>n
  <2> QED
    BY <1>1, <2>2, <2>3, <2>4, <2>5, <2>6
<1>3. CASE value.kind = "minus zero" /\ Number = DoubleOf(0)
  <2>2. /\ Number.kind = "double" /\ Number.hi = 0 /\ Number.lo = 0
        /\ Number = Value("double", 0, 0)
    BY <1>3 DEF DoubleOf, Value
  <2>3. IsNumber(Number)
    BY <1>z, <2>2 DEF IsNumber, Kinds
  <2>4. TypeSent = "double" /\ KindOf(Number) = "double"
    BY <1>3, <2>2 DEF TypeSent, KindOf, IsDouble, OtherDoubles
  <2>5. value # NullOb
    BY <1>3, <1>n
  <2>6. Number # Null
    BY <2>2, <1>n
  <2> QED
    BY <1>1, <2>2, <2>3, <2>4, <2>5, <2>6
<1>4. CASE value.kind # "uint32" /\ Number = value
  <2>1. KindOf(Number) = TypeSent
    BY <1>4 DEF TypeSent, KindOf
  <2>2. value = NullOb => TypeSent = "null"
    BY <1>n DEF TypeSent, IsDouble, OtherDoubles
  <2>3. Number # Null
    BY <1>4, <1>z, <1>n
  <2> QED
    BY <1>1, <1>4, <2>1, <2>2, <2>3
<1>5. \/ value.kind = "uint32"
      \/ value.kind = "minus zero" /\ Number = DoubleOf(0)
      \/ value.kind # "uint32" /\ Number = value
  BY DEF Number
<1> QED
  BY <1>2, <1>3, <1>4, <1>5

\* A wire is not empty and made of bytes.
LEMMA FormBytes ==
    ASSUME NEW v, IsNumber(v), NEW w, Form(v, w)
    PROVE  w \in Seq(Atom) /\ Len(w) >= 1
<1>1. PICK hi \in Int, lo \in Int : hi = v.hi /\ lo = v.lo
  <2>1. v.hi \in Int32 /\ v.lo \in Int32
    BY DEF IsNumber
  <2>2. v.hi \in Int /\ v.lo \in Int
    BY <2>1, Int32IsInt
  <2> QED
    BY ONLY <2>2
<1>2. ASSUME NEW c \in 0 .. 255, NEW n \in Int, NEW k \in 0 .. 4, w = <<c>> \o Low(n, k)
      PROVE  w \in Seq(Atom) /\ Len(w) >= 1
  <2>1. <<c>> \o Low(n, k) \in Seq(Atom) /\ Len(<<c>> \o Low(n, k)) = 1 + k
    BY FramedLow
  <2> QED
    BY <1>2, <2>1
<1>3. ASSUME NEW f \in IntCodes \cup LongCodes, lo \in Span(f), w = Written(f, lo)
      PROVE  w \in Seq(Atom) /\ Len(w) >= 1
  <2>1. Usable(f)
    BY CodesUsable
  <2>2. w \in Seq(Atom) /\ Len(w) = 1 + f.further
    BY <1>3, <2>1, WrittenBytes
  <2> QED
    BY <2>1, <2>2 DEF Usable
<1>4. ASSUME NEW c \in Int, w = <<c>>
      PROVE  w \in Seq(Atom) /\ Len(w) >= 1
  BY <1>4 DEF Atom
<1>5. CASE IntForm(v, w)
  <2>1. CASE w = <<73>> \o Low(lo, 4)
    <3>1. PICK c \in 0 .. 255, k \in 0 .. 4 : c = 73 /\ k = 4
      OBVIOUS
    <3>2. w = <<c>> \o Low(lo, k)
      BY <2>1, <3>1
    <3> QED
      BY <1>2, <3>2
  <2>2. CASE \E f \in IntCodes : lo \in Span(f) /\ w = Written(f, lo)
    BY <1>3, <2>2
  <2> QED
    BY <1>1, <1>5, <2>1, <2>2 DEF IntForm
<1>6. CASE LongForm(v, w)
  <2>1. CASE w = <<76>> \o Low(hi, 4) \o Low(lo, 4)
    <3>1. PICK c \in 0 .. 255, k \in 0 .. 4 : c = 76 /\ k = 4
      OBVIOUS
    <3> DEFINE h == <<c>> \o Low(hi, k)
               l == Low(lo, k)
    <3>2. h \in Seq(Atom) /\ Len(h) = 1 + k /\ l \in Seq(Atom) /\ Len(l) = k
      BY FramedLow, LowBytes
    <3>3. w = h \o l
      BY <2>1, <3>1
    <3> HIDE DEF h, l
    <3>4. h \o l \in Seq(Atom) /\ Len(h \o l) = Len(h) + Len(l)
      BY <3>2, ConcatProperties
    <3> QED
      BY <3>1, <3>2, <3>3, <3>4
  <2>2. CASE w = <<89>> \o Low(lo, 4)
    <3>1. PICK c \in 0 .. 255, k \in 0 .. 4 : c = 89 /\ k = 4
      OBVIOUS
    <3>2. w = <<c>> \o Low(lo, k)
      BY <2>2, <3>1
    <3> QED
      BY <1>2, <3>2
  <2>3. CASE \E f \in LongCodes : lo \in Span(f) /\ w = Written(f, lo)
    BY <1>3, <2>3
  <2> QED
    BY <1>1, <1>6, <2>1, <2>2, <2>3 DEF LongForm
<1>7. CASE DoubleForm(v, w)
  <2>1. CASE v \in Numbers /\ InMemory(w, v)
    <3> DEFINE s == Memory(v)
    <3>1. s = [i \in 1 .. 8 |-> <<v, i>>] /\ \A i \in 1 .. 8 : <<v, i>> \in Atom
      BY <2>1 DEF Memory, Atom
    <3>2. PICK c \in Atom : c = 68
      BY DEF Atom
    <3>3. w = <<c>> \o s
      BY <2>1, <3>2 DEF InMemory
    <3> HIDE DEF s
    <3>4. s \in Seq(Atom) /\ Len(s) \in Nat
      BY <3>1
    <3>5. <<c>> \o s \in Seq(Atom) /\ Len(<<c>> \o s) = 1 + Len(s)
      BY <3>4, Framed
    <3> QED
      BY <3>3, <3>4, <3>5
  <2>2. CASE w = <<95>> \o Low(lo, 4)
    <3>1. PICK c \in 0 .. 255, k \in 0 .. 4 : c = 95 /\ k = 4
      OBVIOUS
    <3>2. w = <<c>> \o Low(lo, k)
      BY <2>2, <3>1
    <3> QED
      BY <1>2, <3>2
  <2>3. CASE w = <<91 + lo>>
    <3>1. PICK c \in Int : c = 91 + lo /\ w = <<c>>
      BY <2>3
    <3> QED
      BY <1>4, <3>1
  <2>4. CASE w = <<93>> \o Low(lo, 1)
    <3>1. PICK c \in 0 .. 255, k \in 0 .. 4 : c = 93 /\ k = 1
      OBVIOUS
    <3>2. w = <<c>> \o Low(lo, k)
      BY <2>4, <3>1
    <3> QED
      BY <1>2, <3>2
  <2>5. CASE w = <<94>> \o Low(lo, 2)
    <3>1. PICK c \in 0 .. 255, k \in 0 .. 4 : c = 94 /\ k = 2
      OBVIOUS
    <3>2. w = <<c>> \o Low(lo, k)
      BY <2>5, <3>1
    <3> QED
      BY <1>2, <3>2
  <2> QED
    BY <1>1, <1>7, <2>1, <2>2, <2>3, <2>4, <2>5 DEF DoubleForm, InMemory
<1>8. CASE w = <<IF v.lo = 1 THEN 84 ELSE 70>> \/ w = <<78>>
  <2>1. PICK c \in Int : w = <<c>>
    BY <1>8
  <2> QED
    BY <1>4, <2>1
<1> QED
  BY <1>5, <1>6, <1>7, <1>8 DEF Form

\* What decode yields for a type, of a wire of the number and what of it arrived.
Right(t, r) ==
    IF Len(arrived) < Len(wire) \/ t \notin {"Object", TypeSent}
    THEN r.value = Null
    ELSE r = [value |-> Number, used |-> Len(wire)]

LEMMA Decoded ==
    ASSUME value \in Numbers, Form(Number, wire), arrived \in Seq(Atom),
           arrived = <<>> \/ Agrees(arrived, wire)
    PROVE  /\ Right("Object", DecodeObject(arrived))
           /\ \A t \in Types : (t = "null" => value = NullOb) => Right(t, DecodeAs(t, arrived))
<1>1. /\ IsNumber(Number) /\ Number.kind # "uint32" /\ KindOf(Number) = TypeSent
      /\ value = NullOb => TypeSent = "null"
  BY NumberFacts
<1>2. wire \in Seq(Atom) /\ Len(wire) >= 1 /\ Len(wire) \in Nat
  BY <1>1, FormBytes
<1>3. \A i \in Nat : Nothing(i).value = Null
  BY DEF Nothing
<1>4. CASE arrived = <<>>
  <2>1. Len(arrived) < Len(wire)
    BY <1>2, <1>4
  <2>2. DecodeObject(arrived).value = Null /\ DecodeNull(arrived).value = Null
    BY <1>3, <1>4 DEF DecodeObject, DecodeNull
  <2>3. ASSUME NEW t \in Types PROVE DecodeAs(t, arrived).value = Null
    <3>1. CASE t = "null"
      BY <2>2, <3>1 DEF DecodeAs
    <3>2. CASE t # "null"
      BY <1>4, <3>2, OthersRefused
    <3> QED
      BY <3>1, <3>2
  <2> QED
    BY <2>1, <2>2, <2>3 DEF Right
<1>5. CASE arrived # <<>> /\ Agrees(arrived, wire)
  <2>1. /\ TypeSent \in Types
        /\ wire[1] \in BytesOf(TypeSent)
        /\ DecodeAs(TypeSent, arrived) = Outcome(arrived, wire, Number)
    BY <1>1, <1>5, FormDecoded
  <2>2. arrived[1] = wire[1]
    BY <1>2, <1>5, Agreeing
  <2>3. DecodeObject(arrived) = DecodeAs(TypeSent, arrived)
    BY <1>5, <2>1, <2>2, Dispatch
  <2>4. Right("Object", DecodeObject(arrived)) /\ Right(TypeSent, DecodeAs(TypeSent, arrived))
    BY <1>3, <2>1, <2>3 DEF Right, Outcome
  <2>5. ASSUME NEW t \in Types, t = "null" => value = NullOb, t # TypeSent
        PROVE  Right(t, DecodeAs(t, arrived))
    <3>1. t # "null" /\ t # "Object"
      BY <1>1, <2>5 DEF Types
    <3>2. arrived[1] \notin BytesOf(t)
      BY <2>1, <2>2, <2>5, Disjoint
    <3>3. arrived[1] \in Int
      BY <2>1, <2>2, BytesFacts DEF Types
    <3>4. DecodeAs(t, arrived).value = Null
      BY <3>1, <3>2, <3>3, OthersRefused
    <3> QED
      BY <2>5, <3>1, <3>4 DEF Right
  <2> QED
    BY <2>4, <2>5
<1> QED
  BY <1>4, <1>5

\* Encoder::encode writes a form of the number as == compares it.
LEMMA EncodeForm ==
    ASSUME value \in Numbers, byPeer = FALSE, Encode
    PROVE  Form(Number, wire)'
<1>1. IsNumber(value)
  BY NumberAssumption
<1>2. value' = value /\ byPeer' = FALSE
  BY DEF Encode
<1>3. /\ value.kind = "uint32" => Number' = LongOf(0, value.lo)
      /\ value.kind = "minus zero" => Number' = DoubleOf(0)
      /\ value.kind \notin {"uint32", "minus zero"} => Number' = value
  BY <1>2 DEF Number
<1>4. /\ value = Value(value.kind, value.hi, value.lo)
      /\ value.lo \in Int32 /\ (value.kind # "long" => value.hi = 0)
  BY <1>1 DEF IsNumber
<1>5. CASE Promoted(value).kind = "int" /\ wire' = EncodeInt(Promoted(value).lo)
  <2>1. value.kind = "int" /\ Promoted(value) = value
    BY <1>5 DEF Promoted, LongOf, Value
  <2>2. Number' = value /\ value = IntOf(value.lo)
    BY <1>3, <1>4, <2>1 DEF IntOf
  <2>3. IntForm(value, EncodeInt(value.lo))
    BY <1>4, <2>2, IntEncoded
  <2> QED
    BY <1>5, <2>1, <2>2, <2>3 DEF Form
<1>6. CASE Promoted(value).kind = "long" /\ wire' = EncodeLong(Promoted(value))
  <2>1. /\ Number' = Promoted(value) /\ Number'.kind = "long"
        /\ Promoted(value).lo \in Int32
    <3>1. CASE value.kind = "uint32"
      <4>1. Promoted(value) = LongOf(0, value.lo)
        BY <3>1 DEF Promoted
      <4>2. LongOf(0, value.lo).lo = value.lo
        BY DEF LongOf, Value
      <4> QED
        BY <1>3, <1>4, <1>6, <3>1, <4>1, <4>2
    <3>2. CASE value.kind # "uint32"
      <4>1. Promoted(value) = value
        BY <3>2 DEF Promoted
      <4> QED
        BY <1>3, <1>4, <1>6, <3>2, <4>1
    <3> QED
      BY <3>1, <3>2
  <2>2. LongForm(Number', wire')
    BY <1>6, <2>1, LongEncoded
  <2> QED
    BY <2>1, <2>2 DEF Form
<1>7. CASE IsDouble(Promoted(value)) /\ \E n \in CastOf(Promoted(value)) : wire' = EncodeDouble(Promoted(value), n)
  <2>1. value.kind # "uint32" /\ Promoted(value) = value
    BY <1>7 DEF Promoted, LongOf, Value, IsDouble, OtherDoubles
  <2>2. PICK n \in CastOf(value) : wire' = EncodeDouble(value, n)
    BY <1>7, <2>1
  <2>3. Number' = IF value.kind = "minus zero" THEN DoubleOf(0) ELSE value
    BY <1>3, <2>1
  <2>4. IsDouble(value)
    BY <1>7, <2>1
  <2>5. DoubleForm(Number', wire')
    BY <2>2, <2>3, <2>4, DoubleEncoded
  <2>6. IsDouble(Number')
    <3>1. DoubleOf(0).kind = "double"
      BY DEF DoubleOf, Value
    <3> QED
      BY <2>3, <2>4, <3>1 DEF IsDouble
  <2> QED
    BY <2>5, <2>6 DEF Form
<1>8. CASE Promoted(value).kind = "bool" /\ wire' = <<IF Promoted(value).lo = 1 THEN 84 ELSE 70>>
  <2>1. value.kind = "bool" /\ Promoted(value) = value
    BY <1>8 DEF Promoted, LongOf, Value
  <2>2. Number' = value
    BY <1>3, <2>1
  <2> QED
    BY <1>8, <2>1, <2>2 DEF Form
<1>9. CASE Promoted(value).kind = "null" /\ wire' = <<78>>
  <2>1. value.kind = "null" /\ Promoted(value) = value
    BY <1>9 DEF Promoted, LongOf, Value
  <2>2. Number' = value
    BY <1>3, <2>1
  <2> QED
    BY <1>9, <2>1, <2>2 DEF Form
<1> QED
  BY <1>5, <1>6, <1>7, <1>8, <1>9 DEF Encode

\* So does a peer, of the number and of minus zero.
LEMMA PeerForm ==
    ASSUME value \in Numbers, PeerEncode
    PROVE  Form(Number, wire)'
<1>1. IsNumber(value)
  BY NumberAssumption
<1>2. value' = value /\ byPeer' = TRUE
  BY DEF PeerEncode
<1>3. value.kind # "uint32" => Number' = value
  BY <1>2 DEF Number
<1>4. CASE value.kind = "int" /\ IntForm(value, wire')
  BY <1>3, <1>4 DEF Form
<1>5. CASE value.kind = "long" /\ LongForm(value, wire')
  BY <1>3, <1>5 DEF Form
<1>6. CASE IsDouble(value) /\ DoubleForm(value, wire')
  <2>1. value.kind # "uint32"
    BY <1>6 DEF IsDouble, OtherDoubles
  <2> QED
    BY <1>3, <1>6, <2>1 DEF Form
<1>7. \/ value.kind = "int" /\ IntForm(value, wire')
      \/ value.kind = "long" /\ LongForm(value, wire')
      \/ IsDouble(value) /\ DoubleForm(value, wire')
  <2> DEFINE n == value.lo
  <2>1. CASE value.kind = "int" /\ wire' = <<73>> \o Low(n, 4)
    BY <2>1 DEF IntForm
  <2>2. CASE \E f \in IntCodes : value.kind = "int" /\ n \in Span(f) /\ wire' = Written(f, n)
    BY <2>2 DEF IntForm
  <2>3. CASE value.kind = "long" /\ wire' = <<76>> \o Low(value.hi, 4) \o Low(n, 4)
    BY <2>3 DEF LongForm
  <2>4. CASE value.kind = "long" /\ IsNarrow(value) /\ wire' = <<89>> \o Low(n, 4)
    BY <2>4 DEF LongForm
  <2>5. CASE \E f \in LongCodes : /\ value.kind = "long" /\ IsNarrow(value) /\ n \in Span(f)
                                  /\ wire' = Written(f, n)
    BY <2>5 DEF LongForm
  <2>6. CASE IsDouble(value) /\ wire' = <<68>> \o Memory(value)
    BY <2>6 DEF DoubleForm
  <2>7. CASE value.kind = "thousandths" /\ wire' = <<95>> \o Low(n, 4)
    BY <2>7 DEF DoubleForm, IsDouble, OtherDoubles
  <2>8. CASE value.kind = "double" /\ n \in Int8 /\ wire' = <<93>> \o Low(n, 1)
    BY <2>8 DEF DoubleForm, IsDouble
  <2>9. CASE value.kind = "double" /\ n \in Int16 /\ wire' = <<94>> \o Low(n, 2)
    BY <2>9 DEF DoubleForm, IsDouble
  <2> QED
    BY <2>1, <2>2, <2>3, <2>4, <2>5, <2>6, <2>7, <2>8, <2>9 DEF PeerEncode
<1> QED
  BY <1>4, <1>5, <1>6, <1>7

\* What is delivered begins like the wire.
LEMMA Delivered ==
    ASSUME NEW w \in Seq(Atom), Len(w) >= 1, NEW a,
           \/ \E k \in 0 .. Len(w) : a = SubSeq(w, 1, k)
           \/ \E next \in {0, 255} : a = Append(w, next)
    PROVE  a \in Seq(Atom) /\ (a = <<>> \/ Agrees(a, w))
<1>0. Len(w) \in Nat
  BY LenProperties
<1>1. CASE \E k \in 0 .. Len(w) : a = SubSeq(w, 1, k)
  <2>1. PICK k \in 0 .. Len(w) : a = SubSeq(w, 1, k)
    BY <1>1
  <2>2. /\ a \in Seq(Atom) /\ Len(a) = k
        /\ \A i \in 1 .. k : a[i] = w[i]
    BY <1>0, <2>1
  <2>3. k = 0 => a = <<>>
    BY <2>2, EmptySeq
  <2>4. k # 0 => Agrees(a, w)
    BY <1>0, <2>2 DEF Agrees
  <2> QED
    BY <2>2, <2>3, <2>4
<1>2. CASE \E next \in {0, 255} : a = Append(w, next)
  <2>1. PICK next \in Atom : a = Append(w, next)
    BY <1>2 DEF Atom
  <2>2. /\ a \in Seq(Atom) /\ Len(a) = Len(w) + 1
        /\ \A i \in 1 .. Len(w) : a[i] = w[i]
    BY <2>1, AppendProperties
  <2> QED
    BY <1>0, <2>2 DEF Agrees
<1> QED
  BY <1>1, <1>2

LEMMA InitCodecInv == Init => CodecInv /\ RoundTrip
BY DEF Init, CodecInv, RoundTrip

LEMMA NextCodecInv == CodecInv /\ RoundTrip /\ [Next]_vars => CodecInv' /\ RoundTrip'
<1> SUFFICES ASSUME CodecInv, RoundTrip, [Next]_vars
             PROVE  CodecInv' /\ RoundTrip'
  OBVIOUS
<1>1. CASE Encode
  <2>1. /\ phase = "encode" /\ phase' = "transit" /\ byPeer = FALSE
        /\ value \in Numbers /\ value' = value
    BY <1>1 DEF Encode, CodecInv
  <2>2. Form(Number, wire)'
    BY <1>1, <2>1, EncodeForm
  <2> QED
    BY <2>1, <2>2 DEF CodecInv, RoundTrip
<1>2. CASE PeerEncode
  <2>1. phase = "encode" /\ phase' = "transit" /\ value \in Numbers /\ value' = value
    BY <1>2 DEF PeerEncode, CodecInv
  <2>2. Form(Number, wire)'
    BY <1>2, <2>1, PeerForm
  <2> QED
    BY <2>1, <2>2 DEF CodecInv, RoundTrip
<1>3. CASE Deliver
  <2>1. /\ phase = "transit" /\ phase' = "decode" /\ value \in Numbers
        /\ value' = value /\ wire' = wire /\ byPeer' = byPeer /\ Form(Number, wire)
    BY <1>3 DEF Deliver, CodecInv
  <2>2. IsNumber(Number)
    BY <2>1, NumberFacts
  <2>3. wire \in Seq(Atom) /\ Len(wire) >= 1
    BY <2>1, <2>2, FormBytes
  <2>4. \/ \E k \in 0 .. Len(wire) : arrived' = SubSeq(wire, 1, k)
        \/ \E next \in {0, 255} : arrived' = Append(wire, next)
    BY <1>3 DEF Deliver
  <2>5. arrived' \in Seq(Atom) /\ (arrived' = <<>> \/ Agrees(arrived', wire))
    BY <2>3, <2>4, Delivered
  <2>6. Number' = Number
    BY <2>1 DEF Number
  <2> QED
    BY <2>1, <2>5, <2>6 DEF CodecInv, RoundTrip
<1>4. CASE Decode
  <2>1. /\ phase = "decode" /\ phase' = "done" /\ value \in Numbers /\ Form(Number, wire)
        /\ arrived \in Seq(Atom) /\ (arrived = <<>> \/ Agrees(arrived, wire))
        /\ value' = value /\ wire' = wire /\ byPeer' = byPeer /\ arrived' = arrived
        /\ error' = (asked' = "bool" /\ result'.value = Null)
    BY <1>4 DEF Decode, CodecInv
  <2>2. Number' = Number /\ TypeSent' = TypeSent
    BY <2>1 DEF Number, TypeSent
  <2>3. CodecInv'
    BY <2>1, <2>2 DEF CodecInv
  <2>4. /\ Right("Object", DecodeObject(arrived))
        /\ \A t \in Types : (t = "null" => value = NullOb) => Right(t, DecodeAs(t, arrived))
    BY <2>1, Decoded
  <2>5. Right(asked', result')
    <3>1. CASE asked' = "Object" /\ result' = DecodeObject(arrived)
      BY <2>4, <3>1
    <3>2. CASE asked' = "int" /\ result' = DecodeInt(arrived)
      BY <2>4, <3>2 DEF Types, DecodeAs
    <3>3. CASE asked' = "long" /\ result' = DecodeLong(arrived)
      BY <2>4, <3>3 DEF Types, DecodeAs
    <3>4. CASE asked' = "double" /\ result' = DecodeDouble(arrived)
      BY <2>4, <3>4 DEF Types, DecodeAs
    <3>5. CASE asked' = "bool" /\ result' = DecodeBool(arrived)
      BY <2>4, <3>5 DEF Types, DecodeAs
    <3>6. CASE asked' = "null" /\ result' = DecodeNull(arrived) /\ value = NullOb
      BY <2>4, <3>6 DEF Types, DecodeAs
    <3> QED
      BY <1>4, <3>1, <3>2, <3>3, <3>4, <3>5, <3>6 DEF Decode
  <2>6. Number # Null
    BY <2>1, NumberFacts
  <2>7. /\ Len(arrived') < Len(wire') \/ asked' \notin {"Object", TypeSent'} => result'.value = Null
        /\ ~(Len(arrived') < Len(wire') \/ asked' \notin {"Object", TypeSent'}) =>
               result' = [value |-> Number', used |-> Len(wire')]
    BY <2>1, <2>2, <2>5 DEF Right
  <2>8. ASSUME result' = [value |-> Number', used |-> Len(wire')] PROVE ~error'
    <3>1. result'.value = Number'
      BY ONLY <2>8
    <3>2. result'.value # Null
      BY <2>2, <2>6, <3>1
    <3>3. error' <=> asked' = "bool" /\ result'.value = Null
      BY <2>1
    <3> QED
      BY ONLY <3>2, <3>3
  <2>9. RoundTrip'
    BY <2>7, <2>8 DEF RoundTrip
  <2> QED
    BY <2>3, <2>9
<1>5. CASE UNCHANGED vars
  <2>1. Number' = Number /\ TypeSent' = TypeSent
    BY <1>5 DEF vars, Number, TypeSent
  <2>2. CodecInv'
    BY <1>5, <2>1 DEF vars, CodecInv
  <2>3. RoundTrip'
    BY <1>5, <2>1 DEF vars, RoundTrip
  <2> QED
    BY <2>2, <2>3
<1> QED
  BY <1>1, <1>2, <1>3, <1>4, <1>5 DEF Next

\* decode<Object> and decode of the type that was sent give back every number in
\* every form that Encoder::encode or a peer writes, and read no more than it;
\* what lost its end or has another type is refused (number_codec.cc,
\* bool_codec.cc and the dispatch in object_codec.cc).
THEOREM NumbersComeBack == Spec => []RoundTrip
<1>1. Init => CodecInv /\ RoundTrip
  BY InitCodecInv
<1>2. (CodecInv /\ RoundTrip) /\ [Next]_vars => (CodecInv /\ RoundTrip)'
  BY NextCodecInv
<1> QED
  BY <1>1, <1>2, PTL DEF Spec

-----------------------------------------------------------------------------
(* The fewest bytes *)

\* What is under way from this encoder is what it writes of an integer.
EncoderInv ==
    /\ value \in Numbers
    /\ phase = "encode" => byPeer = FALSE
    /\ phase = "transit" /\ ~byPeer /\ value.kind = "int" => wire = EncodeInt(value.lo)
    /\ phase = "transit" /\ ~byPeer /\ value.kind = "long" => wire = EncodeLong(value)

\* A number fits no codes of fewer bytes than the form chosen.
LEMMA NoShorter ==
    ASSUME NEW codes, NEW forms, Matching(codes, forms), NEW n \in Int32, NEW c \in 0 .. 255, NEW w,
           w = IF FormsFor(forms, n) # {} THEN Written(FormFor(forms, n), n) ELSE <<c>> \o Low(n, 4),
           \A f \in codes : Usable(f),
           NEW f \in codes, f.further + 1 < Len(w)
    PROVE  n \notin Span(f)
<1> SUFFICES ASSUME n \in Span(f) PROVE FALSE
  OBVIOUS
<1>1. n \in Int
  BY Int32IsInt
<1>2. FormsFor(forms, n) # {} /\ FormFor(forms, n).further <= f.further
  BY <1>1, Chosen
<1>3. PICK g \in codes : /\ n \in Span(g) /\ g.further = FormFor(forms, n).further
                         /\ Written(FormFor(forms, n), n) = Written(g, n)
  BY <1>1, <1>2, Chosen
<1>4. Len(w) = 1 + g.further
  BY <1>1, <1>2, <1>3, WrittenBytes
<1>5. f.further \in Int /\ g.further \in Int
  BY DEF Usable
<1> QED
  BY <1>2, <1>3, <1>4, <1>5

LEMMA EncoderShortest == EncoderInv => Shortest
<1> SUFFICES ASSUME EncoderInv, phase = "transit", ~byPeer,
                    value.kind = "int" \/ (value.kind = "long" /\ IsNarrow(value)),
                    NEW f \in IF value.kind = "int" THEN IntCodes ELSE LongCodes,
                    f.further + 1 < Len(wire)
             PROVE  value.lo \notin Span(f)
  BY DEF Shortest
<1>1. value.lo \in Int32
  BY NumberAssumption DEF EncoderInv, IsNumber
<1>2. CASE value.kind = "int"
  <2>1. f \in IntCodes
    BY <1>2
  <2>2. PICK c \in 0 .. 255 : c = 73
    OBVIOUS
  <2>3. wire = IF FormsFor(IntForms, value.lo) # {} THEN Written(FormFor(IntForms, value.lo), value.lo)
               ELSE <<c>> \o Low(value.lo, 4)
    BY <1>2, <2>2 DEF EncoderInv, EncodeInt
  <2>4. \A g \in IntCodes : Usable(g)
    BY CodesUsable
  <2> QED
    BY <1>1, <2>1, <2>3, <2>4, IntsMatch, NoShorter
<1>3. CASE value.kind = "long" /\ IsNarrow(value)
  <2>1. f \in LongCodes
    BY <1>3
  <2>2. PICK c \in 0 .. 255 : c = 89
    OBVIOUS
  <2>3. wire = IF FormsFor(LongForms, value.lo) # {} THEN Written(FormFor(LongForms, value.lo), value.lo)
               ELSE <<c>> \o Low(value.lo, 4)
    BY <1>3, <2>2 DEF EncoderInv, EncodeLong
  <2>4. \A g \in LongCodes : Usable(g)
    BY CodesUsable
  <2> QED
    BY <1>1, <2>1, <2>3, <2>4, LongsMatch, NoShorter
<1> QED
  BY <1>2, <1>3

LEMMA InitEncoderInv == Init => EncoderInv
BY DEF Init, EncoderInv

LEMMA NextEncoderInv == EncoderInv /\ [Next]_vars => EncoderInv'
<1> SUFFICES ASSUME EncoderInv, [Next]_vars
             PROVE  EncoderInv'
  OBVIOUS
<1>1. CASE Encode
  <2>1. value' = value /\ phase' = "transit" /\ value \in Numbers
    BY <1>1 DEF Encode, EncoderInv
  <2>2. Promoted(value) = IF value.kind = "uint32" THEN LongOf(0, value.lo) ELSE value
    BY DEF Promoted
  <2>3. value.kind = "int" => wire' = EncodeInt(value.lo)
    BY <1>1, <2>2 DEF Encode, IsDouble, OtherDoubles
  <2>4. value.kind = "long" => wire' = EncodeLong(value)
    BY <1>1, <2>2 DEF Encode, IsDouble, OtherDoubles
  <2> QED
    BY <2>1, <2>3, <2>4 DEF EncoderInv
<1>2. CASE PeerEncode
  BY <1>2 DEF PeerEncode, EncoderInv
<1>3. CASE Deliver
  BY <1>3 DEF Deliver, EncoderInv
<1>4. CASE Decode
  BY <1>4 DEF Decode, EncoderInv
<1>5. CASE UNCHANGED vars
  BY <1>5 DEF vars, EncoderInv
<1> QED
  BY <1>1, <1>2, <1>3, <1>4, <1>5 DEF Next

\* No codes of fewer bytes that the decoder knows read as the integer that
\* Encoder::encode wrote (the ranges of number_codec.cc).
THEOREM ShortestForms == Spec => []Shortest
<1>1. Init => EncoderInv
  BY InitEncoderInv
<1>2. EncoderInv /\ [Next]_vars => EncoderInv'
  BY NextEncoderInv
<1>3. EncoderInv => Shortest
  BY EncoderShortest
<1> QED
  BY <1>1, <1>2, <1>3, PTL DEF Spec
=============================================================================
