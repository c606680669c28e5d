-------------------------- MODULE StringCodecProofs --------------------------
(***************************************************************************)
(* Proof that a string comes back byte for byte, or not at all (RoundTrip  *)
(* of StringCodec), for every size of the chunks and of the string.        *)
(*                                                                         *)
(* First what Scan, ByteOffset, Escape and Unescape compute, by induction  *)
(* over the string; then the frame, which says where in wire the chunks    *)
(* begin and which characters they hold, and what an iteration of          *)
(* finalReadUtf8String does to it; then the invariant.                     *)
(***************************************************************************)
EXTENDS StringCodec, SequenceTheorems, WellFoundedInduction, TLAPS

Byte == 0 .. 7

-----------------------------------------------------------------------------
(* Induction over the naturals, for sets: in a set that is not empty there *)
(* is a least number.                                                      *)

LEMMA Least ==
    ASSUME NEW T, T \subseteq Nat, T # {}
    PROVE  \E m \in T : \A n \in T : m <= n
<1> DEFINE R == OpToRel(<, Nat)
<1>1. PICK m \in T : \A n \in T : ~ (<<n, m>> \in R)
  BY NatLessThanWellFounded, WFMin
<1>2. ASSUME NEW n \in T, n < m PROVE FALSE
  <2>1. <<n, m>> \in R
    BY <1>2 DEF OpToRel
  <2> QED
    BY <1>1, <2>1
<1> QED
  BY <1>2

LEMMA Induction ==
    ASSUME NEW S, 0 \in S, \A n \in Nat : n \in S => n + 1 \in S
    PROVE  \A n \in Nat : n \in S
<1> DEFINE T == {n \in Nat : n \notin S}
<1>1. SUFFICES ASSUME T # {} PROVE FALSE
  OBVIOUS
<1>2. PICK m \in T : \A n \in T : m <= n
  BY <1>1, Least
<1>3. m \in Nat /\ m # 0
  OBVIOUS
<1>4. m - 1 \in Nat /\ (m - 1) + 1 = m
  BY <1>3
<1>5. m - 1 \in T
  BY <1>4
<1> QED
  BY <1>2, <1>3, <1>4, <1>5

-----------------------------------------------------------------------------
(* Scan *)

Counted == [chars : Nat \cup {-1}, end : Nat]

LEMMA CharLengths ==
    /\ \A c \in Byte : CharLength[c] \in 0 .. 4 /\ (CharLength[c] = 0 => c = 0)
    /\ CharLength[0] = 0 /\ CharLength[4] = 4 /\ CharLength[High] = 3 /\ CharLength[Low] = 3
BY DEF CharLength, High, Low, Beyond, Byte

\* The body of walk, and the function that Scan chooses.
Walking(s, walk, p) ==
    IF p >= Len(s) THEN [chars |-> 0, end |-> p]
    ELSE LET w == CharLength[s[p + 1]]
             rest == walk[p + w]
         IN  IF w = 0 \/ rest.chars = -1
             THEN [chars |-> -1, end |-> 0]
             ELSE [rest EXCEPT !.chars = @ + 1]

Walk(s) == CHOOSE walk : walk = [p \in 0 .. Len(s) + 3 |-> Walking(s, walk, p)]

\* The body looks only at what comes after p.
LEMMA WalkingLocal ==
    ASSUME NEW s \in Seq(Byte), NEW p \in Nat, NEW g, NEW h,
           p < Len(s) => \A q \in p + 1 .. Len(s) + 3 : g[q] = h[q] /\ g[q] \in Counted
    PROVE  Walking(s, g, p) = Walking(s, h, p) /\ Walking(s, g, p) \in Counted
<1>1. CASE p >= Len(s)
  BY <1>1 DEF Walking, Counted
<1>2. CASE p < Len(s)
  <2> DEFINE w == CharLength[s[p + 1]]
  <2>1. Len(s) \in Nat /\ s[p + 1] \in Byte
    BY <1>2
  <2>2. w \in 0 .. 4
    BY <2>1, CharLengths
  <2> HIDE DEF w
  <2>3. /\ Walking(s, g, p) = IF w = 0 \/ g[p + w].chars = -1 THEN [chars |-> -1, end |-> 0]
                              ELSE [g[p + w] EXCEPT !.chars = @ + 1]
        /\ Walking(s, h, p) = IF w = 0 \/ h[p + w].chars = -1 THEN [chars |-> -1, end |-> 0]
                              ELSE [h[p + w] EXCEPT !.chars = @ + 1]
    BY <1>2, <2>1 DEF Walking, w
  <2>4. CASE w = 0
    BY <2>3, <2>4 DEF Counted
  <2>5. CASE w # 0
    <3>1. p + w \in p + 1 .. Len(s) + 3
      BY <1>2, <2>1, <2>2, <2>5
    <3>2. g[p + w] = h[p + w] /\ g[p + w] \in Counted
      BY <1>2, <3>1
    <3> QED
      BY <2>3, <3>2 DEF Counted
  <2> QED
    BY <2>4, <2>5
<1> QED
  <2>1. Len(s) \in Nat
    OBVIOUS
  <2> QED
    BY <1>1, <1>2, <2>1

\* Such a function exists: it is put together from its end.
LEMMA WalkExists ==
    ASSUME NEW s \in Seq(Byte)
    PROVE  \E g \in [0 .. Len(s) + 3 -> Counted] :
              \A p \in 0 .. Len(s) + 3 : g[p] = Walking(s, g, p)
<1> DEFINE L == Len(s) + 3
           Good(m, g) == \A p \in m .. L : g[p] = Walking(s, g, p)
           S == {n \in Nat : n <= L => \E g \in [L - n .. L -> Counted] : Good(L - n, g)}
<1>1. L \in Nat /\ L >= 3 /\ Len(s) \in Nat /\ L = Len(s) + 3
  OBVIOUS
<1> HIDE DEF L
<1>2. 0 \in S
  <2> DEFINE g == [p \in L .. L |-> [chars |-> 0, end |-> p]]
  <2>1. g \in [L - 0 .. L -> Counted]
    BY <1>1 DEF Counted
  <2>2. Good(L - 0, g)
    BY <1>1 DEF Walking
  <2> QED
    BY <2>1, <2>2
<1>3. ASSUME NEW n \in Nat, n \in S PROVE n + 1 \in S
  <2>1. SUFFICES ASSUME n + 1 <= L
                 PROVE  \E h \in [L - (n + 1) .. L -> Counted] : Good(L - (n + 1), h)
    OBVIOUS
  <2> DEFINE m == L - n
             k == L - (n + 1)
  <2>2. m \in Nat /\ k \in Nat /\ m = k + 1 /\ m <= L /\ n <= L
    BY <1>1, <2>1
  <2>3. PICK g \in [m .. L -> Counted] : Good(m, g)
    BY <1>3, <2>2
  <2> DEFINE h == [p \in k .. L |-> IF p = k THEN Walking(s, g, k) ELSE g[p]]
  <2> HIDE DEF m, k
  <2>4. ASSUME NEW p \in k .. L
        PROVE  Walking(s, h, p) = Walking(s, g, p) /\ Walking(s, g, p) \in Counted
    <3>1. p \in Nat
      BY <1>1, <2>2
    <3>2. p < Len(s) => \A q \in p + 1 .. Len(s) + 3 : g[q] = h[q] /\ g[q] \in Counted
      BY <1>1, <2>2, <3>1
    <3> HIDE DEF h
    <3> QED
      BY <3>1, <3>2, WalkingLocal
  <2>5. h \in [k .. L -> Counted]
    <3>1. k \in k .. L
      BY <1>1, <2>2
    <3>2. Walking(s, g, k) \in Counted
      BY <2>4, <3>1
    <3>3. \A p \in k .. L : p # k => g[p] \in Counted
      BY <1>1, <2>2
    <3> QED
      BY <3>2, <3>3
  <2>6. \A p \in k .. L : h[p] = Walking(s, g, p)
    BY <2>2, <2>3
  <2>7. Good(k, h)
    BY <2>4, <2>6
  <2> QED
    BY <2>5, <2>7 DEF k
<1>4. L \in S
  <2> HIDE DEF S
  <2> QED
    BY <1>1, <1>2, <1>3, Induction
<1>5. L - L = 0
  BY <1>1
<1> QED
  BY <1>1, <1>4, <1>5 DEF L

LEMMA WalkFacts ==
    ASSUME NEW s \in Seq(Byte)
    PROVE  /\ Scan(s) = Walk(s)[0]
           /\ \A p \in 0 .. Len(s) + 3 : Walk(s)[p] = Walking(s, Walk(s), p)
<1>1. Scan(s) = Walk(s)[0]
  BY DEF Scan, Walk, Walking
<1>2. \E g : g = [p \in 0 .. Len(s) + 3 |-> Walking(s, g, p)]
  <2>1. PICK g \in [0 .. Len(s) + 3 -> Counted] :
             \A p \in 0 .. Len(s) + 3 : g[p] = Walking(s, g, p)
    BY WalkExists
  <2>2. g = [p \in 0 .. Len(s) + 3 |-> g[p]]
    OBVIOUS
  <2>3. [p \in 0 .. Len(s) + 3 |-> g[p]] = [p \in 0 .. Len(s) + 3 |-> Walking(s, g, p)]
    BY <2>1
  <2> QED
    BY <2>2, <2>3
<1>3. Walk(s) = [p \in 0 .. Len(s) + 3 |-> Walking(s, Walk(s), p)]
  BY <1>2 DEF Walk
<1>4. \A p \in 0 .. Len(s) + 3 :
         [q \in 0 .. Len(s) + 3 |-> Walking(s, Walk(s), q)][p] = Walking(s, Walk(s), p)
  OBVIOUS
<1> QED
  BY <1>1, <1>3, <1>4

-----------------------------------------------------------------------------
(* ByteOffset *)

\* The body of off, and the function that ByteOffset chooses.
Stepping(s, off, k) ==
    IF k = 0 THEN 0
    ELSE LET start == off[k - 1] IN start + CharLength[s[start + 1]]

Offsets(s, n) == CHOOSE off : off = [k \in 0 .. n |-> Stepping(s, off, k)]

LEMMA OffsetsExist ==
    ASSUME NEW s
    PROVE  \A n \in Nat : \E g : g = [k \in 0 .. n |-> Stepping(s, g, k)]
<1> DEFINE S == {n \in Nat : \E g : g = [k \in 0 .. n |-> Stepping(s, g, k)]}
<1>1. 0 \in S
  <2> DEFINE g == [k \in 0 .. 0 |-> 0]
  <2>1. \A k \in 0 .. 0 : Stepping(s, g, k) = 0
    BY DEF Stepping
  <2>2. g = [k \in 0 .. 0 |-> Stepping(s, g, k)]
    BY <2>1
  <2> QED
    BY <2>2
<1>2. ASSUME NEW n \in Nat, n \in S PROVE n + 1 \in S
  <2>1. PICK g : g = [k \in 0 .. n |-> Stepping(s, g, k)]
    BY <1>2
  <2> DEFINE h == [k \in 0 .. n + 1 |-> Stepping(s, g, k)]
  <2>2. \A k \in 0 .. n : h[k] = g[k]
    <3>1. \A k \in 0 .. n : g[k] = Stepping(s, g, k)
      BY <2>1
    <3> QED
      BY <3>1
  <2>3. \A k \in 0 .. n + 1 : k # 0 => k - 1 \in 0 .. n
    OBVIOUS
  <2> HIDE DEF h
  <2>4. \A k \in 0 .. n + 1 : Stepping(s, h, k) = Stepping(s, g, k)
    BY <2>2, <2>3 DEF Stepping
  <2>5. h = [k \in 0 .. n + 1 |-> Stepping(s, h, k)]
    BY <2>4 DEF h
  <2> QED
    BY <2>5
<1> HIDE DEF S
<1>3. \A n \in Nat : n \in S
  BY <1>1, <1>2, Induction
<1> QED
  BY <1>3 DEF S

\* Where the characters of s end, one after the other.
LEMMA ByteOffsetStep ==
    ASSUME NEW s
    PROVE  /\ ByteOffset(s, 0) = 0
           /\ \A n \in Nat : ByteOffset(s, n + 1) =
                  ByteOffset(s, n) + CharLength[s[ByteOffset(s, n) + 1]]
<1>1. \A n : ByteOffset(s, n) = Offsets(s, n)[n]
  BY DEF ByteOffset, Offsets, Stepping
<1>2. \A n \in Nat : \A k \in 0 .. n : Offsets(s, n)[k] = Stepping(s, Offsets(s, n), k)
  <2>1. TAKE n \in Nat
  <2>2. Offsets(s, n) = [k \in 0 .. n |-> Stepping(s, Offsets(s, n), k)]
    BY OffsetsExist DEF Offsets
  <2>3. \A k \in 0 .. n : [l \in 0 .. n |-> Stepping(s, Offsets(s, n), l)][k] = Stepping(s, Offsets(s, n), k)
    OBVIOUS
  <2> QED
    BY <2>2, <2>3
<1> DEFINE S == {k \in Nat : \A n, m \in Nat : k <= n /\ k <= m => Offsets(s, n)[k] = Offsets(s, m)[k]}
<1>3. 0 \in S
  <2>1. \A n \in Nat : 0 \in 0 .. n
    OBVIOUS
  <2>2. \A n \in Nat : Offsets(s, n)[0] = 0
    BY <1>2, <2>1 DEF Stepping
  <2> QED
    BY <2>2
<1>4. \A n \in Nat : \A k \in Nat : k + 1 <= n =>
         Offsets(s, n)[k + 1] = Offsets(s, n)[k] + CharLength[s[Offsets(s, n)[k] + 1]]
  <2>1. TAKE n \in Nat
  <2>2. TAKE k \in Nat
  <2>3. HAVE k + 1 <= n
  <2>4. k + 1 \in 0 .. n /\ k + 1 # 0 /\ (k + 1) - 1 = k
    BY <2>3
  <2> QED
    BY <1>2, <2>4 DEF Stepping
<1>5. ASSUME NEW k \in Nat, k \in S PROVE k + 1 \in S
  <2>1. SUFFICES ASSUME NEW n \in Nat, NEW m \in Nat, k + 1 <= n, k + 1 <= m
                 PROVE  Offsets(s, n)[k + 1] = Offsets(s, m)[k + 1]
    OBVIOUS
  <2>2. k <= n /\ k <= m
    BY <2>1
  <2>3. Offsets(s, n)[k] = Offsets(s, m)[k]
    BY <1>5, <2>2
  <2> QED
    BY <1>4, <2>1, <2>3
<1> HIDE DEF S
<1>6. \A k \in Nat : k \in S
  BY <1>3, <1>5, Induction
<1>7. \A n \in Nat : Offsets(s, n + 1)[n] = Offsets(s, n)[n]
  BY <1>6 DEF S
<1>8. \A n \in Nat : Offsets(s, n + 1)[n + 1] = Offsets(s, n + 1)[n] + CharLength[s[Offsets(s, n + 1)[n] + 1]]
  BY <1>4
<1>9. ByteOffset(s, 0) = 0
  <2>1. 0 \in 0 .. 0
    OBVIOUS
  <2> QED
    BY <1>1, <1>2, <2>1 DEF Stepping
<1>10. ASSUME NEW n \in Nat
       PROVE  ByteOffset(s, n + 1) = ByteOffset(s, n) + CharLength[s[ByteOffset(s, n) + 1]]
  BY <1>1, <1>7, <1>8
<1> QED
  BY <1>9, <1>10

-----------------------------------------------------------------------------
(* The characters of a sequence of bytes. *)

LEMMA WalkType ==
    ASSUME NEW s \in Seq(Byte)
    PROVE  \A p \in 0 .. Len(s) + 3 : Walk(s)[p] \in Counted
<1> DEFINE L == Len(s) + 3
           S == {n \in Nat : \A p \in 0 .. L : p + n >= L => Walk(s)[p] \in Counted}
<1>1. L \in Nat /\ Len(s) \in Nat /\ L = Len(s) + 3
  OBVIOUS
<1>2. ASSUME NEW p \in 0 .. L, \A q \in p + 1 .. L : Walk(s)[q] \in Counted
      PROVE  Walk(s)[p] \in Counted
  <2>1. Walk(s)[p] = Walking(s, Walk(s), p)
    BY WalkFacts
  <2>2. p \in Nat /\ \A q \in p + 1 .. Len(s) + 3 : Walk(s)[q] = Walk(s)[q] /\ Walk(s)[q] \in Counted
    BY <1>2
  <2> QED
    BY <2>1, <2>2, WalkingLocal
<1> HIDE DEF L
<1>3. 0 \in S
  <2>1. \A p \in 0 .. L : p + 0 >= L => p + 1 .. L = {}
    BY <1>1
  <2> QED
    BY <1>2, <2>1
<1>4. ASSUME NEW n \in Nat, n \in S PROVE n + 1 \in S
  <2>1. SUFFICES ASSUME NEW p \in 0 .. L, p + (n + 1) >= L PROVE Walk(s)[p] \in Counted
    OBVIOUS
  <2>2. \A q \in p + 1 .. L : q \in 0 .. L /\ q + n >= L
    BY <1>1, <2>1
  <2>3. \A q \in p + 1 .. L : Walk(s)[q] \in Counted
    BY <1>4, <2>2
  <2> QED
    BY <1>2, <2>3
<1>5. L \in S
  <2> HIDE DEF S
  <2> QED
    BY <1>1, <1>3, <1>4, Induction
<1>6. \A p \in 0 .. L : p + L >= L
  BY <1>1
<1> QED
  BY <1>5, <1>6 DEF L

\* The first n characters of s begin before its end.
Chain(s, n) ==
    n \in Nat /\ \A k \in 0 .. n - 1 : /\ ByteOffset(s, k) < Len(s)
                                       /\ CharLength[s[ByteOffset(s, k) + 1]] > 0

LEMMA ChainOffsets ==
    ASSUME NEW s \in Seq(Byte), NEW n, Chain(s, n)
    PROVE  /\ \A k \in 0 .. n : ByteOffset(s, k) \in Nat
           /\ \A k \in 0 .. n - 1 : ByteOffset(s, k + 1) \in ByteOffset(s, k) + 1 .. ByteOffset(s, k) + 4
<1>1. n \in Nat /\ Len(s) \in Nat
  BY DEF Chain
<1> DEFINE S == {k \in Nat : k <= n => ByteOffset(s, k) \in Nat}
<1>2. 0 \in S
  BY ByteOffsetStep
<1>3. ASSUME NEW k \in Nat, k < n, ByteOffset(s, k) \in Nat
      PROVE  ByteOffset(s, k + 1) \in ByteOffset(s, k) + 1 .. ByteOffset(s, k) + 4
  <2> DEFINE b == ByteOffset(s, k)
             w == CharLength[s[b + 1]]
  <2>1. b < Len(s) /\ w > 0
    BY <1>1, <1>3 DEF Chain
  <2>2. s[b + 1] \in Byte
    BY <1>3, <2>1
  <2>3. w \in 0 .. 4
    BY <2>2, CharLengths
  <2>4. ByteOffset(s, k + 1) = b + w
    BY ByteOffsetStep
  <2> HIDE DEF w
  <2> QED
    BY <1>3, <2>1, <2>3, <2>4
<1>4. ASSUME NEW k \in Nat, k \in S PROVE k + 1 \in S
  BY <1>1, <1>3, <1>4
<1> HIDE DEF S
<1>5. \A k \in Nat : k \in S
  BY <1>2, <1>4, Induction
<1> QED
  BY <1>1, <1>3, <1>5 DEF S

LEMMA ChainOfScan ==
    ASSUME NEW s \in Seq(Byte), Scan(s).chars # -1
    PROVE  /\ Chain(s, Scan(s).chars)
           /\ Scan(s).end = ByteOffset(s, Scan(s).chars) /\ Scan(s).end >= Len(s)
<1> DEFINE W == Walk(s)
           T == Scan(s).chars
           o(k) == ByteOffset(s, k)
           S == {k \in Nat : k <= T => /\ Chain(s, k) /\ o(k) \in 0 .. Len(s) + 3
                                       /\ W[o(k)].chars = T - k /\ W[o(k)].end = Scan(s).end}
<1>1. Len(s) \in Nat /\ 0 \in 0 .. Len(s) + 3
  OBVIOUS
<1>2. Scan(s) = W[0] /\ Scan(s) \in Counted /\ T \in Nat
  <2>1. Scan(s) = W[0] /\ Scan(s) \in Counted
    BY <1>1, WalkFacts, WalkType
  <2> QED
    BY <2>1 DEF Counted
<1>3. 0 \in S
  <2>1. o(0) = 0 /\ T - 0 = T /\ Chain(s, 0)
    BY <1>2, ByteOffsetStep DEF Chain
  <2>2. W[o(0)] = Scan(s)
    BY <1>2, <2>1
  <2> HIDE DEF W, T, o
  <2>3. W[o(0)].chars = T /\ W[o(0)].end = Scan(s).end /\ o(0) \in 0 .. Len(s) + 3
    BY <1>1, <2>1, <2>2 DEF T
  <2> QED
    BY <2>1, <2>3
<1>4. ASSUME NEW p \in 0 .. Len(s) + 3, W[p].chars \in Nat
      PROVE  /\ p >= Len(s) => W[p].chars = 0 /\ W[p].end = p
             /\ p < Len(s) =>
                   LET w == CharLength[s[p + 1]]
                   IN  /\ w > 0 /\ p + w \in 0 .. Len(s) + 3 /\ W[p].chars > 0
                       /\ W[p + w].chars = W[p].chars - 1 /\ W[p + w].end = W[p].end
  <2>1. W[p] = Walking(s, W, p)
    BY WalkFacts
  <2>2. CASE p >= Len(s)
    BY <1>1, <2>1, <2>2 DEF Walking
  <2>3. CASE p < Len(s)
    <3> DEFINE w == CharLength[s[p + 1]]
    <3>1. s[p + 1] \in Byte
      BY <1>1, <2>3
    <3>2. w \in 0 .. 4
      BY <3>1, CharLengths
    <3>3. W[p] = IF w = 0 \/ W[p + w].chars = -1 THEN [chars |-> -1, end |-> 0]
                 ELSE [W[p + w] EXCEPT !.chars = @ + 1]
      BY <1>1, <2>1, <2>3 DEF Walking
    <3> HIDE DEF w, W
    <3>4. w # 0 /\ W[p + w].chars # -1
      BY <1>4, <3>3
    <3>5. p + w \in 0 .. Len(s) + 3
      BY <1>1, <2>3, <3>2
    <3>6. W[p + w] \in Counted
      BY <3>5, WalkType DEF W
    <3>7. W[p] = [W[p + w] EXCEPT !.chars = @ + 1]
      BY <3>3, <3>4
    <3>8. W[p].chars = W[p + w].chars + 1 /\ W[p].end = W[p + w].end /\ W[p + w].chars \in Nat
      BY <3>4, <3>6, <3>7 DEF Counted
    <3>9. W[p].chars > 0 /\ W[p + w].chars = W[p].chars - 1 /\ w > 0
      BY <3>2, <3>4, <3>8
    <3> QED
      BY <1>1, <2>3, <3>5, <3>8, <3>9 DEF w
  <2> QED
    BY <1>1, <2>2, <2>3
<1> HIDE DEF W, T
<1>5. ASSUME NEW k \in Nat, k \in S PROVE k + 1 \in S
  <2>1. SUFFICES ASSUME k + 1 <= T
                 PROVE  /\ Chain(s, k + 1) /\ o(k + 1) \in 0 .. Len(s) + 3
                        /\ W[o(k + 1)].chars = T - (k + 1) /\ W[o(k + 1)].end = Scan(s).end
    OBVIOUS
  <2>2. /\ Chain(s, k) /\ o(k) \in 0 .. Len(s) + 3
        /\ W[o(k)].chars = T - k /\ W[o(k)].end = Scan(s).end
    BY <1>2, <1>5, <2>1
  <2>3. W[o(k)].chars \in Nat /\ W[o(k)].chars > 0
    BY <1>2, <2>1, <2>2
  <2>4. PICK p \in 0 .. Len(s) + 3 : p = o(k)
    BY <2>2
  <2>5. PICK w : w = CharLength[s[p + 1]]
    OBVIOUS
  <2>6. /\ p < Len(s) /\ w > 0 /\ p + w \in 0 .. Len(s) + 3
        /\ W[p + w].chars = W[p].chars - 1 /\ W[p + w].end = W[p].end
    BY <1>1, <1>4, <2>3, <2>4, <2>5
  <2>7. o(k + 1) = p + w
    BY <2>4, <2>5, ByteOffsetStep
  <2>8. Chain(s, k + 1)
    BY <2>2, <2>4, <2>5, <2>6 DEF Chain
  <2>9. W[p].chars - 1 = T - (k + 1)
    BY <1>2, <2>2, <2>4
  <2> QED
    BY <2>2, <2>4, <2>6, <2>7, <2>8, <2>9
<1> HIDE DEF S
<1>6. T \in S
  BY <1>2, <1>3, <1>5, Induction
<1>7. /\ Chain(s, T) /\ o(T) \in 0 .. Len(s) + 3
      /\ W[o(T)].chars = T - T /\ W[o(T)].end = Scan(s).end
  BY <1>2, <1>6 DEF S
<1>8. T - T = 0
  BY <1>2
<1>9. o(T) >= Len(s) /\ W[o(T)].end = o(T)
  <2>1. W[o(T)].chars = 0
    BY <1>7, <1>8
  <2>2. PICK p \in 0 .. Len(s) + 3 : p = o(T)
    BY <1>7
  <2> QED
    BY <1>1, <1>4, <2>1, <2>2
<1> QED
  BY <1>7, <1>9 DEF T

LEMMA ScanOfChain ==
    ASSUME NEW s \in Seq(Byte), NEW n, Chain(s, n), ByteOffset(s, n) >= Len(s)
    PROVE  Scan(s) = [chars |-> n, end |-> ByteOffset(s, n)]
<1> DEFINE W == Walk(s)
           o(k) == ByteOffset(s, k)
           S == {j \in Nat : j <= n => W[o(n - j)] = [chars |-> j, end |-> o(n)]}
<1>1. n \in Nat /\ Len(s) \in Nat
  BY DEF Chain
<1>2. \A k \in 0 .. n - 1 : /\ o(k) \in Nat /\ o(k) < Len(s) /\ CharLength[s[o(k) + 1]] \in 1 .. 4
                            /\ o(k + 1) = o(k) + CharLength[s[o(k) + 1]]
                            /\ o(k) \in 0 .. Len(s) + 3 /\ o(k + 1) \in 0 .. Len(s) + 3
  <2>1. TAKE k \in 0 .. n - 1
  <2>2. k \in 0 .. n /\ k \in Nat
    BY <1>1
  <2>3. o(k) \in Nat /\ o(k) < Len(s) /\ CharLength[s[o(k) + 1]] > 0
    BY <2>2, ChainOffsets DEF Chain
  <2>4. PICK p \in Nat : p = o(k)
    BY <2>3
  <2>5. s[p + 1] \in Byte
    BY <1>1, <2>3, <2>4
  <2>6. CharLength[s[p + 1]] \in 1 .. 4
    BY <2>3, <2>4, <2>5, CharLengths
  <2>7. o(k + 1) = p + CharLength[s[p + 1]]
    BY <2>2, <2>4, ByteOffsetStep
  <2> QED
    BY <1>1, <2>3, <2>4, <2>6, <2>7
<1>3. o(n) \in 0 .. Len(s) + 3
  <2>1. CASE n = 0
    BY <1>1, <2>1, ByteOffsetStep
  <2>2. CASE n # 0
    <3>1. n - 1 \in 0 .. n - 1 /\ (n - 1) + 1 = n
      BY <1>1, <2>2
    <3> QED
      BY <1>2, <3>1
  <2> QED
    BY <2>1, <2>2
<1>4. 0 \in S
  <2>1. n - 0 = n
    BY <1>1
  <2>2. W[o(n)] = Walking(s, W, o(n))
    BY <1>3, WalkFacts
  <2> QED
    BY <2>1, <2>2 DEF Walking
<1>5. ASSUME NEW j \in Nat, j \in S PROVE j + 1 \in S
  <2>1. SUFFICES ASSUME j + 1 <= n PROVE W[o(n - (j + 1))] = [chars |-> j + 1, end |-> o(n)]
    OBVIOUS
  <2>2. PICK k \in 0 .. n - 1 : k = n - (j + 1) /\ k + 1 = n - j
    BY <1>1, <2>1
  <2>3. W[o(k + 1)] = [chars |-> j, end |-> o(n)]
    BY <1>1, <1>5, <2>1, <2>2
  <2>4. PICK p \in 0 .. Len(s) + 3 : p = o(k) /\ p < Len(s)
    BY <1>2
  <2>5. PICK w : w = CharLength[s[p + 1]] /\ w \in 1 .. 4 /\ o(k + 1) = p + w
    BY <1>2, <2>4
  <2>6. W[p] = Walking(s, W, p)
    BY WalkFacts
  <2> HIDE DEF W
  <2>7. W[p] = IF w = 0 \/ W[p + w].chars = -1 THEN [chars |-> -1, end |-> 0]
               ELSE [W[p + w] EXCEPT !.chars = @ + 1]
    BY <1>1, <2>4, <2>5, <2>6 DEF Walking
  <2>8. W[p] = [chars |-> j + 1, end |-> o(n)]
    BY <2>3, <2>5, <2>7
  <2> QED
    BY <2>2, <2>4, <2>8
<1> HIDE DEF S
<1>6. n \in S
  BY <1>1, <1>4, <1>5, Induction
<1>7. n - n = 0
  BY <1>1
<1>8. o(n - n) = 0
  BY <1>7, ByteOffsetStep
<1>9. W[o(n - n)] = [chars |-> n, end |-> o(n)]
  BY <1>1, <1>6 DEF S
<1>10. Scan(s) = W[0]
  BY WalkFacts
<1> QED
  BY <1>8, <1>9, <1>10

\* The offsets of a string that Utf8Length accepts end with its length.
LEMMA Utf8LengthFacts ==
    ASSUME NEW s \in Seq(Byte), Utf8Length(s) # -1
    PROVE  Chain(s, Utf8Length(s)) /\ ByteOffset(s, Utf8Length(s)) = Len(s)
<1>1. Scan(s).chars # -1 /\ Utf8Length(s) = Scan(s).chars /\ ~(Scan(s).end > Len(s))
  BY DEF Utf8Length
<1>2. /\ Chain(s, Utf8Length(s)) /\ Scan(s).end = ByteOffset(s, Utf8Length(s))
      /\ Scan(s).end >= Len(s)
  BY <1>1, ChainOfScan
<1>3. Len(s) \in Nat /\ Scan(s).end \in Nat
  <2>1. Utf8Length(s) \in 0 .. Utf8Length(s)
    BY <1>2 DEF Chain
  <2> QED
    BY <1>2, <2>1, ChainOffsets
<1> QED
  BY <1>1, <1>2, <1>3

LEMMA ChainUtf8Length ==
    ASSUME NEW s \in Seq(Byte), NEW n, Chain(s, n), ByteOffset(s, n) = Len(s)
    PROVE  Utf8Length(s) = n
<1>1. Len(s) \in Nat
  OBVIOUS
<1>2. Scan(s) = [chars |-> n, end |-> ByteOffset(s, n)]
  BY <1>1, ScanOfChain
<1> QED
  BY <1>1, <1>2 DEF Utf8Length

\* Every character has a byte at least.
LEMMA OffsetsGrow ==
    ASSUME NEW s \in Seq(Byte), NEW n, Chain(s, n), NEW j \in 0 .. n, NEW k \in 0 .. n, j <= k
    PROVE  /\ ByteOffset(s, j) \in Nat /\ ByteOffset(s, k) \in Nat
           /\ ByteOffset(s, k) >= ByteOffset(s, j) + (k - j)
<1>1. n \in Nat
  BY DEF Chain
<1> DEFINE o(i) == ByteOffset(s, i)
           S == {d \in Nat : j + d <= n => o(j + d) >= o(j) + d}
<1>2. \A i \in 0 .. n : o(i) \in Nat
  BY ChainOffsets
<1>3. 0 \in S
  <2>1. j + 0 = j /\ o(j) \in Nat
    BY <1>2
  <2> QED
    BY <2>1
<1>4. ASSUME NEW d \in Nat, d \in S PROVE d + 1 \in S
  <2>1. SUFFICES ASSUME j + (d + 1) <= n PROVE o(j + (d + 1)) >= o(j) + (d + 1)
    OBVIOUS
  <2>2. PICK i \in 0 .. n - 1 : i = j + d /\ i + 1 = j + (d + 1)
    BY <1>1, <2>1
  <2>3. o(i) >= o(j) + d
    BY <1>1, <1>4, <2>1, <2>2
  <2>4. o(i + 1) \in o(i) + 1 .. o(i) + 4 /\ o(i) \in Nat /\ o(j) \in Nat
    BY <1>1, <1>2, <2>2, ChainOffsets
  <2> QED
    BY <2>2, <2>3, <2>4
<1> HIDE DEF S
<1>5. k - j \in Nat /\ j + (k - j) = k /\ k <= n
  BY <1>1
<1>6. k - j \in S
  BY <1>3, <1>4, <1>5, Induction
<1> QED
  BY <1>2, <1>5, <1>6 DEF S

\* What finalReadUtf8String finds when it reads as many bytes as it misses
\* characters: a character at least, the last one perhaps begun only.
LEMMA ScanAhead ==
    ASSUME NEW t \in Seq(Byte), NEW T, Chain(t, T), NEW q \in 0 .. T, NEW r \in Nat,
           r > 0, q + r <= T,
           NEW a \in Seq(Byte), Len(a) = r,
           \A i \in 1 .. r : a[i] = t[ByteOffset(t, q) + i]
    PROVE  \E j \in 1 .. r : /\ Scan(a) = [chars |-> j, end |-> ByteOffset(t, q + j) - ByteOffset(t, q)]
                             /\ ByteOffset(t, q + j) - ByteOffset(t, q) >= r
<1> DEFINE o(k) == ByteOffset(t, k)
           b == o(q)
           D == {j \in Nat : o(q + j) - b >= r}
<1>1. T \in Nat
  BY DEF Chain
<1>2. \A k \in 0 .. T : o(k) \in Nat
  BY ChainOffsets
<1>3. r \in D
  <2>1. q + r \in 0 .. T /\ q <= q + r /\ (q + r) - q = r
    BY <1>1
  <2>2. o(q + r) >= b + r /\ o(q + r) \in Nat /\ b \in Nat
    BY <2>1, OffsetsGrow
  <2> HIDE DEF o, b
  <2> QED
    BY <2>2
<1>4. PICK j \in D : \A k \in D : j <= k
  <2>1. D \subseteq Nat
    OBVIOUS
  <2> HIDE DEF D
  <2> QED
    BY <1>3, <2>1, Least
<1>5. b \in Nat /\ o(q + 0) = b
  BY <1>2, q + 0 = q
<1>6. j \in 1 .. r
  <2>1. j \in Nat /\ j <= r
    BY <1>3, <1>4
  <2>2. 0 \notin D
    BY <1>5
  <2> QED
    BY <1>4, <2>1, <2>2
<1>7. \A k \in 0 .. j - 1 : k \in Nat /\ q + k \in 0 .. T - 1 /\ o(q + k) \in Nat /\ o(q + k) - b < r
  <2>1. TAKE k \in 0 .. j - 1
  <2>2. k \in Nat /\ k < j /\ q + k \in 0 .. T - 1 /\ q + k \in 0 .. T
    BY <1>1, <1>6
  <2>3. k \notin D
    BY <1>4, <1>6, <2>2
  <2>4. o(q + k) \in Nat
    BY <1>2, <2>2
  <2> HIDE DEF o, b
  <2> QED
    BY <1>5, <2>2, <2>3, <2>4
<1> DEFINE S == {k \in Nat : k <= j => ByteOffset(a, k) = o(q + k) - b /\ Chain(a, k)}
<1>8. 0 \in S
  <2>1. ByteOffset(a, 0) = 0
    BY ByteOffsetStep
  <2>2. Chain(a, 0)
    BY DEF Chain
  <2>3. o(q + 0) - b = 0
    BY <1>5
  <2> QED
    BY <2>1, <2>2, <2>3
<1>9. ASSUME NEW k \in Nat, k \in S PROVE k + 1 \in S
  <2>1. SUFFICES ASSUME k + 1 <= j
                 PROVE  ByteOffset(a, k + 1) = o(q + (k + 1)) - b /\ Chain(a, k + 1)
    OBVIOUS
  <2>2. k \in 0 .. j - 1
    BY <1>6, <2>1
  <2>3. ByteOffset(a, k) = o(q + k) - b /\ Chain(a, k)
    BY <1>6, <1>9, <2>2
  <2>4. PICK p \in Nat : p = ByteOffset(a, k)
    <3>1. k \in 0 .. k
      BY <2>2
    <3> QED
      BY <2>3, <3>1, ChainOffsets
  <2>5. q + k \in 0 .. T - 1 /\ o(q + k) \in Nat /\ p < r /\ o(q + k) = b + p
    <3>1. /\ q + k \in 0 .. T - 1 /\ o(q + k) \in Nat /\ o(q + k) - b < r
          /\ p = o(q + k) - b /\ b \in Nat
      BY <1>5, <1>7, <2>2, <2>3, <2>4
    <3> HIDE DEF o, b
    <3> QED
      BY <3>1
  <2>6. a[p + 1] = t[b + (p + 1)] /\ b + (p + 1) = o(q + k) + 1
    <3>1. p + 1 \in 1 .. r
      BY <2>4, <2>5
    <3>2. a[p + 1] = t[b + (p + 1)]
      BY <3>1
    <3> HIDE DEF o, b
    <3> QED
      BY <1>5, <2>4, <2>5, <3>2
  <2>7. PICK w : w = CharLength[t[o(q + k) + 1]]
    OBVIOUS
  <2>8. w > 0 /\ o((q + k) + 1) = o(q + k) + w /\ q + (k + 1) = (q + k) + 1
    <3>1. q + k \in Nat /\ q + (k + 1) = (q + k) + 1
      BY <2>2, <2>5
    <3>2. w > 0
      BY <2>5, <2>7 DEF Chain
    <3>3. o((q + k) + 1) = o(q + k) + w
      BY <2>7, <3>1, ByteOffsetStep
    <3> QED
      BY <3>1, <3>2, <3>3
  <2>9. CharLength[a[p + 1]] = w
    BY <2>6, <2>7
  <2>10. ByteOffset(a, k + 1) = p + w
    BY <2>4, <2>9, ByteOffsetStep
  <2>11. Chain(a, k + 1)
    BY <2>3, <2>4, <2>5, <2>8, <2>9 DEF Chain
  <2>12. w \in Int
    <3>1. q + k \in Nat /\ (q + k) + 1 \in 0 .. T
      BY <1>1, <2>5
    <3>2. o((q + k) + 1) \in Nat
      BY <1>2, <3>1
    <3>3. t[o(q + k) + 1] \in Byte
      BY <2>5 DEF Chain
    <3> QED
      BY <2>7, <3>3, CharLengths
  <2> HIDE DEF o, b
  <2> QED
    BY <1>5, <2>5, <2>8, <2>10, <2>11, <2>12
<1> HIDE DEF S, D
<1>10. ByteOffset(a, j) = o(q + j) - b /\ Chain(a, j)
  <2>1. j \in Nat /\ j <= j
    BY <1>6
  <2>2. j \in S
    BY <1>8, <1>9, <2>1, Induction
  <2> QED
    BY <2>1, <2>2 DEF S
<1>11. o(q + j) - b >= r
  BY <1>4 DEF D
<1>12. Scan(a) = [chars |-> j, end |-> ByteOffset(a, j)]
  BY <1>10, <1>11, ScanOfChain
<1> QED
  BY <1>6, <1>10, <1>11, <1>12

-----------------------------------------------------------------------------
(* Pieces of sequences. *)

LEMMA Joined ==
    ASSUME NEW S, NEW s \in Seq(S), NEW t \in Seq(S)
    PROVE  /\ s \o t \in Seq(S) /\ Len(s) \in Nat /\ Len(t) \in Nat
           /\ Len(s \o t) = Len(s) + Len(t)
           /\ \A i \in 1 .. Len(s) : (s \o t)[i] = s[i]
           /\ \A j \in 1 .. Len(t) : (s \o t)[Len(s) + j] = t[j]
<1>1. Len(s) \in Nat /\ Len(t) \in Nat
  BY LenProperties
<1>2. /\ s \o t \in Seq(S) /\ Len(s \o t) = Len(s) + Len(t)
      /\ \A i \in 1 .. Len(s) + Len(t) :
             (s \o t)[i] = IF i <= Len(s) THEN s[i] ELSE t[i - Len(s)]
  BY ConcatProperties
<1>3. ASSUME NEW i \in 1 .. Len(s) PROVE (s \o t)[i] = s[i]
  BY <1>1, <1>2
<1>4. ASSUME NEW j \in 1 .. Len(t) PROVE (s \o t)[Len(s) + j] = t[j]
  <2>1. /\ Len(s) + j \in 1 .. Len(s) + Len(t) /\ ~(Len(s) + j <= Len(s))
        /\ Len(s) + j - Len(s) = j
    BY <1>1
  <2> QED
    BY <1>2, <2>1
<1> QED
  BY <1>1, <1>2, <1>3, <1>4

LEMMA Piece ==
    ASSUME NEW S, NEW s \in Seq(S), NEW m \in Nat, NEW n \in Nat, m <= n, n <= Len(s)
    PROVE  /\ SubSeq(s, m + 1, n) \in Seq(S) /\ Len(SubSeq(s, m + 1, n)) = n - m
           /\ \A i \in 1 .. n - m : SubSeq(s, m + 1, n)[i] = s[m + i]
<1>1. Len(s) \in Nat /\ \A i \in m + 1 .. n : s[i] \in S
  BY LenProperties
<1>2. /\ SubSeq(s, m + 1, n) \in Seq(S)
      /\ Len(SubSeq(s, m + 1, n)) = IF m + 1 <= n THEN n - (m + 1) + 1 ELSE 0
      /\ \A i \in 1 .. n - (m + 1) + 1 : SubSeq(s, m + 1, n)[i] = s[m + 1 + i - 1]
  BY <1>1, SubSeqProperties
<1>3. \A i \in 1 .. n - m : i \in 1 .. n - (m + 1) + 1 /\ m + 1 + i - 1 = m + i
  OBVIOUS
<1> QED
  BY <1>2, <1>3

\* A beginning of s, carried on by the bytes that follow it.
LEMMA Extended ==
    ASSUME NEW S, NEW s \in Seq(S), NEW m \in Nat, NEW n \in Nat, m <= n, n <= Len(s),
           NEW t \in Seq(S), Len(t) = n - m, \A i \in 1 .. n - m : t[i] = s[m + i]
    PROVE  SubSeq(s, 1, m) \o t = SubSeq(s, 1, n)
<1> DEFINE a == SubSeq(s, 0 + 1, m)
           b == SubSeq(s, 0 + 1, n)
<1>1. Len(s) \in Nat /\ 0 + 1 = 1 /\ m - 0 = m /\ n - 0 = n /\ m <= Len(s)
  BY LenProperties
<1>2. a \in Seq(S) /\ Len(a) = m /\ \A i \in 1 .. m : a[i] = s[0 + i]
  BY <1>1, Piece
<1>3. b \in Seq(S) /\ Len(b) = n /\ \A i \in 1 .. n : b[i] = s[0 + i]
  BY <1>1, Piece
<1> HIDE DEF a, b
<1>4. /\ a \o t \in Seq(S) /\ Len(a \o t) = m + (n - m)
      /\ \A i \in 1 .. m : (a \o t)[i] = a[i]
      /\ \A j \in 1 .. n - m : (a \o t)[m + j] = t[j]
  <2>1. /\ a \o t \in Seq(S) /\ Len(a \o t) = Len(a) + Len(t)
        /\ \A i \in 1 .. Len(a) : (a \o t)[i] = a[i]
        /\ \A j \in 1 .. Len(t) : (a \o t)[Len(a) + j] = t[j]
    <3>0. a \in Seq(S) /\ t \in Seq(S)
      BY <1>2
    <3>1. a \o t \in Seq(S) /\ Len(a \o t) = Len(a) + Len(t)
      BY <3>0, Joined
    <3>2. \A i \in 1 .. Len(a) : (a \o t)[i] = a[i]
      BY <3>0, Joined
    <3>3. \A j \in 1 .. Len(t) : (a \o t)[Len(a) + j] = t[j]
      BY <3>0, Joined
    <3> QED
      BY <3>1, <3>2, <3>3
  <2> QED
    BY <1>2, <2>1
<1>5. ASSUME NEW i \in 1 .. n PROVE (a \o t)[i] = b[i]
  <2>1. CASE i <= m
    BY <1>2, <1>3, <1>4, <2>1
  <2>2. CASE ~(i <= m)
    <3>1. PICK j \in 1 .. n - m : i = m + j
      <4>1. i - m \in 1 .. n - m /\ i = m + (i - m)
        BY <2>2
      <4> QED
        BY <4>1
    <3>2. (a \o t)[i] = s[m + j]
      BY <1>4, <3>1
    <3> QED
      BY <1>3, <3>1, <3>2
  <2> QED
    BY <2>1, <2>2
<1>6. Len(a \o t) = n
  BY <1>4
<1>7. a \o t = b
  BY <1>3, <1>4, <1>5, <1>6, SeqEqual
<1> QED
  BY <1>1, <1>7 DEF a, b

-----------------------------------------------------------------------------
(* The wire: K chunks of the string t, where at[k] elements and ch[k]      *)
(* characters come before chunk k + 1; w need not have all of it.          *)

Element == [op : Chunks \cup {"data", "next"}, n : Nat]

Chunk(t, w, K, at, ch, done, k) ==
    /\ at[k] < Len(w) =>
           /\ w[at[k] + 1].op \in Chunks /\ w[at[k] + 1].n = ch[k + 1] - ch[k]
           /\ w[at[k] + 1].op # "R" <=> done /\ k = K - 1
    /\ \A i \in 1 .. ByteOffset(t, ch[k + 1]) - ByteOffset(t, ch[k]) :
           at[k] + 1 + i <= Len(w) => w[at[k] + 1 + i].n = t[ByteOffset(t, ch[k]) + i]

Framed(t, w, K, at, ch, done) ==
    /\ K \in Nat /\ at \in [Nat -> Nat] /\ ch \in [Nat -> Nat]
    /\ at[0] = 0 /\ ch[0] = 0
    /\ \A k \in 0 .. K : at[k] <= at[K] /\ ch[k] <= Utf8Length(t)
    /\ \A k \in 0 .. K - 1 :
          /\ ch[k] <= ch[k + 1]
          /\ at[k + 1] = at[k] + 1 + (ByteOffset(t, ch[k + 1]) - ByteOffset(t, ch[k]))
          /\ Chunk(t, w, K, at, ch, done, k)

\* The characters of a whole string.
String(t) == t \in Seq(Byte) /\ Utf8Length(t) # -1

LEMMA StringFacts ==
    ASSUME NEW t, String(t)
    PROVE  /\ Utf8Length(t) \in Nat /\ Chain(t, Utf8Length(t))
           /\ ByteOffset(t, Utf8Length(t)) = Len(t) /\ Len(t) \in Nat
           /\ \A j, k \in 0 .. Utf8Length(t) : j <= k =>
                 /\ ByteOffset(t, j) \in Nat /\ ByteOffset(t, k) \in Nat
                 /\ ByteOffset(t, k) - ByteOffset(t, j) >= k - j
                 /\ ByteOffset(t, k) <= Len(t)
<1>1. /\ t \in Seq(Byte) /\ Chain(t, Utf8Length(t))
      /\ ByteOffset(t, Utf8Length(t)) = Len(t) /\ Len(t) \in Nat
  BY Utf8LengthFacts DEF String
<1>2. Utf8Length(t) \in Nat
  BY <1>1 DEF Chain
<1>3. ASSUME NEW j \in 0 .. Utf8Length(t), NEW k \in 0 .. Utf8Length(t), j <= k
      PROVE  /\ ByteOffset(t, j) \in Nat /\ ByteOffset(t, k) \in Nat
             /\ ByteOffset(t, k) - ByteOffset(t, j) >= k - j
  <2>1. /\ ByteOffset(t, j) \in Nat /\ ByteOffset(t, k) \in Nat
        /\ ByteOffset(t, k) >= ByteOffset(t, j) + (k - j)
    BY <1>1, <1>3, OffsetsGrow
  <2> QED
    BY <2>1
<1>4. ASSUME NEW k \in 0 .. Utf8Length(t)
      PROVE  ByteOffset(t, k) <= Len(t)
  <2>1. Utf8Length(t) \in 0 .. Utf8Length(t) /\ k <= Utf8Length(t)
    BY <1>2
  <2>2. ByteOffset(t, Utf8Length(t)) - ByteOffset(t, k) >= Utf8Length(t) - k /\ ByteOffset(t, k) \in Nat
    BY <1>3, <2>1
  <2> QED
    BY <1>1, <1>2, <2>2
<1> QED
  BY <1>1, <1>2, <1>3, <1>4

\* What Segment cuts out of a string.
LEMMA SegmentFacts ==
    ASSUME NEW t, String(t), NEW m \in Nat, NEW n \in Nat, m + n <= Utf8Length(t)
    PROVE  LET b == ByteOffset(t, m)
               e == ByteOffset(t, m + n)
           IN  /\ b \in Nat /\ e \in Nat /\ b <= e /\ e <= Len(t)
               /\ Segment(t, m, m + n) \in Seq(Byte) /\ Len(Segment(t, m, m + n)) = e - b
               /\ \A i \in 1 .. e - b : Segment(t, m, m + n)[i] = t[b + i]
<1> DEFINE b == ByteOffset(t, m)
           e == ByteOffset(t, m + n)
<1>1. m \in 0 .. Utf8Length(t) /\ m + n \in 0 .. Utf8Length(t) /\ m <= m + n /\ (m + n) - m = n
  BY StringFacts
<1>2. b \in Nat /\ e \in Nat /\ e - b >= n /\ e <= Len(t)
  BY <1>1, StringFacts
<1>3. t \in Seq(Byte)
  BY DEF String
<1>4. Segment(t, m, m + n) = SubSeq(t, b + 1, e)
  BY DEF Segment
<1> HIDE DEF b, e
<1>5. b <= e
  BY <1>2
<1>6. /\ SubSeq(t, b + 1, e) \in Seq(Byte) /\ Len(SubSeq(t, b + 1, e)) = e - b
      /\ \A i \in 1 .. e - b : SubSeq(t, b + 1, e)[i] = t[b + i]
  BY <1>2, <1>3, <1>5, Piece
<1> QED
  BY <1>2, <1>4, <1>5, <1>6 DEF b, e

\* What WriteChunk makes of the wire.
Written(w, op, n, s) == w \o <<Code(op, n)>> \o Bytes(s)

LEMMA ChunkElements ==
    ASSUME NEW w \in Seq(Element), NEW s \in Seq(Byte), NEW op \in Chunks, NEW n \in Nat
    PROVE  /\ Written(w, op, n, s) \in Seq(Element) /\ Len(w) \in Nat /\ Len(s) \in Nat
           /\ Len(Written(w, op, n, s)) = Len(w) + 1 + Len(s)
           /\ \A i \in 1 .. Len(w) : Written(w, op, n, s)[i] = w[i]
           /\ Written(w, op, n, s)[Len(w) + 1] = Code(op, n)
           /\ \A i \in 1 .. Len(s) : Written(w, op, n, s)[Len(w) + 1 + i] = Code("data", s[i])
<1> DEFINE c == <<Code(op, n)>>
           d == Bytes(s)
<1>1. Len(w) \in Nat /\ Len(s) \in Nat
  BY LenProperties
<1>2. c \in Seq(Element) /\ Len(c) = 1 /\ c[1] = Code(op, n)
  BY DEF Code, Element
<1>3. d \in Seq(Element) /\ Len(d) = Len(s) /\ \A i \in 1 .. Len(s) : d[i] = Code("data", s[i])
  <2>1. ASSUME NEW i \in 1 .. Len(s) PROVE Code("data", s[i]) \in Element
    <3>1. s[i] \in 0 .. 7
      BY DEF Byte
    <3>2. s[i] \in Nat
      BY <3>1
    <3> QED
      BY <3>2 DEF Code, Element
  <2> QED
    BY <1>1, <2>1 DEF Bytes
<1> DEFINE u == w \o c
           v == u \o d
<1> HIDE DEF c, d
<1>4. w \in Seq(Element) /\ c \in Seq(Element)
  BY <1>2
<1>5. u \in Seq(Element)
  BY <1>4, Joined
<1>6. Len(u) = Len(w) + Len(c)
  BY <1>4, Joined
<1>7. \A i \in 1 .. Len(w) : u[i] = w[i]
  BY <1>4, Joined
<1>8. \A j \in 1 .. Len(c) : u[Len(w) + j] = c[j]
  BY <1>4, Joined
<1> HIDE DEF u
<1>9. u[Len(w) + 1] = Code(op, n) /\ Len(u) = Len(w) + 1
  BY <1>2, <1>6, <1>8
<1>10. u \in Seq(Element) /\ d \in Seq(Element)
  BY <1>3, <1>5
<1>11. v \in Seq(Element)
  BY <1>10, Joined
<1>12. Len(v) = Len(u) + Len(d)
  BY <1>10, Joined
<1>13. \A i \in 1 .. Len(u) : v[i] = u[i]
  BY <1>10, Joined
<1>14. \A j \in 1 .. Len(d) : v[Len(u) + j] = d[j]
  BY <1>10, Joined
<1> HIDE DEF v
<1>15. \A i \in 1 .. Len(w) : v[i] = w[i]
  BY <1>1, <1>7, <1>9, <1>13
<1>16. v[Len(w) + 1] = Code(op, n)
  BY <1>1, <1>9, <1>13
<1>17. \A j \in 1 .. Len(s) : v[Len(w) + 1 + j] = Code("data", s[j])
  BY <1>3, <1>9, <1>14
<1>18. Len(v) = Len(w) + 1 + Len(s)
  BY <1>3, <1>9, <1>12
<1>19. Written(w, op, n, s) = v
  BY DEF Written, c, d, u, v
<1> QED
  BY <1>1, <1>11, <1>15, <1>16, <1>17, <1>18, <1>19

\* Another chunk, which is the last one if its code is not that of "R".
Continued(t, v, K, last, n) ==
    /\ v \in Seq(Element)
    /\ \E at, ch : Framed(t, v, K + 1, at, ch, last) /\ Len(v) = at[K + 1] /\ ch[K + 1] = n

LEMMA FramedCarriesOn ==
    ASSUME NEW t, String(t), NEW w \in Seq(Element), NEW K, NEW at, NEW ch,
           Framed(t, w, K, at, ch, FALSE), Len(w) = at[K],
           NEW op \in Chunks, NEW n \in Nat, ch[K] + n <= Utf8Length(t)
    PROVE  Continued(t, Written(w, op, n, Segment(t, ch[K], ch[K] + n)), K, op # "R", ch[K] + n)
<1> DEFINE m == ch[K]
           o(k) == ByteOffset(t, k)
           T == Utf8Length(t)
           g == Segment(t, m, m + n)
           v == Written(w, op, n, g)
           at2 == [at EXCEPT ![K + 1] = at[K] + 1 + (o(m + n) - o(m))]
           ch2 == [ch EXCEPT ![K + 1] = m + n]
<1>1. /\ K \in Nat /\ at \in [Nat -> Nat] /\ ch \in [Nat -> Nat] /\ at[0] = 0 /\ ch[0] = 0
      /\ \A k \in 0 .. K : at[k] <= at[K] /\ ch[k] <= T
      /\ \A k \in 0 .. K - 1 :
            /\ ch[k] <= ch[k + 1]
            /\ at[k + 1] = at[k] + 1 + (o(ch[k + 1]) - o(ch[k]))
            /\ Chunk(t, w, K, at, ch, FALSE, k)
  BY DEF Framed
<1>2. m \in Nat /\ K \in Nat /\ K + 1 \in Nat /\ at[K] \in Nat /\ m + n <= T /\ T \in Nat
  BY <1>1, StringFacts
<1>3. /\ o(m) \in Nat /\ o(m + n) \in Nat /\ o(m) <= o(m + n)
      /\ g \in Seq(Byte) /\ Len(g) = o(m + n) - o(m)
      /\ \A i \in 1 .. o(m + n) - o(m) : g[i] = t[o(m) + i]
  BY <1>2, SegmentFacts
<1> HIDE DEF m, T, g, v
<1>4. /\ v \in Seq(Element) /\ Len(w) \in Nat
      /\ Len(v) = Len(w) + 1 + Len(g)
      /\ \A i \in 1 .. Len(w) : v[i] = w[i]
      /\ v[Len(w) + 1] = Code(op, n)
      /\ \A i \in 1 .. Len(g) : v[Len(w) + 1 + i] = Code("data", g[i])
  <2>1. g \in Seq(Byte)
    BY <1>3
  <2>2. v \in Seq(Element) /\ Len(w) \in Nat
    BY <2>1, ChunkElements DEF v
  <2>3. Len(v) = Len(w) + 1 + Len(g)
    BY Zenon, <2>1, ChunkElements DEF v
  <2>4. \A i \in 1 .. Len(w) : v[i] = w[i]
    BY Zenon, <2>1, ChunkElements DEF v
  <2>5. v[Len(w) + 1] = Code(op, n)
    BY <2>1, ChunkElements DEF v
  <2>6. \A i \in 1 .. Len(g) : v[Len(w) + 1 + i] = Code("data", g[i])
    BY Zenon, <2>1, ChunkElements DEF v
  <2> QED
    BY <2>2, <2>3, <2>4, <2>5, <2>6
<1> HIDE DEF o
<1>13. \A k \in 0 .. K : /\ k \in Nat /\ at[k] \in Nat /\ ch[k] \in Nat
                         /\ at[k] <= at[K] /\ ch[k] <= T
  <2>1. K \in Nat /\ at \in [Nat -> Nat] /\ ch \in [Nat -> Nat]
    BY <1>1
  <2>2. \A k \in 0 .. K : k \in Nat /\ at[k] \in Nat /\ ch[k] \in Nat
    <3>1. TAKE k \in 0 .. K
    <3>2. k \in Nat
      BY <2>1
    <3> QED
      BY <2>1, <3>2
  <2> QED
    BY <1>1, <2>2
<1>14. Len(w) \in Nat
  BY LenProperties
<1>5. PICK e \in Nat : e = o(m + n) - o(m)
  <2>1. o(m + n) - o(m) \in Nat
    BY <1>3
  <2> QED
    BY <2>1
<1>6. at2 \in [Nat -> Nat] /\ ch2 \in [Nat -> Nat] /\ at2[0] = 0 /\ ch2[0] = 0
  <2>1. at[K] + 1 + (o(m + n) - o(m)) \in Nat /\ m + n \in Nat /\ K + 1 # 0
    BY <1>2, <1>5
  <2> QED
    BY <1>1, <1>2, <2>1
<1>7. at2[K + 1] = at[K] + 1 + e /\ ch2[K + 1] = m + n
  BY <1>1, <1>2, <1>5
<1>8. \A k \in 0 .. K : k \in Nat /\ k # K + 1 /\ at2[k] = at[k] /\ ch2[k] = ch[k]
  BY <1>1
<1> HIDE DEF at2, ch2
<1>9. Len(v) = at2[K + 1]
  BY <1>3, <1>4, <1>5, <1>7
<1>10. \A k \in 0 .. K + 1 : at2[k] <= at2[K + 1] /\ ch2[k] <= T
  <2>1. TAKE k \in 0 .. K + 1
  <2>2. CASE k = K + 1
    <3>1. at2[K + 1] \in Nat
      BY <1>2, <1>6
    <3> QED
      BY <1>2, <1>7, <2>2, <3>1
  <2>3. CASE k # K + 1
    <3>1. k \in 0 .. K
      BY <1>1, <2>3
    <3>2. at[k] <= at[K] /\ ch[k] <= T /\ at[k] \in Nat
      BY <1>13, <3>1
    <3> QED
      BY <1>2, <1>7, <1>8, <3>1, <3>2
  <2> QED
    BY <2>2, <2>3
<1>11. ASSUME NEW k \in 0 .. K
       PROVE  /\ ch2[k] <= ch2[k + 1]
              /\ at2[k + 1] = at2[k] + 1 + (o(ch2[k + 1]) - o(ch2[k]))
              /\ Chunk(t, v, K + 1, at2, ch2, op # "R", k)
  <2>1. CASE k = K
    <3>1. /\ ch2[k] = m /\ ch2[k + 1] = m + n /\ at2[k] = Len(w)
          /\ at2[k + 1] = Len(w) + 1 + e
      BY <1>1, <1>7, <1>8, <2>1 DEF m
    <3>2. v[Len(w) + 1].op = op /\ v[Len(w) + 1].n = n /\ n = (m + n) - m
      <4>1. (m + n) - m = n
        BY <1>2
      <4> QED
        BY <1>4, <4>1 DEF Code
    <3>3. \A i \in 1 .. e : v[Len(w) + 1 + i].n = t[o(m) + i]
      <4>1. TAKE i \in 1 .. e
      <4>2. i \in 1 .. Len(g) /\ g[i] = t[o(m) + i]
        BY <1>3, <1>5
      <4>3. v[Len(w) + 1 + i] = Code("data", g[i])
        BY <1>4, <4>2
      <4> QED
        BY <4>2, <4>3 DEF Code
    <3>4. op # "R" <=> op # "R" /\ k = (K + 1) - 1
      BY <1>1, <2>1
    <3>5. Chunk(t, v, K + 1, at2, ch2, op # "R", k)
      BY <1>5, <3>1, <3>2, <3>3, <3>4 DEF Chunk, o
    <3> QED
      BY <1>2, <1>5, <3>1, <3>5
  <2>2. CASE k # K
    <3>1. k \in 0 .. K - 1 /\ k \in 0 .. K /\ k + 1 \in 0 .. K /\ k # (K + 1) - 1 /\ k \in Nat
      BY <1>1, <2>2
    <3>2. /\ ch[k] <= ch[k + 1] /\ at[k + 1] = at[k] + 1 + (o(ch[k + 1]) - o(ch[k]))
          /\ Chunk(t, w, K, at, ch, FALSE, k)
      BY <1>1, <3>1
    <3>3. ch2[k] = ch[k] /\ ch2[k + 1] = ch[k + 1] /\ at2[k] = at[k] /\ at2[k + 1] = at[k + 1]
      BY <1>8, <3>1
    <3>4. at[k] \in Nat /\ at[k + 1] \in Nat /\ at[k + 1] <= Len(w) /\ ch[k] \in Nat /\ ch[k + 1] \in Nat
          /\ ch[k] <= T /\ ch[k + 1] <= T
      BY <1>13, <3>1
    <3>5. o(ch[k + 1]) \in Nat /\ o(ch[k]) \in Nat /\ o(ch[k]) <= o(ch[k + 1])
      <4>1. ch[k] \in 0 .. T /\ ch[k + 1] \in 0 .. T
        BY <1>2, <3>4
      <4>2. o(ch[k + 1]) \in Nat /\ o(ch[k]) \in Nat /\ o(ch[k + 1]) - o(ch[k]) >= ch[k + 1] - ch[k]
        BY <3>2, <4>1, StringFacts DEF T, o
      <4> QED
        BY <3>2, <3>4, <4>2
    <3>6. at[k] < Len(w) /\ at[k] + 1 \in 1 .. Len(w) /\ v[at[k] + 1] = w[at[k] + 1] /\ at[k] < Len(v)
      <4>1. at[k] < Len(w) /\ at[k] + 1 \in 1 .. Len(w)
        <5>1. PICK d \in Nat : d = o(ch[k + 1]) - o(ch[k])
          <6>1. o(ch[k + 1]) - o(ch[k]) \in Nat
            BY <3>5
          <6> QED
            BY <6>1
        <5>2. at[k + 1] = at[k] + 1 + d
          BY <3>2, <5>1
        <5> QED
          BY <1>14, <3>4, <5>2
      <4>2. Len(v) \in Nat /\ Len(v) > Len(w)
        BY <1>3, <1>4, <1>5
      <4>3. v[at[k] + 1] = w[at[k] + 1]
        BY <1>4, <4>1
      <4> QED
        BY <1>4, <3>4, <4>1, <4>2, <4>3
    <3>7. w[at[k] + 1].op \in Chunks /\ w[at[k] + 1].n = ch[k + 1] - ch[k] /\ ~ (w[at[k] + 1].op # "R")
      BY <3>2, <3>6 DEF Chunk
    <3>8. ASSUME NEW i \in 1 .. o(ch[k + 1]) - o(ch[k])
          PROVE  v[at[k] + 1 + i].n = t[o(ch[k]) + i]
      <4>1. at[k] + 1 + i <= at[k + 1] /\ at[k] + 1 + i \in 1 .. Len(w)
        <5>1. PICK d \in Nat : d = o(ch[k + 1]) - o(ch[k])
          <6>1. o(ch[k + 1]) - o(ch[k]) \in Nat
            BY <3>5
          <6> QED
            BY <6>1
        <5>2. at[k + 1] = at[k] + 1 + d /\ i \in 1 .. d
          BY <3>2, <5>1
        <5> QED
          BY <1>14, <3>4, <5>2
      <4>2. w[at[k] + 1 + i].n = t[o(ch[k]) + i]
        BY <3>2, <3>4, <4>1 DEF Chunk, o
      <4> QED
        BY <1>4, <4>1, <4>2
    <3>9. Chunk(t, v, K + 1, at2, ch2, op # "R", k)
      BY <3>1, <3>3, <3>6, <3>7, <3>8 DEF Chunk, o
    <3> QED
      BY <3>2, <3>3, <3>9
  <2> QED
    BY <2>1, <2>2
<1>12. Framed(t, v, K + 1, at2, ch2, op # "R")
  <2>1. \A k \in 0 .. (K + 1) - 1 : k \in 0 .. K
    BY <1>1
  <2>2. K + 1 \in Nat
    BY <1>1
  <2> QED
    BY <1>6, <1>10, <1>11, <2>1, <2>2 DEF Framed, o, T
<1>15. Continued(t, v, K, op # "R", m + n)
  BY <1>4, <1>7, <1>9, <1>12 DEF Continued
<1> QED
  BY <1>15 DEF m, g, v

\* A chunk whose code is among the first elements of the wire, and its bytes:
\* what the decoder meets in it, at p, after q characters of t.
Located(t, w, K, at, ch, k, q, p) ==
    /\ p \in Nat /\ at[k] \in Nat /\ at[k] < p
    /\ at[k + 1] = p + (ByteOffset(t, ch[k + 1]) - ByteOffset(t, q))
    /\ at[k + 1] \in Nat /\ at[k + 1] <= at[K]
    /\ ch[k] \in Nat /\ ch[k + 1] \in Nat /\ ch[k + 1] <= Utf8Length(t)
    /\ ByteOffset(t, q) \in Nat /\ ByteOffset(t, ch[k + 1]) - ByteOffset(t, q) >= ch[k + 1] - q
    /\ \A i \in 1 .. ByteOffset(t, ch[k + 1]) - ByteOffset(t, q) :
          p + i <= Len(w) => w[p + i].n = t[ByteOffset(t, q) + i]

LEMMA ChunkAhead ==
    ASSUME NEW t, String(t), NEW w \in Seq(Element), NEW K, NEW at, NEW ch, NEW done,
           Framed(t, w, K, at, ch, done),
           NEW k \in 0 .. K - 1, NEW q \in Nat, ch[k] <= q, q <= ch[k + 1],
           NEW p, p = at[k] + 1 + (ByteOffset(t, q) - ByteOffset(t, ch[k]))
    PROVE  Located(t, w, K, at, ch, k, q, p)
<1> DEFINE o(i) == ByteOffset(t, i)
           T == Utf8Length(t)
<1>1. K \in Nat /\ at \in [Nat -> Nat] /\ ch \in [Nat -> Nat]
  BY DEF Framed
<1>2. k \in Nat /\ k + 1 \in Nat /\ k \in 0 .. K /\ k + 1 \in 0 .. K
  BY <1>1
<1>3. at[k] \in Nat /\ at[k + 1] \in Nat /\ ch[k] \in Nat /\ ch[k + 1] \in Nat
  BY <1>1, <1>2
<1>4. at[k + 1] <= at[K] /\ ch[k + 1] <= T
  BY <1>2 DEF Framed
<1>5. at[k + 1] = at[k] + 1 + (o(ch[k + 1]) - o(ch[k])) /\ Chunk(t, w, K, at, ch, done, k)
  BY DEF Framed
<1>6. T \in Nat
  BY StringFacts
<1>7. PICK x \in Nat, y \in Nat, z \in Nat :
           /\ x = o(ch[k]) /\ y = o(q) /\ z = o(ch[k + 1])
           /\ y - x >= q - ch[k] /\ z - y >= ch[k + 1] - q
  <2>1. ch[k] \in 0 .. T /\ q \in 0 .. T /\ ch[k + 1] \in 0 .. T
    BY <1>3, <1>4, <1>6
  <2>2. /\ o(ch[k]) \in Nat /\ o(q) \in Nat /\ o(ch[k + 1]) \in Nat
        /\ o(q) - o(ch[k]) >= q - ch[k] /\ o(ch[k + 1]) - o(q) >= ch[k + 1] - q
    BY <2>1, StringFacts
  <2> HIDE DEF o
  <2> QED
    BY <2>2
<1>11. PICK c \in Nat, d \in Nat, e \in Nat : c = ch[k] /\ d = ch[k + 1] /\ e = at[k]
  BY <1>3
<1>12. c <= q /\ q <= d /\ y - x >= q - c /\ z - y >= d - q
  BY <1>7, <1>11
<1>13. x <= y /\ y <= z
  BY <1>12
<1>8. p = e + 1 + (y - x) /\ at[k + 1] = e + 1 + (z - x)
  BY <1>5, <1>7, <1>11
<1>14. p \in Nat /\ e < p
  BY <1>8, <1>13
<1>9. at[k + 1] = p + (z - y)
  <2>1. e + 1 + (z - x) = (e + 1 + (y - x)) + (z - y)
    OBVIOUS
  <2> QED
    BY <1>8, <2>1
<1>10. ASSUME NEW i \in 1 .. z - y, p + i <= Len(w)
       PROVE  w[p + i].n = t[y + i]
  <2>1. PICK j \in 1 .. z - x : j = (y - x) + i
    <3>1. (y - x) + i \in 1 .. z - x
      BY <1>13
    <3> QED
      BY <3>1
  <2>2. e + 1 + j = p + i /\ x + j = y + i
    <3>1. p = e + 1 + (y - x)
      BY <1>8
    <3> QED
      BY <2>1, <3>1
  <2>3. j \in 1 .. o(ch[k + 1]) - o(ch[k])
    BY <1>7
  <2>4. e + 1 + j <= Len(w)
    BY <1>10, <2>2
  <2>5. w[e + 1 + j].n = t[o(ch[k]) + j]
    BY <1>5, <1>11, <2>3, <2>4 DEF Chunk
  <2> QED
    BY <1>7, <2>2, <2>5
<1> QED
  BY <1>3, <1>4, <1>7, <1>9, <1>10, <1>11, <1>14 DEF Located

\* A part of the wire, or the wire and more.
LEMMA FramedPart ==
    ASSUME NEW t, String(t), NEW w \in Seq(Element), NEW K, NEW at, NEW ch, NEW done,
           Framed(t, w, K, at, ch, done), Len(w) = at[K],
           NEW v \in Seq(Element),
           \A i \in 1 .. Len(w) : i <= Len(v) => v[i] = w[i]
    PROVE  Framed(t, v, K, at, ch, done)
<1>1. K \in Nat /\ at \in [Nat -> Nat] /\ ch \in [Nat -> Nat] /\ Len(w) \in Nat /\ Len(v) \in Nat
  BY LenProperties DEF Framed
<1>2. SUFFICES ASSUME NEW k \in 0 .. K - 1 PROVE Chunk(t, v, K, at, ch, done, k)
  BY DEF Framed
<1>3. /\ at[k + 1] = at[k] + 1 + (ByteOffset(t, ch[k + 1]) - ByteOffset(t, ch[k]))
      /\ ch[k] <= ch[k + 1] /\ Chunk(t, w, K, at, ch, done, k)
  BY DEF Framed
<1>4. k \in Nat /\ ch[k] \in Nat
  <2>1. k \in Nat
    BY <1>1
  <2> QED
    BY <1>1, <2>1
<1>5. PICK p : p = at[k] + 1 + (ByteOffset(t, ch[k]) - ByteOffset(t, ch[k]))
  OBVIOUS
<1>6. /\ p \in Nat /\ at[k] \in Nat /\ ByteOffset(t, ch[k]) \in Nat
      /\ at[k + 1] = p + (ByteOffset(t, ch[k + 1]) - ByteOffset(t, ch[k]))
      /\ at[k + 1] \in Nat /\ at[k + 1] <= at[K]
      /\ ByteOffset(t, ch[k + 1]) - ByteOffset(t, ch[k]) >= ch[k + 1] - ch[k]
      /\ ch[k + 1] \in Nat /\ ch[k + 1] <= Utf8Length(t)
  BY <1>3, <1>4, <1>5, ChunkAhead DEF Located
<1>7. ByteOffset(t, ch[k + 1]) \in Nat
  <2>1. Utf8Length(t) \in Nat
    BY StringFacts
  <2>2. ch[k + 1] \in 0 .. Utf8Length(t)
    BY <1>6, <2>1
  <2> QED
    BY <2>2, StringFacts
<1>8. PICK d \in Nat : d = ByteOffset(t, ch[k + 1]) - ByteOffset(t, ch[k])
  <2>1. ByteOffset(t, ch[k + 1]) - ByteOffset(t, ch[k]) \in Nat
    BY <1>3, <1>4, <1>6, <1>7
  <2> QED
    BY <2>1
<1>9. PICK a \in Nat : a = at[k] /\ a + 1 + d <= Len(w)
  BY <1>3, <1>6, <1>8
<1>13. Len(w) \in Nat /\ Len(v) \in Nat
  BY <1>1
<1>10. a < Len(w) /\ a + 1 \in 1 .. Len(w)
  BY <1>9, <1>13
<1>11. a < Len(v) => v[a + 1] = w[a + 1]
  BY <1>10, <1>13
<1>12. ASSUME NEW i \in 1 .. d, a + 1 + i <= Len(v)
       PROVE  v[a + 1 + i].n = t[ByteOffset(t, ch[k]) + i]
  <2>1. a + 1 + i \in 1 .. Len(w)
    BY <1>9, <1>13
  <2>2. w[a + 1 + i].n = t[ByteOffset(t, ch[k]) + i]
    <3>1. a + 1 + i <= Len(w) /\ i \in 1 .. ByteOffset(t, ch[k + 1]) - ByteOffset(t, ch[k])
      BY <1>8, <1>13, <2>1
    <3> QED
      BY <1>3, <1>9, <3>1 DEF Chunk
  <2> QED
    BY <1>12, <2>1, <2>2
<1> QED
  BY <1>3, <1>8, <1>9, <1>10, <1>11, <1>12 DEF Chunk

-----------------------------------------------------------------------------
(* Escape and Unescape: sequences put together from their ends. *)

\* Piece i is a[i] and what b[i] says comes next.
Pieces(L, a, b) ==
    \A i \in 1 .. L : /\ a[i] \in Seq(Byte) /\ b[i] \in i .. L + 1
                      /\ b[i] = i => a[i] = <<>>

Together(L, a, b, f) ==
    /\ f \in [1 .. L + 1 -> Seq(Byte)]
    /\ \A i \in 1 .. L + 1 : f[i] = IF i > L THEN <<>> ELSE a[i] \o f[b[i]]

LEMMA PutTogether ==
    ASSUME NEW L \in Nat, NEW a, NEW b, Pieces(L, a, b)
    PROVE  \E f : Together(L, a, b, f)
<1>0. \A i \in 1 .. L : /\ a[i] \in Seq(Byte) /\ b[i] \in i .. L + 1
                        /\ b[i] = i => a[i] = <<>>
  BY DEF Pieces
<1> DEFINE Good(k, g) ==
               /\ g \in [k .. L + 1 -> Seq(Byte)]
               /\ \A i \in k .. L + 1 : g[i] = IF i > L THEN <<>> ELSE a[i] \o g[b[i]]
           S == {n \in Nat : n <= L => \E g : Good(L + 1 - n, g)}
<1>1. 0 \in S
  <2> DEFINE g == [i \in L + 1 .. L + 1 |-> <<>>]
  <2>1. g \in [L + 1 .. L + 1 -> Seq(Byte)]
    OBVIOUS
  <2>2. \A i \in L + 1 .. L + 1 : g[i] = IF i > L THEN <<>> ELSE a[i] \o g[b[i]]
    <3>1. \A i \in L + 1 .. L + 1 : i > L /\ i \in L + 1 .. L + 1
      OBVIOUS
    <3>2. \A i \in L + 1 .. L + 1 : g[i] = <<>>
      OBVIOUS
    <3> HIDE DEF g
    <3> QED
      BY <3>1, <3>2
  <2> HIDE DEF g
  <2>3. Good(L + 1, g)
    BY <2>1, <2>2
  <2> HIDE DEF Good
  <2>4. L + 1 - 0 = L + 1
    OBVIOUS
  <2> QED
    BY <2>3, <2>4
<1>2. ASSUME NEW n \in Nat, n \in S PROVE n + 1 \in S
  <2> HIDE DEF Good
  <2>1. SUFFICES ASSUME n + 1 <= L PROVE \E h : Good(L + 1 - (n + 1), h)
    OBVIOUS
  <2>2. PICK k \in 1 .. L : k = L + 1 - (n + 1) /\ k + 1 = L + 1 - n
    <3>1. L + 1 - (n + 1) \in 1 .. L /\ (L + 1 - (n + 1)) + 1 = L + 1 - n
      BY <2>1
    <3> QED
      BY <3>1
  <2>3. PICK g : Good(k + 1, g)
    BY <1>2, <2>1, <2>2
  <2>10. /\ g \in [k + 1 .. L + 1 -> Seq(Byte)]
         /\ \A i \in k + 1 .. L + 1 : g[i] = IF i > L THEN <<>> ELSE a[i] \o g[b[i]]
    BY <2>3 DEF Good
  <2>4. PICK x : x = IF b[k] = k THEN <<>> ELSE a[k] \o g[b[k]]
    OBVIOUS
  <2>5. x \in Seq(Byte)
    <3>1. CASE b[k] = k
      BY <2>4, <3>1
    <3>2. CASE b[k] # k
      <4>1. b[k] \in k + 1 .. L + 1 /\ a[k] \in Seq(Byte)
        BY <1>0, <3>2
      <4>2. g[b[k]] \in Seq(Byte)
        BY <2>10, <4>1
      <4> QED
        BY <2>4, <3>2, <4>1, <4>2
    <3> QED
      BY <3>1, <3>2
  <2> DEFINE h == [i \in k .. L + 1 |-> IF i = k THEN x ELSE g[i]]
  <2>6. h \in [k .. L + 1 -> Seq(Byte)]
    BY <2>5, <2>10
  <2>7. h[k] = x /\ \A i \in k + 1 .. L + 1 : h[i] = g[i]
    OBVIOUS
  <2> HIDE DEF h
  <2>8. h[k] = a[k] \o h[b[k]]
    <3>1. CASE b[k] = k
      <4>1. a[k] = <<>> /\ x = <<>>
        BY <1>0, <2>4, <3>1
      <4> QED
        BY <2>7, <3>1, <4>1
    <3>2. CASE b[k] # k
      <4>1. b[k] \in k + 1 .. L + 1
        BY <1>0, <3>2
      <4> QED
        BY <2>4, <2>7, <3>2, <4>1
    <3> QED
      BY <3>1, <3>2
  <2>9. ASSUME NEW i \in k .. L + 1
        PROVE  h[i] = IF i > L THEN <<>> ELSE a[i] \o h[b[i]]
    <3>1. CASE i = k
      <4>1. ~ (i > L)
        BY <3>1
      <4> QED
        BY <2>8, <3>1, <4>1
    <3>2. CASE i # k
      <4>1. i \in k + 1 .. L + 1 /\ (i <= L => b[i] \in k + 1 .. L + 1)
        BY <1>0, <3>2
      <4>2. h[i] = g[i] /\ (i <= L => h[b[i]] = g[b[i]])
        BY <2>7, <4>1
      <4>3. CASE i > L
        BY <2>10, <4>1, <4>2, <4>3
      <4>4. CASE ~ (i > L)
        <5>1. i <= L
          BY <4>4
        <5>2. g[i] = a[i] \o g[b[i]]
          BY <2>10, <4>1, <4>4
        <5> QED
          BY <4>2, <4>4, <5>1, <5>2
      <4> QED
        BY <4>3, <4>4
    <3> QED
      BY <3>1, <3>2
  <2>11. Good(k, h)
    BY <2>6, <2>9 DEF Good
  <2> QED
    BY <2>2, <2>11
<1> HIDE DEF S, Good
<1>3. L \in S
  BY <1>1, <1>2, Induction
<1>4. L + 1 - L = 1
  OBVIOUS
<1>5. PICK g : Good(1, g)
  BY <1>3, <1>4 DEF S
<1> QED
  BY <1>5 DEF Good, Together

LEMMA CharFacts ==
    ASSUME NEW c \in 1 .. 7
    PROVE  /\ Char(c) \in Seq(Byte) /\ Len(Char(c)) = CharLength[c] /\ CharLength[c] \in 1 .. 4
           /\ Char(c)[1] = c /\ \A i \in 2 .. CharLength[c] : Char(c)[i] = 0
<1>1. PICK n \in 1 .. 4 : n = CharLength[c]
  BY DEF CharLength, Beyond
<1>2. Char(c) = [i \in 1 .. n |-> IF i = 1 THEN c ELSE 0]
  BY <1>1 DEF Char
<1>3. \A i \in 1 .. n : (IF i = 1 THEN c ELSE 0) \in Byte
  BY DEF Byte
<1>4. Char(c) \in Seq(Byte) /\ Len(Char(c)) = n
  BY <1>2, <1>3
<1>5. Char(c)[1] = c /\ \A i \in 2 .. n : Char(c)[i] = 0
  BY <1>2
<1> QED
  BY <1>1, <1>4, <1>5

\* No character begun in s goes beyond its end.
Fits(s) == \A i \in 1 .. Len(s) : i + CharLength[s[i]] <= Len(s) + 1

Escaped(s, i) ==
    IF s[i] = 4 THEN Char(High) \o Char(Low) ELSE SubSeq(s, i, (i + CharLength[s[i]]) - 1)

\* The function that Escape chooses.
Escaping(s) ==
    CHOOSE from : from = [i \in 1 .. Len(s) + 1 |->
        IF i > Len(s) THEN <<>>
        ELSE LET next == i + CharLength[s[i]]
             IN  (IF s[i] = 4 THEN Char(High) \o Char(Low)
                              ELSE SubSeq(s, i, next - 1)) \o from[next]]

LEMMA FitsFacts ==
    ASSUME NEW s \in Seq(Byte), Fits(s), NEW i \in 1 .. Len(s)
    PROVE  /\ Len(s) \in Nat /\ s[i] \in Byte /\ CharLength[s[i]] \in 0 .. 4
           /\ i + CharLength[s[i]] \in i .. Len(s) + 1
           /\ i + CharLength[s[i]] = i => s[i] = 0
           /\ SubSeq(s, i, (i + CharLength[s[i]]) - 1) \in Seq(Byte)
           /\ Len(SubSeq(s, i, (i + CharLength[s[i]]) - 1)) = CharLength[s[i]]
           /\ \A j \in 1 .. CharLength[s[i]] : SubSeq(s, i, (i + CharLength[s[i]]) - 1)[j] = s[i + j - 1]
           /\ s[i] = 0 => SubSeq(s, i, (i + CharLength[s[i]]) - 1) = <<>>
<1>1. Len(s) \in Nat /\ s[i] \in Byte
  BY LenProperties
<1>2. PICK w \in 0 .. 4 : w = CharLength[s[i]] /\ (w = 0 => s[i] = 0)
  BY <1>1, CharLengths
<1>3. i + w <= Len(s) + 1
  BY <1>2 DEF Fits
<1>4. i + w \in i .. Len(s) + 1 /\ (i + w = i => s[i] = 0)
  BY <1>1, <1>2, <1>3
<1>5. PICK m \in Nat, n \in Nat : m + 1 = i /\ n = (i + w) - 1 /\ m <= n /\ n <= Len(s) /\ n - m = w
  <2>1. i - 1 \in Nat /\ (i + w) - 1 \in Nat /\ (i - 1) + 1 = i /\ i - 1 <= (i + w) - 1 /\ ((i + w) - 1) - (i - 1) = w
    OBVIOUS
  <2>2. (i + w) - 1 <= Len(s)
    BY <1>1, <1>3
  <2> QED
    BY <2>1, <2>2
<1>6. /\ SubSeq(s, m + 1, n) \in Seq(Byte) /\ Len(SubSeq(s, m + 1, n)) = n - m
      /\ \A j \in 1 .. n - m : SubSeq(s, m + 1, n)[j] = s[m + j]
  BY <1>5, Piece
<1>7. \A j \in 1 .. w : m + j = i + j - 1
  BY <1>5
<1>8. PICK u : u = SubSeq(s, i, (i + w) - 1)
  OBVIOUS
<1>9. u \in Seq(Byte) /\ Len(u) = w /\ \A j \in 1 .. w : u[j] = s[i + j - 1]
  BY <1>5, <1>6, <1>7, <1>8
<1>10. s[i] = 0 => u = <<>>
  BY <1>2, <1>9, CharLengths
<1> QED
  BY <1>1, <1>2, <1>4, <1>8, <1>9, <1>10

EscapeBody(s, from, i) ==
    IF i > Len(s) THEN <<>>
    ELSE LET next == i + CharLength[s[i]]
         IN  (IF s[i] = 4 THEN Char(High) \o Char(Low)
                          ELSE SubSeq(s, i, next - 1)) \o from[next]

LEMMA EscapeBodyIs ==
    ASSUME NEW s, NEW from, NEW i, ~ (i > Len(s))
    PROVE  EscapeBody(s, from, i) = Escaped(s, i) \o from[i + CharLength[s[i]]]
<1>1. CASE s[i] = 4
  BY Zenon, <1>1 DEF EscapeBody, Escaped
<1>2. CASE ~ (s[i] = 4)
  BY Zenon, <1>2 DEF EscapeBody, Escaped
<1> QED
  BY <1>1, <1>2

LEMMA EscapingIs ==
    ASSUME NEW s, NEW f, f = [i \in 1 .. Len(s) + 1 |-> EscapeBody(s, f, i)]
    PROVE  Escaping(s) = [i \in 1 .. Len(s) + 1 |-> EscapeBody(s, Escaping(s), i)]
BY Zenon DEF Escaping, EscapeBody

LEMMA EscapeUnfolds ==
    ASSUME NEW s \in Seq(Byte), Fits(s)
    PROVE  /\ Escape(s) = Escaping(s)[1] /\ Escaping(s)[Len(s) + 1] = <<>>
           /\ \A i \in 1 .. Len(s) :
                 /\ Escaped(s, i) \in Seq(Byte)
                 /\ Escaping(s)[i] = Escaped(s, i) \o Escaping(s)[i + CharLength[s[i]]]
<1> DEFINE a == [i \in 1 .. Len(s) |-> Escaped(s, i)]
           b == [i \in 1 .. Len(s) |-> i + CharLength[s[i]]]
<1>1. PICK L \in Nat : L = Len(s)
  BY LenProperties
<1>2. Escape(s) = Escaping(s)[1]
  BY DEF Escape, Escaping
<1>3. ASSUME NEW i \in 1 .. L
      PROVE  /\ a[i] = Escaped(s, i) /\ b[i] = i + CharLength[s[i]]
             /\ a[i] \in Seq(Byte) /\ b[i] \in i .. L + 1
             /\ b[i] = i => a[i] = <<>>
  <2>1. /\ i + CharLength[s[i]] \in i .. Len(s) + 1
        /\ i + CharLength[s[i]] = i => s[i] = 0
        /\ SubSeq(s, i, (i + CharLength[s[i]]) - 1) \in Seq(Byte)
        /\ s[i] = 0 => SubSeq(s, i, (i + CharLength[s[i]]) - 1) = <<>>
    BY <1>1, FitsFacts
  <2>2. Char(High) \o Char(Low) \in Seq(Byte)
    <3>1. High \in 1 .. 7 /\ Low \in 1 .. 7
      BY DEF High, Low
    <3>2. Char(High) \in Seq(Byte) /\ Char(Low) \in Seq(Byte)
      BY <3>1, CharFacts
    <3> QED
      BY <3>2, Joined
  <2>3. Escaped(s, i) \in Seq(Byte)
    BY <2>1, <2>2 DEF Escaped
  <2>4. s[i] = 0 => Escaped(s, i) = <<>>
    BY <2>1 DEF Escaped
  <2>5. a[i] = Escaped(s, i) /\ b[i] = i + CharLength[s[i]]
    BY <1>1
  <2> QED
    BY <1>1, <2>1, <2>3, <2>4, <2>5
<1> HIDE DEF a, b
<1>4. PICK f : Together(L, a, b, f)
  <2>1. Pieces(L, a, b)
    BY <1>3 DEF Pieces
  <2> QED
    BY <2>1, PutTogether
<1>5. \A i \in 1 .. L + 1 : f[i] = EscapeBody(s, f, i)
  <2>1. TAKE i \in 1 .. L + 1
  <2>2. CASE i > L
    BY <1>1, <1>4, <2>2 DEF Together, EscapeBody
  <2>3. CASE ~ (i > L)
    <3>1. i \in 1 .. L
      BY <2>3
    <3>2. a[i] = Escaped(s, i) /\ b[i] = i + CharLength[s[i]]
      BY <1>3, <3>1
    <3>3. f[i] = a[i] \o f[b[i]]
      BY <1>4, <2>3 DEF Together
    <3> QED
      BY <1>1, <2>3, <3>2, <3>3, EscapeBodyIs
  <2> QED
    BY <2>2, <2>3
<1>6. f = [i \in 1 .. Len(s) + 1 |-> EscapeBody(s, f, i)]
  <2>1. f = [i \in 1 .. L + 1 |-> f[i]]
    BY <1>4 DEF Together
  <2>2. [i \in 1 .. L + 1 |-> f[i]] = [i \in 1 .. L + 1 |-> EscapeBody(s, f, i)]
    BY <1>5
  <2> QED
    BY <1>1, <2>1, <2>2
<1>7. Escaping(s) = [i \in 1 .. L + 1 |-> EscapeBody(s, Escaping(s), i)]
  BY <1>1, <1>6, EscapingIs
<1>8. \A i \in 1 .. L + 1 : Escaping(s)[i] = EscapeBody(s, Escaping(s), i)
  <2>1. \A i \in 1 .. L + 1 : [k \in 1 .. L + 1 |-> EscapeBody(s, Escaping(s), k)][i]
                               = EscapeBody(s, Escaping(s), i)
    OBVIOUS
  <2> QED
    BY <1>7, <2>1
<1>9. L + 1 \in 1 .. L + 1 /\ L + 1 > L
  OBVIOUS
<1>10. Escaping(s)[L + 1] = <<>>
  BY <1>1, <1>8, <1>9 DEF EscapeBody
<1>11. ASSUME NEW i \in 1 .. L
       PROVE  /\ Escaped(s, i) \in Seq(Byte)
              /\ Escaping(s)[i] = Escaped(s, i) \o Escaping(s)[i + CharLength[s[i]]]
  <2>1. i \in 1 .. L + 1 /\ ~ (i > L)
    OBVIOUS
  <2>2. Escaping(s)[i] = EscapeBody(s, Escaping(s), i)
    BY <1>8, <2>1
  <2>3. Escaped(s, i) \in Seq(Byte)
    BY <1>3
  <2> QED
    BY <1>1, <2>1, <2>2, <2>3, EscapeBodyIs
<1> QED
  BY <1>1, <1>2, <1>10, <1>11

\* A pair that Unescape finds, what it makes of byte i and where it goes on.
Pair(s, i) == s[i] = High /\ i + 5 <= Len(s) /\ s[i + 3] = Low

Unescaped(s, i) == IF Pair(s, i) THEN Char(4) ELSE SubSeq(s, i, (i + CharLength[s[i]]) - 1)

After(s, i) == IF Pair(s, i) THEN i + 6 ELSE i + CharLength[s[i]]

Unescaping(s) ==
    CHOOSE from : from = [i \in 1 .. Len(s) + 1 |->
        IF i > Len(s) THEN <<>>
        ELSE IF s[i] = High /\ i + 5 <= Len(s) /\ s[i + 3] = Low
             THEN Char(4) \o from[i + 6]
        ELSE LET next == i + CharLength[s[i]]
             IN  SubSeq(s, i, next - 1) \o from[next]]

UnescapeBody(s, from, i) ==
    IF i > Len(s) THEN <<>>
    ELSE IF s[i] = High /\ i + 5 <= Len(s) /\ s[i + 3] = Low
         THEN Char(4) \o from[i + 6]
    ELSE LET next == i + CharLength[s[i]]
         IN  SubSeq(s, i, next - 1) \o from[next]

LEMMA UnescapeBodyIs ==
    ASSUME NEW s, NEW from, NEW i, ~ (i > Len(s))
    PROVE  UnescapeBody(s, from, i) = Unescaped(s, i) \o from[After(s, i)]
<1>1. CASE Pair(s, i)
  BY Zenon, <1>1 DEF UnescapeBody, Unescaped, After, Pair
<1>2. CASE ~ Pair(s, i)
  BY Zenon, <1>2 DEF UnescapeBody, Unescaped, After, Pair
<1> QED
  BY <1>1, <1>2

LEMMA UnescapingIs ==
    ASSUME NEW s, NEW f, f = [i \in 1 .. Len(s) + 1 |-> UnescapeBody(s, f, i)]
    PROVE  Unescaping(s) = [i \in 1 .. Len(s) + 1 |-> UnescapeBody(s, Unescaping(s), i)]
BY Zenon DEF Unescaping, UnescapeBody

LEMMA UnescapeUnfolds ==
    ASSUME NEW s \in Seq(Byte), Fits(s)
    PROVE  /\ Unescape(s) = Unescaping(s)[1] /\ Unescaping(s)[Len(s) + 1] = <<>>
           /\ \A i \in 1 .. Len(s) :
                 Unescaping(s)[i] = Unescaped(s, i) \o Unescaping(s)[After(s, i)]
<1> DEFINE a == [i \in 1 .. Len(s) |-> Unescaped(s, i)]
           b == [i \in 1 .. Len(s) |-> After(s, i)]
<1>1. PICK L \in Nat : L = Len(s)
  BY LenProperties
<1>2. Unescape(s) = Unescaping(s)[1]
  BY DEF Unescape, Unescaping
<1>3. ASSUME NEW i \in 1 .. L
      PROVE  /\ a[i] = Unescaped(s, i) /\ b[i] = After(s, i)
             /\ a[i] \in Seq(Byte) /\ b[i] \in i .. L + 1
             /\ b[i] = i => a[i] = <<>>
  <2>1. /\ i + CharLength[s[i]] \in i .. Len(s) + 1
        /\ i + CharLength[s[i]] = i => s[i] = 0
        /\ SubSeq(s, i, (i + CharLength[s[i]]) - 1) \in Seq(Byte)
        /\ s[i] = 0 => SubSeq(s, i, (i + CharLength[s[i]]) - 1) = <<>>
    BY <1>1, FitsFacts
  <2>2. Char(4) \in Seq(Byte)
    BY CharFacts
  <2>3. Unescaped(s, i) \in Seq(Byte)
    BY <2>1, <2>2 DEF Unescaped
  <2>4. After(s, i) \in i .. L + 1 /\ (After(s, i) = i => ~ Pair(s, i) /\ s[i] = 0)
    BY <1>1, <2>1 DEF After, Pair
  <2>5. After(s, i) = i => Unescaped(s, i) = <<>>
    BY <2>1, <2>4 DEF Unescaped
  <2>6. a[i] = Unescaped(s, i) /\ b[i] = After(s, i)
    BY <1>1
  <2> QED
    BY <2>3, <2>4, <2>5, <2>6
<1> HIDE DEF a, b
<1>4. PICK f : Together(L, a, b, f)
  <2>1. Pieces(L, a, b)
    BY <1>3 DEF Pieces
  <2> QED
    BY <2>1, PutTogether
<1>5. \A i \in 1 .. L + 1 : f[i] = UnescapeBody(s, f, i)
  <2>1. TAKE i \in 1 .. L + 1
  <2>2. CASE i > L
    BY <1>1, <1>4, <2>2 DEF Together, UnescapeBody
  <2>3. CASE ~ (i > L)
    <3>1. i \in 1 .. L
      BY <2>3
    <3>2. a[i] = Unescaped(s, i) /\ b[i] = After(s, i)
      BY <1>3, <3>1
    <3>3. f[i] = a[i] \o f[b[i]]
      BY <1>4, <2>3 DEF Together
    <3> QED
      BY <1>1, <2>3, <3>2, <3>3, UnescapeBodyIs
  <2> QED
    BY <2>2, <2>3
<1>6. f = [i \in 1 .. Len(s) + 1 |-> UnescapeBody(s, f, i)]
  <2>1. f = [i \in 1 .. L + 1 |-> f[i]]
    BY <1>4 DEF Together
  <2>2. [i \in 1 .. L + 1 |-> f[i]] = [i \in 1 .. L + 1 |-> UnescapeBody(s, f, i)]
    BY <1>5
  <2> QED
    BY <1>1, <2>1, <2>2
<1>7. Unescaping(s) = [i \in 1 .. L + 1 |-> UnescapeBody(s, Unescaping(s), i)]
  BY <1>1, <1>6, UnescapingIs
<1>8. \A i \in 1 .. L + 1 : Unescaping(s)[i] = UnescapeBody(s, Unescaping(s), i)
  <2>1. \A i \in 1 .. L + 1 : [k \in 1 .. L + 1 |-> UnescapeBody(s, Unescaping(s), k)][i]
                               = UnescapeBody(s, Unescaping(s), i)
    OBVIOUS
  <2> QED
    BY <1>7, <2>1
<1>9. L + 1 \in 1 .. L + 1 /\ L + 1 > L
  OBVIOUS
<1>10. Unescaping(s)[L + 1] = <<>>
  BY <1>1, <1>8, <1>9 DEF UnescapeBody
<1>11. ASSUME NEW i \in 1 .. L
       PROVE  Unescaping(s)[i] = Unescaped(s, i) \o Unescaping(s)[After(s, i)]
  <2>1. i \in 1 .. L + 1 /\ ~ (i > L)
    OBVIOUS
  <2>2. Unescaping(s)[i] = UnescapeBody(s, Unescaping(s), i)
    BY <1>8, <2>1
  <2> QED
    BY <1>1, <2>1, <2>2, UnescapeBodyIs
<1> QED
  BY <1>1, <1>2, <1>10, <1>11

-----------------------------------------------------------------------------
(* Strings put together character by character. *)

Before(c, e) == Char(c) \o e

LEMMA BeforeFacts ==
    ASSUME NEW c \in 1 .. 7, NEW e \in Seq(Byte)
    PROVE  /\ Before(c, e) \in Seq(Byte) /\ Len(e) \in Nat /\ CharLength[c] \in 1 .. 4
           /\ Len(Before(c, e)) = CharLength[c] + Len(e)
           /\ Before(c, e)[1] = c
           /\ \A i \in 2 .. CharLength[c] : Before(c, e)[i] = 0
           /\ \A j \in 1 .. Len(e) : Before(c, e)[CharLength[c] + j] = e[j]
<1> DEFINE a == Char(c)
<1>1. /\ a \in Seq(Byte) /\ Len(a) = CharLength[c] /\ CharLength[c] \in 1 .. 4
      /\ a[1] = c /\ \A i \in 2 .. CharLength[c] : a[i] = 0
  BY CharFacts
<1> HIDE DEF a
<1>2. a \in Seq(Byte) /\ e \in Seq(Byte)
  BY <1>1
<1> DEFINE f == a \o e
<1>3. f \in Seq(Byte) /\ Len(e) \in Nat
  BY <1>2, Joined
<1>4. Len(f) = Len(a) + Len(e)
  BY <1>2, Joined
<1>5. \A i \in 1 .. Len(a) : f[i] = a[i]
  BY <1>2, Joined
<1>6. \A j \in 1 .. Len(e) : f[Len(a) + j] = e[j]
  BY <1>2, Joined
<1>7. Before(c, e) = f
  BY DEF Before, a
<1> HIDE DEF f
<1>8. 1 \in 1 .. Len(a) /\ \A i \in 2 .. CharLength[c] : i \in 1 .. Len(a)
  BY <1>1
<1> QED
  BY <1>1, <1>3, <1>4, <1>5, <1>6, <1>7, <1>8

LEMMA StringOf ==
    ASSUME NEW e \in Seq(Byte), NEW n, Chain(e, n), ByteOffset(e, n) = Len(e)
    PROVE  String(e) /\ Utf8Length(e) = n
<1>1. Utf8Length(e) = n
  BY ChainUtf8Length
<1>2. n \in Nat
  BY DEF Chain
<1> QED
  BY <1>1, <1>2 DEF String

\* The offsets of a string after m characters and n bytes.
LEMMA OffsetsAfter ==
    ASSUME NEW e, String(e), NEW t \in Seq(Byte), NEW m, NEW n \in Nat,
           Chain(t, m), ByteOffset(t, m) = n, Len(t) = n + Len(e),
           \A j \in 1 .. Len(e) : t[n + j] = e[j]
    PROVE  \A k \in 0 .. Utf8Length(e) :
              Chain(t, m + k) /\ ByteOffset(t, m + k) = n + ByteOffset(e, k)
<1> DEFINE S == {k \in Nat : k <= Utf8Length(e) =>
                    Chain(t, m + k) /\ ByteOffset(t, m + k) = n + ByteOffset(e, k)}
<1>1. /\ m \in Nat /\ Utf8Length(e) \in Nat /\ Chain(e, Utf8Length(e))
      /\ ByteOffset(e, Utf8Length(e)) = Len(e) /\ Len(e) \in Nat /\ e \in Seq(Byte)
  BY StringFacts DEF Chain, String
<1>2. 0 \in S
  <2>1. m + 0 = m /\ ByteOffset(e, 0) = 0
    BY <1>1, ByteOffsetStep
  <2> QED
    BY <2>1
<1>3. ASSUME NEW k \in Nat, k \in S PROVE k + 1 \in S
  <2>1. SUFFICES ASSUME k + 1 <= Utf8Length(e)
                 PROVE  Chain(t, m + (k + 1)) /\ ByteOffset(t, m + (k + 1)) = n + ByteOffset(e, k + 1)
    OBVIOUS
  <2>2. Chain(t, m + k) /\ ByteOffset(t, m + k) = n + ByteOffset(e, k)
    BY <1>1, <1>3, <2>1
  <2>3. k \in 0 .. Utf8Length(e) - 1 /\ k \in 0 .. Utf8Length(e)
    BY <1>1, <2>1
  <2>4. PICK p \in Nat : p = ByteOffset(e, k)
    BY <1>1, <2>3, ChainOffsets
  <2>5. PICK w : w = CharLength[e[p + 1]]
    OBVIOUS
  <2>6. p < Len(e) /\ w > 0
    BY <1>1, <2>3, <2>4, <2>5 DEF Chain
  <2>7. p + 1 \in 1 .. Len(e) /\ n + (p + 1) = (n + p) + 1
    BY <1>1, <2>6
  <2>8. t[(n + p) + 1] = e[p + 1] /\ w \in 0 .. 4
    <3>1. e[p + 1] \in Byte
      BY <1>1, <2>7
    <3> QED
      BY <2>5, <2>7, <3>1, CharLengths
  <2>9. ByteOffset(e, k + 1) = p + w
    BY <2>4, <2>5, ByteOffsetStep
  <2>10. m + k \in Nat /\ m + (k + 1) = (m + k) + 1 /\ (m + k) + 1 \in Nat
    BY <1>1
  <2>11. ByteOffset(t, (m + k) + 1) = (n + p) + w
    <3>1. PICK x : x = m + k /\ x \in Nat
      BY <2>10
    <3>2. ByteOffset(t, x + 1) = ByteOffset(t, x) + CharLength[t[ByteOffset(t, x) + 1]]
      BY <3>1, ByteOffsetStep
    <3>3. ByteOffset(t, x) = n + p
      BY <2>2, <2>4, <3>1
    <3> QED
      BY <2>5, <2>8, <3>1, <3>2, <3>3
  <2>12. Chain(t, (m + k) + 1)
    <3>1. n + p < Len(t)
      BY <1>1, <2>6
    <3>2. \A i \in 0 .. ((m + k) + 1) - 1 : i \in 0 .. (m + k) - 1 \/ i = m + k
      BY <2>10
    <3> QED
      BY <2>2, <2>4, <2>5, <2>6, <2>8, <2>10, <3>1, <3>2 DEF Chain
  <2>13. (n + p) + w = n + (p + w)
    BY <2>8
  <2> QED
    BY <2>9, <2>10, <2>11, <2>12, <2>13
<1> HIDE DEF S
<1>4. \A k \in Nat : k \in S
  BY <1>2, <1>3, Induction
<1> QED
  BY <1>1, <1>4 DEF S

\* A character in front of a string.
LEMMA BeforeString ==
    ASSUME NEW c \in 1 .. 7, NEW e, String(e)
    PROVE  String(Before(c, e)) /\ (Fits(e) => Fits(Before(c, e)))
<1> DEFINE f == Before(c, e)
           w == CharLength[c]
           T == Utf8Length(e)
<1>1. /\ T \in Nat /\ Chain(e, T) /\ ByteOffset(e, T) = Len(e) /\ e \in Seq(Byte)
  BY StringFacts DEF String
<1>2. /\ f \in Seq(Byte) /\ Len(e) \in Nat /\ w \in 1 .. 4
      /\ Len(f) = w + Len(e) /\ f[1] = c
      /\ \A i \in 2 .. w : f[i] = 0
      /\ \A j \in 1 .. Len(e) : f[w + j] = e[j]
  BY <1>1, BeforeFacts
<1>3. CharLength[f[1]] = w
  BY <1>2
<1> HIDE DEF f, w, T
<1>4. ByteOffset(f, 1) = w /\ Chain(f, 1)
  <2>1. ByteOffset(f, 0) = 0
    BY ByteOffsetStep
  <2>2. ByteOffset(f, 0 + 1) = 0 + w
    <3>1. ByteOffset(f, 0 + 1) = ByteOffset(f, 0) + CharLength[f[ByteOffset(f, 0) + 1]]
      BY ByteOffsetStep
    <3>2. ByteOffset(f, 0) + 1 = 1
      BY <2>1
    <3> QED
      BY <1>3, <2>1, <3>1, <3>2
  <2>3. 0 < Len(f)
    BY <1>2
  <2>4. \A k \in 0 .. 1 - 1 : k = 0
    OBVIOUS
  <2>5. 0 + 1 = 1 /\ 0 + w = w
    BY <1>2
  <2>6. ByteOffset(f, 0) + 1 = 1
    BY <2>1
  <2>7. w > 0
    BY <1>2
  <2>8. ByteOffset(f, 0) < Len(f) /\ CharLength[f[ByteOffset(f, 0) + 1]] > 0
    BY <1>3, <2>1, <2>3, <2>6, <2>7
  <2>9. Chain(f, 1)
    BY <2>4, <2>8 DEF Chain
  <2> QED
    BY <2>2, <2>5, <2>9
<1>5. Chain(f, 1 + T) /\ ByteOffset(f, 1 + T) = w + Len(e)
  <2>1. T \in 0 .. T /\ w \in Nat
    BY <1>1, <1>2
  <2>2. \A k \in 0 .. T : Chain(f, 1 + k) /\ ByteOffset(f, 1 + k) = w + ByteOffset(e, k)
    BY <1>2, <1>4, <2>1, OffsetsAfter DEF T
  <2> QED
    BY <1>1, <2>1, <2>2
<1>6. String(f)
  BY <1>2, <1>5, StringOf
<1>7. ASSUME Fits(e), NEW i \in 1 .. Len(f) PROVE i + CharLength[f[i]] <= Len(f) + 1
  <2>1. CASE i = 1
    BY <1>2, <1>3, <2>1
  <2>2. CASE i \in 2 .. w
    <3>1. CharLength[f[i]] = 0
      BY <1>2, <2>2, CharLengths
    <3> QED
      BY <1>2, <3>1
  <2>3. CASE i > w
    <3>1. PICK j \in 1 .. Len(e) : i = w + j
      <4>1. i - w \in 1 .. Len(e) /\ i = w + (i - w)
        BY <1>2, <2>3
      <4> QED
        BY <4>1
    <3>2. j + CharLength[e[j]] <= Len(e) + 1
      BY <1>7 DEF Fits
    <3>3. f[i] = e[j]
      BY <1>2, <3>1
    <3>4. CharLength[e[j]] \in 0 .. 4
      <4>1. e[j] \in Byte
        BY <1>1
      <4> QED
        BY <4>1, CharLengths
    <3>5. PICK x \in 0 .. 4 : x = CharLength[e[j]]
      BY <3>4
    <3>6. (w + j) + x <= (w + Len(e)) + 1
      BY <1>2, <3>2, <3>5
    <3> QED
      BY <1>2, <3>1, <3>3, <3>5, <3>6
  <2>4. i = 1 \/ i \in 2 .. w \/ i > w
    BY <1>2
  <2> QED
    BY <2>1, <2>2, <2>3, <2>4
<1> QED
  BY <1>6, <1>7 DEF Fits, f

LEMMA EmptyString == <<>> \in Seq(Byte) /\ String(<<>>) /\ Fits(<<>>) /\ Utf8Length(<<>>) = 0
<1>1. <<>> \in Seq(Byte) /\ Len(<<>>) = 0
  BY EmptySeq
<1>2. ByteOffset(<<>>, 0) = 0
  BY ByteOffsetStep
<1>3. Chain(<<>>, 0)
  BY DEF Chain
<1>4. String(<<>>) /\ Utf8Length(<<>>) = 0
  BY <1>1, <1>2, <1>3, StringOf
<1>5. Fits(<<>>)
  BY <1>1 DEF Fits
<1> QED
  BY <1>1, <1>4, <1>5

\* What comes after a character of a string that is whole characters.
LEMMA NoneGoesBeyond ==
    ASSUME NEW s, String(s), Whole(s)
    PROVE  Fits(s)
<1> DEFINE o(k) == ByteOffset(s, k)
           T == Utf8Length(s)
<1>1. /\ T \in Nat /\ Chain(s, T) /\ o(T) = Len(s) /\ Len(s) \in Nat /\ s \in Seq(Byte)
  BY StringFacts DEF String
<1>2. SUFFICES ASSUME NEW i \in 1 .. Len(s) PROVE i + CharLength[s[i]] <= Len(s) + 1
  BY DEF Fits
<1> DEFINE D == {k \in Nat : k <= T /\ o(k) >= i}
<1>3. T \in D
  BY <1>1
<1>4. PICK m \in D : \A k \in D : m <= k
  <2>1. D \subseteq Nat
    OBVIOUS
  <2> HIDE DEF D
  <2> QED
    BY <1>3, <2>1, Least
<1>5. m \in 1 .. T
  <2>1. o(0) = 0
    BY ByteOffsetStep
  <2>2. m # 0
    BY <2>1
  <2> QED
    BY <1>1, <2>2
<1>6. PICK k \in 0 .. T - 1 : m = k + 1
  <2>1. m - 1 \in 0 .. T - 1 /\ m = (m - 1) + 1
    BY <1>1, <1>5
  <2> QED
    BY <2>1
<1>7. k \in Nat /\ k \in 0 .. T /\ k + 1 \in 0 .. T /\ k <= k + 1
  BY <1>1
<1>8. PICK p \in Nat, q \in Nat : p = o(k) /\ q = o(k + 1) /\ q <= Len(s)
  BY <1>7, StringFacts
<1>9. p < i /\ i <= q
  <2>1. k \notin D
    BY <1>4, <1>6, <1>7
  <2>2. m \in D
    OBVIOUS
  <2> HIDE DEF o
  <2> QED
    BY <1>1, <1>6, <1>7, <1>8, <2>1, <2>2
<1>15. PICK L \in Nat : L = Len(s)
  BY <1>1
<1> HIDE DEF D, o
<1>10. p < Len(s) /\ p + 1 \in 1 .. Len(s)
  <2>1. p < L /\ p + 1 \in 1 .. L
    BY <1>8, <1>9, <1>15
  <2> QED
    BY <1>15, <2>1
<1>11. PICK w \in 0 .. 4 : w = CharLength[s[p + 1]]
  <2>1. s[p + 1] \in Byte
    BY <1>1, <1>10
  <2> QED
    BY <2>1, CharLengths
<1>12. q = p + w
  BY <1>7, <1>8, <1>11, ByteOffsetStep DEF o
<1>13. CASE i = p + 1
  <2>1. q <= L /\ i + w = q + 1
    BY <1>8, <1>12, <1>13, <1>15
  <2>2. i + w <= L + 1
    BY <2>1
  <2> QED
    BY <1>11, <1>13, <1>15, <2>2
<1>14. CASE i # p + 1
  <2>1. PICK j \in 1 .. w - 1 : (p + 1) + j = i
    <3>1. i - (p + 1) \in 1 .. w - 1 /\ (p + 1) + (i - (p + 1)) = i
      BY <1>9, <1>12, <1>14
    <3> QED
      BY <3>1
  <2>2. p + 1 \in DOMAIN s /\ (p + 1) + j \in DOMAIN s
    BY <1>1, <1>10, <2>1
  <2>3. s[(p + 1) + j] = 0
    BY <1>11, <2>2 DEF Whole
  <2>4. CharLength[s[i]] = 0
    BY <2>1, <2>3, CharLengths
  <2> QED
    BY <1>1, <2>4
<1> QED
  BY <1>13, <1>14

\* What Unescape makes of a byte depends on what follows only.
LEMMA UnescapedAlike ==
    ASSUME NEW e \in Seq(Byte), Fits(e), NEW t \in Seq(Byte), Fits(t), NEW n \in Nat,
           Len(t) = n + Len(e), \A j \in 1 .. Len(e) : t[n + j] = e[j],
           NEW i \in 1 .. Len(e)
    PROVE  /\ n + i \in 1 .. Len(t)
           /\ Unescaped(t, n + i) = Unescaped(e, i) /\ After(t, n + i) = n + After(e, i)
<1>1. PICK L \in Nat : L = Len(e) /\ Len(t) = n + L
  BY LenProperties
<1>2. PICK x \in Nat : x = n + i /\ x \in 1 .. Len(t)
  BY <1>1
<1>3. /\ e[i] \in Byte /\ CharLength[e[i]] \in 0 .. 4
      /\ i + CharLength[e[i]] \in i .. Len(e) + 1
      /\ SubSeq(e, i, (i + CharLength[e[i]]) - 1) \in Seq(Byte)
      /\ Len(SubSeq(e, i, (i + CharLength[e[i]]) - 1)) = CharLength[e[i]]
      /\ \A j \in 1 .. CharLength[e[i]] : SubSeq(e, i, (i + CharLength[e[i]]) - 1)[j] = e[i + j - 1]
  BY FitsFacts
<1>4. /\ SubSeq(t, x, (x + CharLength[t[x]]) - 1) \in Seq(Byte)
      /\ Len(SubSeq(t, x, (x + CharLength[t[x]]) - 1)) = CharLength[t[x]]
      /\ \A j \in 1 .. CharLength[t[x]] : SubSeq(t, x, (x + CharLength[t[x]]) - 1)[j] = t[x + j - 1]
  BY <1>2, FitsFacts
<1>5. t[x] = e[i]
  BY <1>2
<1>6. PICK w \in 0 .. 4 : w = CharLength[e[i]] /\ w = CharLength[t[x]]
  BY <1>3, <1>5
<1>12. PICK u : u = SubSeq(e, i, (i + w) - 1)
  OBVIOUS
<1>13. PICK v : v = SubSeq(t, x, (x + w) - 1)
  OBVIOUS
<1>14. u \in Seq(Byte) /\ Len(u) = w /\ \A j \in 1 .. w : u[j] = e[i + j - 1]
  BY <1>3, <1>6, <1>12
<1>7. v \in Seq(Byte) /\ Len(v) = w /\ \A j \in 1 .. w : v[j] = t[x + j - 1]
  BY <1>4, <1>6, <1>13
<1>8. u = v
  <2>1. ASSUME NEW j \in 1 .. w PROVE u[j] = v[j]
    <3>1. i + j - 1 \in 1 .. L /\ n + (i + j - 1) = x + j - 1
      <4>1. i + w <= L + 1 /\ i \in 1 .. L
        BY <1>1, <1>3, <1>6
      <4> QED
        BY <1>2, <4>1
    <3>2. t[n + (i + j - 1)] = e[i + j - 1]
      BY <1>1, <3>1
    <3> QED
      BY <1>7, <1>14, <3>1, <3>2
  <2> QED
    BY <1>7, <1>14, <2>1, SeqEqual
<1>9. Pair(t, x) <=> Pair(e, i)
  <2>1. x + 5 <= Len(t) <=> i + 5 <= Len(e)
    BY <1>1, <1>2
  <2>2. ASSUME i + 5 <= Len(e) PROVE t[x + 3] = e[i + 3]
    <3>1. PICK y \in 1 .. L : y = i + 3
      BY <1>1, <2>2
    <3>2. n + y = x + 3
      BY <1>2, <3>1
    <3>3. t[n + y] = e[y]
      BY <1>1
    <3> QED
      BY <3>1, <3>2, <3>3
  <2> QED
    BY <1>5, <2>1, <2>2 DEF Pair
<1>10. Unescaped(t, x) = Unescaped(e, i)
  BY <1>5, <1>6, <1>8, <1>9, <1>12, <1>13 DEF Unescaped
<1>11. After(t, x) = n + After(e, i)
  <2>1. x + 6 = n + (i + 6) /\ x + w = n + (i + w)
    BY <1>2
  <2> QED
    BY <1>6, <1>9, <2>1 DEF After
<1> QED
  BY <1>2, <1>10, <1>11

\* A character of a string and where the next one begins.
LEMMA CharacterFacts ==
    ASSUME NEW e, String(e), NEW k \in 0 .. Utf8Length(e) - 1
    PROVE  /\ k \in Nat /\ Len(e) \in Nat /\ Utf8Length(e) \in Nat
           /\ ByteOffset(e, k) \in Nat /\ ByteOffset(e, k) < Len(e)
           /\ e[ByteOffset(e, k) + 1] \in 1 .. 7
           /\ CharLength[e[ByteOffset(e, k) + 1]] \in 1 .. 4
           /\ ByteOffset(e, k + 1) = ByteOffset(e, k) + CharLength[e[ByteOffset(e, k) + 1]]
           /\ ByteOffset(e, k + 1) \in Nat /\ ByteOffset(e, k + 1) <= Len(e)
<1>1. /\ Utf8Length(e) \in Nat /\ Chain(e, Utf8Length(e)) /\ Len(e) \in Nat /\ e \in Seq(Byte)
  BY StringFacts DEF String
<1>2. k \in Nat /\ k \in 0 .. Utf8Length(e) /\ k + 1 \in 0 .. Utf8Length(e) /\ k <= k + 1
  BY <1>1
<1>3. PICK p \in Nat : p = ByteOffset(e, k)
  BY <1>1, <1>2, ChainOffsets
<1>4. p < Len(e) /\ CharLength[e[p + 1]] > 0
  BY <1>1, <1>3 DEF Chain
<1>5. e[p + 1] \in Byte
  BY <1>1, <1>4
<1>6. CharLength[e[p + 1]] \in 1 .. 4 /\ e[p + 1] \in 1 .. 7
  <2>1. CharLength[e[p + 1]] \in 0 .. 4
    BY <1>5, CharLengths
  <2>2. CharLength[0] = 0
    BY CharLengths
  <2>3. e[p + 1] # 0
    BY <1>4, <2>2
  <2> QED
    BY <1>4, <1>5, <2>1, <2>3 DEF Byte
<1>7. ByteOffset(e, k + 1) = p + CharLength[e[p + 1]]
  BY <1>2, <1>3, ByteOffsetStep
<1>8. ByteOffset(e, k + 1) \in Nat /\ ByteOffset(e, k + 1) <= Len(e)
  BY <1>2, StringFacts
<1> QED
  BY <1>1, <1>2, <1>3, <1>4, <1>6, <1>7, <1>8

\* Unescape goes from the beginning of a character to that of another one.
LEMMA AfterCharacter ==
    ASSUME NEW e, String(e), NEW k \in 0 .. Utf8Length(e) - 1
    PROVE  \E j \in k + 1 .. Utf8Length(e) :
              After(e, ByteOffset(e, k) + 1) = ByteOffset(e, j) + 1
<1>1. PICK p \in Nat, L \in Nat, T \in Nat, w \in 1 .. 4 :
           /\ p = ByteOffset(e, k) /\ L = Len(e) /\ T = Utf8Length(e)
           /\ p < L /\ w = CharLength[e[p + 1]]
           /\ ByteOffset(e, k + 1) = p + w /\ ByteOffset(e, k + 1) \in Nat
  BY CharacterFacts
<1>2. k + 1 \in k + 1 .. T /\ k \in Nat
  BY <1>1
<1>3. CASE ~ Pair(e, p + 1)
  <2>1. After(e, p + 1) = (p + w) + 1
    <3>1. After(e, p + 1) = (p + 1) + w
      BY <1>1, <1>3 DEF After
    <3>2. (p + 1) + w = (p + w) + 1
      OBVIOUS
    <3> QED
      BY <3>1, <3>2
  <2> QED
    BY <1>1, <1>2, <2>1
<1>4. CASE Pair(e, p + 1)
  <2>1. /\ e[p + 1] = High /\ (p + 1) + 5 <= L /\ e[(p + 1) + 3] = Low
        /\ After(e, p + 1) = (p + 1) + 6
    BY <1>1, <1>4 DEF Pair, After
  <2>2. w = 3
    BY <1>1, <2>1, CharLengths
  <2>3. ByteOffset(e, k + 1) = p + 3
    BY <1>1, <2>2
  <2>4. k + 1 # T
    <3>1. ByteOffset(e, T) = L
      BY <1>1, StringFacts
    <3>2. p + 3 # L
      BY <2>1
    <3> QED
      BY <2>3, <3>1, <3>2
  <2>5. k + 1 \in 0 .. T - 1
    BY <1>1, <2>4
  <2>6. ByteOffset(e, (k + 1) + 1) = ByteOffset(e, k + 1) + CharLength[e[ByteOffset(e, k + 1) + 1]]
    BY <1>1, <2>5, CharacterFacts
  <2>7. (p + 3) + 1 = (p + 1) + 3
    OBVIOUS
  <2>8. ByteOffset(e, (k + 1) + 1) = (p + 3) + 3
    BY <2>1, <2>3, <2>6, <2>7, CharLengths
  <2>9. (k + 1) + 1 \in k + 1 .. T /\ ((p + 3) + 3) + 1 = (p + 1) + 6
    BY <1>2, <2>5
  <2> QED
    BY <1>1, <2>1, <2>8, <2>9
<1> QED
  BY <1>3, <1>4

\* Of a string that comes after n bytes Unescape makes what it makes of it alone.
LEMMA UnescapeShift ==
    ASSUME NEW e, String(e), Fits(e), NEW t \in Seq(Byte), Fits(t), NEW n \in Nat,
           Len(t) = n + Len(e), \A j \in 1 .. Len(e) : t[n + j] = e[j]
    PROVE  Unescaping(t)[n + 1] = Unescape(e)
<1> DEFINE U == Unescaping(e)
           V == Unescaping(t)
           o(k) == ByteOffset(e, k)
           S == {d \in Nat : \A k \in 0 .. Utf8Length(e) :
                    Utf8Length(e) - k <= d => V[n + (o(k) + 1)] = U[o(k) + 1]}
<1>1. PICK T \in Nat, L \in Nat : T = Utf8Length(e) /\ L = Len(e) /\ o(T) = L
  BY StringFacts
<1>2. e \in Seq(Byte)
  BY DEF String
<1>3. /\ U[L + 1] = <<>> /\ Unescape(e) = U[1] /\ V[(n + L) + 1] = <<>>
      /\ \A i \in 1 .. L : U[i] = Unescaped(e, i) \o U[After(e, i)]
      /\ \A i \in 1 .. n + L : V[i] = Unescaped(t, i) \o V[After(t, i)]
  BY <1>1, <1>2, UnescapeUnfolds
<1> HIDE DEF U, V
<1>4. 0 \in S
  <2>1. ASSUME NEW k \in 0 .. T, T - k <= 0 PROVE V[n + (o(k) + 1)] = U[o(k) + 1]
    <3>1. k = T
      BY <2>1
    <3>2. n + (L + 1) = (n + L) + 1
      OBVIOUS
    <3> QED
      BY <1>1, <1>3, <3>1, <3>2
  <2> QED
    BY <1>1, <2>1
<1>5. ASSUME NEW d \in Nat, d \in S PROVE d + 1 \in S
  <2>1. SUFFICES ASSUME NEW k \in 0 .. T, T - k <= d + 1
                 PROVE  V[n + (o(k) + 1)] = U[o(k) + 1]
    BY <1>1
  <2>2. \A j \in 0 .. T : T - j <= d => V[n + (o(j) + 1)] = U[o(j) + 1]
    BY <1>1, <1>5
  <2>3. CASE T - k <= d
    BY <2>2, <2>3
  <2>4. CASE ~ (T - k <= d)
    <3>1. k \in 0 .. T - 1
      BY <2>4
    <3>2. PICK i \in 1 .. L : i = o(k) + 1
      <4>1. o(k) \in Nat /\ o(k) < Len(e)
        BY <1>1, <3>1, CharacterFacts
      <4> QED
        BY <1>1, <4>1
    <3>3. PICK j \in k + 1 .. T : After(e, i) = o(j) + 1
      BY <1>1, <3>1, <3>2, AfterCharacter
    <3>4. /\ n + i \in 1 .. n + L
          /\ Unescaped(t, n + i) = Unescaped(e, i) /\ After(t, n + i) = n + After(e, i)
      <4>1. i \in 1 .. Len(e)
        BY <1>1, <3>2
      <4> QED
        BY <1>1, <1>2, <4>1, UnescapedAlike
    <3>5. j \in 0 .. T /\ T - j <= d
      BY <2>1, <2>4, <3>1, <3>3
    <3>6. V[n + (o(j) + 1)] = U[o(j) + 1]
      BY <2>2, <3>5
    <3>7. U[i] = Unescaped(e, i) \o U[o(j) + 1]
      BY <1>3, <3>3
    <3>8. V[n + i] = Unescaped(t, n + i) \o V[After(t, n + i)]
      BY <1>3, <3>4
    <3> QED
      BY <3>2, <3>3, <3>4, <3>6, <3>7, <3>8
  <2> QED
    BY <2>3, <2>4
<1> HIDE DEF S, o
<1>6. T \in S
  BY <1>4, <1>5, Induction
<1>7. 0 \in 0 .. T /\ T - 0 <= T
  OBVIOUS
<1>8. V[n + (o(0) + 1)] = U[o(0) + 1]
  BY <1>1, <1>6, <1>7 DEF S
<1>9. o(0) + 1 = 1
  BY ByteOffsetStep DEF o
<1> QED
  BY <1>3, <1>8, <1>9 DEF V

LEMMA UnescapeOne ==
    ASSUME NEW e, String(e), Fits(e), NEW c \in 1 .. 7,
           c = High => Len(e) = 0 \/ e[1] # Low
    PROVE  Unescape(Before(c, e)) = Before(c, Unescape(e))
<1> DEFINE f == Before(c, e)
<1>1. e \in Seq(Byte)
  BY DEF String
<1>2. PICK w \in 1 .. 4, L \in Nat : w = CharLength[c] /\ L = Len(e)
  BY <1>1, BeforeFacts
<1>3. f \in Seq(Byte) /\ Len(f) = w + L /\ f[1] = c
  BY <1>1, <1>2, BeforeFacts
<1>4. \A i \in 2 .. w : f[i] = 0
  BY <1>1, <1>2, BeforeFacts
<1>5. \A j \in 1 .. L : f[w + j] = e[j]
  <2>1. \A j \in 1 .. Len(e) : Before(c, e)[CharLength[c] + j] = e[j]
    BY <1>1, BeforeFacts
  <2> HIDE DEF f
  <2> QED
    BY <1>2, <2>1 DEF f
<1>6. String(f) /\ Fits(f)
  BY BeforeString
<1> HIDE DEF f
<1>7. 1 \in 1 .. Len(f)
  BY <1>2, <1>3
<1>8. Unescape(f) = Unescaped(f, 1) \o Unescaping(f)[After(f, 1)]
  BY <1>3, <1>6, <1>7, UnescapeUnfolds
<1>9. ~ Pair(f, 1)
  <2>1. SUFFICES ASSUME c = High, 6 <= w + L, f[4] = Low PROVE FALSE
    BY <1>3 DEF Pair
  <2>2. w = 3
    BY <1>2, <2>1, CharLengths
  <2>3. L # 0 /\ 1 \in 1 .. L /\ w + 1 = 4
    BY <2>1, <2>2
  <2>4. e[1] = Low
    BY <1>5, <2>1, <2>3
  <2> QED
    BY <1>2, <2>1, <2>3, <2>4
<1>10. Unescaped(f, 1) = Char(c)
  <2>1. Unescaped(f, 1) = SubSeq(f, 1, (1 + w) - 1)
    BY <1>2, <1>3, <1>9 DEF Unescaped
  <2>2. PICK u : u = SubSeq(f, 1, (1 + w) - 1)
    OBVIOUS
  <2>3. u \in Seq(Byte) /\ Len(u) = w /\ \A j \in 1 .. w : u[j] = f[1 + j - 1]
    BY <1>2, <1>3, <1>6, <1>7, <2>2, FitsFacts
  <2>4. PICK v : v = Char(c)
    OBVIOUS
  <2>5. v \in Seq(Byte) /\ Len(v) = w /\ v[1] = c /\ \A j \in 2 .. w : v[j] = 0
    BY <1>2, <2>4, CharFacts
  <2>6. ASSUME NEW j \in 1 .. w PROVE u[j] = v[j]
    <3>1. 1 + j - 1 = j /\ (j = 1 \/ j \in 2 .. w)
      OBVIOUS
    <3> QED
      BY <1>3, <1>4, <2>3, <2>5, <3>1
  <2>7. u = v
    BY <2>3, <2>5, <2>6, SeqEqual
  <2> QED
    BY <2>1, <2>2, <2>4, <2>7
<1>11. After(f, 1) = w + 1
  BY <1>2, <1>3, <1>9 DEF After
<1>12. Unescaping(f)[w + 1] = Unescape(e)
  <2>1. w \in Nat /\ Len(f) = w + Len(e) /\ \A j \in 1 .. Len(e) : f[w + j] = e[j]
    BY <1>2, <1>3, <1>5
  <2> QED
    BY <1>3, <1>6, <2>1, UnescapeShift
<1> QED
  BY <1>8, <1>10, <1>11, <1>12 DEF f, Before

LEMMA UnescapePair ==
    ASSUME NEW e, String(e), Fits(e)
    PROVE  Unescape(Before(High, Before(Low, e))) = Before(4, Unescape(e))
<1> DEFINE g == Before(Low, e)
           f == Before(High, g)
<1>1. e \in Seq(Byte) /\ High \in 1 .. 7 /\ Low \in 1 .. 7
  BY DEF String, High, Low
<1>2. PICK L \in Nat : L = Len(e)
  BY <1>1, LenProperties
<1>3. CharLength[High] = 3 /\ CharLength[Low] = 3
  BY CharLengths
<1>4. String(g) /\ Fits(g) /\ g \in Seq(Byte)
  BY <1>1, BeforeString DEF String
<1>5. /\ Len(g) = 3 + L /\ g[1] = Low /\ \A j \in 1 .. L : g[3 + j] = e[j]
  <2>1. Len(Before(Low, e)) = CharLength[Low] + Len(e) /\ Before(Low, e)[1] = Low
    BY <1>1, BeforeFacts
  <2>2. \A j \in 1 .. Len(e) : Before(Low, e)[CharLength[Low] + j] = e[j]
    BY <1>1, BeforeFacts
  <2> HIDE DEF g
  <2> QED
    BY <1>2, <1>3, <2>1, <2>2 DEF g
<1> HIDE DEF g
<1>6. String(f) /\ Fits(f) /\ f \in Seq(Byte)
  BY <1>1, <1>4, BeforeString DEF String
<1>7. /\ Len(f) = 3 + (3 + L) /\ f[1] = High /\ \A j \in 1 .. 3 + L : f[3 + j] = g[j]
  <2>1. Len(Before(High, g)) = CharLength[High] + Len(g) /\ Before(High, g)[1] = High
    BY <1>1, <1>4, BeforeFacts
  <2>2. \A j \in 1 .. Len(g) : Before(High, g)[CharLength[High] + j] = g[j]
    BY <1>1, <1>4, BeforeFacts
  <2> HIDE DEF f
  <2> QED
    BY <1>3, <1>5, <2>1, <2>2 DEF f
<1> HIDE DEF f
<1>8. 1 \in 1 .. Len(f) /\ 6 <= Len(f) /\ 1 \in 1 .. 3 + L
  BY <1>7
<1>9. f[4] = Low
  <2>1. 3 + 1 = 4
    OBVIOUS
  <2> QED
    BY <1>5, <1>7, <1>8, <2>1
<1>10. Pair(f, 1)
  BY <1>7, <1>8, <1>9 DEF Pair
<1>11. Unescape(f) = Unescaped(f, 1) \o Unescaping(f)[After(f, 1)]
  BY <1>6, <1>8, UnescapeUnfolds
<1>12. Unescaped(f, 1) = Char(4) /\ After(f, 1) = 6 + 1
  BY <1>10 DEF Unescaped, After
<1>13. Unescaping(f)[6 + 1] = Unescape(e)
  <2>1. ASSUME NEW j \in 1 .. L PROVE f[6 + j] = e[j]
    <3>1. 3 + j \in 1 .. 3 + L /\ 3 + (3 + j) = 6 + j
      OBVIOUS
    <3> QED
      BY <1>5, <1>7, <3>1
  <2>2. 6 \in Nat /\ Len(f) = 6 + Len(e) /\ \A j \in 1 .. Len(e) : f[6 + j] = e[j]
    BY <1>2, <1>7, <2>1
  <2> QED
    BY <1>6, <2>2, UnescapeShift
<1> QED
  BY <1>11, <1>12, <1>13 DEF f, g, Before

\* The character at an offset of s, and what comes with it.
LEMMA CharacterAt ==
    ASSUME NEW s, String(s), Whole(s), NEW k \in 0 .. Utf8Length(s) - 1,
           NEW p \in Nat, p = ByteOffset(s, k), NEW c \in Byte, c = s[p + 1]
    PROVE  /\ SubSeq(s, p + 1, ((p + 1) + CharLength[c]) - 1) = Char(c)
           /\ SubSeq(s, p + 1, Len(s)) = Before(c, SubSeq(s, ByteOffset(s, k + 1) + 1, Len(s)))
<1>1. s \in Seq(Byte)
  BY DEF String
<1>2. PICK L \in Nat, w \in 1 .. 4, q \in Nat :
           /\ L = Len(s) /\ w = CharLength[c] /\ q = ByteOffset(s, k + 1)
           /\ p \in Nat /\ p < L /\ c \in 1 .. 7 /\ q = p + w /\ q <= L
  BY CharacterFacts
<1>0. p < L /\ q = p + w /\ q <= L
  BY <1>2
<1>3. \A j \in 2 .. w : s[p + j] = 0
  <2> TAKE j \in 2 .. w
  <2>1. PICK i \in 1 .. w - 1 : i = j - 1 /\ (p + 1) + i = p + j
    <3>1. j - 1 \in 1 .. w - 1 /\ (p + 1) + (j - 1) = p + j
      OBVIOUS
    <3> QED
      BY <3>1
  <2>2. p + 1 \in 1 .. L /\ (p + 1) + i \in 1 .. L
    BY <1>0
  <2>3. p + 1 \in DOMAIN s /\ (p + 1) + i \in DOMAIN s
    BY <1>1, <1>2, <2>2
  <2>4. i \in 1 .. CharLength[s[p + 1]] - 1
    BY <1>2
  <2> QED
    BY <2>1, <2>3, <2>4 DEF Whole
<1>4. PICK v : v = Char(c)
  OBVIOUS
<1>5. v \in Seq(Byte) /\ Len(v) = w /\ v[1] = c /\ \A j \in 2 .. w : v[j] = 0
  BY <1>2, <1>4, CharFacts
<1>6. PICK u : u = SubSeq(s, p + 1, q)
  OBVIOUS
<1>7. u \in Seq(Byte) /\ Len(u) = q - p /\ \A j \in 1 .. q - p : u[j] = s[p + j]
  <2>1. p \in Nat /\ q \in Nat /\ p <= q /\ q <= Len(s)
    <3>1. p <= q /\ q <= L
      BY <1>0
    <3> QED
      BY <1>2, <3>1
  <2> QED
    BY <1>1, <1>6, <2>1, Piece
<1>8. u = v
  <2>1. q - p = w
    BY <1>0
  <2>2. ASSUME NEW j \in 1 .. w PROVE u[j] = v[j]
    <3>1. j = 1 \/ j \in 2 .. w
      OBVIOUS
    <3> QED
      BY <1>3, <1>5, <1>7, <2>1, <3>1
  <2> QED
    BY <1>5, <1>7, <2>1, <2>2, SeqEqual
<1>9. PICK x : x = SubSeq(s, p + 1, L)
  OBVIOUS
<1>10. x \in Seq(Byte) /\ Len(x) = L - p /\ \A j \in 1 .. L - p : x[j] = s[p + j]
  <2>1. p \in Nat /\ L \in Nat /\ p <= L /\ L <= Len(s)
    BY <1>2
  <2> QED
    BY <1>1, <1>9, <2>1, Piece
<1>11. PICK y : y = SubSeq(s, q + 1, L)
  OBVIOUS
<1>12. y \in Seq(Byte) /\ Len(y) = L - q /\ \A j \in 1 .. L - q : y[j] = s[q + j]
  <2>1. q \in Nat /\ L \in Nat /\ q <= L /\ L <= Len(s)
    BY <1>2
  <2> QED
    BY <1>1, <1>11, <2>1, Piece
<1>13. PICK z : z = Before(c, y)
  OBVIOUS
<1>14. z \in Seq(Byte) /\ Len(z) = w + (L - q) /\ z[1] = c /\ \A j \in 2 .. w : z[j] = 0
  <2>1. c \in 1 .. 7 /\ y \in Seq(Byte)
    BY <1>2, <1>12
  <2>2. /\ Before(c, y) \in Seq(Byte) /\ Len(Before(c, y)) = CharLength[c] + Len(y)
        /\ Before(c, y)[1] = c /\ \A i \in 2 .. CharLength[c] : Before(c, y)[i] = 0
    BY <2>1, BeforeFacts
  <2> QED
    BY <1>2, <1>12, <1>13, <2>2
<1>15. \A j \in 1 .. L - q : z[w + j] = y[j]
  <2>1. c \in 1 .. 7 /\ y \in Seq(Byte)
    BY <1>2, <1>12
  <2>2. \A j \in 1 .. Len(y) : Before(c, y)[CharLength[c] + j] = y[j]
    BY <2>1, BeforeFacts
  <2> QED
    BY <1>2, <1>12, <1>13, <2>2
<1>16. x = z
  <2>1. w + (L - q) = L - p
    BY <1>0
  <2>2. ASSUME NEW j \in 1 .. L - p PROVE x[j] = z[j]
    <3>1. x[j] = s[p + j]
      BY <1>10
    <3>2. CASE j = 1
      BY <1>2, <1>14, <3>1, <3>2
    <3>3. CASE j \in 2 .. w
      BY <1>3, <1>14, <3>1, <3>3
    <3>4. CASE j > w
      <4>1. PICK i \in 1 .. L - q : j = w + i /\ q + i = p + j
        <5>1. j - w \in 1 .. L - q /\ j = w + (j - w) /\ q + (j - w) = p + j
          BY <1>0, <3>4
        <5> QED
          BY <5>1
      <4> QED
        BY <1>12, <1>15, <3>1, <4>1
    <3>5. j = 1 \/ j \in 2 .. w \/ j > w
      OBVIOUS
    <3> QED
      BY <3>2, <3>3, <3>4, <3>5
  <2> QED
    BY <1>10, <1>14, <2>1, <2>2, SeqEqual
<1>17. ((p + 1) + w) - 1 = q
  BY <1>0
<1> QED
  BY <1>2, <1>4, <1>6, <1>8, <1>9, <1>11, <1>13, <1>16, <1>17

LEMMA UnescapeNothing == Unescape(<<>>) = <<>>
<1>1. <<>> \in Seq(Byte) /\ Fits(<<>>) /\ Len(<<>>) + 1 = 1
  BY EmptyString, EmptySeq
<1>2. Unescape(<<>>) = Unescaping(<<>>)[1] /\ Unescaping(<<>>)[Len(<<>>) + 1] = <<>>
  BY <1>1, UnescapeUnfolds
<1> QED
  BY <1>1, <1>2

\* Where Escape has come to a character c, and n is what it makes of the rest.
Replaced(c, n) == (IF c = 4 THEN Char(High) \o Char(Low) ELSE Char(c)) \o n

LEMMA EscapeOne ==
    ASSUME NEW c \in 1 .. 7, NEW n, String(n), Fits(n), NEW f, f = Replaced(c, n)
    PROVE  /\ String(f) /\ Fits(f) /\ Len(f) # 0 /\ f[1] = (IF c = 4 THEN High ELSE c)
           /\ ~ (c = High /\ Len(n) # 0 /\ n[1] = Low) => Unescape(f) = Before(c, Unescape(n))
<1>1. High \in 1 .. 7 /\ Low \in 1 .. 7 /\ High # 4
  BY DEF High, Low
<1>2. n \in Seq(Byte)
  BY DEF String
<1>3. CASE c # 4
  <2>1. f = Before(c, n)
    BY <1>3 DEF Before, Replaced
  <2>2. String(Before(c, n)) /\ Fits(Before(c, n))
    BY BeforeString
  <2>3. Len(Before(c, n)) # 0 /\ Before(c, n)[1] = c
    <3>1. /\ Len(n) \in Nat /\ CharLength[c] \in 1 .. 4
          /\ Len(Before(c, n)) = CharLength[c] + Len(n) /\ Before(c, n)[1] = c
      BY <1>2, BeforeFacts
    <3> QED
      BY <3>1
  <2>4. ASSUME ~ (c = High /\ Len(n) # 0 /\ n[1] = Low)
        PROVE  Unescape(Before(c, n)) = Before(c, Unescape(n))
    <3>1. c = High => Len(n) = 0 \/ n[1] # Low
      BY <2>4
    <3> QED
      BY <3>1, UnescapeOne
  <2> QED
    BY <1>3, <2>1, <2>2, <2>3, <2>4
<1>4. CASE c = 4
  <2> DEFINE g == Before(Low, n)
  <2>1. f = Before(High, g)
    <3>1. PICK a, b : a = Char(High) /\ b = Char(Low) /\ a \in Seq(Byte) /\ b \in Seq(Byte)
      BY <1>1, CharFacts
    <3>2. a \in Seq(Byte) /\ b \in Seq(Byte)
      BY <3>1
    <3>3. (a \o b) \o n = a \o (b \o n)
      BY <1>2, <3>2, ConcatAssociative
    <3> QED
      BY <1>4, <3>1, <3>3 DEF Before, Replaced
  <2>2. String(g) /\ Fits(g) /\ g \in Seq(Byte)
    BY <1>1, BeforeString DEF String
  <2>3. Unescape(Before(High, g)) = Before(4, Unescape(n))
    BY UnescapePair
  <2> HIDE DEF g
  <2>4. String(Before(High, g)) /\ Fits(Before(High, g))
    BY <1>1, <2>2, BeforeString
  <2>5. Len(Before(High, g)) # 0 /\ Before(High, g)[1] = High
    <3>1. /\ Len(g) \in Nat /\ CharLength[High] \in 1 .. 4
          /\ Len(Before(High, g)) = CharLength[High] + Len(g) /\ Before(High, g)[1] = High
      BY <1>1, <2>2, BeforeFacts
    <3> QED
      BY <3>1
  <2> QED
    BY <1>4, <2>1, <2>3, <2>4, <2>5
<1> QED
  BY <1>3, <1>4

\* The surrogate pairs that Escape makes are those that Unescape takes back.
LEMMA EscapeWhole ==
    ASSUME NEW s, String(s), Whole(s)
    PROVE  String(Escape(s)) /\ (~ HasPair(s) => Unescape(Escape(s)) = s)
<1> DEFINE T == Utf8Length(s)
           o(k) == ByteOffset(s, k)
           from(k) == Escaping(s)[o(k) + 1]
           first(k) == IF s[o(k) + 1] = 4 THEN High ELSE s[o(k) + 1]
           Good(k) == /\ String(from(k)) /\ Fits(from(k))
                      /\ Len(from(k)) = 0 \/ (k < T /\ from(k)[1] = first(k))
                      /\ ~ HasPair(s) => Unescape(from(k)) = SubSeq(s, o(k) + 1, Len(s))
           S == {d \in Nat : \A k \in 0 .. T : T - k <= d => Good(k)}
<1>1. /\ T \in Nat /\ Len(s) \in Nat /\ o(T) = Len(s) /\ s \in Seq(Byte)
      /\ \A k \in 0 .. T : o(k) \in Nat
  BY StringFacts DEF String
<1>2. Fits(s)
  BY NoneGoesBeyond
<1>3. /\ Escape(s) = Escaping(s)[1] /\ Escaping(s)[Len(s) + 1] = <<>>
      /\ \A i \in 1 .. Len(s) : Escaping(s)[i] = Escaped(s, i) \o Escaping(s)[i + CharLength[s[i]]]
  BY <1>1, <1>2, EscapeUnfolds
<1>4. Good(T)
  <2>1. from(T) = <<>>
    BY <1>1, <1>3
  <2>2. SubSeq(s, o(T) + 1, Len(s)) = <<>>
    <3>1. SubSeq(s, Len(s) + 1, Len(s)) = <<>>
      BY <1>1, SubSeqEmpty
    <3> QED
      BY <1>1, <3>1
  <2> HIDE DEF from, o, T
  <2>3. String(from(T)) /\ Fits(from(T)) /\ Len(from(T)) = 0 /\ Unescape(from(T)) = <<>>
    BY <2>1, EmptyString, UnescapeNothing, EmptySeq
  <2> QED
    BY <2>2, <2>3
<1>5. ASSUME NEW k \in 0 .. T - 1, Good(k + 1) PROVE Good(k)
  <2>1. PICK p \in Nat, c \in 1 .. 7, w \in 1 .. 4 :
             /\ p = o(k) /\ c = s[p + 1] /\ w = CharLength[c] /\ p < Len(s)
             /\ o(k + 1) = p + w
    BY CharacterFacts
  <2>2. k \in Nat /\ k < T /\ p + 1 \in 1 .. Len(s)
    <3>1. Len(s) \in Nat /\ T \in Nat
      BY <1>1
    <3>2. p < Len(s)
      BY <2>1
    <3> HIDE DEF T
    <3> QED
      BY <3>1, <3>2
  <2>3. PICK n : n = from(k + 1)
    OBVIOUS
  <2> DEFINE rest == SubSeq(s, o(k + 1) + 1, Len(s))
  <2>4. /\ String(n) /\ Fits(n)
        /\ Len(n) = 0 \/ (k + 1 < T /\ n[1] = first(k + 1))
        /\ ~ HasPair(s) => Unescape(n) = rest
    BY <1>5, <2>3
  <2>5. /\ SubSeq(s, p + 1, ((p + 1) + CharLength[c]) - 1) = Char(c)
        /\ SubSeq(s, p + 1, Len(s)) = Before(c, rest)
    <3>1. c \in Byte
      BY DEF Byte
    <3> QED
      BY <2>1, <3>1, CharacterAt
  <2>6. from(k) = (IF c = 4 THEN Char(High) \o Char(Low) ELSE Char(c)) \o n
    <3>1. from(k) = Escaped(s, p + 1) \o Escaping(s)[(p + 1) + w]
      BY <1>3, <2>1, <2>2
    <3>2. (p + 1) + w = (p + w) + 1
      OBVIOUS
    <3>3. Escaping(s)[(p + 1) + w] = n
      BY <2>1, <2>3, <3>2
    <3>4. Escaped(s, p + 1) = IF c = 4 THEN Char(High) \o Char(Low) ELSE Char(c)
      BY <2>1, <2>5 DEF Escaped
    <3> QED
      BY <3>1, <3>3, <3>4
  <2> HIDE DEF from
  <2>7. ASSUME c = High /\ Len(n) # 0 /\ n[1] = Low PROVE HasPair(s)
    <3>2. k + 1 < T /\ first(k + 1) = Low
      BY <2>4, <2>7
    <3>3. s[o(k + 1) + 1] = Low
      BY <3>2 DEF Low, High
    <3>4. w = 3
      BY <2>1, <2>7, CharLengths
    <3>5. k + 1 \in 0 .. T - 1
      BY <1>1, <2>2, <3>2
    <3>6. /\ o(k + 1) < Len(s) /\ CharLength[s[o(k + 1) + 1]] \in 1 .. 4 /\ o(k + 1) \in Nat
          /\ o((k + 1) + 1) = o(k + 1) + CharLength[s[o(k + 1) + 1]]
          /\ o((k + 1) + 1) <= Len(s)
      BY <3>5, CharacterFacts
    <3>7. (p + 3) + 3 <= Len(s)
      BY <2>1, <3>3, <3>4, <3>6, CharLengths
    <3>8. p + 1 \in 1 .. Len(s) - 3 /\ (p + 1) + 3 = (p + 3) + 1
      BY <1>1, <3>7
    <3>9. s[p + 1] = High /\ s[(p + 1) + 3] = Low
      BY <2>1, <2>7, <3>3, <3>4, <3>8
    <3> QED
      BY <3>8, <3>9 DEF HasPair
  <2>8. PICK f : f = from(k)
    OBVIOUS
  <2>9. /\ String(f) /\ Fits(f) /\ Len(f) # 0 /\ f[1] = (IF c = 4 THEN High ELSE c)
        /\ ~ (c = High /\ Len(n) # 0 /\ n[1] = Low) => Unescape(f) = Before(c, Unescape(n))
    <3>1. f = Replaced(c, n)
      BY <2>6, <2>8 DEF Replaced
    <3> QED
      BY <2>4, <3>1, EscapeOne
  <2>10. f[1] = first(k)
    BY <2>1, <2>9
  <2>11. ~ HasPair(s) => Unescape(f) = SubSeq(s, p + 1, Len(s))
    BY <2>4, <2>5, <2>7, <2>9
  <2> HIDE DEF o, first
  <2> QED
    BY <2>1, <2>2, <2>8, <2>9, <2>10, <2>11
<1> HIDE DEF Good
<1>6. 0 \in S
  <2>1. \A k \in 0 .. T : T - k <= 0 => k = T
    BY <1>1
  <2> QED
    BY <1>4, <2>1
<1>7. ASSUME NEW d \in Nat, d \in S PROVE d + 1 \in S
  <2>1. SUFFICES ASSUME NEW k \in 0 .. T, T - k <= d + 1 PROVE Good(k)
    OBVIOUS
  <2>2. CASE T - k <= d
    BY <1>7, <2>2
  <2>3. CASE ~ (T - k <= d)
    <3>1. k \in 0 .. T - 1 /\ k + 1 \in 0 .. T /\ T - (k + 1) <= d
      <4>1. T \in Nat
        BY <1>1
      <4> HIDE DEF T
      <4> QED
        BY <2>1, <2>3, <4>1
    <3>2. Good(k + 1)
      BY <1>7, <3>1
    <3> QED
      BY <1>5, <3>1, <3>2
  <2> QED
    BY <2>2, <2>3
<1> HIDE DEF S
<1>8. T \in S
  BY <1>1, <1>6, <1>7, Induction
<1>9. 0 \in 0 .. T /\ T - 0 <= T
  BY <1>1
<1>10. Good(0)
  BY <1>8, <1>9 DEF S
<1>11. o(0) + 1 = 1
  BY ByteOffsetStep
<1>12. from(0) = Escape(s)
  BY <1>3, <1>11
<1>13. SubSeq(s, 1, Len(s)) = s
  BY <1>1, SubSeqFull
<1> HIDE DEF from, o
<1> QED
  BY <1>10, <1>11, <1>12, <1>13 DEF Good

-----------------------------------------------------------------------------
(* The inductive invariant, part by part: the state is an argument. *)

\* The first n characters of t are in the chunks of w, and no last chunk.
SentSoFar(t, w, n) ==
    \E K, at, ch : Framed(t, w, K, at, ch, FALSE) /\ Len(w) = at[K] /\ ch[K] = n

\* All of t is in the chunks of w.
SentAll(t, w) ==
    \E K, at, ch : /\ Framed(t, w, K, at, ch, TRUE) /\ K > 0
                   /\ Len(w) = at[K] /\ ch[K] = Utf8Length(t)

\* It has arrived with a value after it, or without its end.
Arrived(t, w, lost, K, at, ch) ==
    /\ Framed(t, w, K, at, ch, TRUE) /\ K > 0 /\ ch[K] = Utf8Length(t)
    /\ IF lost THEN Len(w) < at[K] ELSE Len(w) = at[K] + 1

\* The decoder is before the code of a chunk, at p, with the characters of
\* the chunks before it in out.
AtCode(t, w, lost, p, out) ==
    \E K, at, ch : /\ Arrived(t, w, lost, K, at, ch)
                   /\ \E k \in 0 .. K - 1 : /\ p = at[k] /\ p <= Len(w)
                                            /\ out = SubSeq(t, 1, ByteOffset(t, ch[k]))

\* It is in a chunk, after q characters of t; rest of the chunk's are missing.
Within(t, w, K, at, ch, k, q, p, out, rest, last) ==
    /\ ch[k] <= q /\ q <= ch[k + 1] /\ rest = ch[k + 1] - q
    /\ p = at[k] + 1 + (ByteOffset(t, q) - ByteOffset(t, ch[k]))
    /\ p <= Len(w)
    /\ out = SubSeq(t, 1, ByteOffset(t, q))
    /\ last = (k = K - 1)

InChunk(t, w, lost, p, out, rest, last) ==
    \E K, at, ch : /\ Arrived(t, w, lost, K, at, ch)
                   /\ \E k \in 0 .. K - 1 : \E q \in Nat :
                         Within(t, w, K, at, ch, k, q, p, out, rest, last)

LEMMA NothingSent ==
    ASSUME NEW t, String(t)
    PROVE  SentSoFar(t, <<>>, 0)
<1> DEFINE z == [k \in Nat |-> 0]
<1>1. z \in [Nat -> Nat] /\ z[0] = 0 /\ \A k \in Nat : z[k] = 0
  OBVIOUS
<1> HIDE DEF z
<1>2. Utf8Length(t) \in Nat
  BY StringFacts
<1>3. Framed(t, <<>>, 0, z, z, FALSE)
  <2>1. \A k \in 0 .. 0 : z[k] <= z[0] /\ z[k] <= Utf8Length(t)
    BY <1>1, <1>2
  <2>2. 0 .. 0 - 1 = {}
    OBVIOUS
  <2> QED
    BY <1>1, <2>1, <2>2 DEF Framed
<1>4. Len(<<>>) = z[0]
  BY <1>1, EmptySeq
<1> QED
  BY <1>1, <1>3, <1>4 DEF SentSoFar

LEMMA SentBound ==
    ASSUME NEW t, String(t), NEW w, NEW m, SentSoFar(t, w, m)
    PROVE  m \in Nat /\ m <= Utf8Length(t) /\ Utf8Length(t) \in Nat
<1>1. PICK K, at, ch : Framed(t, w, K, at, ch, FALSE) /\ ch[K] = m
  BY DEF SentSoFar
<1>2. K \in Nat /\ ch \in [Nat -> Nat] /\ K \in 0 .. K
  BY <1>1 DEF Framed
<1>3. ch[K] \in Nat /\ ch[K] <= Utf8Length(t)
  BY <1>1, <1>2 DEF Framed
<1> QED
  BY <1>1, <1>3, StringFacts

LEMMA SentMore ==
    ASSUME NEW t, String(t), NEW w \in Seq(Element), NEW m, SentSoFar(t, w, m),
           NEW op \in Chunks, NEW n \in Nat, m + n <= Utf8Length(t),
           op # "R" => m + n = Utf8Length(t)
    PROVE  LET v == Written(w, op, n, Segment(t, m, m + n))
           IN  /\ v \in Seq(Element)
               /\ IF op = "R" THEN SentSoFar(t, v, m + n) ELSE SentAll(t, v)
<1>1. PICK K, at, ch : Framed(t, w, K, at, ch, FALSE) /\ Len(w) = at[K] /\ ch[K] = m
  BY DEF SentSoFar
<1>2. PICK v : v = Written(w, op, n, Segment(t, m, m + n))
  OBVIOUS
<1>7. Continued(t, v, K, op # "R", m + n)
  <2>1. ch[K] + n <= Utf8Length(t)
    BY <1>1
  <2>2. Continued(t, Written(w, op, n, Segment(t, ch[K], ch[K] + n)), K, op # "R", ch[K] + n)
    BY <1>1, <2>1, FramedCarriesOn
  <2> QED
    BY <1>1, <1>2, <2>2
<1>3. PICK at2, ch2 : /\ Framed(t, v, K + 1, at2, ch2, op # "R")
                      /\ Len(v) = at2[K + 1] /\ ch2[K + 1] = m + n
                      /\ v \in Seq(Element)
  BY <1>7 DEF Continued
<1>4. K \in Nat /\ K + 1 > 0
  BY <1>1 DEF Framed
<1>5. CASE op = "R"
  <2>1. (op # "R") = FALSE
    BY <1>5
  <2>2. Framed(t, v, K + 1, at2, ch2, FALSE)
    BY <1>3, <2>1
  <2> QED
    BY <1>2, <1>3, <1>5, <2>2 DEF SentSoFar
<1>6. CASE op # "R"
  <2>1. (op # "R") = TRUE
    BY <1>6
  <2>2. Framed(t, v, K + 1, at2, ch2, TRUE)
    BY <1>3, <2>1
  <2> QED
    BY <1>2, <1>3, <1>4, <1>6, <2>2 DEF SentAll
<1> QED
  BY <1>5, <1>6

\* Before the first chunk the decoder has nothing.
LEMMA AtBeginning ==
    ASSUME NEW t, String(t), NEW w, NEW lost, NEW K, NEW at, NEW ch,
           Arrived(t, w, lost, K, at, ch), Len(w) \in Nat
    PROVE  AtCode(t, w, lost, 0, <<>>)
<1>1. K \in Nat /\ K > 0 /\ at[0] = 0 /\ ch[0] = 0
  BY DEF Arrived, Framed
<1>2. SubSeq(t, 1, ByteOffset(t, 0)) = <<>>
  <2>1. ByteOffset(t, 0) = 0
    BY ByteOffsetStep
  <2>2. t \in Seq(Byte) /\ Len(t) \in Nat
    BY StringFacts DEF String
  <2>3. SubSeq(t, 1, 0) = <<>>
    BY <2>2, SubSeqEmpty
  <2> QED
    BY <2>1, <2>3
<1>3. 0 \in 0 .. K - 1 /\ 0 <= Len(w)
  BY <1>1
<1> QED
  BY <1>1, <1>2, <1>3 DEF AtCode

LEMMA ArrivesWhole ==
    ASSUME NEW t, String(t), NEW w \in Seq(Element), SentAll(t, w)
    PROVE  /\ Append(w, NextValue) \in Seq(Element)
           /\ AtCode(t, Append(w, NextValue), FALSE, 0, <<>>)
<1>1. PICK K, at, ch : /\ Framed(t, w, K, at, ch, TRUE) /\ K > 0
                       /\ Len(w) = at[K] /\ ch[K] = Utf8Length(t)
  BY DEF SentAll
<1>2. NextValue \in Element
  BY DEF NextValue, Code, Element
<1>3. PICK v : v = Append(w, NextValue)
  OBVIOUS
<1>4. /\ v \in Seq(Element) /\ Len(v) = Len(w) + 1 /\ Len(w) \in Nat
      /\ \A i \in 1 .. Len(w) : v[i] = w[i]
  BY <1>2, <1>3, AppendProperties, LenProperties
<1>5. Framed(t, v, K, at, ch, TRUE)
  <2>1. v \in Seq(Element) /\ \A i \in 1 .. Len(w) : i <= Len(v) => v[i] = w[i]
    BY <1>4
  <2> QED
    BY <1>1, <2>1, FramedPart
<1>6. Arrived(t, v, FALSE, K, at, ch)
  BY <1>1, <1>4, <1>5 DEF Arrived
<1>7. Len(v) \in Nat
  BY <1>4
<1> QED
  BY <1>3, <1>4, <1>6, <1>7, AtBeginning

LEMMA ArrivesCut ==
    ASSUME NEW t, String(t), NEW w \in Seq(Element), SentAll(t, w), NEW n \in 0 .. Len(w) - 1
    PROVE  /\ SubSeq(w, 1, n) \in Seq(Element)
           /\ AtCode(t, SubSeq(w, 1, n), TRUE, 0, <<>>)
<1>1. PICK K, at, ch : /\ Framed(t, w, K, at, ch, TRUE) /\ K > 0
                       /\ Len(w) = at[K] /\ ch[K] = Utf8Length(t)
  BY DEF SentAll
<1>2. PICK v : v = SubSeq(w, 1, n)
  OBVIOUS
<1>3. Len(w) \in Nat /\ n \in Nat /\ n < Len(w)
  BY LenProperties
<1>4. /\ v \in Seq(Element) /\ Len(v) = n /\ \A i \in 1 .. n : v[i] = w[i]
  <2>1. 0 <= n /\ n <= Len(w) /\ 0 \in Nat /\ 0 + 1 = 1 /\ n - 0 = n
    BY <1>3
  <2>2. /\ SubSeq(w, 0 + 1, n) \in Seq(Element) /\ Len(SubSeq(w, 0 + 1, n)) = n - 0
        /\ \A i \in 1 .. n - 0 : SubSeq(w, 0 + 1, n)[i] = w[0 + i]
    BY <1>3, <2>1, Piece
  <2>3. \A i \in 1 .. n : 0 + i = i
    OBVIOUS
  <2> QED
    BY <1>2, <2>1, <2>2, <2>3
<1>5. Framed(t, v, K, at, ch, TRUE)
  <2>1. v \in Seq(Element) /\ \A i \in 1 .. Len(w) : i <= Len(v) => v[i] = w[i]
    BY <1>3, <1>4
  <2> QED
    BY <1>1, <2>1, FramedPart
<1>6. Arrived(t, v, TRUE, K, at, ch)
  BY <1>1, <1>3, <1>4, <1>5 DEF Arrived
<1>7. Len(v) \in Nat
  BY <1>3, <1>4
<1> QED
  BY <1>2, <1>4, <1>6, <1>7, AtBeginning

\* What the decoder finds where it expects a code.
LEMMA FindsCode ==
    ASSUME NEW t, String(t), NEW w \in Seq(Element), NEW lost, NEW p, NEW out,
           AtCode(t, w, lost, p, out)
    PROVE  /\ p \in Nat /\ p <= Len(w)
           /\ p = Len(w) => lost
           /\ p < Len(w) => /\ w[p + 1].op \in Chunks
                            /\ InChunk(t, w, lost, p + 1, out, w[p + 1].n, w[p + 1].op # "R")
<1>1. PICK K, at, ch : /\ Arrived(t, w, lost, K, at, ch)
                       /\ \E k \in 0 .. K - 1 : /\ p = at[k] /\ p <= Len(w)
                                                /\ out = SubSeq(t, 1, ByteOffset(t, ch[k]))
  BY DEF AtCode
<1>2. PICK k \in 0 .. K - 1 : p = at[k] /\ p <= Len(w) /\ out = SubSeq(t, 1, ByteOffset(t, ch[k]))
  BY <1>1
<1>3. Framed(t, w, K, at, ch, TRUE) /\ K \in Nat /\ Len(w) \in Nat
  BY <1>1, LenProperties DEF Arrived, Framed
<1>4. ch[k] <= ch[k + 1] /\ Chunk(t, w, K, at, ch, TRUE, k)
  BY <1>3 DEF Framed
<1>5. ch \in [Nat -> Nat] /\ at \in [Nat -> Nat]
  BY <1>3 DEF Framed
<1>13. k \in Nat
  BY <1>3
<1>6. ch[k] \in Nat /\ ch[k] <= ch[k]
  BY <1>5, <1>13
<1>7. PICK z : z = at[k] + 1 + (ByteOffset(t, ch[k]) - ByteOffset(t, ch[k]))
  OBVIOUS
<1>8. /\ z \in Nat /\ at[k] \in Nat /\ at[k] < z /\ ByteOffset(t, ch[k]) \in Nat
      /\ at[k + 1] = z + (ByteOffset(t, ch[k + 1]) - ByteOffset(t, ch[k]))
      /\ at[k + 1] \in Nat /\ at[k + 1] <= at[K] /\ ch[k + 1] \in Nat
      /\ ByteOffset(t, ch[k + 1]) - ByteOffset(t, ch[k]) >= ch[k + 1] - ch[k]
      /\ ch[k + 1] <= Utf8Length(t)
  <2>1. Located(t, w, K, at, ch, k, ch[k], z)
    BY <1>3, <1>4, <1>6, <1>7, ChunkAhead
  <2> QED
    BY <2>1 DEF Located
<1>9. z = p + 1 /\ p \in Nat
  BY <1>2, <1>7, <1>8
<1>10. p < at[K] /\ at[K] \in Nat
  <2>1. PICK x \in Nat : x = ByteOffset(t, ch[k])
    BY <1>8
  <2>2. PICK y \in Nat : y = ByteOffset(t, ch[k + 1])
    <3>1. Utf8Length(t) \in Nat
      BY StringFacts
    <3>2. ch[k + 1] \in 0 .. Utf8Length(t)
      BY <1>8, <3>1
    <3> QED
      BY <3>2, StringFacts
  <2>3. PICK c \in Nat, d \in Nat : c = ch[k] /\ d = ch[k + 1]
    BY <1>6, <1>8
  <2>4. y - x >= d - c /\ c <= d
    BY <1>4, <1>8, <2>1, <2>2, <2>3
  <2>5. y >= x
    BY <2>4
  <2>6. PICK g \in Nat : g = at[k + 1] /\ g = z + (y - x) /\ g <= at[K]
    BY <1>8, <2>1, <2>2
  <2>7. at[K] \in Nat
    BY <1>3, <1>5
  <2> QED
    BY <1>9, <2>5, <2>6, <2>7
<1>11. p = Len(w) => lost
  <2>1. ~ lost => Len(w) = at[K] + 1
    BY <1>1 DEF Arrived
  <2> QED
    BY <1>3, <1>9, <1>10, <2>1
<1>12. ASSUME p < Len(w)
       PROVE  /\ w[p + 1].op \in Chunks
              /\ InChunk(t, w, lost, p + 1, out, w[p + 1].n, w[p + 1].op # "R")
  <2>1. /\ w[p + 1].op \in Chunks /\ w[p + 1].n = ch[k + 1] - ch[k]
        /\ (w[p + 1].op # "R") = (k = K - 1)
    BY <1>2, <1>4, <1>12 DEF Chunk
  <2>2. p + 1 = at[k] + 1 + (ByteOffset(t, ch[k]) - ByteOffset(t, ch[k])) /\ p + 1 <= Len(w)
    BY <1>3, <1>7, <1>9, <1>12
  <2>3. PICK q \in Nat : q = ch[k]
    BY <1>6
  <2>4. Within(t, w, K, at, ch, k, q, p + 1, out, w[p + 1].n, w[p + 1].op # "R")
    BY <1>2, <1>4, <1>6, <2>1, <2>2, <2>3 DEF Within
  <2> QED
    BY <1>1, <2>1, <2>4 DEF InChunk
<1> QED
  BY <1>2, <1>9, <1>11, <1>12

\* n bytes of w after p.
Part(w, p, n) == [i \in 1 .. n |-> w[p + i].n]

\* They are the n bytes of t after y.
PartOf(t, w, p, n, y) ==
    /\ Part(w, p, n) \in Seq(Byte) /\ Len(Part(w, p, n)) = n
    /\ \A i \in 1 .. n : Part(w, p, n)[i] = t[y + i]

LEMMA PartFacts ==
    ASSUME NEW t, String(t), NEW w, NEW p \in Nat, NEW n \in Nat, NEW y \in Nat,
           y + n <= Len(t), \A i \in 1 .. n : w[p + i].n = t[y + i]
    PROVE  PartOf(t, w, p, n, y)
<1>1. t \in Seq(Byte) /\ Len(t) \in Nat
  BY StringFacts DEF String
<1>2. \A i \in 1 .. n : t[y + i] \in Byte
  <2>1. \A i \in 1 .. n : y + i \in 1 .. Len(t)
    BY <1>1
  <2> QED
    BY <1>1, <2>1
<1>3. Part(w, p, n) = [i \in 1 .. n |-> w[p + i].n]
  BY DEF Part
<1>4. [i \in 1 .. n |-> w[p + i].n] = [i \in 1 .. n |-> t[y + i]]
  OBVIOUS
<1>5. PICK a : a = [i \in 1 .. n |-> t[y + i]]
  OBVIOUS
<1>6. a \in Seq(Byte) /\ Len(a) = n /\ \A i \in 1 .. n : a[i] = t[y + i]
  BY <1>2, <1>5
<1> QED
  BY <1>3, <1>4, <1>5, <1>6 DEF PartOf

\* What an iteration of finalReadUtf8String comes to.
Iterated(t, w, lost, p, out, r, last) ==
    \E j \in 1 .. r : \E e \in Nat :
        /\ Scan(Part(w, p, r)) = [chars |-> j, end |-> e] /\ e >= r
        /\ ~ lost => e <= Len(w) - p
        /\ e <= Len(w) - p => InChunk(t, w, lost, p + e, out \o Part(w, p, e), r - j, last)

LEMMA Iteration ==
    ASSUME NEW t, String(t), NEW w \in Seq(Element), NEW lost, NEW p, NEW out, NEW r, NEW last,
           InChunk(t, w, lost, p, out, r, last)
    PROVE  /\ r \in Nat /\ p \in Nat /\ Len(w) \in Nat /\ p <= Len(w)
           /\ ~ lost => r <= Len(w) - p
           /\ r > 0 /\ r <= Len(w) - p => Iterated(t, w, lost, p, out, r, last)
<1> DEFINE o(i) == ByteOffset(t, i)
<1>1. PICK K, at, ch : /\ Arrived(t, w, lost, K, at, ch)
                       /\ \E k \in 0 .. K - 1 : \E q \in Nat :
                             Within(t, w, K, at, ch, k, q, p, out, r, last)
  BY DEF InChunk
<1>2. PICK k \in 0 .. K - 1 : \E q \in Nat : Within(t, w, K, at, ch, k, q, p, out, r, last)
  BY <1>1
<1>3. PICK q \in Nat : Within(t, w, K, at, ch, k, q, p, out, r, last)
  BY <1>2
<1>4. /\ ch[k] <= q /\ q <= ch[k + 1] /\ r = ch[k + 1] - q
      /\ p = at[k] + 1 + (o(q) - o(ch[k])) /\ p <= Len(w)
      /\ out = SubSeq(t, 1, o(q)) /\ last = (k = K - 1)
  BY <1>3 DEF Within
<1>5. Framed(t, w, K, at, ch, TRUE)
  BY <1>1 DEF Arrived
<1>6. Located(t, w, K, at, ch, k, q, p)
  BY <1>4, <1>5, ChunkAhead
<1>7. PICK T \in Nat, L \in Nat, N \in Nat : T = Utf8Length(t) /\ L = Len(t) /\ N = Len(w)
  <2>1. Utf8Length(t) \in Nat /\ Len(t) \in Nat /\ Len(w) \in Nat
    BY StringFacts, LenProperties
  <2> QED
    BY <2>1
<1>8. PICK c \in Nat, d \in Nat, g \in Nat :
           /\ c = ch[k] /\ d = ch[k + 1] /\ g = at[k]
           /\ c <= q /\ q <= d /\ r = d - q /\ d <= T
  BY <1>4, <1>6, <1>7 DEF Located
<1>9. r \in Nat /\ q + r = d
  BY <1>8
<1>10. PICK y \in Nat, z \in Nat, x \in Nat : y = o(q) /\ z = o(d) /\ x = o(c) /\ z <= L
  <2>1. q \in 0 .. T /\ d \in 0 .. T /\ c \in 0 .. T
    BY <1>8
  <2> QED
    BY <1>7, <2>1, StringFacts
<1>11. /\ p \in Nat /\ p <= N /\ p = g + 1 + (y - x)
       /\ \A i \in 1 .. z - y : p + i <= N => w[p + i].n = t[y + i]
  BY <1>4, <1>6, <1>7, <1>8, <1>10 DEF Located
<1>12. z - y >= r
  <2>1. o(ch[k + 1]) - o(q) >= ch[k + 1] - q
    BY <1>6 DEF Located
  <2> QED
    BY <1>8, <1>10, <2>1
<1>13. ~ lost => z - y <= N - p
  <2>1. PICK a \in Nat, b \in Nat : a = at[k + 1] /\ b = at[K] /\ a <= b /\ a = p + (z - y)
    <3>1. at[k + 1] \in Nat /\ at[k + 1] <= at[K] /\ at[k + 1] = p + (z - y)
      BY <1>6, <1>8, <1>10 DEF Located
    <3>2. at[K] \in Nat
      BY <1>5 DEF Framed
    <3> QED
      BY <3>1, <3>2
  <2>2. ASSUME ~ lost PROVE z - y <= N - p
    <3>1. N = b + 1
      BY <1>1, <1>7, <2>1, <2>2 DEF Arrived
    <3>2. p \in Nat
      BY <1>11
    <3> QED
      BY <2>1, <3>1, <3>2
  <2> QED
    BY <2>2
<1>14. ~ lost => r <= N - p
  <2>1. z - y <= N - p => r <= N - p
    BY <1>9, <1>11, <1>12
  <2> QED
    BY <1>13, <2>1
<1>15. ASSUME r > 0, r <= N - p PROVE Iterated(t, w, lost, p, out, r, last)
  <2>1. PICK a : a = Part(w, p, r)
    OBVIOUS
  <2>2. a \in Seq(Byte) /\ Len(a) = r /\ \A i \in 1 .. r : a[i] = t[y + i]
    <3>1. y + r <= L
      BY <1>9, <1>10, <1>12
    <3>2. \A i \in 1 .. r : w[p + i].n = t[y + i]
      <4>1. TAKE i \in 1 .. r
      <4>2. i \in 1 .. z - y /\ p + i <= N
        BY <1>9, <1>11, <1>12, <1>15
      <4> QED
        BY <1>11, <4>2
    <3>3. r \in Nat /\ p \in Nat /\ y + r <= Len(t)
      BY <1>7, <1>9, <1>11, <3>1
    <3>4. PartOf(t, w, p, r, y)
      BY <3>2, <3>3, PartFacts
    <3> QED
      BY <2>1, <3>4 DEF PartOf
  <2>3. PICK j \in 1 .. r : /\ Scan(a) = [chars |-> j, end |-> o(q + j) - o(q)]
                            /\ o(q + j) - o(q) >= r
    <3>1. t \in Seq(Byte) /\ Chain(t, T)
      BY <1>7, StringFacts DEF String
    <3>2. q \in 0 .. T /\ q + r <= T
      BY <1>8, <1>9
    <3>3. \A i \in 1 .. r : a[i] = t[o(q) + i]
      BY <1>10, <2>2
    <3> HIDE DEF o
    <3>4. \E j \in 1 .. r : /\ Scan(a) = [chars |-> j, end |-> ByteOffset(t, q + j) - ByteOffset(t, q)]
                            /\ ByteOffset(t, q + j) - ByteOffset(t, q) >= r
      BY <1>9, <1>15, <2>2, <3>1, <3>2, <3>3, ScanAhead DEF o
    <3> QED
      BY <3>4 DEF o
  <2>4. PICK f \in Nat : f = o(q + j) /\ y <= f /\ f <= z
    <3>1. q + j \in 0 .. T /\ d \in 0 .. T /\ q + j <= d /\ d - (q + j) >= 0
      <4>1. d <= T /\ q + r = d /\ r \in Nat
        BY <1>8, <1>9
      <4> HIDE DEF o
      <4> QED
        BY <4>1
    <3>2. /\ o(q + j) \in Nat /\ o(d) \in Nat /\ o(d) - o(q + j) >= d - (q + j)
      BY <1>7, <3>1, StringFacts
    <3>3. o(q + j) - y >= r /\ z - o(q + j) >= 0
      <4>1. PICK h \in Nat : h = o(q + j)
        BY <3>2
      <4>2. z - h >= d - (q + j)
        BY <1>10, <3>2, <4>1
      <4>3. h - y >= r
        BY <1>10, <2>3, <4>1
      <4> QED
        BY <3>1, <4>1, <4>2, <4>3
    <3>4. PICK h \in Nat : h = o(q + j)
      BY <3>2
    <3> QED
      BY <1>9, <3>3, <3>4
  <2>5. PICK e \in Nat : e = f - y
    BY <2>4
  <2>6. e >= r /\ e <= z - y /\ y + e = f
    <3>1. f - y >= r
      BY <1>10, <2>3, <2>4
    <3> QED
      BY <2>4, <2>5, <3>1
  <2>7. Scan(Part(w, p, r)) = [chars |-> j, end |-> e]
    BY <1>10, <2>1, <2>3, <2>4, <2>5
  <2>8. ~ lost => e <= Len(w) - p
    <3>1. z - y <= N - p => e <= N - p
      BY <1>11, <2>6
    <3> QED
      BY <1>7, <1>13, <3>1
  <2>9. ASSUME e <= N - p
        PROVE  InChunk(t, w, lost, p + e, out \o Part(w, p, e), r - j, last)
    <3>1. PICK b : b = Part(w, p, e)
      OBVIOUS
    <3>2. b \in Seq(Byte) /\ Len(b) = e /\ \A i \in 1 .. e : b[i] = t[y + i]
      <4>1. y + e <= L
        BY <1>10, <2>4, <2>6
      <4>2. \A i \in 1 .. e : w[p + i].n = t[y + i]
        <5>1. TAKE i \in 1 .. e
        <5>2. i \in 1 .. z - y /\ p + i <= N
          BY <1>11, <2>6, <2>9
        <5> QED
          BY <1>11, <5>2
      <4>3. p \in Nat /\ y + e <= Len(t)
        BY <1>7, <1>11, <4>1
      <4>4. PartOf(t, w, p, e, y)
        BY <4>2, <4>3, PartFacts
      <4> QED
        BY <3>1, <4>4 DEF PartOf
    <3>3. out \o b = SubSeq(t, 1, f)
      <4>1. t \in Seq(Byte) /\ y <= f /\ f <= Len(t) /\ f - y = e
        BY <1>7, <1>10, <2>4, <2>5 DEF String
      <4>2. b \in Seq(Byte) /\ Len(b) = f - y /\ \A i \in 1 .. f - y : b[i] = t[y + i]
        BY <3>2, <4>1
      <4>5. t \in Seq(Byte) /\ y <= f /\ f <= Len(t)
        BY <4>1
      <4> HIDE DEF o
      <4>3. SubSeq(t, 1, y) \o b = SubSeq(t, 1, f)
        BY <4>2, <4>5, Extended
      <4> QED
        BY <1>4, <1>10, <4>3
    <3>4. PICK n \in Nat : n = q + j
      OBVIOUS
    <3>5. c <= n /\ n <= d /\ r - j = d - n
      <4>1. c <= q /\ q + r = d /\ r \in Nat
        BY <1>8, <1>9
      <4> HIDE DEF o
      <4> QED
        BY <3>4, <4>1
    <3>6. p + e = g + 1 + (f - x) /\ p + e <= N
      BY <1>11, <2>5, <2>9
    <3>7. Within(t, w, K, at, ch, k, n, p + e, out \o b, r - j, last)
      BY <1>4, <1>7, <1>8, <1>10, <2>4, <3>3, <3>4, <3>5, <3>6 DEF Within
    <3> QED
      BY <1>1, <3>1, <3>7 DEF InChunk
  <2> QED
    BY <1>7, <2>6, <2>7, <2>8, <2>9 DEF Iterated
<1> QED
  BY <1>7, <1>9, <1>11, <1>14, <1>15

\* A chunk that has been read to its end: the next code, or the whole string.
LEMMA ChunkRead ==
    ASSUME NEW t, String(t), NEW w \in Seq(Element), NEW lost, NEW p, NEW out, NEW last,
           InChunk(t, w, lost, p, out, 0, last)
    PROVE  IF last THEN ~ lost /\ Len(w) - p = 1 /\ out = t
                   ELSE AtCode(t, w, lost, p, out)
<1> DEFINE o(i) == ByteOffset(t, i)
<1>1. PICK K, at, ch : /\ Arrived(t, w, lost, K, at, ch)
                       /\ \E k \in 0 .. K - 1 : \E q \in Nat :
                             Within(t, w, K, at, ch, k, q, p, out, 0, last)
  BY DEF InChunk
<1>2. PICK k \in 0 .. K - 1 : \E q \in Nat : Within(t, w, K, at, ch, k, q, p, out, 0, last)
  BY <1>1
<1>3. PICK q \in Nat : Within(t, w, K, at, ch, k, q, p, out, 0, last)
  BY <1>2
<1>4. /\ ch[k] <= q /\ q <= ch[k + 1] /\ 0 = ch[k + 1] - q
      /\ p = at[k] + 1 + (o(q) - o(ch[k])) /\ p <= Len(w)
      /\ out = SubSeq(t, 1, o(q)) /\ last = (k = K - 1)
  BY <1>3 DEF Within
<1>5. Framed(t, w, K, at, ch, TRUE) /\ ch[K] = Utf8Length(t)
  BY <1>1 DEF Arrived
<1>6. Located(t, w, K, at, ch, k, q, p)
  BY <1>4, <1>5, ChunkAhead
<1>7. q = ch[k + 1]
  <2>1. ch[k + 1] \in Nat
    BY <1>6 DEF Located
  <2> HIDE DEF o
  <2> QED
    BY <1>4, <2>1
<1>8. p = at[k + 1]
  <2>1. p \in Nat /\ o(q) \in Nat /\ at[k + 1] = p + (o(q) - o(q))
    BY <1>6, <1>7 DEF Located
  <2> HIDE DEF o
  <2> QED
    BY <2>1
<1>9. K \in Nat /\ Len(w) \in Nat
  BY <1>5, LenProperties DEF Framed
<1>10. CASE k = K - 1
  <2>1. last
    BY <1>4, <1>10
  <2>2. k + 1 = K
    BY <1>9, <1>10
  <2>3. ~ lost
    <3>1. p = at[K] /\ p <= Len(w) /\ p \in Nat
      BY <1>4, <1>6, <1>8, <2>2 DEF Located
    <3>2. lost => Len(w) < at[K]
      BY <1>1 DEF Arrived
    <3> QED
      BY <1>9, <3>1, <3>2
  <2>4. Len(w) - p = 1
    <3>1. Len(w) = at[K] + 1
      BY <1>1, <2>3 DEF Arrived
    <3>2. p = at[K] /\ p \in Nat
      BY <1>6, <1>8, <2>2 DEF Located
    <3> QED
      BY <3>1, <3>2
  <2>5. out = t
    <3>1. o(q) = Len(t)
      BY <1>5, <1>7, <2>2, StringFacts
    <3>2. t \in Seq(Byte)
      BY DEF String
    <3>3. SubSeq(t, 1, Len(t)) = t
      BY <3>2, SubSeqFull
    <3> QED
      BY <1>4, <3>1, <3>3
  <2> QED
    BY <2>1, <2>3, <2>4, <2>5
<1>11. CASE k # K - 1
  <2>1. ~ last
    BY <1>4, <1>11
  <2>2. k + 1 \in 0 .. K - 1
    BY <1>9, <1>11
  <2>3. out = SubSeq(t, 1, ByteOffset(t, ch[k + 1]))
    BY <1>4, <1>7
  <2>4. AtCode(t, w, lost, p, out)
    BY <1>1, <1>4, <1>8, <2>2, <2>3 DEF AtCode
  <2> QED
    BY <2>1, <2>4
<1> QED
  BY <1>10, <1>11

-----------------------------------------------------------------------------
(* The inductive invariant. *)

\* What is cut into chunks is a string from which data can be had again.
Sendable(s, d, escaped) ==
    /\ String(s)
    /\ (escaped /\ HasPair(d)) \/ (IF escaped THEN Unescape(s) ELSE s) = d

Phases == {"encode", "chunk", "transit", "code", "fill", "ok", "false", "refused"}

TypeInv ==
    /\ phase \in Phases /\ java \in BOOLEAN /\ cut \in BOOLEAN
    /\ data \in Seq(Byte) /\ (java => Whole(data)) /\ wire \in Seq(Element)

\* Nothing is lost before the encoder is done, and the decoder is at rest.
Beginning ==
    phase \in {"encode", "chunk", "transit"} => ~ cut /\ pos = 0 /\ output = <<>>

Unsent == phase = "encode" => sent = 0 /\ wire = <<>>

Progress ==
    /\ phase \notin {"encode", "refused"} => Sendable(text, data, java)
    /\ phase = "chunk" => SentSoFar(text, wire, sent)
    /\ phase = "transit" => SentAll(text, wire)
    /\ phase = "code" => AtCode(text, wire, cut, pos, output)
    /\ phase = "fill" => InChunk(text, wire, cut, pos, output, length, final)

Inv == TypeInv /\ Beginning /\ Unsent /\ Progress /\ RoundTrip

LEMMA InvInit == ASSUME Init PROVE Inv
<1>1. PICK c \in Cases : data = c.data /\ java = c.java
  BY DEF Init
<1>2. phase = "encode" /\ wire = <<>> /\ sent = 0 /\ cut = FALSE /\ pos = 0 /\ output = <<>>
  BY DEF Init
<1>3. c.data \in Seq(Byte) /\ c.java \in BOOLEAN /\ (c.java => Whole(c.data))
  BY StringAssumption DEF Byte
<1>4. TypeInv
  <2>1. wire \in Seq(Element)
    BY <1>2, EmptySeq
  <2> QED
    BY <1>1, <1>2, <1>3, <2>1 DEF TypeInv, Phases
<1>5. Beginning /\ Unsent /\ Progress /\ RoundTrip
  BY <1>2 DEF Beginning, Unsent, Progress, RoundTrip
<1> QED
  BY <1>4, <1>5 DEF Inv

LEMMA MeasureInv == ASSUME Inv, Measure PROVE Inv'
<1>1. /\ phase = "encode" /\ UNCHANGED <<data, java, peer, sent, wire, cut, decVars>>
      /\ phase' = "refused" \/ phase' = "chunk"
  BY DEF Measure
<1>2. /\ TypeInv /\ Beginning /\ Unsent
  BY DEF Inv
<1>3. TypeInv'
  BY <1>1, <1>2 DEF TypeInv, Phases
<1>4. Beginning' /\ Unsent' /\ RoundTrip'
  BY <1>1, <1>2 DEF Beginning, Unsent, RoundTrip, decVars
<1>5. Progress'
  <2>1. CASE phase' = "refused"
    BY <2>1 DEF Progress
  <2>2. CASE phase' = "chunk"
    <3>1. Utf8Length(data) # -1 /\ text' = IF java THEN Escape(data) ELSE data
      BY <2>2 DEF Measure
    <3>2. String(data) /\ (java => Whole(data))
      BY <1>2, <3>1 DEF TypeInv, String
    <3>3. PICK d, j, s : d = data /\ j = java /\ s = text'
      OBVIOUS
    <3>4. String(d) /\ (j => Whole(d)) /\ s = IF j THEN Escape(d) ELSE d
      BY <3>1, <3>2, <3>3
    <3>5. Sendable(s, d, j)
      <4>1. CASE j
        <5>1. String(Escape(d)) /\ (~ HasPair(d) => Unescape(Escape(d)) = d)
          BY <3>4, <4>1, EscapeWhole
        <5> QED
          BY <3>4, <4>1, <5>1 DEF Sendable
      <4>2. CASE ~ j
        BY <3>4, <4>2 DEF Sendable
      <4> QED
        BY <4>1, <4>2
    <3>6. SentSoFar(s, <<>>, 0)
      BY <3>5, NothingSent DEF Sendable
    <3>7. data' = d /\ java' = j /\ text' = s /\ wire' = <<>> /\ sent' = 0
      BY <1>1, <1>2, <3>3 DEF Unsent
    <3> QED
      BY <2>2, <3>5, <3>6, <3>7 DEF Progress
  <2> QED
    BY <1>1, <2>1, <2>2
<1> QED
  BY <1>3, <1>4, <1>5 DEF Inv

LEMMA WriteInv ==
    ASSUME Inv, phase = "chunk", NEW op \in Chunks, NEW n \in Nat, n <= Left,
           op # "R" => n = Left, WriteChunk(op, n),
           phase' = IF op = "R" THEN "chunk" ELSE "transit"
    PROVE  Inv'
<1>1. TypeInv /\ Beginning /\ Progress
  BY DEF Inv
<1>2. UNCHANGED <<data, java, text, cut, pos, output>> /\ sent' = sent + n
  BY DEF WriteChunk, decVars
<1>3. PICK t, w, m : t = text /\ w = wire /\ m = sent
  OBVIOUS
<1>4. Sendable(t, data, java) /\ String(t) /\ SentSoFar(t, w, m) /\ w \in Seq(Element)
  BY <1>1, <1>3 DEF Progress, Sendable, TypeInv
<1>5. m \in Nat /\ m <= Utf8Length(t) /\ Utf8Length(t) \in Nat
  BY <1>4, SentBound
<1>6. m + n <= Utf8Length(t) /\ (op # "R" => m + n = Utf8Length(t))
  <2>1. Left = Utf8Length(t) - m
    BY <1>3 DEF Left, Total
  <2>2. n <= Utf8Length(t) - m
    BY <2>1
  <2>3. op # "R" => n = Utf8Length(t) - m
    BY <2>1
  <2>4. n = Utf8Length(t) - m => m + n = Utf8Length(t)
    BY <1>5
  <2> QED
    BY <1>5, <2>2, <2>3, <2>4
<1>7. wire' = Written(w, op, n, Segment(t, m, m + n))
  BY <1>3 DEF WriteChunk, Written
<1>8. PICK v : v = Written(w, op, n, Segment(t, m, m + n))
  OBVIOUS
<1>9. v \in Seq(Element) /\ IF op = "R" THEN SentSoFar(t, v, m + n) ELSE SentAll(t, v)
  BY <1>4, <1>6, <1>8, SentMore
<1>10. wire' = v /\ sent' = m + n /\ text' = t
  BY <1>2, <1>3, <1>7, <1>8
<1>11. TypeInv'
  BY <1>1, <1>2, <1>9, <1>10 DEF TypeInv, Phases
<1>12. Beginning' /\ Unsent' /\ RoundTrip'
  BY <1>1, <1>2 DEF Beginning, Unsent, RoundTrip
<1>13. Progress'
  BY <1>2, <1>4, <1>9, <1>10 DEF Progress
<1> QED
  BY <1>11, <1>12, <1>13 DEF Inv

LEMMA EncodeInv == ASSUME Inv, EncodeChunk \/ EncodeLast \/ PeerChunk \/ PeerLast PROVE Inv'
<1>1. phase = "chunk"
  BY DEF EncodeChunk, EncodeLast, PeerChunk, PeerLast
<1>2. Left \in Nat
  <2>1. String(text) /\ SentSoFar(text, wire, sent)
    BY <1>1 DEF Inv, Progress, Sendable
  <2>2. sent \in Nat /\ sent <= Utf8Length(text) /\ Utf8Length(text) \in Nat
    BY <2>1, SentBound
  <2> QED
    BY <2>2 DEF Left, Total
<1>3. STRING_CHUNK_SIZE \in Nat
  BY StringAssumption
<1>4. CASE EncodeChunk
  <2>1. /\ WriteChunk("R", STRING_CHUNK_SIZE) /\ STRING_CHUNK_SIZE <= Left
        /\ phase' = "chunk" /\ "R" \in Chunks
    BY <1>1, <1>2, <1>3, <1>4 DEF EncodeChunk, Chunks
  <2> QED
    BY <1>1, <1>3, <2>1, WriteInv
<1>5. CASE EncodeLast
  <2>1. PICK op \in Chunks : op # "R" /\ WriteChunk(op, Left)
    <3>1. \E op \in {"short", "mid", "S"} : WriteChunk(op, Left)
      BY <1>5 DEF EncodeLast
    <3> QED
      BY <3>1 DEF Chunks
  <2>2. phase' = "transit" /\ Left <= Left
    BY <1>2, <1>5 DEF EncodeLast
  <2> QED
    BY <1>1, <1>2, <2>1, <2>2, WriteInv
<1>6. CASE PeerChunk
  <2>1. PICK n \in 0 .. Left : WriteChunk("R", n)
    BY <1>6 DEF PeerChunk
  <2>2. n \in Nat /\ n <= Left /\ "R" \in Chunks /\ phase' = "chunk"
    BY <1>1, <1>2, <1>6 DEF PeerChunk, Chunks
  <2> QED
    BY <1>1, <2>1, <2>2, WriteInv
<1>7. CASE PeerLast
  <2>1. PICK op \in Chunks : op # "R" /\ WriteChunk(op, Left)
    BY <1>7 DEF PeerLast, Chunks
  <2>2. phase' = "transit" /\ Left <= Left
    BY <1>2, <1>7 DEF PeerLast
  <2> QED
    BY <1>1, <1>2, <2>1, <2>2, WriteInv
<1> QED
  BY <1>4, <1>5, <1>6, <1>7

LEMMA DeliverInv == ASSUME Inv, Deliver PROVE Inv'
<1>1. /\ phase = "transit" /\ phase' = "code"
      /\ UNCHANGED <<data, java, text, pos, output>>
  BY DEF Deliver, encVars, decVars
<1>2. TypeInv /\ Beginning /\ Progress
  BY DEF Inv
<1>3. PICK t, w : t = text /\ w = wire
  OBVIOUS
<1>4. Sendable(t, data, java) /\ String(t) /\ SentAll(t, w) /\ w \in Seq(Element)
  BY <1>1, <1>2, <1>3 DEF Progress, Sendable, TypeInv
<1>5. ~ cut /\ pos = 0 /\ output = <<>> /\ cut = FALSE
  <2>1. ~ cut /\ pos = 0 /\ output = <<>>
    BY <1>1, <1>2 DEF Beginning
  <2>2. cut \in BOOLEAN
    BY <1>2 DEF TypeInv
  <2> QED
    BY <2>1, <2>2
<1>6. wire' \in Seq(Element) /\ AtCode(t, wire', cut', 0, <<>>) /\ cut' \in BOOLEAN
  <2>1. CASE wire' = Append(wire, NextValue) /\ UNCHANGED cut
    <3>1. Append(w, NextValue) \in Seq(Element) /\ AtCode(t, Append(w, NextValue), FALSE, 0, <<>>)
      BY <1>4, ArrivesWhole
    <3>2. wire' = Append(w, NextValue) /\ cut' = FALSE
      BY <1>3, <1>5, <2>1
    <3> QED
      BY <3>1, <3>2
  <2>2. CASE \E k \in 0 .. Len(wire) - 1 : wire' = SubSeq(wire, 1, k) /\ cut' = TRUE
    <3>1. PICK k \in 0 .. Len(w) - 1 : wire' = SubSeq(w, 1, k) /\ cut' = TRUE
      BY <1>3, <2>2
    <3>2. SubSeq(w, 1, k) \in Seq(Element) /\ AtCode(t, SubSeq(w, 1, k), TRUE, 0, <<>>)
      BY <1>4, ArrivesCut
    <3> QED
      BY <3>1, <3>2
  <2> QED
    BY <2>1, <2>2 DEF Deliver
<1>7. TypeInv'
  BY <1>1, <1>2, <1>6 DEF TypeInv, Phases
<1>8. Beginning' /\ Unsent' /\ RoundTrip'
  BY <1>1 DEF Beginning, Unsent, RoundTrip
<1>9. Progress'
  <2>1. text' = t /\ data' = data /\ java' = java /\ pos' = 0 /\ output' = <<>>
    BY <1>1, <1>3, <1>5
  <2> QED
    BY <1>1, <1>4, <1>6, <2>1 DEF Progress
<1> QED
  BY <1>7, <1>8, <1>9 DEF Inv

\* The decoder leaves what is sent alone.
LEMMA DecodeKeeps ==
    ASSUME Decode
    PROVE  UNCHANGED <<data, java, text, wire, cut>>
BY DEF Decode, DecodeNoChunk, DecodeCode, Fill, Filled, encVars

LEMMA DecodeNoChunkInv == ASSUME Inv, DecodeNoChunk PROVE Inv'
<1>1. /\ phase = "code" /\ phase' = "false" /\ UNCHANGED <<data, java, text, wire, cut>>
      /\ Available > 0 => wire[pos + 1].op \notin Chunks
  BY DEF DecodeNoChunk, encVars
<1>2. TypeInv /\ Progress
  BY DEF Inv
<1>3. Sendable(text, data, java) /\ String(text) /\ AtCode(text, wire, cut, pos, output)
      /\ wire \in Seq(Element)
  BY <1>1, <1>2 DEF Progress, TypeInv, Sendable
<1>4. /\ pos \in Nat /\ pos <= Len(wire) /\ (pos = Len(wire) => cut)
      /\ pos < Len(wire) => wire[pos + 1].op \in Chunks
  BY <1>3, FindsCode
<1>5. ~ (pos < Len(wire))
  <2>1. Len(wire) \in Nat
    BY <1>3, LenProperties
  <2>2. pos < Len(wire) => Available > 0
    BY <1>4, <2>1 DEF Available
  <2> QED
    BY <1>1, <1>4, <2>2
<1>6. cut
  <2>1. Len(wire) \in Nat
    BY <1>3, LenProperties
  <2>2. pos = Len(wire)
    BY <1>4, <1>5, <2>1
  <2> QED
    BY <1>4, <2>2
<1>7. TypeInv'
  BY <1>1, <1>2 DEF TypeInv, Phases
<1>8. Beginning' /\ Unsent' /\ RoundTrip'
  BY <1>1, <1>6 DEF Beginning, Unsent, RoundTrip
<1>9. Progress'
  BY <1>1, <1>3 DEF Progress
<1> QED
  BY <1>7, <1>8, <1>9 DEF Inv

LEMMA DecodeCodeInv == ASSUME Inv, DecodeCode PROVE Inv'
<1>1. /\ phase = "code" /\ phase' = "fill" /\ UNCHANGED <<data, java, text, wire, cut, output>>
      /\ Available > 0 /\ length' = wire[pos + 1].n /\ pos' = pos + 1
      /\ final' = (wire[pos + 1].op # "R")
  BY DEF DecodeCode, encVars
<1>2. TypeInv /\ Progress
  BY DEF Inv
<1>3. Sendable(text, data, java) /\ String(text) /\ AtCode(text, wire, cut, pos, output)
      /\ wire \in Seq(Element)
  BY <1>1, <1>2 DEF Progress, TypeInv, Sendable
<1>4. PICK t, w, c, p, out : t = text /\ w = wire /\ c = cut /\ p = pos /\ out = output
  OBVIOUS
<1>5. String(t) /\ AtCode(t, w, c, p, out) /\ w \in Seq(Element)
  BY <1>3, <1>4
<1>6. /\ p \in Nat /\ p <= Len(w)
      /\ p < Len(w) => InChunk(t, w, c, p + 1, out, w[p + 1].n, w[p + 1].op # "R")
  BY <1>5, FindsCode
<1>7. p < Len(w)
  <2>1. Len(w) \in Nat
    BY <1>5, LenProperties
  <2>2. Len(w) - p > 0
    BY <1>1, <1>4 DEF Available
  <2> QED
    BY <1>6, <2>1, <2>2
<1>8. InChunk(t, w, c, p + 1, out, w[p + 1].n, w[p + 1].op # "R")
  BY <1>6, <1>7
<1>9. /\ text' = t /\ wire' = w /\ cut' = c /\ pos' = p + 1 /\ output' = out
      /\ length' = w[p + 1].n /\ final' = (w[p + 1].op # "R")
  BY <1>1, <1>4
<1>10. InChunk(text', wire', cut', pos', output', length', final')
  BY Zenon, <1>8, <1>9
<1>11. TypeInv'
  BY <1>1, <1>2 DEF TypeInv, Phases
<1>12. Beginning' /\ Unsent' /\ RoundTrip'
  BY <1>1 DEF Beginning, Unsent, RoundTrip
<1>13. Progress'
  BY <1>1, <1>3, <1>10 DEF Progress
<1> QED
  BY <1>11, <1>12, <1>13 DEF Inv

\* What is known before an iteration of finalReadUtf8String, and what Fill
\* does: it fails only if something was lost, or it comes to a shorter chunk.
LEMMA FillStep ==
    ASSUME Inv, Fill
    PROVE  \/ phase' = "false" /\ cut
           \/ /\ phase' = "fill" /\ final' = final
              /\ length \in Nat /\ length' \in Nat /\ length' < length
              /\ InChunk(text, wire, cut, pos', output', length', final)
<1>1. phase = "fill" /\ length > 0
  BY DEF Fill
<1>2. String(text) /\ InChunk(text, wire, cut, pos, output, length, final) /\ wire \in Seq(Element)
      /\ cut \in BOOLEAN
  BY <1>1 DEF Inv, Progress, TypeInv, Sendable
<1>3. PICK t, w, c, p, out, r, last :
           /\ t = text /\ w = wire /\ c = cut /\ p = pos /\ out = output /\ r = length
           /\ last = final
  OBVIOUS
<1>4. String(t) /\ InChunk(t, w, c, p, out, r, last) /\ w \in Seq(Element) /\ r > 0
  BY <1>1, <1>2, <1>3
<1>5. /\ r \in Nat /\ p \in Nat /\ Len(w) \in Nat /\ p <= Len(w)
      /\ ~ c => r <= Len(w) - p
      /\ r > 0 /\ r <= Len(w) - p => Iterated(t, w, c, p, out, r, last)
  BY <1>4, Iteration
<1>6. PICK N \in Nat : N = Len(w) - p /\ Available = N
  <2>1. Len(w) - p \in Nat
    BY <1>5
  <2> QED
    BY <1>3, <2>1 DEF Available
<1>7. \A n : Ahead(n) = Part(w, p, n)
  BY <1>3 DEF Ahead, Part
<1>8. PICK scan : scan = Scan(Part(w, p, r))
  OBVIOUS
<1>9. PICK size : size = IF scan.end > r THEN scan.end ELSE r
  OBVIOUS
<1>10. IF N < r \/ scan.chars = -1 \/ N < size
       THEN phase' = "false"
       ELSE /\ output' = out \o Part(w, p, size)
            /\ pos' = p + size /\ length' = r - scan.chars
            /\ phase' = "fill" /\ final' = final
  <2>1. Scan(Ahead(length)) = scan /\ Ahead(size) = Part(w, p, size)
    BY <1>3, <1>7, <1>8
  <2>2. size = IF Scan(Ahead(length)).end > length THEN Scan(Ahead(length)).end ELSE length
    BY <1>3, <1>9, <2>1
  <2>3. IF \/ Available < length
           \/ Scan(Ahead(length)).chars = -1
           \/ Available < size
        THEN phase' = "false"
        ELSE /\ output' = output \o Ahead(size)
             /\ pos' = pos + size
             /\ length' = length - Scan(Ahead(length)).chars
             /\ phase' = phase /\ final' = final
    BY <2>2 DEF Fill
  <2> QED
    BY <1>1, <1>3, <1>6, <2>1, <2>3
<1>11. CASE N < r
  <2>1. ~ (r <= Len(w) - p)
    BY <1>5, <1>6, <1>11
  <2> QED
    BY <1>3, <1>5, <1>10, <1>11, <2>1
<1>12. CASE ~ (N < r)
  <2>1. Iterated(t, w, c, p, out, r, last)
    BY <1>4, <1>5, <1>6, <1>12
  <2>2. PICK j \in 1 .. r : \E e \in Nat :
             /\ Scan(Part(w, p, r)) = [chars |-> j, end |-> e] /\ e >= r
             /\ ~ c => e <= Len(w) - p
             /\ e <= Len(w) - p => InChunk(t, w, c, p + e, out \o Part(w, p, e), r - j, last)
    BY <2>1 DEF Iterated
  <2>3. PICK e \in Nat :
             /\ Scan(Part(w, p, r)) = [chars |-> j, end |-> e] /\ e >= r
             /\ ~ c => e <= Len(w) - p
             /\ e <= Len(w) - p => InChunk(t, w, c, p + e, out \o Part(w, p, e), r - j, last)
    BY <2>2
  <2>4. scan.chars = j /\ scan.end = e /\ e >= r
    BY <1>8, <2>3
  <2>5. size = e /\ scan.chars # -1 /\ j \in Nat
    BY <1>5, <1>9, <2>4
  <2>6. CASE N < e
    <3>1. c
      <4>1. ~ (e <= Len(w) - p)
        BY <1>6, <2>6
      <4> QED
        BY <2>3, <4>1
    <3>2. phase' = "false"
      BY <1>10, <2>5, <2>6
    <3> QED
      BY <1>3, <3>1, <3>2
  <2>7. CASE ~ (N < e)
    <3>1. e <= Len(w) - p
      BY <1>6, <2>7
    <3>2. InChunk(t, w, c, p + e, out \o Part(w, p, e), r - j, last)
      BY <2>3, <3>1
    <3>3. /\ output' = out \o Part(w, p, e) /\ pos' = p + e /\ length' = r - j
          /\ phase' = "fill" /\ final' = final
      BY <1>10, <1>12, <2>4, <2>5, <2>7
    <3>4. r - j \in Nat /\ r - j < r
      BY <1>5
    <3>5. InChunk(text, wire, cut, pos', output', length', final)
      BY Zenon, <1>3, <3>2, <3>3
    <3>6. length \in Nat /\ length' \in Nat /\ length' < length
      BY <1>3, <1>5, <3>3, <3>4
    <3> QED
      BY <3>3, <3>5, <3>6
  <2> QED
    BY <2>6, <2>7
<1> QED
  BY <1>11, <1>12

LEMMA FillInv == ASSUME Inv, Fill PROVE Inv'
<1>1. phase = "fill" /\ UNCHANGED <<data, java, text, wire, cut>>
  BY DEF Fill, encVars
<1>2. TypeInv /\ Progress
  BY DEF Inv
<1>3. Sendable(text, data, java)
  BY <1>1, <1>2 DEF Progress
<1>4. \/ phase' = "false" /\ cut
      \/ phase' = "fill" /\ final' = final /\ InChunk(text, wire, cut, pos', output', length', final)
  BY FillStep
<1>5. TypeInv'
  BY <1>1, <1>2, <1>4 DEF TypeInv, Phases
<1>6. Beginning' /\ Unsent' /\ RoundTrip'
  BY <1>1, <1>4 DEF Beginning, Unsent, RoundTrip
<1>7. Progress'
  BY <1>1, <1>3, <1>4 DEF Progress
<1> QED
  BY <1>5, <1>6, <1>7 DEF Inv

LEMMA FilledInv == ASSUME Inv, Filled PROVE Inv'
<1>1. /\ phase = "fill" /\ length = 0 /\ UNCHANGED <<data, java, text, wire, cut, pos, length, final>>
      /\ phase' = IF final THEN "ok" ELSE "code"
      /\ output' = IF final /\ java THEN Unescape(output) ELSE output
  BY DEF Filled, encVars
<1>2. TypeInv /\ Progress
  BY DEF Inv
<1>3. /\ Sendable(text, data, java) /\ String(text) /\ wire \in Seq(Element)
      /\ InChunk(text, wire, cut, pos, output, 0, final)
  BY <1>1, <1>2 DEF Progress, TypeInv, Sendable
<1>4. IF final THEN ~ cut /\ Len(wire) - pos = 1 /\ output = text
               ELSE AtCode(text, wire, cut, pos, output)
  BY <1>3, ChunkRead
<1>5. TypeInv'
  BY <1>1, <1>2 DEF TypeInv, Phases
<1>6. Beginning' /\ Unsent'
  BY <1>1 DEF Beginning, Unsent
<1>7. RoundTrip'
  <2>1. CASE final
    <3>1. output = text /\ Available' = 1 /\ ~ cut' /\ phase' = "ok"
      BY <1>1, <1>4, <2>1 DEF Available
    <3>2. output' = IF java THEN Unescape(text) ELSE text
      BY <1>1, <2>1, <3>1
    <3>3. (java /\ HasPair(data)) \/ output' = data
      BY <1>3, <3>2 DEF Sendable
    <3>4. (java' /\ HasPair(data')) \/ output' = data'
      BY <1>1, <3>3
    <3> QED
      BY <3>1, <3>4 DEF RoundTrip
  <2>2. CASE ~ final
    BY <1>1, <2>2 DEF RoundTrip
  <2> QED
    BY <2>1, <2>2
<1>8. Progress'
  <2>1. CASE final
    BY <1>1, <1>3, <2>1 DEF Progress
  <2>2. CASE ~ final
    <3>1. phase' = "code" /\ output' = output
      BY <1>1, <2>2
    <3>2. AtCode(text, wire, cut, pos, output)
      BY <1>4, <2>2
    <3> QED
      BY <1>1, <1>3, <3>1, <3>2 DEF Progress
  <2> QED
    BY <2>1, <2>2
<1> QED
  BY <1>5, <1>6, <1>7, <1>8 DEF Inv

LEMMA StutterInv == ASSUME Inv, UNCHANGED vars PROVE Inv'
BY DEF Inv, TypeInv, Beginning, Unsent, Progress, RoundTrip, Available, vars, encVars, decVars

LEMMA InvStep == ASSUME Inv, [Next]_vars PROVE Inv'
<1>1. CASE Measure
  BY <1>1, MeasureInv
<1>2. CASE EncodeChunk \/ EncodeLast \/ PeerChunk \/ PeerLast
  BY <1>2, EncodeInv
<1>3. CASE Deliver
  BY <1>3, DeliverInv
<1>4. CASE DecodeNoChunk
  BY <1>4, DecodeNoChunkInv
<1>5. CASE DecodeCode
  BY <1>5, DecodeCodeInv
<1>6. CASE Fill
  BY <1>6, FillInv
<1>7. CASE Filled
  BY <1>7, FilledInv
<1>8. CASE UNCHANGED vars
  BY <1>8, StutterInv
<1> QED
  BY <1>1, <1>2, <1>3, <1>4, <1>5, <1>6, <1>7, <1>8 DEF Next, Decode

LEMMA Invariant == Spec => []Inv
<1>1. Init => Inv
  BY InvInit
<1>2. Inv /\ [Next]_vars => Inv'
  BY InvStep
<1> QED
  BY <1>1, <1>2, PTL DEF Spec

\* A string, of whatever length and cut wherever a chunk size or a peer cuts
\* it, comes back byte for byte with the reader at the next value; one that
\* lost its end is never taken for complete, and a whole one is never refused
\* (Encoder::encode<std::string>, decodeStringWithReader, readChunkString and
\* finalReadUtf8String of string_codec.cc).
THEOREM StringsComeBack == Spec => []RoundTrip
<1>1. Inv => RoundTrip
  BY DEF Inv
<1> QED
  BY <1>1, Invariant, PTL

\* The variables have their types in every state, and what is on the wire is a
\* sequence of codes and bytes, however the transport cut it.
THEOREM StringTypes == Spec => []TypeInv
<1>1. Inv => TypeInv
  BY DEF Inv
<1> QED
  BY <1>1, Invariant, PTL

LEMMA StepShrinks ==
    ASSUME Inv, Next
    PROVE  phase = "fill" /\ phase' = "fill" => length' \in 0 .. length - 1
<1>1. CASE Fill
  <2>1. \/ phase' = "false"
        \/ length \in Nat /\ length' \in Nat /\ length' < length
    BY <1>1, FillStep
  <2> QED
    BY <2>1
<1>2. CASE ~ Fill
  BY <1>2 DEF Next, Decode, Measure, EncodeChunk, EncodeLast, PeerChunk, PeerLast,
              Deliver, DecodeNoChunk, DecodeCode, Filled
<1> QED
  BY <1>1, <1>2

\* The loop of finalReadUtf8String makes progress in each iteration and never
\* counts more characters than the chunk has left, for every string and every
\* way to cut it: the reason why Terminates holds of all of them.
THEOREM IterationsShrink == Spec => Shrinks
<1>1. Inv /\ [Next]_vars => [phase = "fill" /\ phase' = "fill" => length' \in 0 .. length - 1]_vars
  BY StepShrinks
<1> QED
  BY <1>1, Invariant, PTL DEF Spec, Shrinks
=============================================================================
