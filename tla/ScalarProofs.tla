---------------------------- MODULE ScalarProofs ----------------------------
(***************************************************************************)
(* Values of a fixed width, and the simplest codec over them.  For bytes,  *)
(* integers, buffers and offsets of any size, on both hosts: readers that  *)
(* ask for no more than there is stay in the buffer, and find in it what   *)
(* was written (Buffer).  For every length of a minute, width of an        *)
(* integer and unit: a date is read as the point in time that was written, *)
(* and what the cast to a unit loses (DateCodec).                          *)
(***************************************************************************)
EXTENDS Buffer, DateCodec, TLAPS

-----------------------------------------------------------------------------
(* Buffer *)

Item == [at : Nat, order : Orders, value : Integral]

\* An item lies in the buffer as it was written.
Stored(item) == InMemory(Convert(item.order, item.value))

Placed(item) ==
    /\ item.at + Len(item.value) <= Len(buffer)
    /\ \A i \in 1 .. Len(item.value) : buffer[item.at + i] = Stored(item)[i]

TypeOK ==
    /\ host \in Hosts
    /\ buffer \in Seq(Byte) /\ Len(buffer) <= MaxLength
    /\ initial_offset_ \in 0 .. Wrap - 1
    /\ reading \in BOOLEAN /\ strayed \in BOOLEAN
    /\ fault \in {"none", "throws", "overread", "aborts"}
    /\ items \in Seq(Item)

\* The inductive invariant: an offset within the buffer is what Passes needs to
\* compute with, and the items' places are what Peeked has to find.
IInv ==
    /\ TypeOK
    /\ InBounds
    /\ ~reading => initial_offset_ = 0
    /\ \A k \in DOMAIN items : Placed(items[k])

\* An integral is a sequence of one or more bytes, and a Width long.
LEMMA IntegralSeq ==
    ASSUME NEW v \in Integral
    PROVE  v \in Seq(Byte) /\ Len(v) \in Widths /\ Len(v) \in Nat \ {0} /\ DOMAIN v = 1 .. Len(v)
BY ConstantsAssumption DEF Integral, Byte

\* Reversing keeps the length, and twice is not at all.
LEMMA ReversedSeq ==
    ASSUME NEW n \in Nat, NEW m, m = [i \in 1 .. n |-> m[i]]
    PROVE  /\ Reversed(m) = [i \in 1 .. n |-> m[n - i + 1]]
           /\ Reversed(Reversed(m)) = m
<1>1. Len(m) = n
  OBVIOUS
<1>2. Reversed(m) = [i \in 1 .. n |-> m[n - i + 1]]
  BY <1>1 DEF Reversed
<1>3. Len(Reversed(m)) = n
  BY <1>2
<1>4. ASSUME NEW i \in 1 .. n
      PROVE  Reversed(m)[n - i + 1] = m[i]
  <2>1. n - i + 1 \in 1 .. n /\ n - (n - i + 1) + 1 = i
    OBVIOUS
  <2>2. \A j \in 1 .. n : Reversed(m)[j] = m[n - j + 1]
    BY <1>2
  <2>3. Reversed(m)[n - i + 1] = m[n - (n - i + 1) + 1]
    BY <2>1, <2>2
  <2>. QED
    BY <2>1, <2>3
<1>5. Reversed(Reversed(m)) = [i \in 1 .. n |-> m[i]]
  BY <1>3, <1>4 DEF Reversed
<1>. QED
  BY <1>2, <1>5

\* What lies in memory has the bytes of the integer, in one order or the other.
LEMMA StoredSeq ==
    ASSUME NEW v \in Integral, NEW order \in Orders, host \in Hosts
    PROVE  LET m == InMemory(Convert(order, v))
               low == order = "LittleEndian" \/ (order = "Host" /\ host = "LittleEndian")
           IN  /\ m \in Seq(Byte) /\ Len(m) = Len(v)
               /\ \A i \in 1 .. Len(v) : m[i] = IF low THEN v[i] ELSE v[Len(v) - i + 1]
<1>. DEFINE n == Len(v)
            r == [i \in 1 .. n |-> v[n - i + 1]]
<1>1. n \in Nat /\ v \in Seq(Byte) /\ v = [i \in 1 .. n |-> v[i]]
  BY IntegralSeq
<1>2. Reversed(v) = r /\ Reversed(Reversed(v)) = v
  BY <1>1, ReversedSeq
<1>3. r \in Seq(Byte) /\ Len(r) = n /\ \A i \in 1 .. n : r[i] = v[n - i + 1]
  BY <1>1
<1>. QED
  BY <1>1, <1>2, <1>3 DEF InMemory, Convert, Orders, Hosts

-----------------------------------------------------------------------------
\* uint64_t sums and differences stay in range.
LEMMA Wraps ==
    ASSUME NEW a \in 0 .. Wrap - 1, NEW b \in 0 .. Wrap - 1
    PROVE  /\ Plus(a, b) \in 0 .. Wrap - 1
           /\ Minus(a, b) \in 0 .. Wrap - 1
           /\ b <= a => Minus(a, b) = a - b
           /\ a + b < Wrap => Plus(a, b) = a + b
BY ConstantsAssumption DEF Plus, Minus

\* Whoever asks for what is there is given it, and nothing goes wrong.
LEMMA InRange ==
    ASSUME TypeOK, initial_offset_ <= Len(buffer),
           NEW off \in 0 .. Wrap - 1, NEW size \in Nat,
           off <= byteAvailable, Minus(byteAvailable, off) >= size
    PROVE  /\ byteAvailable = Len(buffer) - initial_offset_
           /\ Plus(initial_offset_, off) = initial_offset_ + off
           /\ initial_offset_ + off + size <= Len(buffer)
           /\ RawRead(size, off) = {"none"}
<1>1. Len(buffer) \in 0 .. Wrap - 1 /\ initial_offset_ \in 0 .. Wrap - 1
  BY ConstantsAssumption DEF TypeOK
<1>2. byteAvailable = Len(buffer) - initial_offset_ /\ byteAvailable \in 0 .. Wrap - 1
  BY <1>1, Wraps DEF byteAvailable
<1>3. Minus(byteAvailable, off) = byteAvailable - off
  BY <1>2, Wraps
<1>4. initial_offset_ + off <= Len(buffer) /\ initial_offset_ + off < Wrap
  BY <1>1, <1>2, ConstantsAssumption DEF TypeOK
<1>5. Plus(initial_offset_, off) = initial_offset_ + off
  BY <1>1, <1>4, Wraps
<1>. QED
  BY <1>1, <1>2, <1>3, <1>4, <1>5 DEF RawRead

LEMMA AvailableType ==
    ASSUME TypeOK
    PROVE  Len(buffer) \in 0 .. Wrap - 1 /\ byteAvailable \in 0 .. Wrap - 1
<1>1. Len(buffer) \in 0 .. Wrap - 1 /\ initial_offset_ \in 0 .. Wrap - 1
  BY ConstantsAssumption DEF TypeOK
<1>. QED
  BY <1>1, Wraps DEF byteAvailable

LEMMA FaultType ==
    ASSUME NEW len, NEW off
    PROVE  RawRead(len, off) \subseteq {"none", "throws", "overread", "aborts"}
BY DEF RawRead

\* What StringWriter appends comes after what there is.
LEMMA Appended ==
    ASSUME NEW s \in Seq(Byte), NEW t \in Seq(Byte)
    PROVE  /\ s \o t \in Seq(Byte) /\ Len(s \o t) = Len(s) + Len(t)
           /\ \A i \in 1 .. Len(s) : (s \o t)[i] = s[i]
           /\ \A i \in 1 .. Len(t) : (s \o t)[Len(s) + i] = t[i]
OBVIOUS

\* What is placed stays placed as long as the buffer only grows.
LEMMA PlacedStays ==
    ASSUME TypeOK, NEW item \in Item, Placed(item), host' = host,
           NEW more \in Seq(Byte), buffer' = buffer \o more
    PROVE  Placed(item)'
<1>. DEFINE n == Len(item.value)
<1>1. buffer \in Seq(Byte) /\ item.at \in Nat /\ n \in Nat
  BY IntegralSeq DEF TypeOK, Item
<1>2. \A i \in 1 .. Len(buffer) : buffer'[i] = buffer[i]
  BY <1>1
<1>3. Len(buffer') = Len(buffer) + Len(more) /\ Len(more) \in Nat
  BY <1>1
<1>4. \A i \in 1 .. n : item.at + i \in 1 .. Len(buffer)
  BY <1>1 DEF Placed
<1>5. item.at + n <= Len(buffer')
  BY <1>1, <1>3 DEF Placed
<1>6. Stored(item)' = Stored(item)
  BY DEF Stored, InMemory, Convert
<1>7. \A i \in 1 .. n : buffer'[item.at + i] = Stored(item)'[i]
  BY <1>2, <1>4, <1>6 DEF Placed
<1>. QED
  BY <1>5, <1>7 DEF Placed

-----------------------------------------------------------------------------
LEMMA InitIInv == Init => IInv
<1>. SUFFICES ASSUME Init PROVE IInv
  OBVIOUS
<1>1. buffer = <<>> /\ items = <<>> /\ host \in Hosts /\ initial_offset_ = 0
  BY DEF Init
<1>2. buffer \in Seq(Byte) /\ items \in Seq(Item) /\ Len(buffer) = 0
  BY <1>1
<1>3. 0 <= MaxLength /\ 0 \in 0 .. Wrap - 1
  BY ConstantsAssumption
<1>4. TypeOK
  BY <1>1, <1>2, <1>3 DEF Init, TypeOK
<1>5. DOMAIN items = {}
  BY <1>1
<1>. QED
  BY <1>1, <1>2, <1>4, <1>5 DEF Init, IInv, InBounds

LEMMA WriteIInv ==
    ASSUME IInv, NEW order \in Orders, NEW v \in Integral, Write(order, v)
    PROVE  IInv'
<1>. DEFINE m == InMemory(Convert(order, v))
<1>0. TypeOK /\ InBounds /\ \A k \in DOMAIN items : Placed(items[k])
  BY DEF IInv
<1>1. m \in Seq(Byte) /\ Len(m) = Len(v) /\ Len(v) \in Nat \ {0}
  BY <1>0, StoredSeq, IntegralSeq DEF TypeOK
<1>2. buffer' = buffer \o m /\ buffer \in Seq(Byte) /\ host' = host
  BY <1>0 DEF Write, RawWrite, TypeOK
<1>3. PICK item \in Item : item = [at |-> Len(buffer), order |-> order, value |-> v]
  <2>1. Len(buffer) \in Nat
    BY <1>2
  <2>2. [at |-> Len(buffer), order |-> order, value |-> v] \in Item
    BY <2>1 DEF Item
  <2>. QED
    BY <2>2
<1>4. items' = Append(items, item)
  BY <1>3 DEF Write, RawWrite
<1>5. Stored(item)' = m
  BY <1>2, <1>3 DEF Stored, InMemory, Convert
<1>. HIDE DEF m
<1>6. /\ buffer' \in Seq(Byte) /\ Len(buffer') = Len(buffer) + Len(m) /\ Len(buffer) \in Nat
      /\ \A i \in 1 .. Len(m) : buffer'[Len(buffer) + i] = m[i]
  <2>1. /\ buffer \o m \in Seq(Byte) /\ Len(buffer \o m) = Len(buffer) + Len(m)
        /\ \A i \in 1 .. Len(m) : (buffer \o m)[Len(buffer) + i] = m[i]
    BY <1>1, <1>2, Appended, Zenon
  <2>2. Len(buffer) \in Nat
    BY <1>2
  <2>. QED
    BY <1>2, <2>1, <2>2, Zenon
<1>7. TypeOK'
  BY <1>0, <1>1, <1>2, <1>6, <1>4 DEF TypeOK, Write, RawWrite
<1>8. InBounds'
  BY <1>0, <1>1, <1>6 DEF InBounds, Write, RawWrite, TypeOK
<1>9. Placed(item)'
  <2>1. item.at + Len(item.value) <= Len(buffer')
    BY <1>1, <1>6, <1>3
  <2>2. \A i \in 1 .. Len(item.value) : buffer'[item.at + i] = m[i]
    BY <1>1, <1>6, <1>3
  <2>. QED
    BY <1>5, <2>1, <2>2, Zenon DEF Placed
<1>10. ASSUME NEW k \in DOMAIN items'
      PROVE  Placed(items[k])'
  <2>1. items \in Seq(Item)
    BY <1>0 DEF TypeOK
  <2>2. CASE k \in DOMAIN items
    <3>1. items'[k] = items[k] /\ items[k] \in Item
      BY <1>4, <2>1, <2>2
    <3>2. Placed(items[k])
      BY <1>0, <2>2
    <3>3. ASSUME NEW it, it = items[k] PROVE Placed(it)'
      BY <1>0, <1>1, <1>2, <3>1, <3>2, <3>3, PlacedStays
    <3>. QED
      BY <3>1, <3>3
  <2>3. CASE k = Len(items) + 1
    <3>1. items'[k] = item
      BY <1>4, <2>1, <2>3
    <3>. QED
      BY <1>9, <3>1
  <2>. QED
    BY <1>4, <2>1, <2>2, <2>3
<1>11. ~reading' => initial_offset_' = 0
  BY DEF Write, RawWrite, IInv
<1>. QED
  BY <1>7, <1>8, <1>10, <1>11 DEF IInv

\* The readers leave the buffer and the items as they are.
LEMMA ReaderIInv ==
    ASSUME IInv, UNCHANGED <<host, buffer, reading, items>>, reading,
           initial_offset_' \in 0 .. Wrap - 1, strayed' \in BOOLEAN,
           fault' \in {"none", "throws", "overread", "aborts"}, InBounds'
    PROVE  IInv'
<1>1. TypeOK'
  BY DEF IInv, TypeOK
<1>2. ASSUME NEW k \in DOMAIN items' PROVE Placed(items[k])'
  BY DEF IInv, Placed, Stored, InMemory, Convert
<1>. QED
  BY <1>1, <1>2 DEF IInv

LEMMA NextIInv == IInv /\ [Next]_vars => IInv'
<1>. SUFFICES ASSUME IInv, [Next]_vars PROVE IInv'
  OBVIOUS
<1>0. TypeOK /\ InBounds /\ initial_offset_ \in 0 .. Wrap - 1 /\ 0 \in 0 .. Wrap - 1
  BY ConstantsAssumption DEF IInv, TypeOK
<1>1. CASE \E order \in Orders, v \in Integral : Write(order, v)
  BY <1>1, WriteIInv
<1>2. CASE Open
  <2>1. TypeOK' /\ InBounds'
    BY <1>0, <1>2 DEF Open, TypeOK, InBounds
  <2>2. ASSUME NEW k \in DOMAIN items' PROVE Placed(items[k])'
    BY <1>2 DEF Open, IInv, Placed, Stored, InMemory, Convert
  <2>. QED
    BY <1>2, <2>1, <2>2 DEF Open, IInv
<1>3. ASSUME NEW size \in Sizes, NEW off \in Offsets, Peek(size, off)
      PROVE  IInv'
  <2>1. size \in Nat /\ off \in 0 .. Wrap - 1
    BY ConstantsAssumption DEF Sizes
  <2>2. InBounds'
    <3>1. CASE strayed'
      BY <3>1 DEF InBounds
    <3>2. CASE ~strayed'
      <4>1. off <= byteAvailable
        <5>1. byteAvailable \in 0 .. Wrap - 1
          BY <1>0, AvailableType
        <5>2. ~(off > byteAvailable)
          BY <1>3, <3>2, Zenon DEF Peek
        <5>. QED
          BY <2>1, <5>1, <5>2
      <4>2. initial_offset_ <= Len(buffer)
        BY <1>0, <1>3, <3>2 DEF Peek, InBounds
      <4>3. RawRead(size, off) = {"none"}
        BY <1>0, <1>3, <2>1, <4>1, <4>2, InRange DEF Peek, Passes
      <4>. QED
        BY <1>3, <4>2, <4>3 DEF Peek, InBounds
    <3>. QED
      BY <3>1, <3>2
  <2>. QED
    BY <1>0, <1>3, <2>2, FaultType, ReaderIInv DEF Peek, TypeOK
<1>4. ASSUME NEW c \in Calls, Read(c)
      PROVE  IInv'
  <2>1. c.size \in Nat /\ c.size \in 0 .. Wrap - 1
    BY ConstantsAssumption DEF Calls
  <2>2. InBounds'
    <3>1. CASE strayed'
      BY <3>1 DEF InBounds
    <3>2. CASE ~strayed'
      <4>1. 0 <= byteAvailable
        BY <1>0, AvailableType
      <4>2. initial_offset_ <= Len(buffer)
        BY <1>0, <1>4, <3>2 DEF Read, InBounds
      <4>3. RawRead(c.size, 0) = {"none"} /\ initial_offset_ + c.size <= Len(buffer)
        BY <1>0, <1>4, <2>1, <4>1, <4>2, InRange DEF Read, Passes
      <4>4. Plus(initial_offset_, c.size) = initial_offset_ + c.size
        <5>1. initial_offset_ + c.size < Wrap
          BY <1>0, <2>1, <4>3, AvailableType, ConstantsAssumption
        <5>. QED
          BY <1>0, <2>1, <5>1, Wraps
      <4>. QED
        BY <1>4, <4>3, <4>4 DEF Read, InBounds
    <3>. QED
      BY <3>1, <3>2
  <2>3. initial_offset_' \in 0 .. Wrap - 1
    BY <1>0, <1>4, <2>1, Wraps DEF Read
  <2>. QED
    BY <1>0, <1>4, <2>2, <2>3, FaultType, ReaderIInv DEF Read, TypeOK
<1>5. ASSUME NEW len \in Offsets, ReadNBytes(len)
      PROVE  IInv'
  <2>1. len \in Nat /\ len \in 0 .. Wrap - 1
    BY ConstantsAssumption
  <2>2. InBounds'
    <3>1. CASE strayed'
      BY <3>1 DEF InBounds
    <3>2. CASE ~strayed'
      <4>1. byteAvailable \in 0 .. Wrap - 1
        BY <1>0, AvailableType
      <4>2. initial_offset_ <= Len(buffer) /\ len <= byteAvailable
        <5>1. ~strayed /\ ~(len > byteAvailable)
          BY <1>5, <3>2, Zenon DEF ReadNBytes
        <5>. QED
          BY <1>0, <2>1, <4>1, <5>1 DEF InBounds
      <4>3. Minus(byteAvailable, 0) >= len
        BY <1>0, <4>1, <4>2, Wraps
      <4>4. RawRead(len, 0) = {"none"} /\ initial_offset_ + len <= Len(buffer)
        BY <1>0, <2>1, <4>1, <4>2, <4>3, InRange
      <4>5. Plus(initial_offset_, len) = initial_offset_ + len
        <5>1. initial_offset_ + len < Wrap
          BY <1>0, <2>1, <4>4, AvailableType, ConstantsAssumption
        <5>. QED
          BY <1>0, <2>1, <5>1, Wraps
      <4>. QED
        BY <1>5, <4>4, <4>5 DEF ReadNBytes, InBounds
    <3>. QED
      BY <3>1, <3>2
  <2>3. initial_offset_' \in 0 .. Wrap - 1
    BY <1>0, <1>5, <2>1, Wraps DEF ReadNBytes
  <2>. QED
    BY <1>0, <1>5, <2>2, <2>3, FaultType, ReaderIInv DEF ReadNBytes, TypeOK
<1>6. CASE UNCHANGED vars
  <2>1. TypeOK' /\ InBounds'
    BY <1>0, <1>6 DEF vars, TypeOK, InBounds
  <2>2. ASSUME NEW k \in DOMAIN items' PROVE Placed(items[k])'
    BY <1>6 DEF vars, IInv, Placed, Stored, InMemory, Convert
  <2>. QED
    BY <1>6, <2>1, <2>2 DEF vars, IInv
<1>. QED
  BY <1>1, <1>2, <1>3, <1>4, <1>5, <1>6 DEF Next

-----------------------------------------------------------------------------
\* The offset and the fault of Reader: InBounds holds in every reachable state,
\* whatever the widths, the length of the buffer and that of uint64_t.
THEOREM Bounds == Spec => []InBounds
<1>1. IInv => InBounds
  BY DEF IInv
<1>. QED
  BY InitIInv, NextIInv, <1>1, PTL DEF Spec

-----------------------------------------------------------------------------
\* Little-endian on this host: memory has the lowest byte first.
LowFirst(order) == order = "LittleEndian" \/ (order = "Host" /\ host = "LittleEndian")

\* What lies at the place of an integer, as a call of the same size and order fills
\* it into memory.
LEMMA FilledIs ==
    ASSUME TypeOK, NEW item \in Item, Placed(item), NEW c \in Calls,
           c.size = Len(item.value), c.order = item.order,
           c.order = "Host" /\ host = "BigEndian" => c.size = c.width
    PROVE  \A i \in 1 .. c.width :
               Filled(c, item.at)[i] =
                   IF LowFirst(c.order)
                   THEN IF i <= c.size THEN item.value[i] ELSE 0
                   ELSE IF i > c.width - c.size THEN item.value[c.width - i + 1] ELSE 0
<1>. DEFINE v == item.value
            n == Len(v)
            d == Displacement(c)
<1>1. v \in Integral /\ item.order \in Orders /\ host \in Hosts /\ item.at \in Nat
  BY DEF Item, TypeOK
<1>2. n \in Nat /\ c.width \in Nat /\ c.size = n /\ n >= 1 /\ n <= c.width
  BY <1>1, IntegralSeq, ConstantsAssumption DEF Calls
<1>3. \A i \in 1 .. n : buffer[item.at + i] = IF LowFirst(c.order) THEN v[i] ELSE v[n - i + 1]
  BY <1>1, StoredSeq DEF Placed, Stored, LowFirst
<1>4. d \in Nat /\ d + n <= c.width
      /\ d = IF LowFirst(c.order) THEN 0 ELSE c.width - n
  BY <1>1, <1>2 DEF Displacement, LowFirst, Orders, Hosts
<1>. HIDE DEF d, n
<1>5. ASSUME NEW i \in 1 .. c.width
      PROVE  Filled(c, item.at)[i] = IF i \in d + 1 .. d + n THEN buffer[item.at + i - d] ELSE 0
  BY <1>2 DEF Filled, d
<1>6. ASSUME NEW i \in d + 1 .. d + n
      PROVE  buffer[item.at + i - d] = IF LowFirst(c.order) THEN v[i - d] ELSE v[n - (i - d) + 1]
  <2>1. i - d \in 1 .. n /\ item.at + i - d = item.at + (i - d)
    BY <1>1, <1>2, <1>4
  <2>. QED
    BY <1>3, <2>1
<1>. QED
  BY <1>2, <1>4, <1>5, <1>6

\* peek undoes the conversion and spreads the sign.
LEMMA PeekedIs ==
    ASSUME TypeOK, NEW item \in Item, Placed(item), NEW c \in Calls,
           c.size = Len(item.value), c.order = item.order,
           c.order = "Host" /\ host = "BigEndian" => c.size = c.width,
           NEW off, Plus(initial_offset_, off) = item.at
    PROVE  Peeked(c, off) = Widened(item.value, c.width, c.signed)
<1>. DEFINE v == item.value
            n == Len(v)
            m == Filled(c, item.at)
            w == Convert(c.order, InMemory(m))
<1>1. v \in Integral /\ c.order \in Orders /\ host \in Hosts
  BY DEF Item, TypeOK
<1>2. n \in Nat /\ c.width \in Nat /\ c.size = n /\ n >= 1 /\ n <= c.width
  BY <1>1, IntegralSeq, ConstantsAssumption DEF Calls
<1>3. m = [i \in 1 .. c.width |-> m[i]]
  BY DEF Filled
<1>4. \A i \in 1 .. c.width :
          m[i] = IF LowFirst(c.order) THEN IF i <= n THEN v[i] ELSE 0
                 ELSE IF i > c.width - n THEN v[c.width - i + 1] ELSE 0
  BY <1>2, FilledIs
<1>5. c.order = "BigEndian" => Displacement(c) = c.width - n
  BY <1>2 DEF Displacement
<1>. HIDE DEF m, n
<1>6. Reversed(m) = [i \in 1 .. c.width |-> m[c.width - i + 1]] /\ Reversed(Reversed(m)) = m
  BY <1>2, <1>3, ReversedSeq
<1>7. w = IF LowFirst(c.order) THEN m ELSE Reversed(m)
  BY <1>1, <1>6 DEF w, Convert, InMemory, LowFirst, Orders, Hosts
<1>. HIDE DEF w
<1>8. ASSUME NEW i \in 1 .. c.width
      PROVE  w[i] = IF i <= n THEN v[i] ELSE 0
  <2>1. CASE LowFirst(c.order)
    BY <1>4, <1>7, <2>1
  <2>2. CASE ~LowFirst(c.order)
    <3>1. c.width - i + 1 \in 1 .. c.width /\ c.width - (c.width - i + 1) + 1 = i
      BY <1>2
    <3>2. w[i] = m[c.width - i + 1]
      BY <1>6, <1>7, <2>2
    <3>3. m[c.width - i + 1] =
              IF c.width - i + 1 > c.width - n THEN v[c.width - (c.width - i + 1) + 1] ELSE 0
      BY <1>4, <2>2, <3>1
    <3>. QED
      BY <1>2, <3>1, <3>2, <3>3
  <2>. QED
    BY <2>1, <2>2
<1>9. Extends(c, m) <=> c.signed /\ c.size < c.width /\ v[n] >= Half
  <2>1. CASE c.size < c.width /\ c.order = "BigEndian"
    <3>1. c.width - n + 1 \in 1 .. c.width /\ c.width - (c.width - n + 1) + 1 = n
          /\ c.width - n + 1 > c.width - n
      BY <1>2
    <3>2. ~LowFirst(c.order)
      BY <2>1 DEF LowFirst
    <3>3. m[c.width - n + 1] = v[n]
      BY <1>4, <3>1, <3>2
    <3>. QED
      BY <1>2, <1>5, <2>1, <3>3 DEF Extends
  <2>2. CASE c.size < c.width /\ c.order # "BigEndian"
    <3>1. LowFirst(c.order)
      BY <1>1, <2>2 DEF LowFirst, Orders, Hosts
    <3>2. m[n] = v[n]
      BY <1>2, <1>4, <3>1
    <3>. QED
      BY <1>2, <2>2, <3>2 DEF Extends
  <2>3. CASE ~(c.size < c.width)
    BY <2>3 DEF Extends
  <2>. QED
    BY <2>1, <2>2, <2>3
<1>10. Peeked(c, off) =
           [i \in 1 .. c.width |-> IF i > c.size /\ Extends(c, m) THEN 2 * Half - 1 ELSE w[i]]
  BY DEF Peeked, w, m
<1>11. ASSUME NEW i \in 1 .. c.width
       PROVE  (IF i > c.size /\ Extends(c, m) THEN 2 * Half - 1 ELSE w[i]) =
              (IF i <= n THEN v[i] ELSE IF c.signed /\ v[n] >= Half THEN 2 * Half - 1 ELSE 0)
  BY <1>2, <1>8, <1>9
<1>. QED
  BY <1>10, <1>11 DEF Widened, n

LEMMA IInvReadBack == IInv => ReadBack
<1>. SUFFICES ASSUME IInv, reading, ~strayed, NEW k \in DOMAIN items, NEW c \in Calls,
                     c.size = Len(items[k].value), c.order = items[k].order,
                     c.order = "Host" /\ host = "BigEndian" => c.size = c.width,
                     initial_offset_ <= items[k].at
              PROVE  /\ Passes(c.size, items[k].at - initial_offset_)
                     /\ Peeked(c, items[k].at - initial_offset_)
                            = Widened(items[k].value, c.width, c.signed)
  BY DEF ReadBack
<1>. DEFINE off == items[k].at - initial_offset_
<1>1. TypeOK /\ InBounds /\ Placed(items[k]) /\ items[k] \in Item
  BY DEF IInv, TypeOK
<1>2. items[k].at \in Nat /\ c.size \in Nat /\ items[k].at + c.size <= Len(buffer)
  BY <1>1, IntegralSeq DEF Item, Placed
<1>3. Len(buffer) \in 0 .. Wrap - 1 /\ initial_offset_ \in 0 .. Wrap - 1
      /\ initial_offset_ <= Len(buffer) /\ Wrap \in Nat
  BY <1>1, AvailableType, ConstantsAssumption DEF TypeOK, InBounds
<1>4. byteAvailable = Len(buffer) - initial_offset_ /\ byteAvailable \in 0 .. Wrap - 1
  BY <1>3, Wraps DEF byteAvailable
<1>5. off \in 0 .. Wrap - 1 /\ off <= byteAvailable /\ initial_offset_ + off = items[k].at
      /\ items[k].at < Wrap
  BY <1>2, <1>3, <1>4
<1>6. Passes(c.size, off)
  <2>1. Minus(byteAvailable, off) = byteAvailable - off
    BY <1>4, <1>5, Wraps
  <2>2. byteAvailable - off = Len(buffer) - items[k].at
    BY <1>2, <1>3, <1>4, <1>5
  <2>3. Minus(byteAvailable, off) >= c.size
    BY <1>2, <1>3, <2>1, <2>2
  <2>. QED
    BY <2>3 DEF Passes
<1>7. Plus(initial_offset_, off) = items[k].at
  BY <1>3, <1>5, Wraps
<1>. QED
  BY <1>1, <1>6, <1>7, PeekedIs

\* Writer and Reader: every integer written is found at its place again, in the
\* type asked for, by ReadBack in every reachable state, for every number of
\* bytes in a type and on both kinds of host.
THEOREM FoundAgain == Spec => []ReadBack
BY InitIInv, NextIInv, IInvReadBack, PTL DEF Spec

-----------------------------------------------------------------------------
(* DateCodec *)

\* What Encode writes of the date.
WholeMinutes == Cast(date, Minute) * Minute = date

EncodedDate == IF WholeMinutes THEN <<"x4b", AsInt32(Cast(date, Minute))>> ELSE <<"x4a", date>>

DateTypeOK ==
    /\ date \in Int /\ unit \in Nat \ {0} /\ result \in Int
    /\ missing \in Nat
    /\ phase \in {"encode", "transit", "decode", "ok", "nullptr"}

\* What was written stays as it was, and a date is given back only when it is complete.
DateInv ==
    /\ DateTypeOK
    /\ phase \in {"transit", "decode", "ok", "nullptr"} => wire = EncodedDate
    /\ RoundTrip

-----------------------------------------------------------------------------
\* Division with a remainder.
LEMMA Division ==
    ASSUME NEW n \in Nat, NEW u \in Nat \ {0}
    PROVE  /\ n \div u \in Nat /\ (n \div u) * u \in Nat
           /\ (n \div u) * u <= n /\ n < (n \div u) * u + u
OBVIOUS

\* A cast to a unit loses less than one of it, and never turns a date before
\* the epoch into one after it (duration_cast).
LEMMA CastTruncates ==
    ASSUME NEW ms \in Int, NEW u \in Nat \ {0}
    PROVE  /\ Cast(ms, u) \in Int /\ Cast(ms, u) * u \in Int
           /\ ms >= 0 => 0 <= Cast(ms, u) * u /\ Cast(ms, u) * u <= ms /\ ms < Cast(ms, u) * u + u
           /\ ms <= 0 => Cast(ms, u) * u <= 0 /\ ms <= Cast(ms, u) * u /\ Cast(ms, u) * u - u < ms
<1>1. CASE ms >= 0
  <2>1. PICK q \in Nat : q = ms \div u /\ q * u \in Nat /\ q * u <= ms /\ ms < q * u + u
    BY <1>1, Division
  <2>2. Cast(ms, u) = q
    BY <1>1, <2>1 DEF Cast
  <2> QED
    BY <1>1, <2>1, <2>2
<1>2. CASE ms < 0
  <2>1. PICK q \in Nat : q = (-ms) \div u /\ q * u \in Nat /\ q * u <= -ms /\ -ms < q * u + u
    BY <1>2, Division
  <2>2. Cast(ms, u) = -q
    BY <1>2, <2>1 DEF Cast
  <2>3. (-q) * u = -(q * u)
    BY <2>1
  <2> QED
    BY <1>2, <2>1, <2>2, <2>3
<1> QED
  BY <1>1, <1>2

\* Minutes that an int32_t holds are written as they are.
LEMMA AsInt32Exact ==
    ASSUME NEW n \in -HalfInt .. HalfInt - 1
    PROVE  AsInt32(n) = n
<1>1. HalfInt \in Nat
  BY DateAssumption
<1>2. n + HalfInt \in 0 .. 2 * HalfInt - 1
  BY <1>1
<1>3. (n + HalfInt) % (2 * HalfInt) = n + HalfInt
  BY <1>1, <1>2
<1> QED
  BY <1>1, <1>3 DEF AsInt32

LEMMA AsInt32Type == ASSUME NEW n \in Int PROVE AsInt32(n) \in Int
<1>1. 2 * HalfInt \in Nat \ {0} /\ n + HalfInt \in Int
  BY DateAssumption
<1>2. (n + HalfInt) % (2 * HalfInt) \in Int
  BY <1>1
<1> QED
  BY <1>2, DateAssumption DEF AsInt32

-----------------------------------------------------------------------------
LEMMA InitDateInv == DateInit => DateInv
BY DateAssumption DEF DateInit, DateInv, DateTypeOK, RoundTrip

LEMMA EncodeDateInv == ASSUME DateInv, Encode PROVE DateInv'
<1>1. phase' = "transit" /\ wire' = EncodedDate /\ UNCHANGED <<date, missing, unit, result>>
  BY DEF Encode, EncodedDate, WholeMinutes
<1>2. wire' = EncodedDate'
  BY <1>1 DEF EncodedDate, WholeMinutes
<1> QED
  BY <1>1, <1>2 DEF DateInv, DateTypeOK, RoundTrip

LEMMA DeliverDateInv == ASSUME DateInv, Deliver PROVE DateInv'
<1>1. /\ phase = "transit" /\ phase' = "decode" /\ UNCHANGED <<date, wire, unit, result>>
      /\ missing' \in 0 .. Size(wire[1]) + 1
  BY DEF Deliver
<1>2. missing' \in Nat
  BY <1>1 DEF Size
<1>3. wire' = EncodedDate'
  BY <1>1 DEF DateInv, EncodedDate, WholeMinutes
<1> QED
  BY <1>1, <1>2, <1>3 DEF DateInv, DateTypeOK, RoundTrip

\* Whichever form the date has, the decoder casts the point in time that was
\* written to its unit.
LEMMA DecodeDateInv == ASSUME DateInv, Decode PROVE DateInv'
<1>1. phase = "decode" /\ UNCHANGED <<date, wire, missing, unit>> /\ wire = EncodedDate
  BY DEF Decode, DateInv
<1>2. wire' = EncodedDate'
  BY <1>1 DEF EncodedDate, WholeMinutes
<1>3. date \in Int /\ unit \in Nat \ {0} /\ missing \in Nat /\ result \in Int /\ Minute \in Nat \ {0}
  BY DateAssumption DEF DateInv, DateTypeOK
<1>4. CASE missing > 0
  BY <1>1, <1>2, <1>3, <1>4 DEF Decode, DateInv, DateTypeOK, RoundTrip
<1>5. CASE ~(missing > 0)
  <2> DEFINE sent == IF wire[1] = "x4b" THEN wire[2] * Minute ELSE wire[2]
  <2>1. phase' = "ok" /\ result' = Cast(sent, unit) /\ missing' = 0
    BY <1>1, <1>3, <1>5 DEF Decode
  <2>2. sent \in Int /\ (Fits => sent = date)
    <3>1. CASE WholeMinutes
      <4>1. PICK m \in Int : m = Cast(date, Minute) /\ m * Minute = date
        BY <1>3, <3>1, CastTruncates DEF WholeMinutes
      <4>2. wire[1] = "x4b" /\ wire[2] = AsInt32(m)
        BY <1>1, <3>1, <4>1 DEF EncodedDate
      <4>3. Fits => AsInt32(m) = m
        BY <3>1, <4>1, AsInt32Exact DEF Fits, WholeMinutes
      <4>4. AsInt32(m) \in Int
        BY AsInt32Type
      <4> QED
        BY <1>3, <4>1, <4>2, <4>3, <4>4
    <3>2. CASE ~WholeMinutes
      <4>1. wire[1] = "x4a" /\ wire[2] = date
        BY <1>1, <3>2 DEF EncodedDate
      <4> QED
        BY <1>3, <4>1
    <3> QED
      BY <3>1, <3>2
  <2> HIDE DEF sent
  <2>3. result' \in Int
    BY <1>3, <2>1, <2>2, CastTruncates
  <2>4. Fits' => result' = Cast(date', unit')
    BY <1>1, <2>1, <2>2 DEF Fits
  <2> QED
    BY <1>1, <1>2, <1>3, <2>1, <2>3, <2>4 DEF DateInv, DateTypeOK, RoundTrip
<1> QED
  BY <1>4, <1>5

LEMMA DateInvariance == DateSpec => []DateInv
<1>1. DateInit => DateInv
  BY InitDateInv
<1>2. DateInv /\ [DateNext]_dateVars => DateInv'
  <2> SUFFICES ASSUME DateInv, [DateNext]_dateVars PROVE DateInv'
    OBVIOUS
  <2>1. CASE Encode
    BY <2>1, EncodeDateInv
  <2>2. CASE Deliver
    BY <2>2, DeliverDateInv
  <2>3. CASE Decode
    BY <2>3, DecodeDateInv
  <2>4. CASE UNCHANGED dateVars
    BY <2>4 DEF dateVars, DateInv, DateTypeOK, EncodedDate, WholeMinutes, RoundTrip, Fits
  <2> QED
    BY <2>1, <2>2, <2>3, <2>4 DEF DateNext
<1> QED
  BY <1>1, <1>2, PTL DEF DateSpec

\* For every date, unit and width: the point in time that was written is cast to
\* the reader's unit, unless its minutes are more than an int32_t holds, and a
\* date that lost bytes is refused (date_codec.cc).
THEOREM DatesComeBack == DateSpec => []RoundTrip
<1>1. DateInv => RoundTrip
  BY DEF DateInv
<1> QED
  BY <1>1, DateInvariance, PTL

\* A date of a whole number of units is cast to that number.
LEMMA CastExact ==
    ASSUME NEW n \in Int, NEW u \in Nat \ {0}
    PROVE  Cast(n * u, u) = n
<1>1. PICK ms \in Int : ms = n * u
  OBVIOUS
<1>2. PICK c \in Int : c = Cast(ms, u) /\ c * u - u < ms /\ ms < c * u + u
  <2>1. Cast(ms, u) \in Int /\ Cast(ms, u) * u \in Int
    BY <1>1, CastTruncates
  <2>2. ms >= 0 => Cast(ms, u) * u <= ms /\ ms < Cast(ms, u) * u + u
    BY <1>1, CastTruncates
  <2>3. ms <= 0 => ms <= Cast(ms, u) * u /\ Cast(ms, u) * u - u < ms
    BY <1>1, CastTruncates
  <2> QED
    BY <2>1, <2>2, <2>3
<1>3. (c - n) * u < u /\ (n - c) * u < u
  BY <1>1, <1>2
<1>4. c - n < 1 /\ n - c < 1
  <2>1. ASSUME NEW d \in Int, d >= 1 PROVE d * u >= u
    BY <2>1
  <2> QED
    BY <1>3, <2>1
<1> QED
  BY <1>1, <1>2, <1>4

\* In every unit the reader may ask for, the date loses less than one of it,
\* before the epoch as after it.
THEOREM ReadWithinUnit == DateSpec => []WithinUnit
<1>1. DateInv => WithinUnit
  <2> SUFFICES ASSUME DateInv, phase = "ok", Fits PROVE WithinUnit
    BY DEF WithinUnit
  <2>1. result = Cast(date, unit) /\ date \in Int /\ unit \in Nat \ {0}
    BY DEF DateInv, DateTypeOK, RoundTrip
  <2> QED
    BY <2>1, CastTruncates DEF WithinUnit
<1> QED
  BY <1>1, DateInvariance, PTL

\* A date read in the unit it was written in, or one that divides it, is the same
\* date: encode and decode of one std::chrono type are inverse.
THEOREM SameUnitSameDate ==
    DateSpec => [](phase = "ok" /\ Fits => \A n \in Int : date = n * unit => result = n)
<1>1. DateInv => (phase = "ok" /\ Fits => \A n \in Int : date = n * unit => result = n)
  <2> SUFFICES ASSUME DateInv, phase = "ok", Fits, NEW n \in Int, date = n * unit
               PROVE  result = n
    OBVIOUS
  <2>1. result = Cast(n * unit, unit) /\ unit \in Nat \ {0}
    BY DEF DateInv, DateTypeOK, RoundTrip
  <2> QED
    BY <2>1, CastExact
<1> QED
  BY <1>1, DateInvariance, PTL
=============================================================================
