----------------------------- MODULE NumberCodec -----------------------------
(***************************************************************************)
(* number_codec.cc: int32_t and int64_t in the fewest bytes that hold      *)
(* them, and double; bool_codec.cc and NullObject; and decode<Object>,     *)
(* which tells them apart by their first byte.  Numbers and bytes have     *)
(* their real widths.  An int64_t is its upper and lower half, two         *)
(* int32_t.                                                                *)
(***************************************************************************)
EXTENDS Integers, Sequences

CONSTANTS
    Numbers,     \* the values to be sent, of all kinds
    Casts        \* what a cast to int32_t may yield that has no defined result

Value(kind, hi, lo) == [kind |-> kind, hi |-> hi, lo |-> lo]

Int8  == -128 .. 127
Int16 == {n \in Int : -32768 <= n /\ n <= 32767}
Int32 == {n \in Int : -2147483647 - 1 <= n /\ n <= 2147483647}

IntOf(n)       == Value("int", 0, n)
LongOf(hi, lo) == Value("long", hi, lo)
UInt32(lo)     == Value("uint32", 0, lo)      \* negative: 2^31 or more
Bool(n)        == Value("bool", 0, n)
NullOb         == Value("null", 0, 0)
Null           == Value("nullptr", 0, 0)      \* no result

\* A double: a whole number of an int32_t; or -0.0; or a fraction that is truncated
\* to n; or n thousandths, not a whole number; or one beyond an int32_t, or NaN.
DoubleOf(n) == Value("double", 0, n)
OtherDoubles == {"minus zero", "fraction", "thousandths", "beyond"}
IsDouble(v) == v.kind = "double" \/ v.kind \in OtherDoubles

Kinds == {"int", "long", "uint32", "bool", "null", "double"} \cup OtherDoubles

IsNumber(v) ==
    /\ v = Value(v.kind, v.hi, v.lo)
    /\ v.kind \in Kinds /\ v.hi \in Int32 /\ v.lo \in Int32
    /\ v.kind # "long" => v.hi = 0
    /\ v.kind \in {"null", "minus zero"} => v.lo = 0
    /\ v.kind = "bool" => v.lo \in {0, 1}
    /\ v.kind = "thousandths" => v.lo % 1000 # 0

ASSUME NumberAssumption == Casts \subseteq Int32 /\ \A v \in Numbers : IsNumber(v)

\* An int32_t cast to int64_t, and the int64_t between the limits of int32_t.
Widen(n) == LongOf(IF n < 0 THEN -1 ELSE 0, n)
IsNarrow(v) == v = Widen(v.lo)

\* 2 ^ (8 * n)
Shift(n) == <<1, 256, 65536, 16777216>>[n + 1]

\* writeByte and writeBE: the low k bytes of n, highest first.
Low(n, k) == [i \in 1 .. k |-> (n \div Shift(k - i)) % 256]

\* readBE<uint8_t>, <uint16_t> of the k bytes of w after the first i.
Unsigned(w, i, k) ==
    CASE k = 0 -> 0
      [] k = 1 -> w[i + 1]
      [] k = 2 -> w[i + 1] * 256 + w[i + 2]
      [] k = 3 -> w[i + 1] * 65536 + w[i + 2] * 256 + w[i + 3]

\* readBE<int8_t>, <int16_t>, <int32_t>
Signed(w, i, k) ==
    LET high == IF w[i + 1] < 128 THEN w[i + 1] ELSE w[i + 1] - 256
    IN  high * Shift(k - 1) + Unsigned(w, i + 1, k - 1)

-----------------------------------------------------------------------------
(* The compact forms.  The first byte is zero plus the bits of the number  *)
(* above those of the further bytes.                                       *)

Compact(min, max, zero, further) ==
    [min |-> min, max |-> max, zero |-> zero, further |-> further]

\* Slips: the range the comment in number_codec.cc gives; a limit off by one.
IntFormsAsCommented == {Compact(-16, 63, 144, 0), Compact(-2048, 2047, 200, 1),
                        Compact(-262144, 262143, 212, 2)}
LongFormsNarrow == {Compact(-8, 15, 224, 0), Compact(-2047, 2047, 248, 1),
                    Compact(-262144, 262143, 60, 2)}

\* Encoder::encode compares the number with these ranges, in this order.
IntForms == {Compact(-16, 47, 144, 0), Compact(-2048, 2047, 200, 1),
             Compact(-262144, 262143, 212, 2)}
LongForms == {Compact(-8, 15, 224, 0), Compact(-2048, 2047, 248, 1),
              Compact(-262144, 262143, 60, 2)}

\* Decoder::decode looks the first byte up among these.
IntCodes == {Compact(128, 191, 144, 0), Compact(192, 207, 200, 1),
             Compact(208, 215, 212, 2)}
LongCodes == {Compact(216, 239, 224, 0), Compact(240, 255, 248, 1),
              Compact(56, 63, 60, 2)}

FormsFor(forms, n) == {f \in forms : f.min <= n /\ n <= f.max}

\* The first form that holds n.
FormFor(forms, n) ==
    CHOOSE f \in FormsFor(forms, n) :
        \A g \in FormsFor(forms, n) : f.further <= g.further

Written(f, n) ==
    Low(f.zero + n \div Shift(f.further), 1) \o Low(n, f.further)

\* LeftShift<T>(code - zero, 8 or 16) and the further bytes.
Read(f, w) == (w[1] - f.zero) * Shift(f.further) + Unsigned(w, 1, f.further)

EncodeInt(n) ==
    IF FormsFor(IntForms, n) # {} THEN Written(FormFor(IntForms, n), n)
    ELSE <<73>> \o Low(n, 4)                                      \* 'I'

EncodeLong(v) ==
    IF IsNarrow(v)
    THEN IF FormsFor(LongForms, v.lo) # {} THEN Written(FormFor(LongForms, v.lo), v.lo)
         ELSE <<89>> \o Low(v.lo, 4)                              \* x59
    ELSE <<76>> \o Low(v.hi, 4) \o Low(v.lo, 4)                   \* 'L'

\* The eight bytes of a double, memcpy, highest first.
Memory(v) == [i \in 1 .. 8 |-> <<v, i>>]

\* static_cast<int32_t>
CastOf(v) ==
    CASE v.kind = "beyond"      -> Casts
      [] v.kind = "thousandths" -> {IF v.lo < 0 THEN -((-v.lo) \div 1000) ELSE v.lo \div 1000}
      [] OTHER                  -> {v.lo}

\* int_value == value
EqualsInt(v, n) == v = DoubleOf(n) \/ (v.kind = "minus zero" /\ n = 0)

\* n: int_value
EncodeDouble(v, n) ==
    IF EqualsInt(v, n) /\ n \in {0, 1} THEN <<91 + n>>                    \* x5b, x5c
    ELSE IF EqualsInt(v, n) /\ n \in Int8 THEN <<93>> \o Low(n, 1)      \* x5d
    ELSE IF EqualsInt(v, n) /\ n \in Int16 THEN <<94>> \o Low(n, 2)  \* x5e
    ELSE <<68>> \o Memory(v)                                              \* 'D'

-----------------------------------------------------------------------------
(* Decoding: the value and the bytes that were read.                       *)

Nothing(used) == [value |-> Null, used |-> used]

\* read().second: an exhausted reader yields 0.
CodeOf(w) == IF w = <<>> THEN 0 ELSE w[1]

\* The code is none of the type asked for.
Refused(w) == Nothing(IF w = <<>> THEN 0 ELSE 1)

\* A value is made of the bytes after the code if there are enough.
After(w, size, value) ==
    IF Len(w) - 1 < size THEN Nothing(1) ELSE [value |-> value, used |-> 1 + size]

DecodeInt(w) ==
    IF CodeOf(w) = 73 THEN After(w, 4, IntOf(Signed(w, 1, 4)))
    ELSE IF FormsFor(IntCodes, CodeOf(w)) # {}
         THEN LET f == FormFor(IntCodes, w[1]) IN After(w, f.further, IntOf(Read(f, w)))
    ELSE Refused(w)

DecodeLong(w) ==
    IF CodeOf(w) = 76 THEN After(w, 8, LongOf(Signed(w, 1, 4), Signed(w, 5, 4)))
    ELSE IF CodeOf(w) = 89 THEN After(w, 4, Widen(Signed(w, 1, 4)))
    ELSE IF FormsFor(LongCodes, CodeOf(w)) # {}
         THEN LET f == FormFor(LongCodes, w[1]) IN After(w, f.further, Widen(Read(f, w)))
    ELSE Refused(w)

\* x5f: 0.001 times an int32_t.
DecodeDouble(w) ==
    CASE CodeOf(w) = 91 -> After(w, 0, DoubleOf(0))
      [] CodeOf(w) = 92 -> After(w, 0, DoubleOf(1))
      [] CodeOf(w) = 93 -> After(w, 1, DoubleOf(Signed(w, 1, 1)))
      [] CodeOf(w) = 94 -> After(w, 2, DoubleOf(Signed(w, 1, 2)))
      [] CodeOf(w) = 95 -> After(w, 4, Value("thousandths", 0, Signed(w, 1, 4)))
      [] CodeOf(w) = 68 -> After(w, 8, w[2][1])
      [] OTHER         -> Refused(w)

DecodeBool(w) ==
    IF CodeOf(w) = 70 THEN After(w, 0, Bool(0))
    ELSE IF CodeOf(w) = 84 THEN After(w, 0, Bool(1))
    ELSE Refused(w)

\* The code is only asserted.
DecodeNull(w) == IF w = <<>> THEN Nothing(0) ELSE After(w, 0, NullOb)

\* decode<Object>: the code is peeked at, not read.  The codes of what is not a
\* number, a bool or null lead elsewhere.
DecodeObject(w) ==
    IF w = <<>> THEN Nothing(0)
    ELSE CASE w[1] = 78                       -> DecodeNull(w)
           [] w[1] \in {70, 84}               -> DecodeBool(w)
           [] w[1] \in (91 .. 95) \cup {68}   -> DecodeDouble(w)
           [] w[1] \in (56 .. 63) \cup (216 .. 239) \cup (240 .. 255) \cup {89, 76} -> DecodeLong(w)
           [] w[1] \in (128 .. 191) \cup (192 .. 207) \cup (208 .. 215) \cup {73} -> DecodeInt(w)
           [] OTHER                           -> Nothing(0)

-----------------------------------------------------------------------------
VARIABLES
    value,      \* what is sent
    wire,       \* the bytes written
    byPeer,     \* by another encoder
    arrived,    \* the bytes the reader has
    phase,      \* "encode", "transit", "decode" or "done"
    asked,      \* the type decode is called for
    result,     \* the value and the bytes read
    error       \* error_code_ is UNEXPECTED_TYPE

vars == <<value, wire, byPeer, arrived, phase, asked, result, error>>

Init ==
    /\ value \in Numbers
    /\ wire = <<>> /\ byPeer = FALSE /\ arrived = <<>> /\ phase = "encode"
    /\ asked = "Object" /\ result = Nothing(0) /\ error = FALSE

\* The smaller integers are encoded as int32_t, uint32_t as int64_t.
Promoted(v) == IF v.kind = "uint32" THEN LongOf(0, v.lo) ELSE v

\* Encoder::encode of any type; a NullObject, a bool.
Encode ==
    /\ phase = "encode" /\ phase' = "transit"
    /\ LET v == Promoted(value)
       IN  \/ v.kind = "int" /\ wire' = EncodeInt(v.lo)
           \/ v.kind = "long" /\ wire' = EncodeLong(v)
           \/ IsDouble(v) /\ \E n \in CastOf(v) : wire' = EncodeDouble(v, n)
           \/ v.kind = "bool" /\ wire' = <<IF v.lo = 1 THEN 84 ELSE 70>>
           \/ v.kind = "null" /\ wire' = <<78>>
    /\ UNCHANGED <<value, byPeer, arrived, asked, result, error>>

\* What the codes of f can express: from the first with all further bits
\* clear to the last with all of them set.
Span(f) == (f.min - f.zero) * Shift(f.further) ..
           (f.max - f.zero) * Shift(f.further) + Shift(f.further) - 1

\* Any form of the grammar that holds the number, however long.
PeerEncode ==
    /\ phase = "encode" /\ phase' = "transit" /\ byPeer' = TRUE
    /\ LET n == value.lo
       IN  \/ value.kind = "int" /\ wire' = <<73>> \o Low(n, 4)
           \/ \E f \in IntCodes : value.kind = "int" /\ n \in Span(f) /\ wire' = Written(f, n)
           \/ value.kind = "long" /\ wire' = <<76>> \o Low(value.hi, 4) \o Low(n, 4)
           \/ value.kind = "long" /\ IsNarrow(value) /\ wire' = <<89>> \o Low(n, 4)
           \/ \E f \in LongCodes : /\ value.kind = "long" /\ IsNarrow(value) /\ n \in Span(f)
                                   /\ wire' = Written(f, n)
           \/ IsDouble(value) /\ wire' = <<68>> \o Memory(value)
           \/ value.kind = "thousandths" /\ wire' = <<95>> \o Low(n, 4)
           \/ value.kind = "double" /\ n \in Int8 /\ wire' = <<93>> \o Low(n, 1)
           \/ value.kind = "double" /\ n \in Int16 /\ wire' = <<94>> \o Low(n, 2)
    /\ UNCHANGED <<value, arrived, asked, result, error>>

\* The reader has the beginning, or all of it and perhaps the next value's code.
Deliver ==
    /\ phase = "transit" /\ phase' = "decode"
    /\ \/ \E k \in 0 .. Len(wire) : arrived' = SubSeq(wire, 1, k)
       \/ \E next \in {0, 255} : arrived' = Append(wire, next)
    /\ UNCHANGED <<value, wire, byPeer, asked, result, error>>

Decode ==
    /\ phase = "decode" /\ phase' = "done"
    /\ \/ asked' = "Object" /\ result' = DecodeObject(arrived)
       \/ asked' = "int"    /\ result' = DecodeInt(arrived)
       \/ asked' = "long"   /\ result' = DecodeLong(arrived)
       \/ asked' = "double" /\ result' = DecodeDouble(arrived)
       \/ asked' = "bool"   /\ result' = DecodeBool(arrived)
       \/ asked' = "null"   /\ result' = DecodeNull(arrived) /\ value = NullOb
    /\ error' = (asked' = "bool" /\ result'.value = Null)
    /\ UNCHANGED <<value, wire, byPeer, arrived>>

Next == Encode \/ PeerEncode \/ Deliver \/ Decode

Spec == Init /\ [][Next]_vars

-----------------------------------------------------------------------------
\* The type an Object has that holds the value sent.
TypeSent ==
    CASE IsDouble(value)         -> "double"
      [] value.kind = "uint32"   -> "long"
      [] OTHER                   -> value.kind

\* The number as == compares it: an unsigned one is that of an int64_t, and the
\* sign of zero is not seen, which number_codec.cc:64 does not write.
Number ==
    CASE value.kind = "uint32"     -> LongOf(0, value.lo)
      [] value.kind = "minus zero" -> IF byPeer THEN value ELSE DoubleOf(0)
      [] OTHER                     -> value

\* decode<Object>, and decode of the type that was sent, give back the number and
\* stop where the next value begins, whichever form its encoder or a peer chose.
\* What lost its end is refused, and so is a value of another type: it is never
\* taken for a number of the type asked for (number_codec.cc against the dispatch
\* in object_codec.cc).
RoundTrip ==
    phase = "done" =>
        IF Len(arrived) < Len(wire) \/ asked \notin {"Object", TypeSent}
        THEN result.value = Null
        ELSE result = [value |-> Number, used |-> Len(wire)] /\ ~error

\* No form with fewer bytes reads as the same number: the ranges that the
\* encoder compares with reach as far as the codes that the decoder knows.
Shortest ==
    phase = "transit" /\ ~byPeer /\ (value.kind = "int" \/ (value.kind = "long" /\ IsNarrow(value))) =>
        \A f \in IF value.kind = "int" THEN IntCodes ELSE LongCodes :
            f.further + 1 < Len(wire) => value.lo \notin Span(f)

=============================================================================
