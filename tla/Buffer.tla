------------------------------- MODULE Buffer -------------------------------
(***************************************************************************)
(* writer.hpp, string_writer.hpp, reader.hpp, string_reader.hpp and        *)
(* byte_order.h: integers of any width, in any byte order, appended to a   *)
(* std::string and taken from it again, and the offset of the reader.      *)
(*                                                                         *)
(* An integral T is the sequence of its bytes, lowest first; what memory   *)
(* holds depends on the host.                                              *)
(***************************************************************************)
EXTENDS Integers, Sequences

CONSTANTS
    Half,           \* a byte is less than 2 * Half, a signed one negative from Half on
    Widths,         \* the sizeof(T) there are
    Wrap,           \* uint64_t is less than Wrap
    MaxLength,      \* the writer stops at this many bytes
    Offsets         \* what callers pass as peek_offset and as len

ASSUME ConstantsAssumption ==
    /\ Half \in Nat \ {0}
    /\ Widths \subseteq Nat \ {0}
    /\ Wrap \in Nat /\ MaxLength \in Nat /\ MaxLength < Wrap
    /\ \A w \in Widths : w < Wrap
    /\ Offsets \subseteq 0 .. Wrap - 1

Byte   == 0 .. 2 * Half - 1
Hosts  == {"LittleEndian", "BigEndian"}
Orders == Hosts \cup {"Host"}

\* The values of the integral types.
Integral == UNION {[1 .. w -> Byte] : w \in Widths}

\* A call of peek or read: the type, how many of its bytes, and their order.
Calls == UNION {[width : {w}, size : 1 .. w, signed : BOOLEAN, order : Orders] : w \in Widths}
Sizes == UNION {1 .. w : w \in Widths}

VARIABLES
    host,              \* the byte order of the machine
    buffer,            \* std::string data_, later the view buffer_
    initial_offset_,   \* Reader
    reading,           \* the writer is done, a StringReader is made
    items,             \* history: what was written, where, in which order
    strayed,           \* history: a caller went past the end of the buffer
    fault              \* how the program went wrong

vars == <<host, buffer, initial_offset_, reading, items, strayed, fault>>

-----------------------------------------------------------------------------
(* byte_order.h *)

Reversed(m) == [i \in 1 .. Len(m) |-> m[Len(m) - i + 1]]

\* ByteOrderConverter::to and ::from, which are the same on every host.
Convert(order, v) == IF order \in {"Host", host} THEN v ELSE Reversed(v)

\* The bytes of v as they lie in memory, and the other way round.
InMemory(v) == IF host = "LittleEndian" THEN v ELSE Reversed(v)

-----------------------------------------------------------------------------
(* uint64_t arithmetic *)

Plus(a, b)  == IF a + b < Wrap THEN a + b ELSE a + b - Wrap
Minus(a, b) == IF b <= a THEN a - b ELSE a - b + Wrap

byteAvailable == Minus(Len(buffer), initial_offset_)

(* Reader *)

\* Slips: one byte more than there is; the bytes of a short big-endian integer
\* put at the wrong end.
PassesLate(size, off) == Minus(byteAvailable, off) >= size - 1
DisplacementNone(c) == 0

\* peek returns false if the bytes are not there.
Passes(size, off) == Minus(byteAvailable, off) >= size

Displacement(c) == IF c.order = "BigEndian" THEN c.width - c.size ELSE 0

\* result, as the bytes read from position pos have left it in memory.
Filled(c, pos) ==
    [i \in 1 .. c.width |->
        IF i \in Displacement(c) + 1 .. Displacement(c) + c.size
        THEN buffer[pos + i - Displacement(c)]
        ELSE 0]

\* sign_extension_bits are not 0.
Extends(c, m) ==
    /\ c.signed /\ c.size < c.width
    /\ m[IF c.order = "BigEndian" THEN Displacement(c) + 1 ELSE c.size] >= Half

\* What peek returns: all the bits above the bytes read are set, or left alone.
Peeked(c, off) ==
    LET m == Filled(c, Plus(initial_offset_, off))
        v == Convert(c.order, InMemory(m))
    IN  [i \in 1 .. c.width |-> IF i > c.size /\ Extends(c, m) THEN 2 * Half - 1 ELSE v[i]]

(* StringReader::rawReadNBytes.  substr throws when it starts after the    *)
(* end, and gives less than len when it ends there, which memcpy ignores;  *)
(* the assertion (of a build that has them) adds peek_offset where it      *)
(* would have to subtract it.                                              *)
RawRead(len, off) ==
    LET pos == Plus(initial_offset_, off)
    IN  IF pos + len <= Len(buffer) THEN {"none"}
        ELSE {IF pos > Len(buffer) THEN "throws" ELSE "overread"} \cup
             (IF Plus(byteAvailable, off) < len THEN {"aborts"} ELSE {})

-----------------------------------------------------------------------------
Init ==
    /\ host \in Hosts
    /\ buffer = <<>> /\ initial_offset_ = 0 /\ reading = FALSE
    /\ items = <<>> /\ strayed = FALSE /\ fault = "none"

\* StringWriter::rawWrite
RawWrite(bytes) == buffer' = buffer \o bytes

\* write<order>(value), writeLE, writeBE, writeByte.
Write(order, v) ==
    /\ ~reading /\ Len(buffer) + Len(v) <= MaxLength
    /\ RawWrite(InMemory(Convert(order, v)))
    /\ items' = Append(items, [at |-> Len(buffer), order |-> order, value |-> v])
    /\ UNCHANGED <<host, initial_offset_, reading, strayed, fault>>

Open ==
    /\ ~reading /\ reading' = TRUE
    /\ UNCHANGED <<host, buffer, initial_offset_, items, strayed, fault>>

\* peek(off): nothing changes unless the bytes are not there.
Peek(size, off) ==
    /\ reading /\ fault = "none" /\ Passes(size, off)
    /\ fault' \in RawRead(size, off)
    /\ strayed' = (strayed \/ off > byteAvailable)
    /\ UNCHANGED <<host, buffer, initial_offset_, reading, items>>

\* A slip: the width of the type, not the bytes read, is added to the offset.
ReadWidth(c) ==
    /\ reading /\ fault = "none" /\ Passes(c.size, 0)
    /\ fault' \in RawRead(c.size, 0)
    /\ initial_offset_' = Plus(initial_offset_, c.width)
    /\ UNCHANGED <<host, buffer, reading, items, strayed>>

\* read, readLE, readBE.  One that returns false leaves the offset alone.
Read(c) ==
    /\ reading /\ fault = "none" /\ Passes(c.size, 0)
    /\ fault' \in RawRead(c.size, 0)
    /\ initial_offset_' = Plus(initial_offset_, c.size)
    /\ UNCHANGED <<host, buffer, reading, items, strayed>>

\* readNBytes, which leaves it to its callers to ask byteAvailable first.
ReadNBytes(len) ==
    /\ reading /\ fault = "none"
    /\ fault' \in RawRead(len, 0)
    /\ initial_offset_' = Plus(initial_offset_, len)
    /\ strayed' = (strayed \/ len > byteAvailable)
    /\ UNCHANGED <<host, buffer, reading, items>>

Next ==
    \/ \E order \in Orders, v \in Integral : Write(order, v)
    \/ Open
    \/ \E size \in Sizes, off \in Offsets : Peek(size, off)
    \/ \E c \in Calls : Read(c)
    \/ \E len \in Offsets : ReadNBytes(len)

Spec == Init /\ [][Next]_vars

-----------------------------------------------------------------------------
\* As long as no caller passes an offset or a length beyond byteAvailable, no
\* read leaves the buffer, whatever mixture of peek, read and readNBytes came
\* before (reader.hpp:35, string_reader.hpp:17).
InBounds == ~strayed => fault = "none" /\ initial_offset_ <= Len(buffer)

\* v as an integer of another type: static_cast.
Widened(v, width, signed) ==
    [i \in 1 .. width |-> IF i <= Len(v) THEN v[i]
                          ELSE IF signed /\ v[Len(v)] >= Half THEN 2 * Half - 1
                          ELSE 0]

\* Whoever comes to the place of an integer, by reading what is before it or with
\* a peek_offset, and asks for as many bytes in the same order gets that integer,
\* in the type he asks for.  Only a part of a type in the order of a big-endian
\* host is left out: nothing in the code asks for it, and it would come out wrong.
ReadBack ==
    reading /\ ~strayed =>
        \A k \in DOMAIN items, c \in Calls :
            /\ c.size = Len(items[k].value) /\ c.order = items[k].order
            /\ c.order = "Host" /\ host = "BigEndian" => c.size = c.width
            /\ initial_offset_ <= items[k].at
            => LET off == items[k].at - initial_offset_
               IN  /\ Passes(c.size, off)
                   /\ Peeked(c, off) = Widened(items[k].value, c.width, c.signed)

=============================================================================
