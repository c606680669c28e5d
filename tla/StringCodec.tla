----------------------------- MODULE StringCodec -----------------------------
(***************************************************************************)
(* string_codec.cc: a string cut into chunks of STRING_CHUNK_SIZE          *)
(* characters and read back by finalReadUtf8String, which does not know    *)
(* how many bytes a chunk has: it reads as many bytes as characters are    *)
(* missing, completes the last one, counts, and goes on.                   *)
(*                                                                         *)
(* A byte is what the tables see of it: the length of the character it     *)
(* begins, 0 if it begins none.  Four kinds are set apart for the build    *)
(* with COMPATIBLE_WITH_JAVA_HESSIAN_LITE.                                 *)
(***************************************************************************)
EXTENDS Integers, Sequences, SequencesExt

CONSTANTS
    STRING_CHUNK_SIZE,  \* 32768
    ShortMax,           \* 31: the most characters whose number is the code
    MidMax,             \* 1023: ... the code and one byte
    Cases,              \* what is sent: [data |-> bytes, java |-> the build has
                        \* COMPATIBLE_WITH_JAVA_HESSIAN_LITE, peer |-> who sends
                        \* it is not this encoder]
    MaxWire             \* bound: a peer opens no other chunk beyond this length

High == 5       \* xED xA.: begins a high surrogate, 3 bytes
Low == 6        \* xED xB.: begins a low surrogate, 3 bytes
Beyond == 7     \* begins 4 bytes that are no code point above xFFFF

CharLength == [c \in 0 .. 7 |-> IF c <= 4 THEN c ELSE IF c = Beyond THEN 4 ELSE 3]

Char(c) == [i \in 1 .. CharLength[c] |-> IF i = 1 THEN c ELSE 0]

\* No byte inside a character begins another one.
Whole(s) == \A i \in DOMAIN s : \A j \in 1 .. CharLength[s[i]] - 1 :
                i + j \in DOMAIN s => s[i + j] = 0

\* escapeFourBytesUtf8Char puts the bits of 4 bytes together whatever the last
\* three are: what a build for Java is given is UTF-8.
ASSUME StringAssumption ==
    /\ {STRING_CHUNK_SIZE, ShortMax, MidMax, MaxWire} \subseteq Nat
    /\ STRING_CHUNK_SIZE > 0 /\ ShortMax <= MidMax
    /\ \A c \in Cases : /\ c.data \in Seq(0 .. 7)
                        /\ c.java \in BOOLEAN /\ c.peer \in BOOLEAN
                        /\ c.java => Whole(c.data)

\* getUtf8StringLength: characters begun in s, and where the last one ends,
\* which may be beyond s; chars is -1 if a byte is met that begins none.
Scan(s) ==
    LET walk[p \in 0 .. Len(s) + 3] ==
          IF p >= Len(s) THEN [chars |-> 0, end |-> p]
          ELSE LET w == CharLength[s[p + 1]]
                   rest == walk[p + w]
               IN  IF w = 0 \/ rest.chars = -1
                   THEN [chars |-> -1, end |-> 0]
                   ELSE [rest EXCEPT !.chars = @ + 1]
    IN  walk[0]

\* getUtf8StringLengthAndPerChunkOffsets: the length ...
Utf8Length(s) == IF Scan(s).end > Len(s) THEN -1 ELSE Scan(s).chars

\* ... and the offset in bytes at which character n ends.
ByteOffset(s, n) ==
    LET off[k \in 0 .. n] ==
          IF k = 0 THEN 0
          ELSE LET start == off[k - 1] IN start + CharLength[s[start + 1]]
    IN  off[n]

\* Characters m + 1 to n of s.
Segment(s, m, n) == SubSeq(s, ByteOffset(s, m) + 1, ByteOffset(s, n))

\* escapeFourBytesUtf8Char: a character of 4 bytes as a surrogate pair.
Escape(s) ==
    LET from[i \in 1 .. Len(s) + 1] ==
          IF i > Len(s) THEN <<>>
          ELSE LET next == i + CharLength[s[i]]
               IN  (IF s[i] = 4 THEN Char(High) \o Char(Low)
                                ELSE SubSeq(s, i, next - 1)) \o from[next]
    IN  from[1]

\* unescapeFourBytesUtf8Char: a pair, from left to right, as 4 bytes.
Unescape(s) ==
    LET from[i \in 1 .. Len(s) + 1] ==
          IF i > Len(s) THEN <<>>
          ELSE IF s[i] = High /\ i + 5 <= Len(s) /\ s[i + 3] = Low
               THEN Char(4) \o from[i + 6]
          ELSE LET next == i + CharLength[s[i]]
               IN  SubSeq(s, i, next - 1) \o from[next]
    IN  from[1]

VARIABLES
    data,     \* the string to be sent
    java,     \* the build is compatible with Java
    peer,     \* the sender cuts the string where it likes
    text,     \* rewrite_data: what is cut into chunks
    sent,     \* how many of its characters are in chunks already
    wire,     \* what the reader can read: codes with their length, and bytes
    cut,      \* the transport lost the end of it
    phase,    \* "encode", "chunk", "transit", "code", "fill", "ok", "false", "refused"
    pos,      \* the reader's offset
    output,   \* the decoder's output
    length,   \* characters of the chunk still to be read
    final     \* is_last_chunk

encVars == <<data, java, peer, text, sent>>
decVars == <<pos, output, length, final>>
vars == <<encVars, wire, cut, phase, decVars>>

Code(op, n) == [op |-> op, n |-> n]
Bytes(s) == [i \in 1 .. Len(s) |-> Code("data", s[i])]
NextValue == Code("next", 0)     \* first byte of the value that comes after

Total == Utf8Length(text)
Left == Total - sent
Available == Len(wire) - pos

Init ==
    /\ \E c \in Cases : data = c.data /\ java = c.java /\ peer = c.peer
    /\ text = <<>> /\ sent = 0 /\ wire = <<>> /\ cut = FALSE
    /\ phase = "encode" /\ pos = 0 /\ output = <<>> /\ length = 0 /\ final = FALSE

-----------------------------------------------------------------------------
(* Encoder::encode *)

Measure ==
    /\ phase = "encode"
    /\ IF Utf8Length(data) = -1 \/ (java /\ Contains(data, Beyond))
       THEN phase' = "refused" /\ UNCHANGED text
       ELSE /\ phase' = "chunk"
            /\ text' = IF java THEN Escape(data) ELSE data
    /\ UNCHANGED <<data, java, peer, sent, wire, cut, decVars>>

\* Chunk op with the next n characters.
WriteChunk(op, n) ==
    /\ wire' = wire \o <<Code(op, n)>> \o Bytes(Segment(text, sent, sent + n))
    /\ sent' = sent + n
    /\ UNCHANGED <<data, java, peer, text, cut, decVars>>

\* An iteration of the loop.
EncodeChunk ==
    /\ phase = "chunk" /\ ~peer /\ Left > STRING_CHUNK_SIZE
    /\ WriteChunk("R", STRING_CHUNK_SIZE)
    /\ UNCHANGED phase

\* What is left after it; the length decides on the code.
EncodeLast ==
    /\ phase = "chunk" /\ ~peer /\ Left <= STRING_CHUNK_SIZE
    /\ WriteChunk(IF Left <= ShortMax THEN "short"
                  ELSE IF Left <= MidMax THEN "mid" ELSE "S", Left)
    /\ phase' = "transit"

-----------------------------------------------------------------------------
(* A peer that follows the grammar cuts its string where it likes. *)

PeerChunk ==
    /\ phase = "chunk" /\ peer /\ Len(wire) < MaxWire
    /\ \E n \in 0 .. Left : WriteChunk("R", n)
    /\ UNCHANGED phase

PeerLast ==
    /\ phase = "chunk" /\ peer
    /\ \/ Left <= ShortMax /\ WriteChunk("short", Left)
       \/ Left <= MidMax /\ WriteChunk("mid", Left)
       \/ WriteChunk("S", Left)
    /\ phase' = "transit"

-----------------------------------------------------------------------------
(* The transport: all of it, followed by another value, or the beginning. *)

Deliver ==
    /\ phase = "transit"
    /\ \/ wire' = Append(wire, NextValue) /\ UNCHANGED cut
       \/ \E k \in 0 .. Len(wire) - 1 :
              wire' = SubSeq(wire, 1, k) /\ cut' = TRUE
    /\ phase' = "code"
    /\ UNCHANGED <<encVars, decVars>>

-----------------------------------------------------------------------------
(* decodeStringWithReader, readChunkString and finalReadUtf8String *)

Chunks == {"short", "mid", "S", "R"}

DecodeNoChunk ==
    /\ phase = "code"
    /\ Available > 0 => wire[pos + 1].op \notin Chunks
    /\ phase' = "false"
    /\ UNCHANGED <<encVars, wire, cut, decVars>>

DecodeCode ==
    /\ phase = "code" /\ Available > 0 /\ wire[pos + 1].op \in Chunks
    /\ length' = wire[pos + 1].n
    /\ final' = (wire[pos + 1].op # "R")
    /\ pos' = pos + 1
    /\ phase' = "fill"
    /\ UNCHANGED <<encVars, wire, cut, output>>

Ahead(n) == [i \in 1 .. n |-> wire[pos + i].n]

\* Slip: the last character is not completed.
FillUnpadded ==
    /\ phase = "fill" /\ length > 0
    /\ LET scan == Scan(Ahead(length))
       IN  IF Available < length \/ scan.chars = -1
           THEN phase' = "false" /\ UNCHANGED decVars
           ELSE /\ output' = output \o Ahead(length)
                /\ pos' = pos + length
                /\ length' = length - scan.chars
                /\ UNCHANGED <<phase, final>>
    /\ UNCHANGED <<encVars, wire, cut>>

\* Slip: only whole characters are read, so a long one may never be.
FillWhole ==
    /\ phase = "fill" /\ length > 0
    /\ LET scan == Scan(Ahead(length))
           whole == scan.end <= length
       IN  IF Available < length \/ scan.chars = -1
           THEN phase' = "false" /\ UNCHANGED decVars
           ELSE /\ output' = IF whole THEN output \o Ahead(length) ELSE output
                /\ pos' = IF whole THEN pos + length ELSE pos
                /\ length' = IF whole THEN length - scan.chars ELSE length
                /\ UNCHANGED <<phase, final>>
    /\ UNCHANGED <<encVars, wire, cut>>

\* Slip: bytes taken off where characters are counted.
FillBytes ==
    /\ phase = "fill" /\ length > 0
    /\ LET scan == Scan(Ahead(length))
           size == IF scan.end > length THEN scan.end ELSE length
       IN  IF Available < length \/ scan.chars = -1 \/ Available < size
           THEN phase' = "false" /\ UNCHANGED decVars
           ELSE /\ output' = output \o Ahead(size)
                /\ pos' = pos + size
                /\ length' = length - size
                /\ UNCHANGED <<phase, final>>
    /\ UNCHANGED <<encVars, wire, cut>>

\* An iteration: at most as many characters as bytes were read.
Fill ==
    /\ phase = "fill" /\ length > 0
    /\ LET scan == Scan(Ahead(length))
           size == IF scan.end > length THEN scan.end ELSE length
       IN  IF \/ Available < length
              \/ scan.chars = -1
              \/ Available < size
           THEN phase' = "false" /\ UNCHANGED decVars
           ELSE /\ output' = output \o Ahead(size)
                /\ pos' = pos + size
                /\ length' = length - scan.chars
                /\ UNCHANGED <<phase, final>>
    /\ UNCHANGED <<encVars, wire, cut>>

Filled ==
    /\ phase = "fill" /\ length = 0
    /\ phase' = IF final THEN "ok" ELSE "code"
    /\ output' = IF final /\ java THEN Unescape(output) ELSE output
    /\ UNCHANGED <<encVars, wire, cut, pos, length, final>>

Decode == DecodeNoChunk \/ DecodeCode \/ Fill \/ Filled

Next ==
    \/ Measure \/ EncodeChunk \/ EncodeLast \/ PeerChunk \/ PeerLast
    \/ Deliver \/ Decode

Spec == Init /\ [][Next]_vars /\ WF_vars(Next)

-----------------------------------------------------------------------------
\* A surrogate pair in the string itself, which is then not UTF-8.
HasPair(s) == \E i \in 1 .. Len(s) - 3 : s[i] = High /\ s[i + 3] = Low

\* Every string the encoder accepts comes back byte for byte, wherever the
\* chunks divide it and however many bytes its characters have, and the
\* reader stands at the next value; one that lost its end in transit is
\* never passed off as complete, and one that arrives whole is never refused
\* (finalReadUtf8String against encode).
RoundTrip ==
    /\ phase = "ok" => /\ (java /\ HasPair(data)) \/ output = data
                       /\ ~cut /\ Available = 1
    /\ phase = "false" => cut

\* An iteration of finalReadUtf8String that is not the last one leaves fewer
\* characters to be read, and never fewer than none: length is a size_t, and a
\* character counted twice, or one beyond the chunk, would make it a huge number.
Shrinks == [][phase = "fill" /\ phase' = "fill" => length' \in 0 .. length - 1]_vars

\* The padding loop ends, and with it the decoder, for every string on the wire.
Terminates == <>(phase \in {"ok", "false", "refused"})
=============================================================================
