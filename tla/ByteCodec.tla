------------------------------ MODULE ByteCodec ------------------------------
(***************************************************************************)
(* byte_codec.cc: binary data cut into chunks by Encoder::encode and put   *)
(* together again by decodeBytesWithReader, over a transport that may stop *)
(* early.  The sender is this encoder, or a peer that cuts its data where  *)
(* it likes.                                                               *)
(*                                                                         *)
(* A wire element is a byte of data, or the code of a chunk together with  *)
(* the length bytes that follow it.                                        *)
(***************************************************************************)
EXTENDS Integers, Sequences

CONSTANTS
    CHUNK_SIZE,    \* 1024: the data of a chunk that is not the last one
    Short,         \* 16: data of fewer bytes has its length in the code
    Mid,           \* 1024: ... in the code and one byte
    MaxSize        \* bound: size of the data

ASSUME ByteAssumption ==
    /\ {CHUNK_SIZE, Short, Mid, MaxSize} \subseteq Nat
    /\ CHUNK_SIZE > 0 /\ Mid > 0 /\ Short <= Mid

VARIABLES
    data,     \* the bytes to be sent
    peer,     \* who sends them is not this encoder
    sent,     \* how many of them are in chunks already
    wire,     \* what the reader can read
    cut,      \* the transport lost the end of it
    phase,    \* "encode", "transit", "code", "ok" or "false"
    pos,      \* the reader's offset
    output,   \* the decoder's output
    hollow    \* history: the peer has sent an empty chunk that is not the last one

vars == <<data, peer, sent, wire, cut, phase, pos, output, hollow>>

Code(op, n) == [op |-> op, n |-> n]
Bytes(s) == [i \in 1 .. Len(s) |-> Code("data", s[i])]
Next8 == Code("next", 0)     \* first byte of the value that comes after

Left == Len(data) - sent
Available == Len(wire) - pos

Init ==
    /\ \E n \in 0 .. MaxSize : data = [i \in 1 .. n |-> i]
    /\ peer \in BOOLEAN
    /\ sent = 0 /\ wire = <<>> /\ cut = FALSE
    /\ phase = "encode" /\ pos = 0 /\ output = <<>> /\ hollow = FALSE

\* Chunk op with the next n bytes.
WriteChunk(op, n) ==
    /\ wire' = wire \o <<Code(op, n)>> \o Bytes(SubSeq(data, sent + 1, sent + n))
    /\ sent' = sent + n
    /\ UNCHANGED <<data, peer, cut, pos, output>>

-----------------------------------------------------------------------------
(* Encoder::encode *)

EncodeWhole ==
    /\ phase = "encode" /\ ~peer /\ Len(data) < Mid
    /\ WriteChunk(IF Len(data) < Short THEN "short" ELSE "mid", Len(data))
    /\ phase' = "transit"

\* Slip: a loop that leaves nothing for the final chunk.
EncodeChunkToTheEnd ==
    /\ phase = "encode" /\ ~peer /\ Len(data) >= Mid /\ Left >= CHUNK_SIZE
    /\ WriteChunk("A", CHUNK_SIZE)
    /\ UNCHANGED phase

\* An iteration of the loop.
EncodeChunk ==
    /\ phase = "encode" /\ ~peer /\ Len(data) >= Mid /\ Left > CHUNK_SIZE
    /\ WriteChunk("A", CHUNK_SIZE)
    /\ UNCHANGED phase

EncodeLast ==
    /\ phase = "encode" /\ ~peer /\ Len(data) >= Mid /\ Left <= CHUNK_SIZE
    /\ IF Left > 0 THEN WriteChunk("B", Left)
                   ELSE UNCHANGED <<data, peer, sent, wire, cut, pos, output>>
    /\ phase' = "transit"

-----------------------------------------------------------------------------
(* A peer *)

PeerChunk ==
    /\ phase = "encode" /\ peer
    /\ \E n \in 1 .. Left : WriteChunk("A", n)
    /\ UNCHANGED phase

\* "'A' b1 b0 <binary-data> binary" may be empty; bound: one such chunk.
PeerEmptyChunk ==
    /\ phase = "encode" /\ peer /\ ~hollow
    /\ WriteChunk("A", 0)
    /\ hollow' = TRUE /\ UNCHANGED phase

PeerLast ==
    /\ phase = "encode" /\ peer
    /\ \/ Left < Short /\ WriteChunk("short", Left)
       \/ Left < Mid /\ WriteChunk("mid", Left)
       \/ WriteChunk("B", Left)
    /\ phase' = "transit"

-----------------------------------------------------------------------------
(* The transport: all of it, followed by another value, or the beginning. *)

Deliver ==
    /\ phase = "transit"
    /\ \/ wire' = Append(wire, Next8) /\ UNCHANGED cut
       \/ \E k \in 0 .. Len(wire) - 1 :
              wire' = SubSeq(wire, 1, k) /\ cut' = TRUE
    /\ phase' = "code"
    /\ UNCHANGED <<data, peer, sent, pos, output>>

-----------------------------------------------------------------------------
(* decodeBytesWithReader and readBytes, one step per chunk *)

Chunks == {"short", "mid", "B", "A"}

\* No code to read, or one that is no chunk's.
DecodeNoChunk ==
    /\ phase = "code"
    /\ Available > 0 => wire[pos + 1].op \notin Chunks
    /\ phase' = "false"
    /\ UNCHANGED <<data, peer, sent, wire, cut, pos, output>>

\* Slip: a chunk is read to the beginning of the output.
DecodeChunkOverwriting ==
    /\ phase = "code" /\ Available > 0
    /\ LET code == wire[pos + 1]
       IN  /\ code.op \in Chunks /\ 0 < code.n /\ code.n < Available
           /\ output' = [i \in 1 .. Len(output) + code.n |->
                            IF i <= code.n THEN wire[pos + 1 + i].n ELSE 0]
           /\ pos' = pos + 1 + code.n
           /\ phase' = IF code.op = "A" THEN "code" ELSE "ok"
    /\ UNCHANGED <<data, peer, sent, wire, cut>>

DecodeChunk ==
    /\ phase = "code" /\ Available > 0
    /\ LET code == wire[pos + 1]
           length == code.n
       IN  /\ code.op \in Chunks
           /\ \/ /\ length = 0            \* whichever chunk it is
                 /\ phase' = "ok"
                 /\ pos' = pos + 1
                 /\ UNCHANGED output
              \/ /\ length > Available - 1
                 /\ phase' = "false"
                 /\ pos' = pos + 1
                 /\ UNCHANGED output
              \/ /\ 0 < length /\ length < Available
                 /\ output' = output \o [i \in 1 .. length |-> wire[pos + 1 + i].n]
                 /\ pos' = pos + 1 + length
                 /\ phase' = IF code.op = "A" THEN "code" ELSE "ok"
    /\ UNCHANGED <<data, peer, sent, wire, cut>>

Decode == DecodeNoChunk \/ DecodeChunk

Next ==
    \/ /\ \/ EncodeWhole \/ EncodeChunk \/ EncodeLast \/ PeerChunk \/ PeerLast
          \/ Deliver \/ Decode
       /\ UNCHANGED hollow
    \/ PeerEmptyChunk

Spec == Init /\ [][Next]_vars

-----------------------------------------------------------------------------
\* What is decoded is all that was encoded, and the reader stands at the
\* next value: data that lost its end in transit is never passed off as
\* complete, wherever it was cut, and data that arrives whole is never
\* refused (readBytes).  A peer must send no empty chunk but the last: readBytes
\* returns at it (byte_codec.cc:118), and what follows is taken for another value.
RoundTrip ==
    ~hollow =>
        /\ phase = "ok" => output = data /\ ~cut /\ Available = 1
        /\ phase = "false" => cut

\* Even then the output never holds anything but the beginning of the data, in its
\* order (decodeBytesWithReader grows it chunk by chunk).
Beginning == Len(output) <= Len(data) /\ output = SubSeq(data, 1, Len(output))
=============================================================================
