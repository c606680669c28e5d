# A verification of hessian2-codec

hessian2-codec turns C++ values into the Hessian 2.0 wire format and back. This
directory holds TLA+ models of it, the TLC configurations that check them on small
instances, and theorems about every part - the reference tables, object graphs
and their decoding, strings, binary data, numbers, dates, the buffers, the equality of objects and
the hash tables - that TLAPS checks for all instances. `PROJECT.json` maps every definition to the lines it stands for and lists
the runs, theorems and findings; this text explains them.

    tlc -config ObjectStream.cfg MCObjectStream      # a run
    tlapm RefTablesProofs.tla                        # the proofs

## 1. The system

| part | state | operations | depends on |
|---|---|---|---|
| `Encoder` (`codec.hpp`, `codec.cc`) | `types_ref_` (name to index), `def_ref_` (sequence of definitions), `values_ref_` (address of a container to index), writer | `encode<T>`, the begin/end API | Writer, one handler per type under `basic_codec/` |
| `Decoder` (`codec.hpp`) | `types_ref_`, `def_ref_`, `values_ref_` (raw pointers to the containers decoded), reader offset, error code | `decode<T>` | Reader, the handlers |
| type, definition and object references (`type_ref_codec.cc`, `def_ref_codec.cc`, `ref_object_codec.cc`) | the three tables | write a name once and its index afterwards; look an index up | Encoder and Decoder through the wire |
| containers (`object_codec.cc`, `list_codec.cc`, `map_codec.cc`, `class_instance_codec.cc`) | activation records; the containers being built | recursive encode and decode | references, scalars, Object |
| strings, binaries (`string_codec.cc`, `byte_codec.cc`) | offsets of chunks, characters left | cut into chunks, join | Reader, Writer |
| numbers, dates, booleans, null | an error code for booleans | compact forms | Reader, Writer |
| `Object` (`object.hpp`) | values and who owns them; one static hash of all binaries | equality, hash, hash tables keyed by them, debug string | map decoding uses equality and hash |
| Reader, Writer (`reader.hpp`, `string_reader.hpp`, `writer.hpp`, `string_writer.hpp`) | buffer and offset | peek with an offset, read, readNBytes; write | byte order |
| byte order (`byte_order.h`) | none | host to little or big endian and back | - |

Nothing in the library is concurrent by design: a codec belongs to one thread. What
makes it hard is something else.

* *Two sides count alike.* An index means something only because the encoder and the
  decoder register names, definitions and containers at the same moments; each
  handler has to get its place in this right, nested calls included.
* *Lifetime.* The decoder keeps unowned pointers to containers that are still being
  built, may be abandoned by a failure further down, or be dropped by a map that
  meets a key twice.
* *Partial failure.* A handler that gives up must take everything built above and
  below it along; an encoder whose element fails has already promised it.
* *Boundaries.* Chunk sizes, characters against bytes, surrogate pairs divided by a
  chunk, int16_t indices, the limits of compact number forms, dates before 1970.
* *Order.* Maps are encoded in an order nobody chose.
* *Mutable keys.* A key is hashed once, when it is put into a map; what it is, holds or
  refers to can change afterwards, in a decoder regularly.
* *Unsigned arithmetic.* The reader compares `uint64_t` differences that wrap, and not every
  caller of it asks first.

What correctness means for each part: references and tables - the decoder delivers
what the encoder was given, and the tables agree; containers - a graph comes back
equal, with its cycles, every input is decoded or rejected, nothing is lost and no
pointer dangles; strings, binaries, numbers, dates - what is accepted comes back, what
lost its end is rejected; objects - what was put into a map is found by an equal key;
buffers - no read leaves the buffer, and an integer is read as it was written. The list of hazards, each at its line and with the
properties that guard it, is in `PROJECT.json`.

## 2. The modules

    EventChannel <== RefTables <- MCRefTables            RefTablesProofs (theorems)
    ObjectWire <- ObjectEncoder, ObjectDecoder <- ObjectRoundTrip <- MCObjectRoundTrip
                                                         ObjectRoundTripProofs (theorems)
                                 ObjectDecoder <- ObjectStream    <- MCObjectStream
                                                         ObjectStreamProofs (theorems)
    ByteCodec                     ByteCodecProofs (theorems)
    StringCodec <- MCStringCodec  StringCodecProofs (theorems)
    NumberCodec <- MCNumberCodec  NumberCodecProofs (theorems)
    DateCodec <- MCDateCodec
    Buffer <- MCBuffer            ScalarProofs (theorems, of DateCodec and of Buffer)
    ObjectMap <- MCObjectMap      ObjectMapProofs (theorems)

**RefTables.** The state of the two sides' tables, the tokens between them, and one
action for the prologue of each handler: `EncodeTyped`, `EncodeUntyped`,
`EncodeClass`, `EncodeRef`, the three begin calls, `DecodeTyped`, `DecodeUntyped`,
`DecodeClass` (with `DecodeInstance` for either form of the index) and `DecodeRef`.
The elements of a container are further handler calls, so that every nesting is one
of the interleavings. A table that never erases and numbers each new key with its
size is a sequence of keys without repetition. Indices have their width:
they are kept modulo `2 * Half` (`uint16_t`) and read through `AsInt16`. `streamed`
says that the begin/end API was used, after which the caller must write no reference
(`codec.hpp` says references are not supported there); `Again` is the set of objects
the caller hands to `encode` more than once. `elog`, `dlog`, `begun` and `mark` are
history variables for the properties and the proof.
`EventChannel` is what the two promise together: a FIFO channel of logical events, with
no index in it. `RefTables` implements it with `sent <- elog`, `rcvd <- dlog`.

**ObjectEncoder, ObjectDecoder.** The recursion of `encode<Object>` and
`decode<Object>` with an explicit stack, one step per value written or read. The
encoder works on an object graph (`heap`) whose containers form a tree and whose
`RefObject`s share and close cycles. The decoder gives a container its position in
`values_ref_` as its address, keeps in `alive` which of them still exist, and lets a
value in flight carry the containers it owns: `Unwind` destroys what the activation
records own, `Emplace` what a repeated key brings, and nothing else frees memory.
A call fails by returning nullptr (`Abort`), or by an exception: `reserve()` throws at the number of
fields of a definition if it is negative or too large (`DefinitionThrows`), and the caller catches it or
the process ends. `need` is the program counter: `decode<Object>` called, at the head of a loop,
between two calls, failed, or the process gone. It is gone, too, when `emplace` hashes a key that has no hash
(`HashNothing`): a `RefObject` hashes as what it points to, which may be an instance that has not got its
definition (`NoDefinition`), or an object that was destroyed by an earlier failed call or with a
repeated key (`DeadDestination`); the second is undefined behaviour, and the model says nothing of what follows. Which keys
`emplace` takes for equal is the parameter `Equals`, since `operator==` is not sameness for typed maps
inside keys and for NaN; the runs, whose keys are of neither kind, give it equality. A token (`ObjectWire`) is an opcode with the fixed part
behind it; chunks and bytes are left to the codecs below.
The encoder has a second way to write a container: with `api` = "begin" the caller nests
the begin and end calls of `codec.cc` himself, counts the elements of a fixed list, may
choose a variable one (`Forms`), and gives each scalar to `encode`; nothing is entered into
`values_ref_`, so such a graph has no references.
`Call` is made by an idle decoder or by one whose last call failed; `trusted` remembers how
many results the caller held at the first failure.
`ObjectRoundTrip` connects the two by the buffer. `ObjectStream` runs the decoder on an
input nobody vouches for, chosen token by token as the decoder comes to need it.

**ByteCodec, StringCodec.** The sender cuts its data, the transport delivers it with
another value behind it or only its beginning, and the receiver joins it, a step per
chunk (bytes) or per iteration of the padding loop of `finalReadUtf8String` (strings).
The sender is this encoder or, with `peer`, one that cuts its data anywhere; a peer of
`ByteCodec` may also put an empty chunk before the last one (`hollow`), which this decoder
takes for the end of the data. A byte of a string
is the length of the character it begins, 0 if it begins none, which is all that
the tables of the code look at; surrogates and four-byte sequences that are no
code point have kinds of their own for the Java-compatible build.

**NumberCodec, DateCodec.** Integers have their real widths and bytes (an `int64_t` is two
halves). A `double` is what its code tells apart: a whole number of an `int32_t`, minus
zero, a fraction, a number of thousandths, or one that an `int32_t` does not hold, the cast
of which may yield anything in `Casts`. Booleans and `NullObject` go through the same
actions. The sender is `Encode` or a peer that takes any form of the grammar, the longer ones
included (`PeerEncode`; x5f for numbers with a fraction only); the receiver asks for an `Object` or for a type, the right one or
another (`asked`). Dates are points in time in milliseconds, read back in every unit.

**Buffer.** An integral type is the sequence of its bytes, lowest first; what lies in memory
depends on `host`. `Write` converts and appends, `Open` makes the reader, and `Peek`, `Read` and
`ReadNBytes` compare and add in arithmetic modulo `Wrap`, as `uint64_t` does. `RawRead`
says what `rawReadNBytes` can do when it is led out of the buffer: throw (`substr`), read
past it (`memcpy`), or abort where assertions are compiled in. `strayed` remembers a caller that
went beyond `byteAvailable` himself.

**ObjectMap.** Containers hold scalars, containers and references. A map keeps each entry
under the hash that its key had when it was put in (`Insert`); `HashOf` and `Equal` are
`hash()` and `operator==` with all their peculiarities: one hash for all binaries from
the first that is not 0 (`BinaryHash`), `TypedMap` comparing a size with itself, equality of
maps found through the hashes of one of them, `equal()` asking the one or the other of the two
(`EqualOwn`). `Same` is what equality means without any of this. A decoder fills the local list or map of a
handler and gives it to the object at the end (`Set`), so until `done` others see the object
empty (`Seen`). `careless` remembers a step after which an entry may be kept
under a hash that is no longer that of its key: a container was changed that a key is, holds or refers to,
or a binary was hashed while an empty one was a key and no hash was fixed.

Each module has, beside an action of the code, a *slip*: the same action with
a plausible mistake, used by no specification. Replacing the action by it makes a
property fail, which shows what the property is worth.

## 3. What the runs show

Runs that find no error:

| run | bounds | shows |
|---|---|---|
| `RefTables` | 2 types, 2 definitions, 2 objects, tables of 2 entries, 4 handler calls, `Half` = 2, `ShortLimit` = 0 | no index is ever out of range or wrong (`SameEvents`), a decoder that caught up has the encoder's tables (`TablesAgree`), the inductive invariant holds, and the channel is implemented, delivery included |
| `ObjectRoundTrip` | every graph of one container with up to two elements, and of three with up to two, in chains and side by side, with every pattern of references that has a legal order; the same without references by begin and end calls; keys that refer to the container around them or to one beside them; a string that cannot be encoded | the decoded graph equals the one encoded, cycles included; both sides number alike; no decode fails or dies unless a key refers to an instance around its map (`NeverFails`); both recursions end, also when an announced element is missing |
| `ObjectStream` | every sequence of up to 5 out of 15 tokens, which may end anywhere, decoded by as many calls as it takes, failed ones included | decoding ends or the process dies; a failed call, one that throws in the middle included, leaves no memory behind and keeps earlier results (`Ownership`); no pointer in `values_ref_` or in a value dangles unless a map repeats a key or, for results that come later, a call has failed; the keys that a map has while it is being filled can be hashed again when it grows, after failures and repeated keys too (`KeysAlive`) |
| `ByteCodec` | chunk of 4, up to 9 bytes, this encoder or a peer, every cut of the wire | all of it comes back or the loss is noticed (`RoundTrip`); with empty chunks in between, what is given back is still a beginning of the data (`Beginning`) |
| `StringCodec` | chunk of 2 characters; every sequence of up to 6 bytes, well formed or not; for the Java-compatible build up to 4 characters of 5 kinds and 3 with illegal four-byte sequences; from a peer up to 3 characters, chunks anywhere, empty ones included | the same for strings, also for a surrogate pair divided by a chunk; each iteration of the padding loop leaves fewer characters to read and never fewer than none (`Shrinks`), and the loop ends |
| `NumberCodec` | real widths; 2 numbers on either side of every limit, and -300 to 300; doubles of every kind, in every form but a whole number as thousandths (x5f), a cast yielding 0, 1 or the least `int32_t` where it has no defined result; both booleans, null; five types asked for | every value comes back as the type it was sent as and as nothing else, whoever wrote it; integers take the shortest form |
| `DateCodec` | a minute of 6 ms, an hour of 3 minutes, `int32_t` from -8 to 7, dates from -60 to 60 ms | any date that is not of whole minutes beyond an `int32_t` reads, in any unit, as the point in time that was written, less than a unit away and on its side of the epoch (`WithinUnit`) |
| `Buffer` | bytes of two values, integers of 1 to 3 bytes, 4 bytes of data, `uint64_t` below 32, offsets on both sides of every end | a caller that respects `byteAvailable` never leaves the buffer (`InBounds`); every integer is found again, whole or in part of a wider type, signed or not, in all byte orders on both hosts (`ReadBack`) |
| `ObjectMap` | six arrangements of two or three containers, two of them inside a decoder; 3 keys (an empty binary, another, NaN), 3 elements in all | every entry is kept under the hash of its key (`HashCurrent`) and found by any object that is the same and by no other (`FoundBySame`), and equality both ways is sameness (`EqualIsSame`), until somebody is careless and as long as no key holds a typed map |

The scaled constants (`Half`, `CHUNK_SIZE`, `STRING_CHUNK_SIZE`, `Minute`, `Wrap`, ...) are parameters
of the code's arithmetic, which is the same for every value: a table of two
entries already has an index to write and to confuse, a data of three chunks has a
first, a middle and a last one, and `ShortLimit` = 0 makes both forms of an
instance occur. Six bytes hold a character of four divided by any chunk limit. Graphs
of three containers have a parent, a child and a sibling or grandchild, the least in which
a reference can point up, sideways or into a finished subtree. With `Half` = 1 a byte is a bit that
is also its sign, which is all that sign extension looks at, and three bytes have a middle
that reversing must leave alone. Two maps and a key that is one of them are the least in which the
hash of one entry depends on another. `ObjectMap` explores no further after a careless step
(`CONSTRAINT Promised`), since nothing is claimed there.
`CHECK_DEADLOCK FALSE` is said everywhere because every system here is a finite piece of work
that really stops.

Runs in which the code departs from what it says of itself:

| run | what TLC finds |
|---|---|
| `RefReencode` | `encode()` of the same object twice writes its body twice but registers it once, the decoder registers it twice, and a later reference resolves to another object |
| `ObjectRefOrder` | a map is written in hash order, so a reference may come before its destination and `ABSL_ASSERT(ref != -1)` fails |
| `ObjectInstanceKey` | a map with a key that refers to the instance around it can be encoded, but the decoder hashes the instance before `setClassInstance`, and `ABSL_ASSERT(def_)` fails |

More that the models know of and no run repeats.

* A map that meets a key twice destroys the new key and value while `values_ref_` still points
  into them (`ValuesRefAlive` speaks of inputs without such a map).
* A decoder that is called again after a failure still has the addresses of the containers which that
  call destroyed. In the run `ObjectStream`, the wire `FixedList(2), Ref(2)` fails and destroys a list; of
  `Map, Ref(0), Leaf(1)` after it, `emplace` hashes the key, and `RefObject::hash` reads the destroyed
  list (`DeadDestination`, `HashNothing`), although the comment at `object.hpp:336` asks for the longer
  lifetime of what a `RefObject` points to. That it takes a failed call or a repeated key is
  in `PointersAlive`.
* A key that refers to a list or a map around it is hashed as if that were empty, and never
  found again after `set...` (`careless` in `Set`).
* An element that cannot be encoded is skipped after the header counted it
  (`list_codec.cc:234`); `RoundTrip` of the objects then promises only that decoding ends.
* An index is returned as an `int16_t`: that of the container at 2^16 - 1 reads as -1, not
  registered (`AsInt16`; the theorems assume `MaxEntries <= Half`).
* Whole minutes beyond an `int32_t` are cut to 32 bits (`Fits`).
* An empty binary chunk that is not the last one, which the grammar allows, ends the data
  (`hollow`), while an empty string chunk does not.
* `encode<double>` writes minus zero as zero (`EqualsInt`). x5f is read as thousandths of an
  `int32_t`, where the comment at `number_codec.cc:42` says "32-bit float cast to double".
  The comment at `number_codec.cc:161` gives the one-byte form of an int the range to x3f; the
  encoder and `Shortest` go to x2f.
* `TypedMap::operator==` compares the size of the other map with itself (`object.hpp:195`): a typed
  map equals, in one direction, any smaller one that it contains (`Equal`; `EqualIsSame` asks in both
  directions). The size of a typed map that is a key is in its hash, but not that of one inside
  a key: two untyped lists, one of a typed map with an entry and one of the same without it, have the same hash, and
  the second is not put into a map that has the first, although
  the comment at `object.hpp:530` says that comparing "by operators" handles conflicts of
  hashes (`Plain`). The least case takes five containers and five elements.
* An empty binary that was a key when the first other binary is hashed is lost.
* Of part of a type in host order, a big-endian host reads the bytes at the wrong end
  (`ReadBack` leaves this out; nothing in the code asks for it).

## 4. Assumptions

*Fairness.* A decode call does not wait for anything, so `RefTables!FairSpec` has weak
fairness of `Decode`, and in the object and string modules the single thread goes on as
long as it can (`WF_vars(Next)`, `WF_vars(Step)`). In `ObjectStream` the input is not
required to grow, but it is required to end (`WF_vars(Ends)`), as a `StringReader` over a
finite buffer does. Encoders and peers are never forced to write.

*The environment.* A caller takes every result and keeps it while it uses the decoder,
as `codec.hpp:88` demands. A heap is a tree of ownership,
as `unique_ptr` makes it; references only lead to containers of the same heap. Passing
runs exclude the circumstances of the findings by name: `Again = {}`,
`MaxEntries <= Half` (`RefTables`); `Encodable`, `AllEncodable` (`ObjectRoundTrip`); `~repeated`,
`trusted` (`ObjectStream`); `DistinctKeys`, `KeysHashable` (`ObjectRoundTrip`); `~hollow` (`ByteCodec`); `Fits` (`DateCodec`); `~strayed`
(`Buffer`); `~careless`, `PlainKeys` (`ObjectMap`). In `ObjectMap` hash values computed from different
things differ, which is the worst case for finding what is equal under another hash; and
while a decoder runs nothing else is done with its objects. The constants are assumed to be
what the code makes them, and no more: a heap is a tree of ownership, its containers numbered
from the root down (which is a choice of names) and with a value for each key of a map
(`HeapsAssumption`), a token on an unchecked wire has any number, negative ones included
(`ConstantsAssumption` of `ObjectStream`), numbers are of 32 or 64 bits and a cast without a
defined result still yields an `int32_t` (`NumberAssumption`), units and the minute are not empty
and dates may be written in minutes and in milliseconds (`DateAssumption`), a build for Java is given
UTF-8, no byte inside a character beginning another one (`StringAssumption`), and containers are
empty at first (`ConstantsAssumption` of `ObjectMap`). A caller of `readNBytes` inside the
library always asks `byteAvailable` first, or reads what a code it has just read announces.

## 5. What is proved

`RefTablesProofs` proves, for any types, definitions, objects and bounds:

| theorem | says |
|---|---|
| `TypeCorrect` | `Spec => []TypeOK` |
| `TablesInvariant` | `Representable => (Spec => []TablesInv)` |
| `DecodesWhatWasEncoded` | `Representable => (Spec => []SameEvents)` |
| `TablesAgreement` | `Representable => (Spec => []TablesAgree)` |
| `RefinesChannel` | `Representable => (Spec => Channel!Spec)` |

`Representable` is `MaxEntries <= Half /\ Again = {}`: the indices fit into the positive
half of an `int16_t`, and no object is encoded twice. Neither half can be dropped: the second
because of `RefReencode`, the first because an index of 2^15 is written as a negative number.

*The argument.* `SameEvents` is not inductive: that the next index resolves correctly
depends on what the encoder's tables were when it was written, which by then they no longer
are. `mark[i + 1]` records their sizes after the first `i` tokens. `TablesInv` then says: no
encoder table holds a key twice, and `values_ref_` is the sequence of the containers written
(`EncoderOK`); the marks stay below the sizes now (`MarkOK`); token `i` stands for event `i`
when read against the first `mark[i]` entries (`WireOK`, by `TypeMeans`, `DefMeans` and
`ValueMeans`); and the decoder's tables are the first `mark[pos + 1]` entries of
the encoder's (`DecoderOK`). Encoder steps only append, so what earlier tokens mean stays;
a decoder step moves to the next mark. There is one lemma for each action, and lemmas for
`Register`, `GetRef` and `Agrees`, on which they rest.

`ByteCodecProofs` proves, for any `CHUNK_SIZE` and `Mid` above 0, any `Short` up to `Mid` and
data of any size:

| theorem | says |
|---|---|
| `InvInvariant` | `Spec => [](hollow \/ Inv)`, the inductive invariant |
| `BytesComeBack` | `Spec => []RoundTrip` |
| `OutputIsBeginning` | `Spec => []Beginning` |

*The argument.* The bytes of the data are numbered, so the element before a code on the wire
tells how much data came before it (`Before`). `Inv` says: a chunk carries on where the
one before it stopped, another code follows a chunk `A`, and any other chunk takes all
that is left (`ChunkOK`, even where the transport has cut the chunk short); a final
chunk that is whole is followed by one more value, which is missing exactly when
the wire was cut (`EndOK`); the encoder's loop leaves at least a byte for the final chunk
(`SenderOK`, where `Mid > 0` is needed: else empty data would write nothing); and between
two chunks the output is the bytes that came before (`DecoderOK`). `RoundTrip` alone says
nothing of the states in which the decoder is not done. A peer that sends an empty chunk
leaves `Inv` behind for good, which is why the theorem says `hollow \/ Inv`. `Beginning` holds
even then, by an invariant of its own that forgets where the data ends (`BeginningInv`): each
chunk carries on where the one before stopped, and the output is numbered 1, 2, ...

`StringCodecProofs` proves, for strings and chunks of any size, cut by this encoder or by a peer, and
for the build for Java:

| theorem | says |
|---|---|
| `StringsComeBack` | `Spec => []RoundTrip` |
| `IterationsShrink` | `Spec => Shrinks` |
| `StringTypes` | `Spec => []TypeInv` |

*The argument.* `Scan`, `ByteOffset`, `Escape` and `Unescape` go through a string as the loops of the code
do, so what they compute needs induction over it. No theorem of induction that the library has can be used,
since they are about operators; but it has that `<` is well-founded, from which a set of numbers that is
not empty has a least one (`Least`) and a set with 0 that is closed under successors is all of them
(`Induction`). Each function is shown to exist and then to satisfy its equation (`WalkFacts`,
`ByteOffsetStep`, `EscapeUnfolds`, `UnescapeUnfolds`). From that: the offsets of a string it accepts are a
chain from character to character, and `Scan` is -1 where there is none (`ChainOfScan`, `ScanOfChain`);
what `Scan` says of a piece read ahead (`ScanAhead`); and `Unescape(Escape(s)) = s` for a string without a
surrogate pair (`EscapeWhole`).
`Framed` says where in the wire each chunk begins, how many characters the ones before it hold, and that
its bytes are those of its characters; a wire that was cut satisfies it as far as it goes. `FramedCarriesOn`
adds a chunk, `FramedPart` forgets the end. The inductive invariant `Inv` says for each phase where the two
sides are: the characters sent are in chunks (`SentSoFar`, `SentAll`), the decoder is at a code with what
came before it in its output (`AtCode`), or after some character of a chunk with the rest of the
chunk before it (`InChunk`). `Iteration` is the core: the bytes that one iteration reads and pads end with
a character, and hold as many as are taken off the count, at least one and at most those missing, so
the loop never reads beyond its chunk. `Inv` speaks of functions on all numbers, which TLC
cannot enumerate; the run checks what follows from it.

`ScalarProofs` proves of `Buffer`, for any size of a byte, any widths, any `Wrap` above the longest
buffer and any offsets:

| theorem | says |
|---|---|
| `Bounds` | `Spec => []InBounds` |
| `FoundAgain` | `Spec => []ReadBack` |

*The argument.* The invariant `IInv` adds two things to `InBounds`: types, and where each item lies. While
nobody strays the offset is at most the length, so `byteAvailable` does not wrap and `Passes` means
what it says (`Wraps`, `InRange`): the bytes are in the buffer. `Stored` says what an item
looks like in the buffer, lowest byte first or last as `LowFirst` decides from order and
host; appending leaves earlier items where they are (`PlacedStays`). From there `ReadBack` is
an argument about one state: `FilledIs` gives the memory after `rawReadNBytes`,
`PeekedIs` what conversion and sign extension make of it, case by case of order and host.

`ObjectMapProofs` proves, for any containers, keys, values and number of elements:

| theorem | says |
|---|---|
| `Current` | `Spec => []HashCurrent` |
| `KeysFindTheirEntry` | `Spec => []FoundBySame` |
| `EqualityIsSameness` | `Spec => []EqualIsSame` |

*The hashes.* A hash depends on the container that a key is or refers to and on the static hash of
binaries (`HashStays`). A step that changes a container some key depends on is careless
(`InKey`, `ChangeOne`); a step that fixes the static hash leaves alone the keys that are not binaries, and
a binary key that is not empty would have fixed it before. That last fact is not part of
`HashCurrent` and is why the inductive invariant `IInv` has `OnlyEmptyHashed`; `KeysExist` keeps
the dependencies inside the heap, and `TypeOK` says that containers are records.

*Equality in one state.* `Same` and `Equal` are the last of a row of relations, one for each depth; that
the rows exist and each relation is made of the one before is proved by induction on a least number
(`LevelsExist`, `SameIs`, `EqualIs`). By induction on the depth, sameness is symmetric (`SameSymmetric`),
transitive (`SameTransitive`) and grows with the depth (`SameGrows`), and it depends only on what is
seen of the parts (`SameImplies`). What is the same is equal and has the same hash (`SameHash`, `SameEqual`), so
a key that is the same is found. Conversely, `Contained` looks only from one map to
the other; that nothing is left over in the other follows by counting: no two
entries of the first reach the same entry of the second, for then their keys would be the same, and both have
as many (`Onto`, `ComparedSame`). Below a typed map nobody counts, so this holds for objects without one
inside (`EqualSame`) and for a plain key, whose own size is in its hash (`PlainSame`). Asked in both
directions, each map is contained in the other, which does what counting did, typed or not
(`BothContained`, `EqualBothSame`). Both arguments need that the entries of a map have different
keys (`AllDistinct`) under current hashes.

*The invariant.* `AllDistinct` is kept because `Insert` looks first and finds what is the same (`KeyFound`).
This has to survive every step: sameness of stored keys does not change where their parts
are seen as before (`SameStays`, `DistinctKept`), and a step that shows a change in a part of a stored key is
careless (`KeysKeptIs`). For the latter a container that is moved into another must take its parts along and
nothing else, and what is destroyed must be no part of a living container: the heap is a forest (`Tree`) whose
containers live, are done before they are owned, and have one owner (`TreeGrows`, `TreeShrinks`).
`Sound` is `IInv`, `Tree` and `Distinct` together, and one lemma for each action shows that it is kept.

`ObjectStreamProofs` proves, for any set of tokens and any length of the input:

| theorem | says |
|---|---|
| `DecoderTypeOK` | `Spec => []TypeOK` |
| `DecoderValuesRefAlive` | `Spec => []ValuesRefAlive` |
| `DecoderOwnership` | `Spec => []Ownership` |
| `DecoderPointersAlive` | `Spec => []PointersAlive` |
| `DecoderKeysAlive` | `Spec => []KeysAlive` |

*The argument.* `Ownership` and `PointersAlive` speak of a decoder that is not in a call, or of
what it has given back; neither survives a step on its own. `OneOwner` is the discipline behind
them: at every moment the living containers are the disjoint union of what the activation
records, the value just returned and the results own, so that what `Unwind` destroys is nobody
else's. `ControlOK` has the types and says where a value can be in flight; `FrameOK` that a record
owns its elements apart from one another, and that those of a map come in pairs.
A reference is to a container that has been entered (`HeldEntered`), and what the results before the
first failure refer to they own among themselves (`TrustedClosed`): the value
that completes a call owns all that was entered during it, unless a map dropped a key.
`Equals` is any relation: `repeated` becomes true whenever `emplace` takes a key for one it has, the same or
not, and then nothing is claimed of dangling references. A step that has no next state in the code (the
process dies) leaves the state as it is, and what was true of it.
`KeysAlive` has no such condition. When a key was put into a map its destination was alive; what can
make it dangle while the map is being filled is a repeated key in the map or further in. But whatever such
a drop destroys was entered after the key had been read, and so after its destination
(`KeysBefore`: the addresses that keys refer to are below those of everything that can still be
dropped, `InDanger`), and a failure ends the map itself.

`NumberCodecProofs` proves, for every `int32_t`, `int64_t`, `uint32_t`, boolean, null and double:

| theorem | says |
|---|---|
| `NumbersComeBack` | `Spec => []RoundTrip` |
| `ShortestForms` | `Spec => []Shortest` |

*The argument.* The widths are the real ones, so this is arithmetic on literals up to 2^32.
`SignedLow1`, `SignedLow2` and `SignedLow4` say that the low bytes of a number read back, sign
included, as the number, if it is in their range. `Form` lists what a wire can be for a value, this
encoder's choice or a peer's; `Agrees` says that what arrived begins like it, wherever it was cut; and
`Outcome` what each decode makes of the arrived bytes. The first bytes of the types are disjoint
sets (`BytesOf`), which is what the dispatch of `decode<Object>`, and a decode that was asked for
the wrong type, rest on. `CodecInv` is then that what is under way is a form of the value.
For `Shortest`, `Matching` says that each code of the decoder is a form the encoder knows.

`ScalarProofs` proves of `DateCodec`, for any dates, units, minute and width of an integer:

| theorem | says |
|---|---|
| `DatesComeBack` | `Spec => []RoundTrip` |
| `ReadWithinUnit` | `Spec => []WithinUnit` |
| `SameUnitSameDate` | `Spec => [](phase = "ok" /\ Fits => \A n \in Int : date = n * unit => result = n)` |

*The argument.* `CastTruncates` says what `duration_cast` does, for dates before 1970 too: the
quotient times the unit is less than a unit away and never beyond the date. A date written in
minutes is a whole number of them (`Whole`), so multiplying gives it back, provided the number
survived its 32 bits (`AsInt32Exact`, `Fits`).

`ObjectRoundTripProofs` proves, for any graphs of objects of any size and depth:

| theorem | says |
|---|---|
| `DestinationFound` | `Spec => [](RefsUpward => DestinationRegistered)` |
| `NumberedAlike` | `Spec => [](AllEncodable /\ DestinationRegistered => SameNumbering)` |
| `DecodeSucceeds` | `Spec => []NeverFails`: if `AllEncodable`, `DestinationRegistered`, `DistinctKeys` and `KeysHashable`, `need` is neither "failed" nor "gone", and there is one result when the wire is read |
| `DecodedEqual` | `Spec => [](AllEncodable /\ DestinationRegistered /\ DistinctKeys /\ KeysHashable => need \notin {"failed", "gone"} /\ RoundTrip)` |
| `UpwardSucceeds` | `Spec => [](AllEncodable /\ RefsUpward => SameNumbering /\ (DistinctKeys /\ KeysHashable => need \notin {"failed", "gone"} /\ RoundTrip))` |

The hypotheses about keys say what a graph must be like to be decoded at all. `DistinctKeys`: no map has two keys
that `operator==` takes for equal, whichever relation that is (`Equals`); a map in memory may have two
keys that are different to the hash and equal to `operator==` of typed maps inside them, and of such a map the decoder
drops a pair. `KeysHashable`: no key refers to an instance around its map; `ObjectInstanceKey` shows
what becomes of one. That a NaN is not equal to itself does no harm here.

*The argument for `DestinationFound`.* A reference to a container that encloses its holder is
written while that container's handler is running, so what has to be invariant is that
whatever encloses a container on the stack has been registered (`AboveRegistered`). `Encloses` is
the reflexive and transitive closure of ownership, as an intersection of closed sets, which needs no
recursion: the owner of a container is unique (`HeapsAssumption`), so all that encloses the
one entered encloses its owner, or is itself. `ObjectRefOrder` shows that
references to the side have no such theorem.

*The argument for `NumberedAlike`.* When the decoder starts, the encoder is done and its stack
gone; an invariant about the state has nothing to compare the decoder's stack with. So the invariant
says that there is a record of the encode: `\E log : Recorded(log) /\ Follows(log) /\ ...`. `Recorded`
says that `log` begins with nothing and ends with what the encoder has now, that each entry holds the
encoder's stack, the length of the wire and the sizes of the tables, and that two entries that follow each
other differ by one step (`Leaves`, `Opens` or `Closes`, with the tokens that step put on the wire
between them). An encoder step appends an entry (`RecordedGrows`); a decoder step leaves the record
alone (`RecordedStays`) and moves on in it (`FollowsStep`). `Follows` is where the decoder
is: its stack has as many activation records as the entry's, each for the same kind of container.
The innermost is as far as the encoder's (`Mirrors`: as many elements left, a key held exactly
when the encoder owes a value), and all others are one element behind (`Awaits`), because a
decoder stores an element when it has come back and an encoder moves on before it goes into it. From
that each branch of `decode<Object>` and each loop condition has the outcome that the next step of the
record calls for. The hypotheses cannot be dropped: an element that is left out makes the decoder take
the wrong token for it, and a reference that was not found is written as -1, which `decode<RefObject>`
refuses. That the record does what is claimed was first checked with TLC, `log` being a history
variable, on the graphs of the run `ObjectRoundTrip`.

*The argument for `DecodedEqual`.* Every entry of the record also says which element its step wrote
(`Wrote`): a scalar by its token, a reference by the place at which its destination is registered
first (`Shown`: `emplace` keeps the entry that is there), a container by its number. `Carries` adds to the places of `Follows` what the decoder has in
its hands there. The innermost record has the values of the elements that the encoder's has written
(`Has`: of a list or an instance in order, of a map as a set of pairs, whichever keys came first);
each of the others has them but for one (`Lacks`), and what it lacks is what the container inside it
stands for (`Lack`). When a handler finishes, all elements are there, and its value is `Meaning` of the
container (`WholeRecord`), which is what the record outside lacks; the caller lacks the root. That
`Meaning` satisfies its recursive equation needs induction from the owned to the owner
(`MeaningsExist`), for which `HeapsAssumption` numbers an owner before what it owns. `DistinctKeys` says
that no map has two keys that `Equals` holds of: with two of them `emplace` would
drop the second. Under it `Emplace` never drops anything (`KeptHas`), so `Owns` is invariant too:
the activation records and the value in flight own all containers entered so far, and the value that is
left at the end owns all of them.

*The argument for `DecodeSucceeds`.* That no handler returns nullptr or throws is part of `Follows`. That the
process does not die asks for more: a key that is hashed must have a hash. It refers to no destroyed
container, because none is destroyed and every reference read so far is to an address entered before it
(`Aimed`). It refers to no unfinished instance, for that instance would be
around the map: an activation record of the decoder stands for the container that the encoder gave
the same number (`Stands`, from `Opens`, which says under which number a header's container was registered), so the key's
destination is the very container whose record is on the stack, and each container on the encoder's stack has the
one inside it among its elements (`Nested`, by induction along the record in `NestedRecord`), so it encloses the
map (`NestedEncloses`), which `KeysHashable` excludes (`KeyHashes`). `IInv` therefore has
`KeysHashable => need # "gone"` beside `Carries`.

Only model-checked: liveness (`Channel!FairSpec`, the `Terminates` properties), which is beyond
the prover.

## 6. What is not modelled

* `toDebugString`, error messages, logging: they print. `toDebugString` does not end on a
  graph with a cycle.
* Custom types (`FromHessian`, `ToHessian`) dispatch to user code.
* `encodeFixedListBegin` with an empty type, or with a length that is not the number of
  elements written: the API leaves both to the caller.
* Typed entry points called by the user on a container whose code is another's
  (`decode<UntypedListObject>` takes any code and yields an empty list).
* Two threads that hash binaries at the same time: a codec belongs to one thread, but the static
  hash belongs to all of them.
* The growth of a hash table, which hashes its keys again: the hashes are those it has, as long
  as they are current, and that each key's destination is still alive then is `KeysAlive`.
* What a program does after it has read a destroyed object (`need` = "gone").
* The arithmetic of `double` beyond the cases its code tells apart.
* Macros of the platforms in `byte_order.h`, the test framework, its Java peer, the examples.

Typed and untyped containers share their actions in the object modules; how
type names are numbered is in RefTables.

## 7. What could come next

In the order of their worth:

1. The typed entry points of the decoders on a code that is another's.
2. ObjectMap composed with ObjectDecoder, so that the keys a decoder hashes are those of the
   graphs it builds.
