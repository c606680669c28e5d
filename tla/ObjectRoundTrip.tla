--------------------------- MODULE ObjectRoundTrip ---------------------------
(***************************************************************************)
(* A graph of objects is encoded, and what was written is decoded: the     *)
(* ObjectEncoder and the ObjectDecoder composed through the buffer.  The   *)
(* decoder starts when encode() has returned.                              *)
(***************************************************************************)
EXTENDS ObjectWire, SequencesExt

CONSTANTS Heaps, Equals(_, _)

\* unique_ptr makes a graph a tree: a container is owned in one place, and never by
\* what it owns.  The containers are numbered, an owner before what it owns; 1 is the
\* root.  A map has a value for each key.
ASSUME HeapsAssumption ==
    \A h \in Heaps :
        /\ Len(h) \in Nat \ {0} /\ DOMAIN h = 1 .. Len(h)
        /\ \A o \in DOMAIN h :
              /\ h[o].kind \in {"list", "map", "inst"}
              /\ Len(h[o].kids) \in Nat /\ DOMAIN h[o].kids = 1 .. Len(h[o].kids)
              /\ h[o].kind = "map" => Len(h[o].kids) % 2 = 0
              /\ \A j \in DOMAIN h[o].kids :
                    /\ h[o].kids[j].i \in {"scalar", "own", "ref", "bad"}
                    /\ h[o].kids[j].n \in Nat
                    /\ h[o].kids[j].i \in {"own", "ref"} => h[o].kids[j].n \in DOMAIN h
                    /\ h[o].kids[j].i = "own" =>
                          /\ h[o].kids[j].n > o
                          /\ \A p \in DOMAIN h : \A k \in DOMAIN h[p].kids :
                                h[p].kids[k].i = "own" /\ h[p].kids[k].n = h[o].kids[j].n
                                => p = o /\ k = j

VARIABLES heap, api, eStack, eValues, eDefs, eWire, eAssert,
          pos, defs, size, alive, stack, need, ret, results,
          repeated, trusted

Enc == INSTANCE ObjectEncoder
Dec == INSTANCE ObjectDecoder WITH wire <- eWire

vars == <<heap, api, eStack, eValues, eDefs, eWire, eAssert,
          pos, defs, size, alive, stack, need, ret, results,
          repeated, trusted>>

Init == Enc!EncInit /\ Dec!DecInit

Encode == Enc!EncNext /\ UNCHANGED <<pos, defs, size, alive, stack, need, ret, results, repeated, trusted>>

Decode ==
    /\ Enc!Encoded
    /\ Dec!DecNext
    /\ UNCHANGED <<heap, api, eStack, eValues, eDefs, eAssert>>

Next == Encode \/ Decode

\* Both calls run to their end.
Spec == Init /\ [][Next]_vars /\ WF_vars(Next)

-----------------------------------------------------------------------------
\* The address of container o on the decoding side.
AddressOf(o) == Enc!IndexIn(eValues, o) + 1

\* A container of a kind with these values: those of a map are its keys and values.
Whole(kind, vals) ==
    IF kind = "map"
    THEN Shape("map", 0, {<<vals[j], vals[j + 1]>> : j \in {k \in 1 .. Len(vals) : k % 2 = 1}})
    ELSE SeqShape(kind, 0, vals)

\* The value that the graph below container o stands for.
KidValues(below, kids) ==
    [j \in 1 .. Len(kids) |-> CASE kids[j].i = "scalar" -> Scalar(kids[j].n)
                                [] kids[j].i = "ref"    -> Pointer(AddressOf(kids[j].n))
                                [] kids[j].i = "own"    -> below[kids[j].n]]

Meaning[o \in DOMAIN heap] == Whole(heap[o].kind, KidValues(Meaning, heap[o].kids))

\* No string that is not UTF-8 among the elements.
AllEncodable == \A o \in DOMAIN heap : \A j \in DOMAIN heap[o].kids : heap[o].kids[j].i # "bad"

\* The value that decode gives back for an element.
Value(item) ==
    CASE item.i = "scalar" -> Scalar(item.n)
      [] item.i = "ref"    -> Pointer(AddressOf(item.n))
      [] item.i = "own"    -> Meaning[item.n]

Odd(n) == {j \in 1 .. n : j % 2 = 1}

\* No map holds two keys that operator== takes for equal.
DistinctKeys ==
    \A o \in DOMAIN heap : heap[o].kind = "map" =>
        \A j, k \in Odd(Len(heap[o].kids)) :
            Equals(Value(heap[o].kids[j]), Value(heap[o].kids[k])) => j = k

\* Container a encloses b, or is b: a is in every set that has b and is closed under
\* taking the owner of a member.
Encloses(h, a, b) ==
    \A S \in SUBSET DOMAIN h :
        /\ b \in S
        /\ \A p \in DOMAIN h : \A j \in DOMAIN h[p].kids :
              h[p].kids[j].i = "own" /\ h[p].kids[j].n \in S => p \in S
        => a \in S

\* Every reference is to a container that encloses the one that holds it.
RefsUpward ==
    \A o \in DOMAIN heap : \A j \in DOMAIN heap[o].kids :
        heap[o].kids[j].i = "ref" => Encloses(heap, heap[o].kids[j].n, o)

\* No map has a key that refers to an instance around the map.
KeysHashable ==
    \A o \in DOMAIN heap : heap[o].kind = "map" =>
        \A j \in Odd(Len(heap[o].kids)) :
            LET key == heap[o].kids[j]
            IN  key.i = "ref" /\ heap[key.n].kind = "inst" => ~Encloses(heap, key.n, o)

\* The decode of what was written, in one call or by begin and end calls, ends and
\* gives back an equal graph: the same elements in the same places, every reference
\* pointing at the counterpart of the container it pointed at, cycles and maps
\* included, and not a byte left over (list_codec.cc, map_codec.cc,
\* class_instance_codec.cc, ref_object_codec.cc, codec.cc, encode against decode).
\* An element that cannot be encoded is left out after the header has counted it
\* (list_codec.cc:234): then only the end is promised.
RoundTrip ==
    Enc!Encoded /\ Dec!Decoded /\ AllEncodable =>
        /\ need = "idle" /\ Len(results) = 1
        /\ results[1].shape = Meaning[1]
        /\ results[1].own = 1 .. size

\* Both sides number the containers alike: what values_ref_ of the decoder
\* has is at every moment a part of what the encoder registered, and all of
\* it when the wire is read.  The begin calls number the definitions only.
SameNumbering ==
    Enc!Encoded =>
        /\ api = "encode" => size <= Len(eValues)
        /\ Dec!Decoded => defs = eDefs /\ (api = "encode" => size = Len(eValues))

\* encode<RefObject> finds the destination of every reference in values_ref_
\* (ABSL_ASSERT(ref != -1)).
DestinationRegistered == ~eAssert

\* No decode of what was written returns nullptr, throws or brings the process down, and
\* it gives back one value when the wire is read: at every moment of the recursion the
\* next token is what the handler that reads it asks for, an index has been entered, and
\* a key that is hashed can be (the decoders of list_codec.cc, map_codec.cc,
\* class_instance_codec.cc and ref_object_codec.cc).
NeverFails ==
    AllEncodable /\ DestinationRegistered /\ DistinctKeys /\ KeysHashable =>
        need \notin {"failed", "gone"} /\ (Enc!Encoded /\ Dec!Decoded => Len(results) = 1)

\* "ABSL_ASSERT(def_)" of Object::ClassInstance::hash (object.hpp): the decoder does
\* not hash an instance whose definition it has not stored yet.
DefinitionKnown == need = "gone" /\ stack # <<>> => ~Dec!NoDefinition(Dec!Top.key)

\* The recursion of the two sides comes to its end, or that of the process.
Terminates == <>(Enc!Encoded /\ (Dec!Decoded \/ need = "gone"))
=============================================================================
