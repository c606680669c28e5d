------------------------------ MODULE ObjectMap ------------------------------
(***************************************************************************)
(* object.hpp: operator== and hash() of the objects, and the node_hash_map *)
(* that depends on both.  A caller, or a decoder that fills its containers *)
(* at the end, puts lists, maps and instances together; a map keeps each   *)
(* entry under the hash its key had at that time.                          *)
(*                                                                         *)
(* Hash values that are computed from different things differ; growing a   *)
(* table, which hashes all keys anew, changes nothing as long as the       *)
(* hashes it keeps are current, and is left out.                           *)
(***************************************************************************)
EXTENDS Integers, Sequences, FiniteSets, SequencesExt

CONSTANTS
    Keys, Values,     \* the scalars used as keys, as values and in lists
    Heaps,            \* the containers there are at the beginning, all empty
    Names,            \* what setType is called with
    MaxElements       \* bound: elements and entries in all containers

\* An object that is not a container, by its type and its data_.
Scalar(type, data) == [type |-> type, data |-> data]
NaN == 9
IsEmptyBinary(e) == e.type = "Binary" /\ e.data = 0

\* What a container holds: a scalar, a container of its own (a unique_ptr), or a
\* RefObject.
Own(c) == [type |-> "Own", data |-> c]
Ref(c) == [type |-> "Ref", data |-> c]

Element == [type : {"Binary", "Boolean", "Date", "Double", "Integer", "Long", "Null",
                    "String", "Own", "Ref"}, data : Nat]

\* name: type_name_, or the type and the field names of def_.  done: the decoder
\* has called setUntypedList, setTypedMap, ... with what it put together.
Container(type, name, done) ==
    [type |-> type, name |-> name, elems |-> <<>>, entries |-> {}, done |-> done]

Maps  == {"UntypedMap", "TypedMap"}
Lists == {"UntypedList", "TypedList", "Class"}

ASSUME ConstantsAssumption ==
    /\ \A h \in Heaps : /\ h = [c \in 1 .. Len(h) |-> h[c]] /\ Len(h) \in Nat
                        /\ \A c \in DOMAIN h : /\ h[c] = Container(h[c].type, h[c].name, h[c].done)
                                                /\ h[c].done \in BOOLEAN
                                                /\ h[c].type \in Maps \cup Lists
    /\ Keys \cup Values \subseteq {e \in Element : e.type \notin {"Own", "Ref"}}

VARIABLES
    heap,       \* the containers
    dead,       \* those of them that have been destroyed
    hash,       \* static size_t hash in BinaryObject::hash; 0: not set
    fault,      \* def_ was null
    careless    \* history: a key was changed under its map, see below

vars == <<heap, dead, hash, fault, careless>>

Ids == DOMAIN heap
Live == Ids \ dead

-----------------------------------------------------------------------------
(* hash() *)

\* A slip: the decoder puts the elements into its result at once.
SeenAtOnce(c) == heap[c]

\* The object as others see it: before done, what the constructor left.
Seen(c) == IF heap[c].done THEN heap[c] ELSE Container(heap[c].type, "", FALSE)

Size(c) == Len(Seen(c).elems) + Cardinality(Seen(c).entries)

\* The first hash that is not 0 is that of every BinaryObject from then on.
BinaryHash(data) == IF hash # 0 THEN hash ELSE data

\* The untyped ones by a magic string, the others by a name; and by their size.
ContainerHash(c) ==
    [of |-> IF Seen(c).type \in {"UntypedList", "UntypedMap"} THEN Seen(c).type
            ELSE Seen(c).name,
     value |-> Size(c)]

\* std::hash of the numbers is the identity, whatever their type.
HashOf(e) ==
    CASE e.type \in {"Own", "Ref"} -> ContainerHash(e.data)
      [] e.type = "Binary"         -> [of |-> "Binary", value |-> BinaryHash(e.data)]
      [] e.type \in {"Boolean", "Integer", "Long", "Date"} -> [of |-> "std", value |-> e.data]
      [] OTHER                     -> [of |-> e.type, value |-> e.data]

\* def_->hash() of an instance whose decoder has not called setClassInstance yet.
NoDefinition(e) ==
    e.type = "Ref" /\ heap[e.data].type = "Class" /\ ~heap[e.data].done

-----------------------------------------------------------------------------
(* operator== *)

\* A slip: the elements compared up to the shorter of the two lists.
SameElemsPrefix(eq, s, t) == \A i \in DOMAIN s \cap DOMAIN t : eq[<<s[i], t[i]>>]

SameElems(eq, s, t) == Len(s) = Len(t) /\ \A i \in DOMAIN s : eq[<<s[i], t[i]>>]

\* Each key of c is found in d, with an equal value.  find compares only keys with
\* the hash it looks for.
Contained(eq, c, d) ==
    \A x \in Seen(c).entries :
        \E y \in Seen(d).entries :
            y.hash = HashOf(x.key) /\ eq[<<y.key, x.key>>] /\ eq[<<y.value, x.value>>]

\* Both are of one type.  TypedMap::operator== compares the size of the other map
\* with itself.
Compared(eq, c, d) ==
    /\ Seen(c).type = Seen(d).type /\ Seen(c).name = Seen(d).name
    /\ SameElems(eq, Seen(c).elems, Seen(d).elems)
    /\ Seen(c).type = "UntypedMap" => Size(c) = Size(d)
    /\ Contained(eq, c, d)

\* equal() of the untyped ones compares its own data_ with the other's, that of the
\* macro GENERATE_TRIVIAL_METHOD the other's with its own.
EqualOwn(eq, c, d) ==
    IF Seen(c).type \in {"UntypedList", "UntypedMap"} THEN Compared(eq, c, d)
                                                     ELSE Compared(eq, d, c)

\* RefObjects are equal when they point to the same object, NaN is equal to nothing.
EqualScalar(a, b) == a = b /\ a # Scalar("Double", NaN)

Equal ==
    LET eq[n \in 0 .. Len(heap)] ==
            [p \in Element \X Element |->
                IF p[1].type = "Own" /\ p[2].type = "Own"
                THEN n > 0 /\ EqualOwn(eq[n - 1], p[1].data, p[2].data)
                ELSE EqualScalar(p[1], p[2])]
    IN  eq[Len(heap)]

-----------------------------------------------------------------------------
(* node_hash_map *)

\* The entries that find and emplace may come upon; stored keys on the left.  A
\* string_view finds what a StringObject with it does.
Found(m, k) == {x \in heap[m].entries : x.hash = HashOf(k) /\ Equal[<<x.key, k>>]}

Kids(c) == {e.data : e \in {f \in ToSet(heap[c].elems) \cup
                                  UNION {{x.key, x.value} : x \in heap[c].entries} :
                            f.type = "Own"}}

\* The containers that go when c goes: the least set with c and their kids.
Parts(c) ==
    {d \in Ids : \A S \in SUBSET Ids :
                    c \in S /\ (\A p \in S : Kids(p) \subseteq S) => d \in S}

PartsOf(e) == IF e.type = "Own" THEN Parts(e.data) ELSE {}

StoredKeys == {x.key : x \in UNION {heap[c].entries : c \in Live}}

\* A change of c changes the hash of a key, or what it is equal to.
IsInKey(c) == \E k \in StoredKeys : c \in PartsOf(k) \/ (k.type = "Ref" /\ k.data = c)

\* hash' after hash() of e.  The caller is careless when the hash that an empty
\* BinaryObject is kept under is not its hash any more.
Hashing(e) == IF e.type = "Binary" THEN BinaryHash(e.data) ELSE hash
Rehashes(e) == Hashing(e) # hash /\ \E k \in StoredKeys : IsEmptyBinary(k)

\* What may go into c: a container that is complete, belongs to nobody and does
\* not contain c; a RefObject to any.
Movable(c) == {Own(d) : d \in {d \in Live : /\ heap[d].done /\ c \notin Parts(d)
                                            /\ \A o \in Live : d \notin Kids(o)}}
Refs == {Ref(d) : d \in Live}

Filled(c) == Len(heap[c].elems) + Cardinality(heap[c].entries)
Total == LET sum[n \in 0 .. Len(heap)] == IF n = 0 THEN 0 ELSE sum[n - 1] + Filled(n)
         IN  sum[Len(heap)]

-----------------------------------------------------------------------------
Init ==
    /\ heap \in Heaps
    /\ dead = {} /\ hash = 0 /\ fault = FALSE /\ careless = FALSE

\* While a decoder runs it fills the innermost of the containers it has begun, and
\* nothing else happens.
Begun == {c \in Live : ~heap[c].done}
Active(c) == \A d \in Begun : ~heap[c].done /\ d <= c

\* emplace_back, of a list or of the data_ of an instance.
EmplaceBack(c, e) ==
    /\ ~fault /\ Active(c) /\ heap[c].type \in Lists /\ Total < MaxElements
    /\ heap' = [heap EXCEPT ![c].elems = Append(@, e)]
    /\ careless' = (careless \/ (heap[c].done /\ IsInKey(c)))
    /\ UNCHANGED <<dead, hash, fault>>

\* A slip: the table compares no keys before it adds one.
InsertAlways(m, k, v) ==
    /\ heap' = [heap EXCEPT ![m].entries =
                   @ \cup {[key |-> k, value |-> v, hash |-> HashOf(k)]}]
    /\ UNCHANGED dead

\* The new entry, or, if there is one for an equal key, none: key and value are
\* destroyed.
Insert(m, k, v) ==
    IF Found(m, k) = {}
    THEN /\ heap' = [heap EXCEPT ![m].entries =
                        @ \cup {[key |-> k, value |-> v, hash |-> HashOf(k)]}]
         /\ UNCHANGED dead
    ELSE /\ dead' = dead \cup PartsOf(k) \cup PartsOf(v)
         /\ UNCHANGED heap

\* emplace of TypedMapObject, UntypedMapObject, and of the decoders' own maps.
Emplace(m, k, v) ==
    /\ ~fault /\ Active(m) /\ heap[m].type \in Maps /\ Total < MaxElements
    /\ k \in Movable(m) /\ v \in Movable(m) => k # v
    /\ fault' = NoDefinition(k)
    /\ IF NoDefinition(k) THEN UNCHANGED <<heap, dead, hash, careless>>
       ELSE /\ Insert(m, k, v)
            /\ hash' = Hashing(k)
            /\ careless' = \/ careless \/ Rehashes(k)
                           \/ heap[m].done /\ Found(m, k) = {} /\ IsInKey(m)'
                           \/ \E x \in StoredKeys' : x.type = "Ref" /\ x.data \in dead'

\* hash() itself, find, and get of an object that is not put anywhere.
Find(k) ==
    /\ ~fault /\ Begun = {} /\ ~NoDefinition(k)
    /\ hash' = Hashing(k) /\ careless' = (careless \/ Rehashes(k))
    /\ UNCHANGED <<heap, dead, fault>>

\* setType of TypedListObject.
SetType(c, name) ==
    /\ ~fault /\ Active(c) /\ heap[c].type = "TypedList" /\ heap[c].done
    /\ heap' = [heap EXCEPT ![c].name = name]
    /\ careless' = (careless \/ (name # heap[c].name /\ IsInKey(c)))
    /\ UNCHANGED <<dead, hash, fault>>

\* setUntypedList, setTypedList, setUntypedMap, setTypedMap, setClassInstance.
Set(c) ==
    /\ ~fault /\ Active(c) /\ ~heap[c].done
    /\ heap' = [heap EXCEPT ![c].done = TRUE]
    /\ careless' = (careless \/ (Seen(c)' # Seen(c) /\ IsInKey(c)))
    /\ UNCHANGED <<dead, hash, fault>>

Next ==
    \/ \E c \in Live : \E e \in Values \cup Movable(c) \cup Refs : EmplaceBack(c, e)
    \/ \E m \in Live : \E k \in Keys \cup Movable(m) \cup Refs, v \in Values \cup Movable(m) :
           Emplace(m, k, v)
    \/ \E k \in Keys : Find(k)
    \/ \E c \in Live, name \in Names : SetType(c, name)
    \/ \E c \in Live : Set(c)

Spec == Init /\ [][Next]_vars

-----------------------------------------------------------------------------
\* Every object there is, or could be made to look for one.
Objects ==
    Keys \cup Values \cup {Own(c) : c \in {d \in Live : heap[d].done}} \cup {e \in Refs : ~NoDefinition(e)}

\* What it means to be equal, without hashes: the same values, lists of the same
\* length with the same elements, maps with the same keys and values, references
\* to the very same object.
SameEntry(same, x, y) == same[<<x.key, y.key>>] /\ same[<<x.value, y.value>>]

SameOwn(same, c, d) ==
    /\ c.type = d.type /\ c.name = d.name
    /\ Len(c.elems) = Len(d.elems) /\ \A i \in DOMAIN c.elems : same[<<c.elems[i], d.elems[i]>>]
    /\ Cardinality(c.entries) = Cardinality(d.entries)
    /\ \A x \in c.entries : \E y \in d.entries : SameEntry(same, x, y)
    /\ \A y \in d.entries : \E x \in c.entries : SameEntry(same, x, y)

Same ==
    LET same[n \in 0 .. Len(heap)] ==
            [p \in Element \X Element |->
                IF p[1].type = "Own" /\ p[2].type = "Own"
                THEN n > 0 /\ SameOwn(same[n - 1], Seen(p[1].data), Seen(p[2].data))
                ELSE EqualScalar(p[1], p[2])]
    IN  same[Len(heap)]

\* A key with no typed map inside.  One that is a typed map itself has its size in
\* its hash; of one inside nothing asks for the size, and it is taken for a larger
\* or a smaller one.
Untyped(e) == \A c \in PartsOf(e) : heap[c].type # "TypedMap"
Plain(k) == k.type = "Own" => \A c \in Kids(k.data) : Untyped(Own(c))
PlainKeys(m) == \A x \in heap[m].entries : Plain(x.key)

\* The hash that an entry is kept under is that of its key, as long as no caller
\* changes a container that a key is, contains or refers to, no decoder finishes one
\* that a key refers to (map_codec.cc:42), and no empty BinaryObject is hashed before
\* any other one (object.hpp:439).
HashCurrent ==
    ~careless => \A m \in Live : \A x \in heap[m].entries : x.hash = HashOf(x.key)

\* A key finds the entry whose key is the same, and no other one: no map has two
\* entries for the same key, as long as its keys are plain.
FoundBySame ==
    ~careless => \A m \in Live, k \in Objects :
        PlainKeys(m) /\ Plain(k) => /\ Found(m, k) = {x \in heap[m].entries : Same[<<x.key, k>>]}
                                   /\ Cardinality(Found(m, k)) <= 1

\* operator==, which compares maps through the hashes of one of them, says of two
\* objects in both directions that they are equal if and only if they are the same.
\* In one direction a TypedMap is also equal to a smaller one (object.hpp:195).
EqualIsSame ==
    ~careless /\ (\A m \in Live : PlainKeys(m)) =>
        \A a, b \in Objects : Same[<<a, b>>] <=> Equal[<<a, b>>] /\ Equal[<<b, a>>]

=============================================================================
