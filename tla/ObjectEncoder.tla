---------------------------- MODULE ObjectEncoder ----------------------------
(***************************************************************************)
(* encode<Object> on a graph of objects: the recursion of list_codec.cc,   *)
(* map_codec.cc and class_instance_codec.cc, one step per value written.   *)
(* The graph owns its containers as a tree; what is shared, or cyclic, is  *)
(* reached through RefObject.  Or a caller writes the containers with the  *)
(* begin and end calls of codec.cc, and only their elements with encode:   *)
(* "References are not currently supported" there.                         *)
(***************************************************************************)
EXTENDS ObjectWire, SequencesExt, FiniteSetsExt

CONSTANTS Heaps     \* the object graphs: [1 .. n -> [kind, kids]], root 1;
                    \* kids is a sequence of items (ObjectWire)

VARIABLES
    heap,      \* the object graph handed to encode()
    api,       \* "encode", or "begin" for the begin and end calls
    eStack,    \* activation records of encode, innermost first
    eValues,   \* values_ref_: the containers in order of registration
    eDefs,     \* def_ref_: here a class is its number of fields
    eWire,     \* what writer_ holds
    eAssert    \* ABSL_ASSERT(ref != -1) of encode<RefObject> would have failed

encVars == <<heap, api, eStack, eValues, eDefs, eWire, eAssert>>

Kids(o) == heap[o].kids

\* The first: getDefRef looks from the front, emplace keeps what is there.
IndexIn(s, x) == IF \E i \in DOMAIN s : s[i] = x
                 THEN Min({i \in DOMAIN s : s[i] = x}) - 1 ELSE -1

\* encode<RawDefinition>: 'C' ... for a new class, then the index.
InstTokens(known, n) ==
    IF IndexIn(known, n) = -1 THEN <<Def(n), Inst(Len(known))>>
                              ELSE <<Inst(IndexIn(known, n))>>

\* encode<...ListObject> counts; a caller has both encodeFixedListBegin, which this
\* one gives a type, and encodeVarListBegin.
Forms(o) == IF api = "begin" /\ heap[o].kind = "list" THEN {"fixed", "var"} ELSE {"fixed"}

\* What a container's handler, or the begin call, writes before its first element.
Header(o, form, known) ==
    CASE form = "var"          -> <<VarList>>
      [] heap[o].kind = "map"  -> <<Map>>
      [] heap[o].kind = "inst" -> InstTokens(known, Len(Kids(o)))
      [] OTHER                 -> <<FixedList(Len(Kids(o)))>>

\* What it, or the end call, writes after its last one.
Trailer(f) == IF f.form = "var" \/ heap[f.o].kind = "map" THEN <<End>> ELSE <<>>

\* Activation record of a container's handler: todo holds the elements still
\* to be written, owed the value whose key was written last (0 if none).
Frame(o, form) == [o |-> o, form |-> form, todo |-> DOMAIN Kids(o), owed |-> 0]

\* A list or an instance is written in order; a map in the order of its hash
\* table, which absl::node_hash_map leaves unspecified, each key before its
\* value.
NextKids(f) ==
    IF f.owed # 0 THEN {f.owed}
    ELSE IF f.todo = {} THEN {}
    ELSE IF heap[f.o].kind = "map" THEN {j \in f.todo : j % 2 = 1}
    ELSE {Min(f.todo)}

Advance(f, j) ==
    [f EXCEPT !.todo = @ \ {j},
              !.owed = IF heap[f.o].kind = "map" /\ j % 2 = 1 THEN j + 1 ELSE 0]

Known(o, known) ==
    IF heap[o].kind = "inst" /\ IndexIn(known, Len(Kids(o))) = -1
    THEN Append(known, Len(Kids(o))) ELSE known

\* Slip: maps are not entered in values_ref_.
EnterButMaps(o, form) ==
    /\ eWire' = eWire \o Header(o, form, eDefs)
    /\ eValues' = IF heap[o].kind = "map" THEN eValues ELSE Append(eValues, o)
    /\ eDefs' = Known(o, eDefs)

\* The begin calls enter nothing in values_ref_.
Enter(o, form) ==
    /\ eWire' = eWire \o Header(o, form, eDefs)
    /\ eValues' = IF api = "begin" THEN eValues ELSE Append(eValues, o)
    /\ eDefs' = Known(o, eDefs)

EncInit ==
    /\ heap \in Heaps
    /\ api \in {"encode", "begin"}
    /\ api = "begin" => \A o \in DOMAIN heap : \A j \in DOMAIN Kids(o) : Kids(o)[j].i # "ref"
    /\ \E form \in Forms(1) : /\ eStack = <<Frame(1, form)>>
                              /\ eWire = Header(1, form, <<>>)
    /\ eValues = IF api = "begin" THEN <<>> ELSE <<1>>
    /\ eDefs = Known(1, <<>>)
    /\ eAssert = FALSE

\* The innermost handler writes its element j.
WriteKid(j, item) ==
    LET rest == <<Advance(eStack[1], j)>> \o Tail(eStack)
    IN  \/ /\ item.i = "own"
           /\ \E form \in Forms(item.n) : /\ Enter(item.n, form)
                                          /\ eStack' = <<Frame(item.n, form)>> \o rest
           /\ UNCHANGED <<heap, api, eAssert>>
        \/ /\ item.i = "scalar"
           /\ eWire' = Append(eWire, Leaf(item.n))
           /\ eStack' = rest
           /\ UNCHANGED <<heap, api, eValues, eDefs, eAssert>>
        \* encode<RefObject>: the index getValueRef finds, -1 if there is none
        \/ /\ item.i = "ref"
           /\ eWire' = Append(eWire, Ref(IndexIn(eValues, item.n)))
           /\ eAssert' = (eAssert \/ IndexIn(eValues, item.n) = -1)
           /\ eStack' = rest
           /\ UNCHANGED <<heap, api, eValues, eDefs>>
        \* encode<std::string> writes nothing and returns false, and the
        \* container's handler does not look at what its elements return
        \/ /\ item.i = "bad"
           /\ eStack' = rest
           /\ UNCHANGED <<heap, api, eValues, eDefs, eWire, eAssert>>

EncodeElement ==
    /\ eStack # <<>>
    /\ \E j \in NextKids(eStack[1]) : WriteKid(j, Kids(eStack[1].o)[j])

\* The innermost handler has written its elements and returns true.
EncodeReturn ==
    /\ eStack # <<>>
    /\ NextKids(eStack[1]) = {}
    /\ eWire' = eWire \o Trailer(eStack[1])
    /\ eStack' = Tail(eStack)
    /\ UNCHANGED <<heap, api, eValues, eDefs, eAssert>>

Encoded == eStack = <<>>

EncNext == EncodeElement \/ EncodeReturn
=============================================================================
