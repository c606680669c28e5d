------------------------------ MODULE RefTables ------------------------------
(***************************************************************************)
(* The reference tables of Encoder and Decoder (codec.hpp) and the         *)
(* prologue of every handler that uses them.  Hessian2 never writes a type *)
(* name, a class definition or a container twice: the second time it       *)
(* writes an index, which means something only because both sides count    *)
(* the same things in the same order.  The elements inside a container are *)
(* themselves handler calls, that is, later steps of this module.          *)
(*                                                                         *)
(* The encoder's two maps (types_ref_, values_ref_) assign to each new key *)
(* the size of the map at that moment and never erase, so each is kept as  *)
(* the sequence of its keys in the order of registration; IndexOf gives    *)
(* the uint16_t stored for a key and AsInt16 the int16_t the getters       *)
(* return.                                                                 *)
(***************************************************************************)
EXTENDS Integers, Sequences

CONSTANTS Types,        \* type names
          Defs,         \* class definitions (type name and field names)
          Objs,         \* containers: lists, maps, class instances
          None,         \* absent field of a token
          Half,         \* 2^15 in the code: int16_t is -Half .. Half - 1
          ShortLimit,   \* 15 in the code: last definition with a 1-byte form
          Again,        \* objects the caller hands to encode() more than once
          MaxEntries,   \* bound: entries of one encoder table
          MaxWire       \* bound: handler calls of one encoder

ASSUME TablesAssumption ==
    /\ Half \in Nat \ {0}
    /\ ShortLimit \in 0 .. 15
    /\ MaxEntries \in Nat
    /\ MaxEntries <= 2 * Half
    /\ MaxWire \in Nat
    /\ Again \subseteq Objs
    /\ None \notin Types \cup Defs \cup Objs

VARIABLES
    eTypes, eDefs, eValues,     \* Encoder: types_ref_, def_ref_, values_ref_
    streamed,                   \* the begin/end API of Encoder has been used
    wire,                       \* what the encoder wrote
    dTypes, dDefs, dValues,     \* Decoder: types_ref_, def_ref_, values_ref_
    pos,                        \* tokens the decoder has consumed
    failed,                     \* a decode call returned nullptr
    elog, dlog,                 \* history: events encoded, events decoded
    begun,                      \* history: bodies of the containers on the wire
    mark                        \* history: mark[i + 1] is how many names,
                                \*   definitions and containers the first i
                                \*   tokens of the wire carry

encVars == <<eTypes, eDefs, eValues, streamed, wire, elog, begun, mark>>
decVars == <<dTypes, dDefs, dValues, pos, failed, dlog>>
vars == <<encVars, decVars>>

-----------------------------------------------------------------------------
(* Tables *)

Has(table, x) == \E i \in 1 .. Len(table) : table[i] = x

\* types_ref_.emplace / values_ref_.emplace: no effect on a key already there.
Register(table, x) == IF Has(table, x) THEN table ELSE Append(table, x)

Position(table, x) == CHOOSE i \in 1 .. Len(table) : table[i] = x

\* The uint16_t kept for x: the size of the table when x came in, truncated.
IndexOf(table, x) == (Position(table, x) - 1) % (2 * Half)

AsInt16(n) == IF n >= Half THEN n - 2 * Half ELSE n

\* Slip: an index counted from 1.
GetRefFromOne(table, x) ==
    IF Has(table, x) THEN AsInt16(IndexOf(table, x)) + 1 ELSE -1

\* getTypeRef, getDefRef, getValueRef.
GetRef(table, x) == IF Has(table, x) THEN AsInt16(IndexOf(table, x)) ELSE -1

Room(table, x) == Has(table, x) \/ Len(table) < MaxEntries

\* A definition at index 2^16 - 1 reads as -1: encode<RawDefinition> would call
\* itself for ever, and a longer table would make getDefRef's loop endless.
RoomForDef(d) == Room(eDefs, d) /\ (Has(eDefs, d) \/ Len(eDefs) < 2 * Half - 1)

\* static_cast<uint32_t>(n) < size: a negative index is a huge one.
InTable(n, table) == n >= 0 /\ n < Len(table)

(* The opcode of a token: "M" typed container, "H" untyped container,      *)
(* "O" and "x60" instance of a class, "Q" reference.  A token of a class   *)
(* whose def field is present stands for 'C' ... followed by the instance. *)
Ops == {"M", "H", "O", "x60", "Q"}

Token == {w \in [op : Ops, obj : Objs \cup {None}, type : Types \cup {None},
                 def : Defs \cup {None}, num : Int] :
          w.op = "Q" <=> w.obj = None}

\* A logical event: what the caller asked to write, or was given to read.
Events == [ev : {"typed", "untyped", "class", "ref"}, obj : Objs,
           type : Types \cup {None}, def : Defs \cup {None}]

Event(ev, o, t, d) == [ev |-> ev, obj |-> o, type |-> t, def |-> d]

-----------------------------------------------------------------------------
(* Encoder *)

\* encode<TypeRef>: the name the first time, the index afterwards.
TypeTok(op, o, t) ==
    LET r == GetRef(eTypes, t)
    IN  [op |-> op, obj |-> o, def |-> None,
         type |-> IF r = -1 THEN t ELSE None,
         num  |-> IF r = -1 THEN 0 ELSE r]

\* encode<RawDefinition>: 'C' ... if the definition is new, then its index in
\* the one-byte form (a uint8_t, so modulo 256) or after 'O'.
DefTok(o, d) ==
    LET isNew == GetRef(eDefs, d) = -1
        r     == GetRef(IF isNew THEN Append(eDefs, d) ELSE eDefs, d)
    IN  [op |-> IF r <= ShortLimit THEN "x60" ELSE "O", obj |-> o,
         type |-> None, def |-> IF isNew THEN d ELSE None,
         num |-> IF r <= ShortLimit THEN (96 + r) % 256 ELSE r]

Sizes == [t |-> Len(eTypes), d |-> Len(eDefs), v |-> Len(begun)]

Write(tok, e) ==
    /\ Len(wire) < MaxWire
    /\ wire' = Append(wire, tok)
    /\ elog' = Append(elog, e)
    /\ begun' = IF tok.obj # None THEN Append(begun, tok.obj) ELSE begun
    /\ mark' = Append(mark, Sizes')
    /\ UNCHANGED decVars

MayEncode(o) == ~Has(eValues, o) \/ o \in Again

\* Slip: the type name is written and not remembered.
EncodeTypedForgetting(o, t) ==
    /\ MayEncode(o) /\ Room(eValues, o) /\ Room(eTypes, t)
    /\ eValues' = Register(eValues, o)
    /\ UNCHANGED <<eTypes, eDefs, streamed>>
    /\ Write(TypeTok("M", o, t), Event("typed", o, t, None))

\* encode<TypedListObject>, encode<TypedMapObject>
EncodeTyped(o, t) ==
    /\ MayEncode(o) /\ Room(eValues, o) /\ Room(eTypes, t)
    /\ eValues' = Register(eValues, o)
    /\ eTypes' = IF GetRef(eTypes, t) = -1 THEN Register(eTypes, t) ELSE eTypes
    /\ UNCHANGED <<eDefs, streamed>>
    /\ Write(TypeTok("M", o, t), Event("typed", o, t, None))

\* encode<UntypedListObject>, encode<UntypedMapObject>
EncodeUntyped(o) ==
    /\ MayEncode(o) /\ Room(eValues, o)
    /\ eValues' = Register(eValues, o)
    /\ UNCHANGED <<eTypes, eDefs, streamed>>
    /\ Write([op |-> "H", obj |-> o, type |-> None, def |-> None, num |-> 0],
             Event("untyped", o, None, None))

\* encode<ClassInstanceObject>
EncodeClass(o, d) ==
    /\ MayEncode(o) /\ Room(eValues, o) /\ RoomForDef(d)
    /\ eValues' = Register(eValues, o)
    /\ eDefs' = IF GetRef(eDefs, d) = -1 THEN Append(eDefs, d) ELSE eDefs
    /\ UNCHANGED <<eTypes, streamed>>
    /\ Write(DefTok(o, d), Event("class", o, None, d))

\* encode<RefObject>.  A reference is made to an object that was encoded, and
\* not on an encoder that also used the begin/end API, whose containers are
\* not registered ("References are not currently supported").
EncodeRef(o) ==
    /\ Has(eValues, o) /\ ~streamed
    /\ UNCHANGED <<eTypes, eDefs, eValues, streamed>>
    /\ Write([op |-> "Q", obj |-> None, type |-> None, def |-> None,
              num |-> GetRef(eValues, o)], Event("ref", o, None, None))

\* encodeMapBegin and encodeFixedListBegin with a type
EncodeTypedBegin(o, t) ==
    /\ Room(eTypes, t)
    /\ eTypes' = IF GetRef(eTypes, t) = -1 THEN Register(eTypes, t) ELSE eTypes
    /\ streamed' = TRUE
    /\ UNCHANGED <<eDefs, eValues>>
    /\ Write(TypeTok("M", o, t), Event("typed", o, t, None))

\* encodeMapBegin without a type, encodeVarListBegin (which ignores its type)
EncodeUntypedBegin(o) ==
    /\ streamed' = TRUE
    /\ UNCHANGED <<eTypes, eDefs, eValues>>
    /\ Write([op |-> "H", obj |-> o, type |-> None, def |-> None, num |-> 0],
             Event("untyped", o, None, None))

EncodeClassInstanceBegin(o, d) ==
    /\ RoomForDef(d)
    /\ eDefs' = IF GetRef(eDefs, d) = -1 THEN Append(eDefs, d) ELSE eDefs
    /\ streamed' = TRUE
    /\ UNCHANGED <<eTypes, eValues>>
    /\ Write(DefTok(o, d), Event("class", o, None, d))

-----------------------------------------------------------------------------
(* Decoder *)

Cur == wire[pos + 1]

\* Slip: one read too many.
ReadTwice(op) == pos < Len(wire) /\ ~failed /\ Cur.op = op /\ pos' = pos + 2

Read(op) == pos < Len(wire) /\ ~failed /\ Cur.op = op /\ pos' = pos + 1

Deliver(e) == dlog' = Append(dlog, e) /\ UNCHANGED failed

Fail == failed' = TRUE /\ UNCHANGED dlog

\* decode<TypedListObject>, decode<TypedMapObject>: the container is entered
\* in values_ref_ first; decode<TypeRef> adds a name or looks an index up.
DecodeTyped ==
    /\ Read("M")
    /\ dValues' = Append(dValues, Cur.obj)
    /\ IF Cur.type # None
       THEN /\ dTypes' = Append(dTypes, Cur.type)
            /\ Deliver(Event("typed", Cur.obj, Cur.type, None))
       ELSE /\ dTypes' = dTypes
            /\ IF InTable(Cur.num, dTypes)
               THEN Deliver(Event("typed", Cur.obj, dTypes[Cur.num + 1], None))
               ELSE Fail
    /\ UNCHANGED <<encVars, dDefs>>

\* Slip: an untyped container is not entered in values_ref_.
DecodeUntypedUnregistered ==
    /\ Read("H")
    /\ Deliver(Event("untyped", Cur.obj, None, None))
    /\ UNCHANGED <<encVars, dTypes, dDefs, dValues>>

\* decode<UntypedListObject>, decode<UntypedMapObject>
DecodeUntyped ==
    /\ Read("H")
    /\ dValues' = Append(dValues, Cur.obj)
    /\ Deliver(Event("untyped", Cur.obj, None, None))
    /\ UNCHANGED <<encVars, dTypes, dDefs>>

\* Slip: the index is looked up before the new definition is pushed.
DecodeInstanceBeforePush(op, index) ==
    /\ Read(op)
    /\ dDefs' = IF Cur.def # None THEN Append(dDefs, Cur.def) ELSE dDefs
    /\ dValues' = Append(dValues, Cur.obj)
    /\ IF InTable(index, dDefs)
       THEN Deliver(Event("class", Cur.obj, None, dDefs[index + 1]))
       ELSE Fail
    /\ UNCHANGED <<encVars, dTypes>>

\* decode<Definition> for 'C' (if present), decode<ClassInstanceObject>, and
\* decode<Definition> for the index in either of its two forms.
DecodeInstance(op, index) ==
    /\ Read(op)
    /\ dDefs' = IF Cur.def # None THEN Append(dDefs, Cur.def) ELSE dDefs
    /\ dValues' = Append(dValues, Cur.obj)
    /\ IF InTable(index, dDefs')
       THEN Deliver(Event("class", Cur.obj, None, dDefs'[index + 1]))
       ELSE Fail
    /\ UNCHANGED <<encVars, dTypes>>

DecodeClass ==
    \/ DecodeInstance("O", Cur.num)
    \/ DecodeInstance("x60", IF Cur.num \in 96 .. 96 + ShortLimit
                             THEN Cur.num - 96 ELSE -1)

\* decode<RefObject>
DecodeRef ==
    /\ Read("Q")
    /\ IF InTable(Cur.num, dValues)
       THEN Deliver(Event("ref", dValues[Cur.num + 1], None, None))
       ELSE Fail
    /\ UNCHANGED <<encVars, dTypes, dDefs, dValues>>

-----------------------------------------------------------------------------
Init ==
    /\ eTypes = <<>> /\ eDefs = <<>> /\ eValues = <<>>
    /\ streamed = FALSE
    /\ wire = <<>> /\ elog = <<>> /\ begun = <<>>
    /\ mark = <<[t |-> 0, d |-> 0, v |-> 0]>>
    /\ dTypes = <<>> /\ dDefs = <<>> /\ dValues = <<>>
    /\ pos = 0 /\ failed = FALSE /\ dlog = <<>>

Encode ==
    \E o \in Objs :
        \/ EncodeUntyped(o)
        \/ EncodeRef(o)
        \/ EncodeUntypedBegin(o)
        \/ \E t \in Types : EncodeTyped(o, t) \/ EncodeTypedBegin(o, t)
        \/ \E d \in Defs : EncodeClass(o, d) \/ EncodeClassInstanceBegin(o, d)

Decode == DecodeTyped \/ DecodeUntyped \/ DecodeClass \/ DecodeRef

Next == Encode \/ Decode

Spec == Init /\ [][Next]_vars

\* A decode call runs to its end without blocking.
FairSpec == Spec /\ WF_vars(Decode)

-----------------------------------------------------------------------------
(* Properties *)

EncoderTyped ==
    /\ eTypes \in Seq(Types) /\ Len(eTypes) <= MaxEntries
    /\ eDefs \in Seq(Defs) /\ Len(eDefs) <= MaxEntries /\ Len(eDefs) < 2 * Half
    /\ eValues \in Seq(Objs) /\ Len(eValues) <= MaxEntries
    /\ streamed \in BOOLEAN

WireTyped ==
    /\ wire \in Seq(Token) /\ Len(wire) <= MaxWire
    /\ elog \in Seq(Events) /\ Len(elog) = Len(wire)
    /\ begun \in Seq(Objs)
    /\ mark \in Seq([t : Nat, d : Nat, v : Nat]) /\ Len(mark) = Len(wire) + 1

DecoderTyped ==
    /\ dTypes \in Seq(Types) /\ dDefs \in Seq(Defs) /\ dValues \in Seq(Objs)
    /\ pos \in 0 .. Len(wire)
    /\ failed \in BOOLEAN
    /\ dlog \in Seq(Events) /\ Len(dlog) <= pos

\* The tables hold what they are declared to hold, the decoder never reads
\* past what was written, and no table outgrows its bound.
TypeOK == EncoderTyped /\ WireTyped /\ DecoderTyped

\* Every type name, class and reference the decoder delivers is the one the
\* encoder was given, in the same order, and no index it meets is out of
\* range (type_ref_codec.cc, def_ref_codec.cc, ref_object_codec.cc).
SameEvents == ~failed /\ dlog = SubSeq(elog, 1, pos)

\* Once the decoder has caught up, getTypeRefSize, getDefRefSize and the
\* contents behind them are equal on both sides; so is values_ref_ unless the
\* begin/end API was used.
TablesAgree ==
    pos = Len(wire) =>
        /\ dTypes = eTypes
        /\ dDefs = eDefs
        /\ ~streamed => dValues = eValues

Channel == INSTANCE EventChannel WITH sent <- elog, rcvd <- dlog

\* Encoder and decoder together are a channel of logical events, which also
\* delivers everything in the end.
ImplementsChannel == Channel!FairSpec

\* "Only two pointers to the same object are considered references"
\* (codec.hpp): a reference the decoder resolves leads to the object the
\* encoder's pointer led to.
ReferencesResolve ==
    \A i \in 1 .. Len(dlog) : dlog[i].ev = "ref" => dlog[i].obj = elog[i].obj

-----------------------------------------------------------------------------
(* The inductive invariant behind SameEvents and TablesAgree. *)

NoRepeats(s) == \A i, j \in 1 .. Len(s) : s[i] = s[j] => i = j

Agrees(s, t) == Len(s) <= Len(t) /\ \A i \in 1 .. Len(s) : s[i] = t[i]

\* No encoder table holds a key twice; values_ref_ is what the wire carries
\* until the begin/end API writes a container that it does not register.
EncoderOK ==
    /\ NoRepeats(eTypes) /\ NoRepeats(eDefs) /\ NoRepeats(eValues)
    /\ ~streamed => Len(begun) = Len(eValues) /\ Agrees(eValues, begun)

\* The counts recorded with the wire never exceed, and end at, the sizes now.
MarkOK ==
    /\ mark[1] = [t |-> 0, d |-> 0, v |-> 0]
    /\ mark[Len(wire) + 1] = Sizes
    /\ \A i \in 1 .. Len(wire) + 1 : /\ mark[i].t <= Len(eTypes)
                                     /\ mark[i].d <= Len(eDefs)
                                     /\ mark[i].v <= Len(begun)

\* A token w, read by a decoder whose tables have the sizes a and will
\* have the sizes b, stands for the event e.
TypeMeans(w, e, a, b, types) ==
    IF w.op # "M" THEN b.t = a.t /\ e.type = None
    ELSE /\ e.ev = "typed"
         /\ IF w.type # None
            THEN b.t = a.t + 1 /\ w.type = e.type /\ types[b.t] = e.type
            ELSE b.t = a.t /\ w.num \in 0 .. a.t - 1 /\ types[w.num + 1] = e.type

DefIndex(w) == IF w.op = "O" THEN w.num ELSE w.num - 96

DefMeans(w, e, a, b, defs) ==
    IF w.op \notin {"O", "x60"} THEN b.d = a.d /\ e.def = None
    ELSE /\ e.ev = "class"
         /\ IF w.def # None
            THEN b.d = a.d + 1 /\ defs[b.d] = w.def
            ELSE b.d = a.d
         /\ DefIndex(w) \in 0 .. b.d - 1
         /\ w.op = "x60" => DefIndex(w) <= ShortLimit
         /\ defs[DefIndex(w) + 1] = e.def

ValueMeans(w, e, a, b, bodies) ==
    IF w.op = "Q"
    THEN /\ e.ev = "ref" /\ b.v = a.v
         /\ w.num \in 0 .. a.v - 1 /\ bodies[w.num + 1] = e.obj
    ELSE /\ w.op = "H" => e.ev = "untyped"
         /\ w.obj = e.obj /\ b.v = a.v + 1 /\ bodies[b.v] = w.obj

WireOK ==
    \A i \in 1 .. Len(wire) :
        /\ TypeMeans(wire[i], elog[i], mark[i], mark[i + 1], eTypes)
        /\ DefMeans(wire[i], elog[i], mark[i], mark[i + 1], eDefs)
        /\ ValueMeans(wire[i], elog[i], mark[i], mark[i + 1], begun)

\* What the decoder has is the part of the encoder's tables it has been told.
DecoderOK ==
    /\ ~failed
    /\ Len(dTypes) = mark[pos + 1].t /\ Agrees(dTypes, eTypes)
    /\ Len(dDefs) = mark[pos + 1].d /\ Agrees(dDefs, eDefs)
    /\ Len(dValues) = mark[pos + 1].v /\ Agrees(dValues, begun)
    /\ Len(dlog) = pos /\ Agrees(dlog, elog)

\* Between two handler calls the tables of the two sides and the tokens
\* still unread fit together (codec.hpp, getTypeRef, getDefRef, getValueRef
\* against the three decode functions that use an index).
TablesInv == EncoderOK /\ MarkOK /\ WireOK /\ DecoderOK
=============================================================================
