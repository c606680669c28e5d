--------------------------- MODULE RefTablesProofs ---------------------------
(***************************************************************************)
(* Proofs about RefTables: the tables are well typed for every choice of   *)
(* the constants, and, as long as the caller encodes no container twice    *)
(* and no table outgrows an int16_t, both sides agree on every index.      *)
(***************************************************************************)
EXTENDS RefTables, SequenceTheorems, TLAPS

\* What a getter returns for a key of a table no longer than a uint16_t allows.
LEMMA PositionFound ==
    ASSUME NEW S, NEW table \in Seq(S), NEW x, Has(table, x)
    PROVE  Position(table, x) \in 1 .. Len(table) /\ table[Position(table, x)] = x
BY DEF Has, Position

LEMMA SmallMod ==
    ASSUME NEW a \in Nat, NEW m \in Nat, a < m
    PROVE  a % m = a
OBVIOUS

\* A getter never answers -1 for a key below index 2^16 - 1.
LEMMA GetRefRange ==
    ASSUME NEW S, NEW table \in Seq(S), NEW x, Len(table) <= 2 * Half
    PROVE  /\ GetRef(table, x) \in Int
           /\ ~Has(table, x) => GetRef(table, x) = -1
           /\ Has(table, x) /\ Len(table) < 2 * Half => GetRef(table, x) # -1
<1>1. CASE ~Has(table, x)
  BY <1>1 DEF GetRef
<1>2. CASE Has(table, x)
  <2> DEFINE p == Position(table, x)
  <2>1. p \in 1 .. Len(table)
    BY <1>2, PositionFound
  <2>2. 2 * Half \in Nat /\ Half \in Nat
    BY TablesAssumption
  <2>3. IndexOf(table, x) = p - 1
    <3>1. p - 1 \in Nat /\ p - 1 < 2 * Half
      BY <2>1, <2>2
    <3> QED
      BY <3>1, <2>2, SmallMod DEF IndexOf
  <2> QED
    BY <1>2, <2>1, <2>2, <2>3 DEF GetRef, AsInt16
<1> QED
  BY <1>1, <1>2

\* Below index 2^15 the getter returns the position of the key, so that
\* indexing a table with the same entries gives the key back.
LEMMA GetRefFound ==
    ASSUME NEW S, NEW table \in Seq(S), NEW x, Has(table, x), Len(table) <= Half
    PROVE  /\ GetRef(table, x) \in 0 .. Len(table) - 1
           /\ table[GetRef(table, x) + 1] = x
<1> DEFINE p == Position(table, x)
<1>1. p \in 1 .. Len(table) /\ table[p] = x
  BY PositionFound
<1>2. 2 * Half \in Nat /\ Half \in Nat
  BY TablesAssumption
<1>3. p - 1 \in Nat /\ p - 1 < 2 * Half /\ p - 1 < Half
  BY <1>1, <1>2
<1>4. IndexOf(table, x) = p - 1
  BY <1>2, <1>3, SmallMod DEF IndexOf
<1>5. GetRef(table, x) = p - 1
  BY <1>2, <1>3, <1>4 DEF GetRef, AsInt16
<1> QED
  BY <1>1, <1>5

-----------------------------------------------------------------------------
(* Type correctness *)

\* emplace keeps a table well typed and within its bound.
LEMMA RegisterType ==
    ASSUME NEW S, NEW table \in Seq(S), NEW x \in S, Room(table, x),
           Len(table) <= MaxEntries
    PROVE  Register(table, x) \in Seq(S) /\ Len(Register(table, x)) <= MaxEntries
BY TablesAssumption, AppendProperties DEF Register, Room

LEMMA TypeTableType ==
    ASSUME TypeOK, NEW t \in Types, Room(eTypes, t),
           eTypes' = IF GetRef(eTypes, t) = -1 THEN Register(eTypes, t) ELSE eTypes
    PROVE  eTypes' \in Seq(Types) /\ Len(eTypes') <= MaxEntries
BY RegisterType DEF TypeOK, EncoderTyped

\* A definition is appended only when def_ref_ does not have it.
LEMMA DefTableType ==
    ASSUME TypeOK, NEW d \in Defs, RoomForDef(d),
           eDefs' = IF GetRef(eDefs, d) = -1 THEN Append(eDefs, d) ELSE eDefs
    PROVE  /\ eDefs' \in Seq(Defs)
           /\ Len(eDefs') <= MaxEntries
           /\ Len(eDefs') < 2 * Half
<1>1. Len(eDefs) <= 2 * Half /\ Half \in Nat /\ MaxEntries \in Nat
  BY TablesAssumption DEF TypeOK, EncoderTyped
<1>2. Has(eDefs, d) => GetRef(eDefs, d) # -1
  BY <1>1, GetRefRange DEF TypeOK, EncoderTyped
<1> QED
  BY <1>1, <1>2, AppendProperties DEF TypeOK, EncoderTyped, RoomForDef, Room

LEMMA TypeTokType ==
    ASSUME TypeOK, NEW o \in Objs, NEW t \in Types
    PROVE  TypeTok("M", o, t) \in Token
<1>1. GetRef(eTypes, t) \in Int
  BY GetRefRange, TablesAssumption DEF TypeOK, EncoderTyped
<1> QED
  BY <1>1, TablesAssumption DEF TypeTok, Token, Ops

LEMMA DefTokType ==
    ASSUME TypeOK, NEW o \in Objs, NEW d \in Defs, RoomForDef(d)
    PROVE  DefTok(o, d) \in Token
<1> DEFINE T == IF GetRef(eDefs, d) = -1 THEN Append(eDefs, d) ELSE eDefs
           r == GetRef(T, d)
<1>1. Half \in Nat /\ ShortLimit \in Nat
  BY TablesAssumption
<1>2. T \in Seq(Defs) /\ Len(T) <= 2 * Half
  BY <1>1, AppendProperties DEF TypeOK, EncoderTyped
<1>3. r \in Int
  BY <1>2, GetRefRange
<1>4. (96 + r) % 256 \in Int
  BY <1>3
<1> HIDE DEF r
<1>5. DefTok(o, d) = [op |-> IF r <= ShortLimit THEN "x60" ELSE "O", obj |-> o,
                      type |-> None,
                      def |-> IF GetRef(eDefs, d) = -1 THEN d ELSE None,
                      num |-> IF r <= ShortLimit THEN (96 + r) % 256 ELSE r]
  BY DEF DefTok, r
<1> QED
  BY <1>3, <1>4, <1>5, TablesAssumption DEF Token, Ops

\* What every encoder handler leaves well typed, given the tables it leaves.
LEMMA WriteType ==
    ASSUME TypeOK, NEW tok \in Token, NEW e \in Events, Write(tok, e),
           eTypes' \in Seq(Types), eDefs' \in Seq(Defs), eValues' \in Seq(Objs),
           Len(eTypes') <= MaxEntries, Len(eDefs') <= MaxEntries,
           Len(eValues') <= MaxEntries, Len(eDefs') < 2 * Half,
           streamed' \in BOOLEAN
    PROVE  TypeOK'
<1>1. /\ wire' \in Seq(Token) /\ Len(wire') = Len(wire) + 1
      /\ Len(wire') <= MaxWire
  BY TablesAssumption, AppendProperties DEF TypeOK, WireTyped, Write
<1>2. elog' \in Seq(Events) /\ Len(elog') = Len(wire')
  BY <1>1, AppendProperties DEF TypeOK, WireTyped, Write
<1>3. begun' \in Seq(Objs)
  BY AppendProperties DEF TypeOK, WireTyped, Write, Token
<1>4. Sizes' \in [t : Nat, d : Nat, v : Nat]
  BY <1>3 DEF Sizes
<1>5. mark' \in Seq([t : Nat, d : Nat, v : Nat]) /\ Len(mark') = Len(wire') + 1
  BY <1>1, <1>4, AppendProperties DEF TypeOK, WireTyped, Write
<1>6. UNCHANGED decVars /\ pos' \in 0 .. Len(wire')
  BY <1>1 DEF TypeOK, WireTyped, DecoderTyped, Write, decVars
<1> QED
  BY <1>1, <1>2, <1>3, <1>5, <1>6 DEF TypeOK, EncoderTyped, WireTyped, DecoderTyped, decVars

LEMMA EventType ==
    ASSUME NEW ev \in {"typed", "untyped", "class", "ref"}, NEW o \in Objs,
           NEW t \in Types \cup {None}, NEW d \in Defs \cup {None}
    PROVE  Event(ev, o, t, d) \in Events
BY DEF Event, Events

LEMMA EncodeType == TypeOK /\ Encode => TypeOK'
<1> SUFFICES ASSUME TypeOK, NEW o \in Objs,
                    \/ EncodeUntyped(o) \/ EncodeRef(o) \/ EncodeUntypedBegin(o)
                    \/ \E t \in Types : EncodeTyped(o, t) \/ EncodeTypedBegin(o, t)
                    \/ \E d \in Defs : EncodeClass(o, d)
                                      \/ EncodeClassInstanceBegin(o, d)
             PROVE  TypeOK'
  BY DEF Encode
<1>h. [op |-> "H", obj |-> o, type |-> None, def |-> None, num |-> 0] \in Token
  BY TablesAssumption DEF Token, Ops
<1>u. Event("untyped", o, None, None) \in Events
  BY EventType
<1>1. CASE EncodeUntyped(o)
  <2>1. eValues' \in Seq(Objs) /\ Len(eValues') <= MaxEntries
    BY <1>1, RegisterType DEF EncodeUntyped, TypeOK, EncoderTyped
  <2> QED
    BY <1>1, <1>h, <1>u, <2>1, WriteType DEF EncodeUntyped, TypeOK, EncoderTyped
<1>2. CASE EncodeRef(o)
  <2> DEFINE tok == [op |-> "Q", obj |-> None, type |-> None, def |-> None,
                     num |-> GetRef(eValues, o)]
  <2>1. GetRef(eValues, o) \in Int
    BY GetRefRange, TablesAssumption DEF TypeOK, EncoderTyped
  <2>2. tok \in Token
    BY <2>1 DEF Token, Ops
  <2>3. Event("ref", o, None, None) \in Events
    BY EventType
  <2> QED
    BY <1>2, <2>2, <2>3, WriteType DEF EncodeRef, TypeOK, EncoderTyped
<1>3. CASE EncodeUntypedBegin(o)
  BY <1>3, <1>h, <1>u, WriteType DEF EncodeUntypedBegin, TypeOK, EncoderTyped
<1>4. ASSUME NEW t \in Types, EncodeTyped(o, t) \/ EncodeTypedBegin(o, t)
      PROVE  TypeOK'
  <2>1. eTypes' \in Seq(Types) /\ Len(eTypes') <= MaxEntries
    BY <1>4, TypeTableType DEF EncodeTyped, EncodeTypedBegin
  <2>2. eValues' \in Seq(Objs) /\ Len(eValues') <= MaxEntries
    BY <1>4, RegisterType DEF EncodeTyped, EncodeTypedBegin, TypeOK, EncoderTyped
  <2>3. TypeTok("M", o, t) \in Token /\ Event("typed", o, t, None) \in Events
    BY TypeTokType, EventType
  <2> QED
    BY <1>4, <2>1, <2>2, <2>3, WriteType
       DEF EncodeTyped, EncodeTypedBegin, TypeOK, EncoderTyped
<1>5. ASSUME NEW d \in Defs, EncodeClass(o, d) \/ EncodeClassInstanceBegin(o, d)
      PROVE  TypeOK'
  <2>1. /\ eDefs' \in Seq(Defs) /\ Len(eDefs') <= MaxEntries
        /\ Len(eDefs') < 2 * Half
    BY <1>5, DefTableType DEF EncodeClass, EncodeClassInstanceBegin
  <2>2. eValues' \in Seq(Objs) /\ Len(eValues') <= MaxEntries
    BY <1>5, RegisterType DEF EncodeClass, EncodeClassInstanceBegin, TypeOK, EncoderTyped
  <2>3. DefTok(o, d) \in Token /\ Event("class", o, None, d) \in Events
    BY <1>5, DefTokType, EventType DEF EncodeClass, EncodeClassInstanceBegin
  <2> QED
    BY <1>5, <2>1, <2>2, <2>3, WriteType
       DEF EncodeClass, EncodeClassInstanceBegin, TypeOK, EncoderTyped
<1> QED
  BY <1>1, <1>2, <1>3, <1>4, <1>5

\* The token the decoder is about to read.
LEMMA CurType ==
    ASSUME TypeOK, pos < Len(wire)
    PROVE  Cur \in Token
BY DEF TypeOK, WireTyped, DecoderTyped, Cur

\* What every decoder handler leaves well typed.
LEMMA ReadType ==
    ASSUME TypeOK, pos < Len(wire), pos' = pos + 1, UNCHANGED encVars,
           dTypes' \in Seq(Types), dDefs' \in Seq(Defs), dValues' \in Seq(Objs),
           Fail \/ \E e \in Events : Deliver(e)
    PROVE  TypeOK'
<1>1. dlog' \in Seq(Events) /\ Len(dlog') <= pos' /\ failed' \in BOOLEAN
  <2>1. CASE Fail
    BY <2>1 DEF TypeOK, WireTyped, DecoderTyped, Fail
  <2>2. ASSUME NEW e \in Events, Deliver(e)
        PROVE  dlog' \in Seq(Events) /\ Len(dlog') <= pos' /\ failed' \in BOOLEAN
    <3>1. dlog' = Append(dlog, e) /\ failed' = failed
      BY <2>2 DEF Deliver
    <3>2. dlog' \in Seq(Events) /\ Len(dlog') = Len(dlog) + 1
      BY <3>1, AppendProperties DEF TypeOK, DecoderTyped
    <3> QED
      BY <3>1, <3>2 DEF TypeOK, WireTyped, DecoderTyped
  <2> QED
    BY <2>1, <2>2
<1>2. pos' \in 0 .. Len(wire')
  BY DEF TypeOK, WireTyped, DecoderTyped, encVars
<1> QED
  BY <1>1, <1>2 DEF TypeOK, EncoderTyped, WireTyped, DecoderTyped, encVars

LEMMA DecodeType == TypeOK /\ Decode => TypeOK'
<1> SUFFICES ASSUME TypeOK, Decode PROVE TypeOK'
  OBVIOUS
<1>0. pos < Len(wire) /\ pos' = pos + 1 /\ UNCHANGED encVars
  BY DEF Decode, DecodeTyped, DecodeUntyped, DecodeClass, DecodeInstance,
         DecodeRef, Read
<1>t. Cur \in Token
  BY <1>0, CurType
<1>1. CASE DecodeTyped
  <2>0. Cur.obj \in Objs
    BY <1>1, <1>t DEF DecodeTyped, Read, Token
  <2>1. CASE Cur.type # None
    <3>1. Cur.type \in Types
      BY <1>t, <2>1 DEF Token
    <3>2. dTypes' \in Seq(Types) /\ dDefs' \in Seq(Defs) /\ dValues' \in Seq(Objs)
      <4>1. dTypes' = Append(dTypes, Cur.type) /\ dDefs' = dDefs
            /\ dValues' = Append(dValues, Cur.obj)
        BY <1>1, <2>1 DEF DecodeTyped
      <4> QED
        BY <2>0, <3>1, <4>1, AppendProperties DEF TypeOK, DecoderTyped
    <3>3. Event("typed", Cur.obj, Cur.type, None) \in Events
      BY <2>0, <3>1, EventType
    <3> QED
      BY <1>0, <1>1, <2>1, <3>2, <3>3, ReadType DEF DecodeTyped
  <2>2. CASE Cur.type = None
    <3>2. dTypes' \in Seq(Types) /\ dDefs' \in Seq(Defs) /\ dValues' \in Seq(Objs)
      BY <1>1, <2>0, <2>2, AppendProperties DEF DecodeTyped, TypeOK, DecoderTyped
    <3>3. CASE InTable(Cur.num, dTypes)
      <4>1. Cur.num + 1 \in 1 .. Len(dTypes)
        BY <1>t, <3>3 DEF InTable, Token, TypeOK, DecoderTyped
      <4>2. Event("typed", Cur.obj, dTypes[Cur.num + 1], None) \in Events
        BY <2>0, <4>1, EventType, ElementOfSeq DEF TypeOK, DecoderTyped
      <4> QED
        BY <1>0, <1>1, <2>2, <3>2, <3>3, <4>2, ReadType DEF DecodeTyped
    <3>4. CASE ~InTable(Cur.num, dTypes)
      BY <1>0, <1>1, <2>2, <3>2, <3>4, ReadType DEF DecodeTyped
    <3> QED
      BY <3>3, <3>4
  <2> QED
    BY <2>1, <2>2
<1>2. CASE DecodeUntyped
  <2>1. Cur.obj \in Objs
    BY <1>2, <1>t DEF DecodeUntyped, Read, Token
  <2>2. dTypes' \in Seq(Types) /\ dDefs' \in Seq(Defs) /\ dValues' \in Seq(Objs)
    BY <1>2, <2>1, AppendProperties DEF DecodeUntyped, TypeOK, DecoderTyped
  <2>3. Event("untyped", Cur.obj, None, None) \in Events
    BY <2>1, EventType
  <2> QED
    BY <1>0, <1>2, <2>2, <2>3, ReadType DEF DecodeUntyped
<1>3. ASSUME NEW op \in {"O", "x60"}, NEW index \in Int, DecodeInstance(op, index)
      PROVE  TypeOK'
  <2>1. Cur.obj \in Objs
    BY <1>3, <1>t DEF DecodeInstance, Read, Token
  <2>2. dTypes' \in Seq(Types) /\ dDefs' \in Seq(Defs) /\ dValues' \in Seq(Objs)
    BY <1>3, <1>t, <2>1, AppendProperties DEF DecodeInstance, TypeOK, DecoderTyped, Token
  <2>3. CASE InTable(index, dDefs')
    <3>1. index + 1 \in 1 .. Len(dDefs')
      BY <2>2, <2>3, LenProperties DEF InTable
    <3>2. Event("class", Cur.obj, None, dDefs'[index + 1]) \in Events
      BY <2>1, <2>2, <3>1, EventType, ElementOfSeq
    <3> QED
      BY <1>0, <1>3, <2>2, <2>3, <3>2, ReadType DEF DecodeInstance
  <2>4. CASE ~InTable(index, dDefs')
    BY <1>0, <1>3, <2>2, <2>4, ReadType DEF DecodeInstance
  <2> QED
    BY <2>3, <2>4
<1>4. CASE DecodeRef
  <2>2. dTypes' \in Seq(Types) /\ dDefs' \in Seq(Defs) /\ dValues' \in Seq(Objs)
    BY <1>4 DEF DecodeRef, TypeOK, DecoderTyped
  <2>3. CASE InTable(Cur.num, dValues)
    <3>1. Cur.num + 1 \in 1 .. Len(dValues)
      BY <1>t, <2>3 DEF InTable, Token, TypeOK, DecoderTyped
    <3>2. Event("ref", dValues[Cur.num + 1], None, None) \in Events
      BY <3>1, EventType, ElementOfSeq DEF TypeOK, DecoderTyped
    <3> QED
      BY <1>0, <1>4, <2>2, <2>3, <3>2, ReadType DEF DecodeRef
  <2>4. CASE ~InTable(Cur.num, dValues)
    BY <1>0, <1>4, <2>2, <2>4, ReadType DEF DecodeRef
  <2> QED
    BY <2>3, <2>4
<1>5. CASE DecodeClass
  <2>1. Cur.num \in Int
    BY <1>t DEF Token
  <2> QED
    BY <1>3, <1>5, <2>1 DEF DecodeClass
<1> QED
  BY <1>1, <1>2, <1>4, <1>5 DEF Decode

\* The tables keep their types and bounds, and the decoder never reads past
\* the end of what was written, for every set of types, definitions and
\* objects and every width of the indexes (codec.hpp, the three tables of
\* Encoder and of Decoder).
THEOREM TypeCorrect == Spec => []TypeOK
<1>1. Init => TypeOK
  <2> SUFFICES ASSUME Init PROVE TypeOK
    OBVIOUS
  <2>0. MaxEntries \in Nat /\ 0 < 2 * Half /\ MaxWire \in Nat
    BY TablesAssumption
  <2>1. EncoderTyped
    <3>1. eTypes \in Seq(Types) /\ eDefs \in Seq(Defs) /\ eValues \in Seq(Objs)
      BY DEF Init
    <3>2. Len(eTypes) = 0 /\ Len(eDefs) = 0 /\ Len(eValues) = 0
      BY DEF Init
    <3>3. streamed \in BOOLEAN
      BY DEF Init
    <3> QED
      BY <2>0, <3>1, <3>2, <3>3 DEF EncoderTyped
  <2>2. WireTyped
    <3>1. wire \in Seq(Token) /\ elog \in Seq(Events) /\ begun \in Seq(Objs)
      BY DEF Init
    <3>2. Len(wire) = 0 /\ Len(elog) = 0
      BY DEF Init
    <3>3. mark \in Seq([t : Nat, d : Nat, v : Nat]) /\ Len(mark) = 1
      BY DEF Init
    <3> QED
      BY <2>0, <3>1, <3>2, <3>3 DEF WireTyped
  <2>3. DecoderTyped
    <3>1. dTypes \in Seq(Types) /\ dDefs \in Seq(Defs) /\ dValues \in Seq(Objs)
      BY DEF Init
    <3>2. dlog \in Seq(Events) /\ Len(dlog) = 0 /\ Len(wire) = 0
      BY DEF Init
    <3>3. pos = 0 /\ failed \in BOOLEAN
      BY DEF Init
    <3> QED
      BY <3>1, <3>2, <3>3 DEF DecoderTyped
  <2> QED
    BY <2>1, <2>2, <2>3 DEF TypeOK
<1>2. TypeOK /\ [Next]_vars => TypeOK'
  <2>1. TypeOK /\ UNCHANGED vars => TypeOK'
    BY DEF TypeOK, EncoderTyped, WireTyped, DecoderTyped, vars, encVars, decVars
  <2> QED
    BY <2>1, EncodeType, DecodeType DEF Next
<1> QED
  BY <1>1, <1>2, PTL DEF Spec

-----------------------------------------------------------------------------
(* Agreement of the two sides *)

\* What the agreement rests on: indexes fit in the int16_t the getters return,
\* and the caller encodes each container once.
Representable == MaxEntries <= Half /\ Again = {}

LEMMA AgreesAppend ==
    ASSUME NEW S, NEW s \in Seq(S), NEW x \in S
    PROVE  Agrees(s, Append(s, x)) /\ Agrees(s, s)
BY AppendProperties, LenProperties DEF Agrees

\* What a token means does not change when entries are added to a table.
LEMMA TypeMeansGrows ==
    ASSUME NEW w, NEW e, NEW a, NEW b, NEW s, NEW t, w.num \in Int,
           a.t \in Nat, b.t \in Nat, \A k \in 1 .. b.t : s[k] = t[k],
           TypeMeans(w, e, a, b, s)
    PROVE  TypeMeans(w, e, a, b, t)
BY DEF TypeMeans

LEMMA DefMeansGrows ==
    ASSUME NEW w, NEW e, NEW a, NEW b, NEW s, NEW t, w.num \in Int,
           a.d \in Nat, b.d \in Nat, \A k \in 1 .. b.d : s[k] = t[k],
           DefMeans(w, e, a, b, s)
    PROVE  DefMeans(w, e, a, b, t)
BY DEF DefMeans, DefIndex

LEMMA ValueMeansGrows ==
    ASSUME NEW w, NEW e, NEW a, NEW b, NEW s, NEW t, w.num \in Int,
           a.v \in Nat, b.v \in Nat, \A k \in 1 .. b.v : s[k] = t[k],
           ValueMeans(w, e, a, b, s)
    PROVE  ValueMeans(w, e, a, b, t)
BY DEF ValueMeans

\* Agreement survives growth of the longer table.
LEMMA AgreesGrows ==
    ASSUME NEW S, NEW T, NEW U, NEW s \in Seq(S), NEW t \in Seq(T), NEW u \in Seq(U),
           Agrees(s, t), Agrees(t, u)
    PROVE  Agrees(s, u)
BY LenProperties DEF Agrees

\* A new token keeps the invariant if it means its event for a decoder whose
\* tables are the encoder's before the call.
LEMMA WriteKeeps ==
    ASSUME TypeOK, TypeOK', TablesInv, NEW tok \in Token, NEW e \in Events,
           Write(tok, e), EncoderOK',
           Agrees(eTypes, eTypes'), Agrees(eDefs, eDefs'),
           TypeMeans(tok, e, Sizes, Sizes', eTypes'),
           DefMeans(tok, e, Sizes, Sizes', eDefs'),
           ValueMeans(tok, e, Sizes, Sizes', begun')
    PROVE  TablesInv'
<1> DEFINE n == Len(wire)
<1>0. n \in Nat /\ pos \in 0 .. n /\ Len(mark) = n + 1 /\ Len(elog) = n
  BY LenProperties DEF TypeOK, WireTyped, DecoderTyped
<1>1. /\ wire' = Append(wire, tok) /\ elog' = Append(elog, e)
      /\ mark' = Append(mark, Sizes') /\ UNCHANGED decVars
  BY DEF Write
<1>2. /\ Len(wire') = n + 1 /\ wire'[n + 1] = tok
      /\ \A i \in 1 .. n : wire'[i] = wire[i]
  BY <1>0, <1>1, AppendProperties DEF TypeOK, WireTyped
<1>3. /\ Len(elog') = n + 1 /\ elog'[n + 1] = e
      /\ \A i \in 1 .. n : elog'[i] = elog[i]
  BY <1>0, <1>1, AppendProperties DEF TypeOK, WireTyped
<1>4. Sizes' \in [t : Nat, d : Nat, v : Nat]
  BY LenProperties DEF Sizes, TypeOK, EncoderTyped, WireTyped
<1>5. /\ mark'[n + 2] = Sizes'
      /\ \A i \in 1 .. n + 1 : mark'[i] = mark[i]
  BY <1>0, <1>1, <1>4, AppendProperties DEF TypeOK, WireTyped
<1>6. Agrees(begun, begun')
  <2>1. CASE tok.obj = None
    BY <2>1, AgreesAppend, LenProperties DEF Write, TypeOK, WireTyped, Agrees
  <2>2. CASE tok.obj # None
    <3>1. tok.obj \in Objs /\ begun' = Append(begun, tok.obj) /\ begun \in Seq(Objs)
      BY <2>2 DEF Write, Token, TypeOK, WireTyped
    <3> QED
      BY <3>1, AgreesAppend
  <2> QED
    BY <2>1, <2>2
<1>7. /\ Len(eTypes) \in Nat /\ Len(eDefs) \in Nat /\ Len(begun) \in Nat
      /\ Len(eTypes') \in Nat /\ Len(eDefs') \in Nat /\ Len(begun') \in Nat
  BY LenProperties DEF TypeOK, EncoderTyped, WireTyped
<1>8. /\ Len(eTypes) <= Len(eTypes') /\ Len(eDefs) <= Len(eDefs')
      /\ Len(begun) <= Len(begun')
  BY <1>6 DEF Agrees
<1>m. \A i \in 1 .. n + 1 : mark[i] \in [t : Nat, d : Nat, v : Nat]
  BY <1>0, ElementOfSeq DEF TypeOK, WireTyped
<1>9. MarkOK'
  <2>1. mark'[1] = [t |-> 0, d |-> 0, v |-> 0]
    BY <1>0, <1>5 DEF TablesInv, MarkOK
  <2>2. mark'[Len(wire') + 1] = Sizes'
    BY <1>0, <1>2, <1>5
  <2>3. ASSUME NEW i \in 1 .. Len(wire') + 1
        PROVE  /\ mark'[i].t <= Len(eTypes') /\ mark'[i].d <= Len(eDefs')
               /\ mark'[i].v <= Len(begun')
    <3>1. CASE i = n + 2
      BY <1>5, <1>7, <3>1 DEF Sizes
    <3>2. CASE i \in 1 .. n + 1
      <4>1. /\ mark[i].t <= Len(eTypes) /\ mark[i].d <= Len(eDefs)
            /\ mark[i].v <= Len(begun)
        BY <3>2 DEF TablesInv, MarkOK
      <4>2. mark[i].t \in Nat /\ mark[i].d \in Nat /\ mark[i].v \in Nat
        BY <1>m, <3>2
      <4> QED
        <5>1. mark'[i] = mark[i]
          BY <1>5, <3>2
        <5> QED
          BY <1>7, <1>8, <4>1, <4>2, <5>1
    <3> QED
      BY <1>0, <1>2, <3>1, <3>2
  <2> QED
    BY <2>1, <2>2, <2>3 DEF MarkOK
<1>10. WireOK'
  <2> SUFFICES ASSUME NEW i \in 1 .. n + 1
               PROVE  /\ TypeMeans(wire'[i], elog'[i], mark'[i], mark'[i + 1], eTypes')
                      /\ DefMeans(wire'[i], elog'[i], mark'[i], mark'[i + 1], eDefs')
                      /\ ValueMeans(wire'[i], elog'[i], mark'[i], mark'[i + 1], begun')
    BY <1>2 DEF WireOK
  <2>1. CASE i = n + 1
    <3>1. mark'[i] = Sizes /\ mark'[i + 1] = Sizes'
      BY <1>0, <1>5, <2>1 DEF TablesInv, MarkOK
    <3> QED
      BY <1>2, <1>3, <2>1, <3>1
  <2>2. CASE i \in 1 .. n
    <3>1. /\ wire'[i] = wire[i] /\ elog'[i] = elog[i]
          /\ mark'[i] = mark[i] /\ mark'[i + 1] = mark[i + 1]
      BY <1>0, <1>2, <1>3, <1>5, <2>2
    <3>2. /\ TypeMeans(wire[i], elog[i], mark[i], mark[i + 1], eTypes)
          /\ DefMeans(wire[i], elog[i], mark[i], mark[i + 1], eDefs)
          /\ ValueMeans(wire[i], elog[i], mark[i], mark[i + 1], begun)
      BY <2>2 DEF TablesInv, WireOK
    <3>3. /\ mark[i].t \in Nat /\ mark[i].d \in Nat /\ mark[i].v \in Nat
          /\ mark[i + 1].t \in Nat /\ mark[i + 1].d \in Nat
          /\ mark[i + 1].v \in Nat
      BY <1>0, <1>m, <2>2
    <3>4. /\ mark[i].t <= Len(eTypes) /\ mark[i + 1].t <= Len(eTypes)
          /\ mark[i].d <= Len(eDefs) /\ mark[i + 1].d <= Len(eDefs)
          /\ mark[i].v <= Len(begun) /\ mark[i + 1].v <= Len(begun)
      BY <1>0, <2>2 DEF TablesInv, MarkOK
    <3>n. wire[i].num \in Int
      <4>1. wire[i] \in Token
        BY <1>0, <2>2, ElementOfSeq DEF TypeOK, WireTyped
      <4> QED
        BY <4>1 DEF Token
    <3>k. /\ \A k \in 1 .. mark[i + 1].t : eTypes[k] = eTypes'[k]
          /\ \A k \in 1 .. mark[i + 1].d : eDefs[k] = eDefs'[k]
          /\ \A k \in 1 .. mark[i + 1].v : begun[k] = begun'[k]
      <4>1. ASSUME NEW k \in 1 .. mark[i + 1].t PROVE eTypes[k] = eTypes'[k]
        BY <1>7, <3>3, <3>4 DEF Agrees
      <4>2. ASSUME NEW k \in 1 .. mark[i + 1].d PROVE eDefs[k] = eDefs'[k]
        BY <1>7, <3>3, <3>4 DEF Agrees
      <4>3. ASSUME NEW k \in 1 .. mark[i + 1].v PROVE begun[k] = begun'[k]
        BY <1>6, <1>7, <3>3, <3>4 DEF Agrees
      <4> QED
        BY <4>1, <4>2, <4>3
    <3>5. TypeMeans(wire[i], elog[i], mark[i], mark[i + 1], eTypes')
      BY <3>2, <3>3, <3>n, <3>k, TypeMeansGrows
    <3>6. DefMeans(wire[i], elog[i], mark[i], mark[i + 1], eDefs')
      BY <3>2, <3>3, <3>n, <3>k, DefMeansGrows
    <3>7. ValueMeans(wire[i], elog[i], mark[i], mark[i + 1], begun')
      BY <3>2, <3>3, <3>n, <3>k, ValueMeansGrows
    <3> QED
      BY <3>1, <3>5, <3>6, <3>7
  <2> QED
    BY <1>0, <2>1, <2>2
<1>11. DecoderOK'
  <2>1. mark'[pos' + 1] = mark[pos + 1]
    BY <1>0, <1>1, <1>5 DEF decVars
  <2>2. /\ Len(dTypes) \in Nat /\ Len(dDefs) \in Nat /\ Len(dValues) \in Nat
        /\ Len(dlog) \in Nat
    BY LenProperties DEF TypeOK, DecoderTyped
  <2>3. Agrees(dTypes, eTypes') /\ Agrees(dDefs, eDefs') /\ Agrees(dValues, begun')
    BY <1>6, AgreesGrows DEF TablesInv, DecoderOK, TypeOK, EncoderTyped, WireTyped,
                             DecoderTyped
  <2>4. Agrees(dlog, elog')
    <3>1. elog \in Seq(Events) /\ dlog \in Seq(Events)
      BY DEF TypeOK, WireTyped, DecoderTyped
    <3>2. elog' = Append(elog, e)
      BY DEF Write
    <3>3. elog' \in Seq(Events) /\ Agrees(elog, elog')
      BY <3>1, <3>2, AppendProperties, AgreesAppend
    <3>4. Agrees(dlog, elog)
      BY DEF TablesInv, DecoderOK
    <3> QED
      BY <3>1, <3>3, <3>4, AgreesGrows
  <2> QED
    BY <1>1, <2>1, <2>3, <2>4 DEF TablesInv, DecoderOK, decVars
<1> QED
  BY <1>9, <1>10, <1>11 DEF TablesInv

\* Registering a key that is absent, or finding one that is present.
LEMMA RegisterAgrees ==
    ASSUME NEW S, NEW table \in Seq(S), NEW x \in S, NoRepeats(table)
    PROVE  /\ Agrees(table, Register(table, x))
           /\ NoRepeats(Register(table, x))
           /\ Has(table, x) => Register(table, x) = table
           /\ ~Has(table, x) => Register(table, x) = Append(table, x)
<1>1. CASE Has(table, x)
  BY <1>1, AgreesAppend DEF Register
<1>2. CASE ~Has(table, x)
  <2>1. Register(table, x) = Append(table, x)
    BY <1>2 DEF Register
  <2>2. NoRepeats(Append(table, x))
    BY <1>2, AppendProperties, LenProperties DEF NoRepeats, Has
  <2> QED
    BY <1>2, <2>1, <2>2, AgreesAppend
<1> QED
  BY <1>1, <1>2

LEMMA TypeTokMeans ==
    ASSUME TypeOK, TypeOK', EncoderOK, Representable, NEW o \in Objs, NEW t \in Types,
           eTypes' = IF GetRef(eTypes, t) = -1 THEN Register(eTypes, t) ELSE eTypes
    PROVE  /\ Agrees(eTypes, eTypes') /\ NoRepeats(eTypes')
           /\ TypeMeans(TypeTok("M", o, t), Event("typed", o, t, None),
                        Sizes, Sizes', eTypes')
<1>1. eTypes \in Seq(Types) /\ Len(eTypes) \in Nat /\ Len(eTypes) <= Half /\ Half \in Nat
  BY TablesAssumption, LenProperties DEF Representable, TypeOK, EncoderTyped
<1>2. t # None
  BY TablesAssumption
<1>3. CASE Has(eTypes, t)
  <2>1. GetRef(eTypes, t) \in 0 .. Len(eTypes) - 1 /\ eTypes[GetRef(eTypes, t) + 1] = t
    BY <1>1, <1>3, GetRefFound
  <2>2. eTypes' = eTypes /\ GetRef(eTypes, t) # -1
    BY <1>1, <2>1
  <2>3. Agrees(eTypes, eTypes') /\ NoRepeats(eTypes')
    BY <1>1, <2>2, AgreesAppend DEF EncoderOK, Agrees
  <2> QED
    BY <1>2, <2>1, <2>2, <2>3 DEF TypeMeans, TypeTok, Event, Sizes
<1>4. CASE ~Has(eTypes, t)
  <2>1. GetRef(eTypes, t) = -1
    BY <1>4 DEF GetRef
  <2>2. eTypes' = Append(eTypes, t) /\ Agrees(eTypes, eTypes') /\ NoRepeats(eTypes')
    BY <1>1, <1>4, <2>1, RegisterAgrees DEF EncoderOK
  <2>3. Len(eTypes') = Len(eTypes) + 1 /\ eTypes'[Len(eTypes) + 1] = t
    BY <1>1, <2>2, AppendProperties
  <2> QED
    BY <1>1, <1>2, <2>1, <2>2, <2>3 DEF TypeMeans, TypeTok, Event, Sizes
<1> QED
  BY <1>3, <1>4

LEMMA DefTokMeans ==
    ASSUME TypeOK, TypeOK', EncoderOK, Representable, NEW o \in Objs, NEW d \in Defs,
           eDefs' = IF GetRef(eDefs, d) = -1 THEN Append(eDefs, d) ELSE eDefs
    PROVE  /\ Agrees(eDefs, eDefs') /\ NoRepeats(eDefs')
           /\ DefMeans(DefTok(o, d), Event("class", o, None, d),
                       Sizes, Sizes', eDefs')
<1> DEFINE isNew == GetRef(eDefs, d) = -1
           T == IF isNew THEN Append(eDefs, d) ELSE eDefs
           r == GetRef(T, d)
           w == DefTok(o, d)
<1>1. /\ eDefs \in Seq(Defs) /\ Len(eDefs) \in Nat /\ Len(eDefs) <= Half
      /\ eDefs' \in Seq(Defs) /\ Len(eDefs') \in Nat /\ Len(eDefs') <= Half
      /\ Half \in Nat /\ ShortLimit \in 0 .. 15
  BY TablesAssumption, LenProperties DEF Representable, TypeOK, EncoderTyped
<1>2. d # None
  BY TablesAssumption
<1>3. Has(eDefs, d) <=> ~isNew
  <2>1. CASE Has(eDefs, d)
    BY <1>1, <2>1, GetRefFound
  <2>2. CASE ~Has(eDefs, d)
    BY <2>2 DEF GetRef
  <2> QED
    BY <2>1, <2>2
<1>4. /\ eDefs' = Register(eDefs, d)
      /\ Agrees(eDefs, eDefs') /\ NoRepeats(eDefs')
  BY <1>1, <1>3, RegisterAgrees DEF EncoderOK
<1>5. isNew => Len(eDefs') = Len(eDefs) + 1 /\ eDefs'[Len(eDefs) + 1] = d
  BY <1>1, AppendProperties
<1>6. ~isNew => eDefs' = eDefs
  OBVIOUS
<1>7. Has(eDefs', d)
  BY <1>1, <1>3, <1>5, <1>6 DEF Has
<1>8. r \in 0 .. Len(eDefs') - 1 /\ eDefs'[r + 1] = d
  BY <1>1, <1>7, GetRefFound
<1> HIDE DEF r
<1>9. r <= ShortLimit => (96 + r) % 256 = 96 + r
  BY <1>1, <1>8, SmallMod
<1>10. w = [op |-> IF r <= ShortLimit THEN "x60" ELSE "O", obj |-> o,
            type |-> None, def |-> IF isNew THEN d ELSE None,
            num |-> IF r <= ShortLimit THEN (96 + r) % 256 ELSE r]
  BY DEF DefTok, r
<1>11. DefIndex(w) = r
  BY <1>1, <1>8, <1>9, <1>10 DEF DefIndex
<1>12. w.op \in {"O", "x60"} /\ (w.op = "x60" => r <= ShortLimit)
  BY <1>10
<1>13. w.def = IF isNew THEN d ELSE None
  BY <1>10
<1> HIDE DEF w
<1>14. Sizes.d = Len(eDefs) /\ Sizes'.d = Len(eDefs')
  BY DEF Sizes
<1>15. DefMeans(w, Event("class", o, None, d), Sizes, Sizes', eDefs')
  BY <1>1, <1>2, <1>5, <1>6, <1>8, <1>11, <1>12, <1>13, <1>14 DEF DefMeans, Event
<1> QED
  BY <1>4, <1>15 DEF w

\* A container that values_ref_ does not have yet is entered on both records.
LEMMA ContainerMeans ==
    ASSUME TypeOK, TypeOK', EncoderOK, Representable, NEW o \in Objs,
           NEW tok, NEW e, Write(tok, e), tok.obj = o, e.obj = o,
           tok.op # "Q", tok.op = "H" => e.ev = "untyped"
    PROVE  /\ ValueMeans(tok, e, Sizes, Sizes', begun')
           /\ MayEncode(o) /\ eValues' = Register(eValues, o) =>
                 /\ NoRepeats(eValues')
                 /\ ~streamed => Len(begun') = Len(eValues') /\ Agrees(eValues', begun')
<1>1. /\ begun' = Append(begun, o) /\ begun \in Seq(Objs) /\ Len(begun) \in Nat
      /\ eValues \in Seq(Objs) /\ Len(eValues) \in Nat
  BY TablesAssumption, LenProperties DEF Write, TypeOK, EncoderTyped, WireTyped
<1>2. /\ Len(begun') = Len(begun) + 1 /\ begun'[Len(begun) + 1] = o
      /\ \A i \in 1 .. Len(begun) : begun'[i] = begun[i]
  BY <1>1, AppendProperties
<1>3. ValueMeans(tok, e, Sizes, Sizes', begun')
  BY <1>1, <1>2 DEF ValueMeans, Sizes
<1>4. ASSUME MayEncode(o), eValues' = Register(eValues, o)
      PROVE  /\ NoRepeats(eValues')
             /\ ~streamed => Len(begun') = Len(eValues') /\ Agrees(eValues', begun')
  <2>1. eValues' = Append(eValues, o) /\ NoRepeats(eValues')
    BY <1>1, <1>4, RegisterAgrees DEF MayEncode, Representable, EncoderOK
  <2>2. /\ Len(eValues') = Len(eValues) + 1 /\ eValues'[Len(eValues) + 1] = o
        /\ \A i \in 1 .. Len(eValues) : eValues'[i] = eValues[i]
    BY <1>1, <2>1, AppendProperties
  <2>3. ~streamed => Len(begun') = Len(eValues') /\ Agrees(eValues', begun')
    BY <1>1, <1>2, <2>2 DEF EncoderOK, Agrees
  <2> QED
    BY <2>1, <2>3
<1> QED
  BY <1>3, <1>4

LEMMA EncodeKeeps ==
    ASSUME TypeOK, TypeOK', TablesInv, Representable, Encode
    PROVE  TablesInv'
<1> SUFFICES ASSUME NEW o \in Objs,
                    \/ EncodeUntyped(o) \/ EncodeRef(o) \/ EncodeUntypedBegin(o)
                    \/ \E t \in Types : EncodeTyped(o, t) \/ EncodeTypedBegin(o, t)
                    \/ \E d \in Defs : EncodeClass(o, d)
                                      \/ EncodeClassInstanceBegin(o, d)
             PROVE  TablesInv'
  BY DEF Encode
<1>e. EncoderOK
  BY DEF TablesInv
<1>s. /\ Agrees(eTypes, eTypes) /\ Agrees(eDefs, eDefs)
      /\ NoRepeats(eTypes) /\ NoRepeats(eDefs) /\ NoRepeats(eValues)
  BY LenProperties DEF Agrees, TablesInv, EncoderOK, TypeOK, EncoderTyped
<1>1. ASSUME EncodeUntyped(o) \/ EncodeUntypedBegin(o) PROVE TablesInv'
  <2> DEFINE tok == [op |-> "H", obj |-> o, type |-> None, def |-> None, num |-> 0]
             e   == Event("untyped", o, None, None)
  <2>1. /\ Write(tok, e) /\ eTypes' = eTypes /\ eDefs' = eDefs
        /\ tok \in Token /\ e \in Events
    BY <1>1, EventType, TablesAssumption
       DEF EncodeUntyped, EncodeUntypedBegin, Token, Ops
  <2>2. tok.op = "H" /\ tok.obj = o /\ e.obj = o /\ e.ev = "untyped"
    BY DEF Event
  <2>3. /\ ValueMeans(tok, e, Sizes, Sizes', begun')
        /\ MayEncode(o) /\ eValues' = Register(eValues, o) =>
              /\ NoRepeats(eValues')
              /\ ~streamed => Len(begun') = Len(eValues') /\ Agrees(eValues', begun')
    <3> HIDE DEF tok, e
    <3> QED
      BY <1>e, <2>1, <2>2, ContainerMeans
  <2>4. EncoderOK'
    BY <1>1, <1>s, <2>1, <2>3 DEF EncodeUntyped, EncodeUntypedBegin, EncoderOK
  <2>5. /\ TypeMeans(tok, e, Sizes, Sizes', eTypes')
        /\ DefMeans(tok, e, Sizes, Sizes', eDefs')
    BY <2>1 DEF TypeMeans, DefMeans, Event, Sizes
  <2> HIDE DEF tok, e
  <2> QED
    BY <1>s, <2>1, <2>3, <2>4, <2>5, WriteKeeps
<1>2. ASSUME EncodeRef(o) PROVE TablesInv'
  <2> DEFINE r   == GetRef(eValues, o)
             tok == [op |-> "Q", obj |-> None, type |-> None, def |-> None, num |-> r]
             e   == Event("ref", o, None, None)
  <2>1. /\ Write(tok, e) /\ UNCHANGED <<eTypes, eDefs, eValues, streamed>>
        /\ Has(eValues, o) /\ ~streamed
    BY <1>2 DEF EncodeRef
  <2>2. r \in 0 .. Len(eValues) - 1 /\ eValues[r + 1] = o
    <3>1. eValues \in Seq(Objs) /\ Len(eValues) <= Half
      BY TablesAssumption, LenProperties DEF Representable, TypeOK, EncoderTyped
    <3> QED
      BY <2>1, <3>1, GetRefFound
  <2> HIDE DEF r
  <2>3. tok \in Token /\ e \in Events
    BY <2>2, EventType DEF Token, Ops
  <2>4. begun' = begun
    BY <2>1 DEF Write
  <2>5. Len(begun) = Len(eValues) /\ begun[r + 1] = o
    BY <2>1, <2>2 DEF TablesInv, EncoderOK, Agrees
  <2>6. EncoderOK'
    BY <1>e, <2>1, <2>4 DEF EncoderOK
  <2>7. /\ TypeMeans(tok, e, Sizes, Sizes', eTypes')
        /\ DefMeans(tok, e, Sizes, Sizes', eDefs')
        /\ ValueMeans(tok, e, Sizes, Sizes', begun')
    BY <2>1, <2>2, <2>4, <2>5 DEF TypeMeans, DefMeans, ValueMeans, Event, Sizes
  <2> HIDE DEF tok, e
  <2> QED
    BY <1>s, <2>1, <2>3, <2>6, <2>7, WriteKeeps
<1>3. ASSUME NEW t \in Types, EncodeTyped(o, t) \/ EncodeTypedBegin(o, t)
      PROVE  TablesInv'
  <2> DEFINE tok == TypeTok("M", o, t)
             e   == Event("typed", o, t, None)
  <2>1. /\ Write(tok, e) /\ eDefs' = eDefs
        /\ eTypes' = IF GetRef(eTypes, t) = -1 THEN Register(eTypes, t) ELSE eTypes
    BY <1>3 DEF EncodeTyped, EncodeTypedBegin
  <2>2. tok \in Token /\ e \in Events
    BY TypeTokType, EventType
  <2>3. /\ Agrees(eTypes, eTypes') /\ NoRepeats(eTypes')
        /\ TypeMeans(tok, e, Sizes, Sizes', eTypes')
    BY <1>e, <2>1, TypeTokMeans
  <2>4. tok.op = "M" /\ tok.obj = o /\ e.obj = o /\ e.def = None
    BY DEF TypeTok, Event
  <2> HIDE DEF tok, e
  <2>5. /\ ValueMeans(tok, e, Sizes, Sizes', begun')
        /\ MayEncode(o) /\ eValues' = Register(eValues, o) =>
              /\ NoRepeats(eValues')
              /\ ~streamed => Len(begun') = Len(eValues') /\ Agrees(eValues', begun')
    BY <1>e, <2>1, <2>4, ContainerMeans
  <2>6. EncoderOK'
    BY <1>3, <1>s, <2>1, <2>3, <2>5 DEF EncodeTyped, EncodeTypedBegin, EncoderOK
  <2>7. DefMeans(tok, e, Sizes, Sizes', eDefs')
    BY <2>1, <2>4 DEF DefMeans, Sizes
  <2> QED
    BY <1>s, <2>1, <2>2, <2>3, <2>5, <2>6, <2>7, WriteKeeps
<1>4. ASSUME NEW d \in Defs, EncodeClass(o, d) \/ EncodeClassInstanceBegin(o, d)
      PROVE  TablesInv'
  <2> DEFINE tok == DefTok(o, d)
             e   == Event("class", o, None, d)
  <2>1. /\ Write(tok, e) /\ eTypes' = eTypes /\ RoomForDef(d)
        /\ eDefs' = IF GetRef(eDefs, d) = -1 THEN Append(eDefs, d) ELSE eDefs
    BY <1>4 DEF EncodeClass, EncodeClassInstanceBegin
  <2>2. tok \in Token /\ e \in Events
    BY <2>1, DefTokType, EventType
  <2>3. /\ Agrees(eDefs, eDefs') /\ NoRepeats(eDefs')
        /\ DefMeans(tok, e, Sizes, Sizes', eDefs')
    BY <1>e, <2>1, DefTokMeans
  <2>4. tok.op \in {"O", "x60"} /\ tok.obj = o /\ e.obj = o /\ e.type = None
    BY DEF DefTok, Event
  <2> HIDE DEF tok, e
  <2>5. /\ ValueMeans(tok, e, Sizes, Sizes', begun')
        /\ MayEncode(o) /\ eValues' = Register(eValues, o) =>
              /\ NoRepeats(eValues')
              /\ ~streamed => Len(begun') = Len(eValues') /\ Agrees(eValues', begun')
    <3>1. tok.op # "Q" /\ tok.op # "H"
      BY <2>4
    <3> QED
      BY <1>e, <2>1, <2>4, <3>1, ContainerMeans
  <2>6. EncoderOK'
    BY <1>4, <1>s, <2>1, <2>3, <2>5 DEF EncodeClass, EncodeClassInstanceBegin, EncoderOK
  <2>7. TypeMeans(tok, e, Sizes, Sizes', eTypes')
    BY <2>1, <2>4 DEF TypeMeans, Sizes
  <2> QED
    BY <1>s, <2>1, <2>2, <2>3, <2>5, <2>6, <2>7, WriteKeeps
<1> QED
  BY <1>1, <1>2, <1>3, <1>4

\* A decoder table that takes over the next entry of the encoder's.
LEMMA AgreesNext ==
    ASSUME NEW S, NEW s \in Seq(S), NEW t \in Seq(S), NEW x \in S, Agrees(s, t),
           Len(s) < Len(t), x = t[Len(s) + 1]
    PROVE  Agrees(Append(s, x), t) /\ Len(Append(s, x)) = Len(s) + 1
BY AppendProperties, LenProperties DEF Agrees

\* What the invariant says of the token the decoder is about to read.
LEMMA CurMeans ==
    ASSUME TypeOK, TablesInv, pos < Len(wire)
    PROVE  LET a == mark[pos + 1]
               b == mark[pos + 2]
               e == elog[pos + 1]
           IN  /\ TypeMeans(Cur, e, a, b, eTypes)
               /\ DefMeans(Cur, e, a, b, eDefs)
               /\ ValueMeans(Cur, e, a, b, begun)
               /\ e \in Events /\ Cur \in Token
               /\ a.t = Len(dTypes) /\ a.d = Len(dDefs) /\ a.v = Len(dValues)
               /\ a.t \in Nat /\ a.d \in Nat /\ a.v \in Nat
               /\ b.t <= Len(eTypes) /\ b.d <= Len(eDefs) /\ b.v <= Len(begun)
<1>1. /\ pos \in Nat /\ Len(wire) \in Nat /\ pos + 1 \in 1 .. Len(wire)
      /\ pos + 2 \in 1 .. Len(wire) + 1 /\ (pos + 1) + 1 = pos + 2
  <2>1. pos \in 0 .. Len(wire) /\ Len(wire) \in Nat
    BY LenProperties DEF TypeOK, WireTyped, DecoderTyped
  <2> QED
    BY <2>1
<1>2. /\ TypeMeans(Cur, elog[pos + 1], mark[pos + 1], mark[pos + 2], eTypes)
      /\ DefMeans(Cur, elog[pos + 1], mark[pos + 1], mark[pos + 2], eDefs)
      /\ ValueMeans(Cur, elog[pos + 1], mark[pos + 1], mark[pos + 2], begun)
  BY <1>1 DEF TablesInv, WireOK, Cur
<1>3. elog[pos + 1] \in Events /\ Cur \in Token
  BY <1>1, CurType, ElementOfSeq DEF TypeOK, WireTyped
<1>4. /\ Len(dTypes) = mark[pos + 1].t /\ Len(dDefs) = mark[pos + 1].d
      /\ Len(dValues) = mark[pos + 1].v
  BY DEF TablesInv, DecoderOK
<1>5. Len(dTypes) \in Nat /\ Len(dDefs) \in Nat /\ Len(dValues) \in Nat
  BY LenProperties DEF TypeOK, DecoderTyped
<1>6. /\ mark[pos + 2].t <= Len(eTypes) /\ mark[pos + 2].d <= Len(eDefs)
      /\ mark[pos + 2].v <= Len(begun)
  BY <1>1 DEF TablesInv, MarkOK
<1> QED
  BY <1>2, <1>3, <1>4, <1>5, <1>6

\* A decoder handler keeps the invariant if its tables grow as recorded and
\* it delivers the event of its token.
LEMMA ReadKeeps ==
    ASSUME TypeOK, TablesInv, pos < Len(wire), pos' = pos + 1, UNCHANGED encVars,
           Deliver(elog[pos + 1]),
           Len(dTypes') = mark[pos + 2].t, Agrees(dTypes', eTypes),
           Len(dDefs') = mark[pos + 2].d, Agrees(dDefs', eDefs),
           Len(dValues') = mark[pos + 2].v, Agrees(dValues', begun)
    PROVE  TablesInv'
<1>1. EncoderOK' /\ MarkOK' /\ WireOK'
  BY DEF TablesInv, EncoderOK, MarkOK, WireOK, encVars, Sizes
<1>2. pos \in Nat /\ (pos + 1) + 1 = pos + 2
  BY DEF TypeOK, DecoderTyped
<1>3. Len(dlog') = pos' /\ Agrees(dlog', elog')
  <2>1. /\ dlog \in Seq(Events) /\ elog \in Seq(Events) /\ Len(dlog) = pos
        /\ Len(elog) = Len(wire) /\ Agrees(dlog, elog) /\ Len(wire) \in Nat
    BY LenProperties DEF TypeOK, WireTyped, DecoderTyped, TablesInv, DecoderOK
  <2>2. elog[pos + 1] \in Events
    BY <1>2, <2>1, ElementOfSeq
  <2>3. dlog' = Append(dlog, elog[pos + 1]) /\ elog' = elog
    BY DEF Deliver, encVars
  <2> QED
    BY <1>2, <2>1, <2>2, <2>3, AgreesNext
<1>4. ~failed'
  BY DEF Deliver, TablesInv, DecoderOK
<1>5. DecoderOK'
  BY <1>2, <1>3, <1>4 DEF DecoderOK, encVars
<1> QED
  BY <1>1, <1>5 DEF TablesInv

LEMMA DecodeKeeps ==
    ASSUME TypeOK, TablesInv, Decode
    PROVE  TablesInv'
<1>0. pos < Len(wire) /\ pos' = pos + 1 /\ UNCHANGED encVars
  BY DEF Decode, DecodeTyped, DecodeUntyped, DecodeClass, DecodeInstance,
         DecodeRef, Read
<1> DEFINE a == mark[pos + 1]
           b == mark[pos + 2]
           e == elog[pos + 1]
<1>1. /\ TypeMeans(Cur, e, a, b, eTypes) /\ DefMeans(Cur, e, a, b, eDefs)
      /\ ValueMeans(Cur, e, a, b, begun)
      /\ e \in Events /\ Cur \in Token
      /\ a.t = Len(dTypes) /\ a.d = Len(dDefs) /\ a.v = Len(dValues)
      /\ a.t \in Nat /\ a.d \in Nat /\ a.v \in Nat
      /\ b.t <= Len(eTypes) /\ b.d <= Len(eDefs) /\ b.v <= Len(begun)
  BY <1>0, CurMeans
<1>2. /\ Agrees(dTypes, eTypes) /\ Agrees(dDefs, eDefs) /\ Agrees(dValues, begun)
      /\ dTypes \in Seq(Types) /\ eTypes \in Seq(Types)
      /\ dDefs \in Seq(Defs) /\ eDefs \in Seq(Defs)
      /\ dValues \in Seq(Objs) /\ begun \in Seq(Objs)
  BY DEF TablesInv, DecoderOK, TypeOK, EncoderTyped, WireTyped, DecoderTyped
<1>3. /\ Len(eTypes) \in Nat /\ Len(eDefs) \in Nat /\ Len(begun) \in Nat
  BY <1>2, LenProperties
<1> HIDE DEF a, b, e
<1>keep. ASSUME Deliver(e),
                Len(dTypes') = b.t, Agrees(dTypes', eTypes),
                Len(dDefs') = b.d, Agrees(dDefs', eDefs),
                Len(dValues') = b.v, Agrees(dValues', begun)
         PROVE  TablesInv'
  BY <1>0, <1>keep, ReadKeeps DEF b, e
\* A container's body is the next entry of values_ref_.
<1>body. ASSUME Cur.op # "Q", dValues' = Append(dValues, Cur.obj)
         PROVE  /\ Len(dValues') = b.v /\ Agrees(dValues', begun)
                /\ Cur.obj = e.obj /\ (Cur.op = "H" => e.ev = "untyped")
  <2>1. /\ Cur.obj = e.obj /\ b.v = a.v + 1 /\ begun[b.v] = Cur.obj
        /\ (Cur.op = "H" => e.ev = "untyped")
    BY <1>1, <1>body DEF ValueMeans
  <2>2. Cur.obj \in Objs
    BY <1>1, <1>body DEF Token
  <2> QED
    BY <1>1, <1>2, <1>3, <1>body, <2>1, <2>2, AgreesNext
\* A token that is not for a table leaves it as it is.
<1>same. /\ Cur.op # "M" => b.t = a.t /\ e.type = None
         /\ Cur.op \notin {"O", "x60"} => b.d = a.d /\ e.def = None
         /\ Cur.op = "Q" => b.v = a.v
  BY <1>1 DEF TypeMeans, DefMeans, ValueMeans
<1>4. CASE DecodeTyped
  <2>1. /\ Cur.op = "M" /\ dValues' = Append(dValues, Cur.obj) /\ dDefs' = dDefs
    BY <1>4 DEF DecodeTyped, Read
  <2>2. e.ev = "typed" /\ e.def = None
    BY <1>1, <1>same, <2>1 DEF TypeMeans
  <2>3. CASE Cur.type # None
    <3>1. b.t = a.t + 1 /\ Cur.type = e.type /\ eTypes[b.t] = e.type
      BY <1>1, <2>1, <2>3 DEF TypeMeans
    <3>2. Cur.type \in Types
      BY <1>1, <2>3 DEF Token
    <3>3. /\ dTypes' = Append(dTypes, Cur.type)
          /\ Deliver(Event("typed", Cur.obj, Cur.type, None))
      BY <1>4, <2>3 DEF DecodeTyped
    <3>4. Len(dTypes') = b.t /\ Agrees(dTypes', eTypes)
      BY <1>1, <1>2, <1>3, <3>1, <3>2, <3>3, AgreesNext
    <3>5. Event("typed", Cur.obj, Cur.type, None) = e
      BY <1>1, <1>body, <2>1, <2>2, <3>1 DEF Event, Events
    <3> QED
      BY <1>1, <1>2, <1>keep, <1>body, <1>same, <2>1, <3>3, <3>4, <3>5
  <2>4. CASE Cur.type = None
    <3>1. b.t = a.t /\ Cur.num \in 0 .. a.t - 1 /\ eTypes[Cur.num + 1] = e.type
      BY <1>1, <2>1, <2>4 DEF TypeMeans
    <3>2. dTypes[Cur.num + 1] = e.type
      <4>1. Cur.num + 1 \in 1 .. Len(dTypes)
        BY <1>1, <3>1
      <4> QED
        BY <1>2, <3>1, <4>1 DEF Agrees
    <3>3. InTable(Cur.num, dTypes)
      BY <1>1, <3>1 DEF InTable
    <3>4. /\ dTypes' = dTypes
          /\ Deliver(Event("typed", Cur.obj, dTypes[Cur.num + 1], None))
      BY <1>4, <2>4, <3>3 DEF DecodeTyped
    <3>5. Event("typed", Cur.obj, dTypes[Cur.num + 1], None) = e
      BY <1>1, <1>body, <2>1, <2>2, <3>2 DEF Event, Events
    <3> QED
      BY <1>1, <1>2, <1>keep, <1>body, <1>same, <2>1, <3>1, <3>4, <3>5
  <2> QED
    BY <2>3, <2>4
<1>5. CASE DecodeUntyped
  <2>1. /\ Cur.op = "H" /\ dValues' = Append(dValues, Cur.obj)
        /\ dTypes' = dTypes /\ dDefs' = dDefs
        /\ Deliver(Event("untyped", Cur.obj, None, None))
    BY <1>5 DEF DecodeUntyped, Read
  <2>2. Event("untyped", Cur.obj, None, None) = e
    BY <1>1, <1>body, <1>same, <2>1 DEF Event, Events
  <2> QED
    BY <1>1, <1>2, <1>keep, <1>body, <1>same, <2>1, <2>2
<1>6. ASSUME NEW op \in {"O", "x60"}, NEW index, DecodeInstance(op, index),
             Cur.op = op => index = DefIndex(Cur)
      PROVE  TablesInv'
  <2>1. /\ Cur.op = op /\ index = DefIndex(Cur) /\ dTypes' = dTypes
        /\ dValues' = Append(dValues, Cur.obj)
        /\ dDefs' = IF Cur.def # None THEN Append(dDefs, Cur.def) ELSE dDefs
    BY <1>6 DEF DecodeInstance, Read
  <2>2. /\ e.ev = "class" /\ index \in 0 .. b.d - 1 /\ eDefs[index + 1] = e.def
        /\ e.type = None
        /\ IF Cur.def # None THEN b.d = a.d + 1 /\ eDefs[b.d] = Cur.def
                             ELSE b.d = a.d
    BY <1>1, <1>same, <2>1 DEF DefMeans
  <2>3. Len(dDefs') = b.d /\ Agrees(dDefs', eDefs)
    <3>1. CASE Cur.def # None
      <4>1. Cur.def \in Defs
        BY <1>1, <3>1 DEF Token
      <4> QED
        <5>1. /\ dDefs' = Append(dDefs, Cur.def) /\ b.d = Len(dDefs) + 1
              /\ Cur.def = eDefs[Len(dDefs) + 1] /\ Len(dDefs) < Len(eDefs)
          BY <1>1, <1>3, <2>1, <2>2, <3>1
        <5> QED
          BY <1>2, <4>1, <5>1, AgreesNext
    <3>2. CASE Cur.def = None
      BY <1>1, <1>2, <2>1, <2>2, <3>2
    <3> QED
      BY <3>1, <3>2
  <2>4. b.d \in Nat
    BY <1>1, <2>2
  <2>5. InTable(index, dDefs')
    BY <2>2, <2>3, <2>4 DEF InTable
  <2>6. dDefs'[index + 1] = e.def
    BY <2>2, <2>3, <2>4 DEF Agrees
  <2>7. Deliver(Event("class", Cur.obj, None, dDefs'[index + 1]))
    BY <1>6, <2>5 DEF DecodeInstance
  <2>8. Event("class", Cur.obj, None, dDefs'[index + 1]) = e
    <3>1. Cur.obj = e.obj
      BY <1>body, <2>1
    <3> QED
      BY <1>1, <2>2, <2>6, <3>1 DEF Event, Events
  <2>9. Len(dTypes') = b.t /\ Agrees(dTypes', eTypes)
    BY <1>1, <1>2, <1>same, <2>1
  <2>10. Len(dValues') = b.v /\ Agrees(dValues', begun)
    BY <1>body, <2>1
  <2> QED
    BY <1>keep, <2>3, <2>7, <2>8, <2>9, <2>10
<1>7. CASE DecodeRef
  <2>1. /\ Cur.op = "Q" /\ dTypes' = dTypes /\ dDefs' = dDefs /\ dValues' = dValues
    BY <1>7 DEF DecodeRef, Read
  <2>2. /\ e.ev = "ref" /\ b.v = a.v /\ Cur.num \in 0 .. a.v - 1
        /\ begun[Cur.num + 1] = e.obj
    BY <1>1, <2>1 DEF ValueMeans
  <2>3. InTable(Cur.num, dValues) /\ dValues[Cur.num + 1] = e.obj
    <3>1. Cur.num + 1 \in 1 .. Len(dValues) /\ InTable(Cur.num, dValues)
      BY <1>1, <2>2 DEF InTable
    <3> QED
      BY <1>2, <2>2, <3>1 DEF Agrees
  <2>4. Deliver(Event("ref", dValues[Cur.num + 1], None, None))
    BY <1>7, <2>3 DEF DecodeRef
  <2>5. Event("ref", dValues[Cur.num + 1], None, None) = e
    BY <1>1, <1>same, <2>1, <2>2, <2>3 DEF Event, Events
  <2> QED
    BY <1>1, <1>2, <1>keep, <1>same, <2>1, <2>2, <2>4, <2>5
<1>8. CASE DecodeClass
  <2>1. CASE DecodeInstance("O", Cur.num)
    BY <1>6, <2>1 DEF DefIndex
  <2>2. CASE DecodeInstance("x60", IF Cur.num \in 96 .. 96 + ShortLimit
                                   THEN Cur.num - 96 ELSE -1)
    <3>1. Cur.op = "x60"
      BY <2>2 DEF DecodeInstance, Read
    <3>2. DefIndex(Cur) \in 0 .. ShortLimit /\ DefIndex(Cur) = Cur.num - 96
      <4>1. DefIndex(Cur) = Cur.num - 96 /\ Cur.num \in Int
        BY <1>1, <3>1 DEF DefIndex, Token
      <4>2. DefIndex(Cur) >= 0 /\ DefIndex(Cur) <= ShortLimit
        <5>1. DefIndex(Cur) \in 0 .. b.d - 1 /\ DefIndex(Cur) <= ShortLimit
          BY <1>1, <3>1 DEF DefMeans
        <5> QED
          BY <5>1
      <4> QED
        BY <4>1, <4>2
    <3>3. Cur.num \in 96 .. 96 + ShortLimit
      <4>1. Cur.num \in Int /\ ShortLimit \in Nat
        BY <1>1, TablesAssumption DEF Token
      <4> QED
        BY <3>2, <4>1
    <3> QED
      BY <1>6, <2>2, <3>2, <3>3
  <2> QED
    BY <1>8, <2>1, <2>2 DEF DecodeClass
<1> QED
  BY <1>4, <1>5, <1>7, <1>8 DEF Decode

LEMMA InitInv == Init => TablesInv
<1> SUFFICES ASSUME Init PROVE TablesInv
  OBVIOUS
<1>1. /\ Len(wire) = 0 /\ Len(eTypes) = 0 /\ Len(eDefs) = 0 /\ Len(eValues) = 0
      /\ Len(begun) = 0 /\ Len(dTypes) = 0 /\ Len(dDefs) = 0 /\ Len(dValues) = 0
      /\ Len(elog) = 0 /\ Len(dlog) = 0
  BY DEF Init
<1>2. mark[1] = [t |-> 0, d |-> 0, v |-> 0] /\ pos = 0 /\ ~failed
  BY DEF Init
<1>3. EncoderOK
  BY <1>1 DEF EncoderOK, NoRepeats, Agrees
<1>4. MarkOK
  BY <1>1, <1>2 DEF MarkOK, Sizes
<1>5. WireOK
  BY <1>1 DEF WireOK
<1>6. DecoderOK
  BY <1>1, <1>2 DEF DecoderOK, Agrees
<1> QED
  BY <1>3, <1>4, <1>5, <1>6 DEF TablesInv

\* The tables of the two sides and the unread tokens fit together after every
\* handler call of codec.hpp's Encoder and Decoder.
THEOREM TablesInvariant ==
    ASSUME Representable
    PROVE  Spec => []TablesInv
<1>1. Init => TablesInv
  BY InitInv
<1>2. TypeOK /\ TypeOK' /\ TablesInv /\ [Next]_vars => TablesInv'
  <2> SUFFICES ASSUME TypeOK, TypeOK', TablesInv, [Next]_vars PROVE TablesInv'
    OBVIOUS
  <2>1. CASE Encode
    BY <2>1, EncodeKeeps
  <2>2. CASE Decode
    BY <2>2, DecodeKeeps
  <2>3. CASE UNCHANGED vars
    BY <2>3 DEF TablesInv, EncoderOK, MarkOK, WireOK, DecoderOK, Sizes, vars,
                encVars, decVars
  <2> QED
    BY <2>1, <2>2, <2>3 DEF Next
<1> QED
  BY <1>1, <1>2, TypeCorrect, PTL DEF Spec

LEMMA PrefixIsSubSeq ==
    ASSUME NEW S, NEW s \in Seq(S), NEW t \in Seq(S), Agrees(s, t)
    PROVE  s = SubSeq(t, 1, Len(s))
<1>1. /\ Len(s) \in Nat /\ Len(t) \in Nat /\ Len(s) <= Len(t)
      /\ \A i \in 1 .. Len(s) : s[i] = t[i]
  BY LenProperties DEF Agrees
<1>2. \A i \in 1 .. Len(s) : t[i] \in S
  BY <1>1, ElementOfSeq
<1>3. /\ SubSeq(t, 1, Len(s)) \in Seq(S)
      /\ Len(SubSeq(t, 1, Len(s))) = Len(s)
      /\ \A i \in 1 .. Len(s) : SubSeq(t, 1, Len(s))[i] = t[i]
  BY <1>1, <1>2, SubSeqProperties
<1> QED
  BY <1>1, <1>3, SeqEqual

\* Every type name, class and reference is decoded as the one encoded, and no
\* decode of an index fails.
THEOREM DecodesWhatWasEncoded ==
    ASSUME Representable
    PROVE  Spec => []SameEvents
<1>1. TypeOK /\ TablesInv => SameEvents
  BY PrefixIsSubSeq DEF SameEvents, TablesInv, DecoderOK, TypeOK, WireTyped, DecoderTyped
<1> QED
  BY <1>1, TypeCorrect, TablesInvariant, PTL

\* When everything written has been read, types_ref_ and def_ref_ are equal on
\* both sides, and so is values_ref_ if the begin/end API was not used.
THEOREM TablesAgreement ==
    ASSUME Representable
    PROVE  Spec => []TablesAgree
<1>1. TypeOK /\ TablesInv => TablesAgree
  <2> SUFFICES ASSUME TypeOK, TablesInv, pos = Len(wire)
               PROVE  dTypes = eTypes /\ dDefs = eDefs /\ (~streamed => dValues = eValues)
    BY DEF TablesAgree
  <2>1. /\ eTypes \in Seq(Types) /\ dTypes \in Seq(Types)
        /\ eDefs \in Seq(Defs) /\ dDefs \in Seq(Defs)
        /\ eValues \in Seq(Objs) /\ dValues \in Seq(Objs)
    BY DEF TypeOK, EncoderTyped, DecoderTyped
  <2>2. /\ Len(dTypes) = Len(eTypes) /\ Agrees(dTypes, eTypes)
        /\ Len(dDefs) = Len(eDefs) /\ Agrees(dDefs, eDefs)
        /\ Len(dValues) = Len(begun) /\ Agrees(dValues, begun)
    BY DEF TablesInv, DecoderOK, MarkOK, Sizes
  <2>3. dTypes = eTypes
    BY <2>1, <2>2, SeqEqual DEF Agrees
  <2>4. dDefs = eDefs
    BY <2>1, <2>2, SeqEqual DEF Agrees
  <2>5. ASSUME ~streamed PROVE dValues = eValues
    <3>1. Len(begun) = Len(eValues) /\ Agrees(eValues, begun)
      BY <2>5 DEF TablesInv, EncoderOK
    <3>2. Len(dValues) = Len(eValues) /\ \A i \in 1 .. Len(dValues) : dValues[i] = eValues[i]
      BY <2>2, <3>1 DEF Agrees
    <3> QED
      BY <2>1, <3>2, SeqEqual
  <2> QED
    BY <2>3, <2>4, <2>5
<1> QED
  BY <1>1, TypeCorrect, TablesInvariant, PTL

\* Encoder, buffer and decoder implement a first-in first-out channel of
\* logical events: every handler call of the encoder sends one, every handler
\* call of the decoder receives the next.
THEOREM RefinesChannel ==
    ASSUME Representable
    PROVE  Spec => Channel!Spec
<1>1. Init => Channel!Init
  BY DEF Init, Channel!Init
<1>2. TypeOK /\ TypeOK' /\ TablesInv /\ TablesInv' /\ [Next]_vars
          => [Channel!Next]_(Channel!vars)
  <2> SUFFICES ASSUME TypeOK, TypeOK', TablesInv, TablesInv', [Next]_vars
               PROVE  Channel!Next \/ UNCHANGED <<elog, dlog>>
    BY DEF Channel!vars
  <2>1. CASE Encode
    <3>1. PICK o \in Objs :
              \/ EncodeUntyped(o) \/ EncodeRef(o) \/ EncodeUntypedBegin(o)
              \/ \E t \in Types : EncodeTyped(o, t) \/ EncodeTypedBegin(o, t)
              \/ \E d \in Defs : EncodeClass(o, d) \/ EncodeClassInstanceBegin(o, d)
      BY <2>1 DEF Encode
    <3>2. \E e \in Events : elog' = Append(elog, e)
      BY <3>1, EventType
         DEF EncodeUntyped, EncodeRef, EncodeUntypedBegin, EncodeTyped,
             EncodeTypedBegin, EncodeClass, EncodeClassInstanceBegin, Write
    <3>3. dlog' = dlog
      BY <3>1
         DEF EncodeUntyped, EncodeRef, EncodeUntypedBegin, EncodeTyped,
             EncodeTypedBegin, EncodeClass, EncodeClassInstanceBegin, Write, decVars
    <3> QED
      BY <3>2, <3>3 DEF Channel!Next, Channel!Send
  <2>2. CASE Decode
    <3>1. pos < Len(wire) /\ pos' = pos + 1 /\ elog' = elog
      BY <2>2 DEF Decode, DecodeTyped, DecodeUntyped, DecodeClass, DecodeInstance,
                  DecodeRef, Read, encVars
    <3>2. \E e : dlog' = Append(dlog, e)
      <4>1. ~failed'
        BY DEF TablesInv, DecoderOK
      <4> QED
        BY <2>2, <4>1 DEF Decode, DecodeTyped, DecodeUntyped, DecodeClass,
                          DecodeInstance, DecodeRef, Deliver, Fail
    <3>3. /\ dlog \in Seq(Events) /\ elog \in Seq(Events) /\ dlog' \in Seq(Events)
          /\ Len(dlog) = pos /\ pos \in Nat /\ Len(elog) = Len(wire) /\ Len(dlog') = pos + 1
      BY <3>1 DEF TypeOK, WireTyped, DecoderTyped, TablesInv, DecoderOK
    <3>4. dlog'[pos + 1] = elog[pos + 1]
      BY <3>1, <3>3 DEF TablesInv, DecoderOK, Agrees
    <3>5. PICK e : dlog' = Append(dlog, e)
      BY <3>2
    <3>6. e = elog[pos + 1]
      BY <3>3, <3>4, <3>5
    <3> QED
      BY <3>1, <3>3, <3>5, <3>6 DEF Channel!Next, Channel!Receive
  <2>3. CASE UNCHANGED vars
    BY <2>3 DEF vars, encVars, decVars
  <2> QED
    BY <2>1, <2>2, <2>3 DEF Next
<1> QED
  BY <1>1, <1>2, TypeCorrect, TablesInvariant, PTL DEF Spec, Channel!Spec
=============================================================================
