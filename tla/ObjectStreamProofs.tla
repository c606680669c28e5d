------------------------- MODULE ObjectStreamProofs -------------------------
(***************************************************************************)
(* The ownership discipline of the Decoder, for any tokens and any length  *)
(* of the input: who owns what, and what a reference can point to.         *)
(***************************************************************************)
EXTENDS ObjectStream, SequenceTheorems, TLAPS

IsSequence(s) == s \in Seq({s[i] : i \in 1 .. Len(s)})

IsRecord(f) ==
    f = [kind |-> f.kind, addr |-> f.addr, left |-> f.left, vals |-> f.vals, key |-> f.key]

\* An activation record owns its elements, its key and itself, each apart from the
\* others, and the elements of a map come in pairs.
FrameOK(f) ==
    /\ IsRecord(f)
    /\ f.kind \in {"list", "map", "inst"}
    /\ f.left \in Int /\ f.left >= UntilEnd
    /\ IsSequence(f.vals)
    /\ f.kind = "map" => Len(f.vals) % 2 = 0
    /\ f.addr \notin f.key.own
    /\ \A i \in 1 .. Len(f.vals) : f.addr \notin f.vals[i].own /\ f.vals[i].own \cap f.key.own = {}
    /\ \A i, j \in 1 .. Len(f.vals) : i # j => f.vals[i].own \cap f.vals[j].own = {}

\* A call was left before it returned.
Ended == need = "failed" \/ (need = "gone" /\ stack = <<>>)

\* The state is of its types; between two calls, and before a value is read, nothing
\* has been returned.
ControlOK ==
    /\ wire \in Seq(Tokens) /\ pos \in 0 .. Len(wire) /\ defs \in Seq(Nat)
    /\ size \in 0 .. pos /\ need \in Needs /\ repeated \in BOOLEAN
    /\ IsSequence(stack) /\ \A i \in 1 .. Len(stack) : FrameOK(stack[i])
    /\ IsSequence(results) /\ trusted \in NoFailure .. Len(results)
    /\ need = "idle" \/ Ended => stack = <<>>
    /\ need \in {"idle", "value"} \/ Ended => ret = Nothing

OwnedByStack == UNION {Owned(stack[i]) : i \in 1 .. Len(stack)}
OwnedByResults == UNION {results[i].own : i \in 1 .. Len(results)}

\* Every container that is alive has one owner: an activation record, the value just
\* returned, or a result.
OneOwner ==
    /\ alive \subseteq 1 .. size
    /\ alive = OwnedByStack \cup ret.own \cup OwnedByResults
    /\ \A i, j \in 1 .. Len(stack) : i # j => Owned(stack[i]) \cap Owned(stack[j]) = {}
    /\ \A i, j \in 1 .. Len(results) : i # j => results[i].own \cap results[j].own = {}
    /\ \A i \in 1 .. Len(stack), j \in 1 .. Len(results) :
           Owned(stack[i]) \cap results[j].own = {}
    /\ \A i \in 1 .. Len(stack) : Owned(stack[i]) \cap ret.own = {}
    /\ \A j \in 1 .. Len(results) : ret.own \cap results[j].own = {}

\* values_ref_ is whole until then, also where the process dies inside a map.
AllAlive == ~Ended /\ trusted = NoFailure /\ ~repeated => alive = 1 .. size

\* A reference is to a container that was entered in values_ref_.
Entered(v) == v.shape.refs \subseteq 1 .. size

HeldEntered ==
    ~Ended /\ trusted = NoFailure =>
        /\ Entered(ret)
        /\ \A i \in 1 .. Len(stack) :
               /\ Entered(stack[i].key)
               /\ \A j \in 1 .. Len(stack[i].vals) : Entered(stack[i].vals[j])

\* The trusted results refer to nothing but what they own among themselves.
TrustedClosed ==
    ~repeated => \A v \in Trusted : v.shape.refs \subseteq UNION {w.own : w \in Trusted}

IInv == ControlOK /\ OneOwner /\ AllAlive /\ HeldEntered /\ TrustedClosed

-----------------------------------------------------------------------------
(* Sequences whose elements have no type *)

LEMMA SeqFacts ==
    ASSUME NEW s, IsSequence(s)
    PROVE  /\ Len(s) \in Nat
           /\ s = <<>> <=> Len(s) = 0
           /\ \E S : s \in Seq(S)
BY DEF IsSequence

LEMMA SeqEmpty == IsSequence(<<>>) /\ Len(<<>>) = 0
BY DEF IsSequence

LEMMA SeqMade ==
    ASSUME NEW S, NEW s \in Seq(S)
    PROVE  IsSequence(s)
<1>1. /\ Len(s) \in Nat
      /\ s \in [1 .. Len(s) -> {s[i] : i \in 1 .. Len(s)}]
  BY LenProperties
<1>. QED
  BY <1>1, SeqDef DEF IsSequence

LEMMA SeqAppend ==
    ASSUME NEW s, IsSequence(s), NEW x
    PROVE  LET t == Append(s, x)
           IN  /\ IsSequence(t) /\ Len(t) = Len(s) + 1
               /\ t[Len(s) + 1] = x /\ \A i \in 1 .. Len(s) : t[i] = s[i]
<1>1. PICK S : s \in Seq(S)
  BY SeqFacts
<1>2. s \in Seq(S \cup {x})
  BY <1>1, SeqMonotonic
<1>3. /\ Append(s, x) \in Seq(S \cup {x})
      /\ Len(Append(s, x)) = Len(s) + 1
      /\ Append(s, x)[Len(s) + 1] = x
      /\ \A i \in 1 .. Len(s) : Append(s, x)[i] = s[i]
  BY <1>2, AppendProperties
<1>. QED
  BY <1>3, SeqMade

LEMMA SeqConcat ==
    ASSUME NEW s, IsSequence(s), NEW t, IsSequence(t)
    PROVE  /\ IsSequence(s \o t) /\ Len(s \o t) = Len(s) + Len(t)
           /\ \A i \in 1 .. Len(s) : (s \o t)[i] = s[i]
           /\ \A i \in 1 .. Len(t) : (s \o t)[Len(s) + i] = t[i]
<1>1. PICK S, T : s \in Seq(S) /\ t \in Seq(T)
  BY SeqFacts
<1>2. s \in Seq(S \cup T) /\ t \in Seq(S \cup T)
  BY <1>1, SeqMonotonic
<1>3. s \o t \in Seq(S \cup T)
  BY <1>2
<1>4. Len(s) \in Nat /\ Len(t) \in Nat
  BY SeqFacts
<1>5. IsSequence(s \o t)
  BY <1>3, SeqMade
<1>6. /\ Len(s \o t) = Len(s) + Len(t)
      /\ \A i \in 1 .. Len(s) + Len(t) : (s \o t)[i] = IF i <= Len(s) THEN s[i] ELSE t[i - Len(s)]
  BY <1>2, ConcatProperties
<1>. QED
  BY <1>4, <1>5, <1>6

LEMMA SeqOne ==
    ASSUME NEW x
    PROVE  IsSequence(<<x>>) /\ Len(<<x>>) = 1 /\ <<x>>[1] = x
<1>1. <<x>> \in Seq({x})
  OBVIOUS
<1>. QED
  BY <1>1, SeqMade

LEMMA SeqTwo ==
    ASSUME NEW x, NEW y
    PROVE  IsSequence(<<x, y>>) /\ Len(<<x, y>>) = 2 /\ <<x, y>>[1] = x /\ <<x, y>>[2] = y
<1>1. <<x, y>> \in Seq({x, y})
  OBVIOUS
<1>. QED
  BY <1>1, SeqMade

LEMMA SeqPair ==
    ASSUME NEW s, IsSequence(s), NEW x, NEW y
    PROVE  LET t == s \o <<x, y>>
           IN  /\ IsSequence(t) /\ Len(t) = Len(s) + 2
               /\ \A i \in 1 .. Len(s) : t[i] = s[i]
               /\ t[Len(s) + 1] = x /\ t[Len(s) + 2] = y
<1>1. PICK S : s \in Seq(S)
  BY SeqFacts
<1>2. s \in Seq(S \cup {x, y}) /\ Len(s) \in Nat
  BY <1>1, SeqMonotonic, SeqFacts
<1>3. /\ <<x, y>> \in Seq(S \cup {x, y})
      /\ Len(<<x, y>>) = 2 /\ <<x, y>>[1] = x /\ <<x, y>>[2] = y
  OBVIOUS
<1>4. s \o <<x, y>> \in Seq(S \cup {x, y})
  BY <1>2, <1>3, ConcatProperties
<1>5. /\ Len(s \o <<x, y>>) = Len(s) + 2
      /\ \A i \in 1 .. Len(s) + 2 :
             (s \o <<x, y>>)[i] = IF i <= Len(s) THEN s[i] ELSE <<x, y>>[i - Len(s)]
  BY <1>2, <1>3, ConcatProperties
<1>6. (s \o <<x, y>>)[Len(s) + 1] = x /\ (s \o <<x, y>>)[Len(s) + 2] = y
  BY <1>2, <1>3, <1>5
<1>7. \A i \in 1 .. Len(s) : (s \o <<x, y>>)[i] = s[i]
  BY <1>2, <1>5
<1>. QED
  BY <1>4, <1>5, <1>6, <1>7, SeqMade

LEMMA SeqTail ==
    ASSUME NEW s, IsSequence(s), s # <<>>
    PROVE  /\ IsSequence(Tail(s)) /\ Len(Tail(s)) = Len(s) - 1 /\ Len(s) > 0
           /\ \A i \in 1 .. Len(s) - 1 : Tail(s)[i] = s[i + 1]
<1>1. PICK S : s \in Seq(S)
  BY SeqFacts
<1>2. Tail(s) \in Seq(S) /\ Len(Tail(s)) = Len(s) - 1 /\ Len(s) > 0
  BY <1>1
<1>3. \A i \in 1 .. Len(s) - 1 : Tail(s)[i] = s[i + 1]
  BY <1>1
<1>. QED
  BY <1>2, <1>3, SeqMade

LEMMA SeqCons ==
    ASSUME NEW s, IsSequence(s), NEW x
    PROVE  LET t == <<x>> \o s
           IN  /\ IsSequence(t) /\ Len(t) = Len(s) + 1 /\ t[1] = x
               /\ \A i \in 2 .. Len(t) : t[i] = s[i - 1]
<1>1. /\ Len(s) \in Nat
      /\ IsSequence(<<x>> \o s) /\ Len(<<x>> \o s) = 1 + Len(s) /\ (<<x>> \o s)[1] = x
      /\ \A i \in 1 .. Len(s) : (<<x>> \o s)[1 + i] = s[i]
  BY SeqConcat, SeqOne, SeqFacts
<1>2. ASSUME NEW i \in 2 .. Len(<<x>> \o s)
      PROVE  (<<x>> \o s)[i] = s[i - 1]
  <2>1. i - 1 \in 1 .. Len(s) /\ 1 + (i - 1) = i
    BY <1>1
  <2>. QED
    BY <1>1, <2>1
<1>. QED
  BY <1>1, <1>2

\* The innermost activation record changes, the others stay.
LEMMA SeqTop ==
    ASSUME NEW s, IsSequence(s), s # <<>>, NEW x
    PROVE  LET t == <<x>> \o Tail(s)
           IN  /\ IsSequence(t) /\ Len(t) = Len(s) /\ t[1] = x
               /\ \A i \in 2 .. Len(t) : t[i] = s[i]
<1>1. /\ IsSequence(Tail(s)) /\ Len(Tail(s)) = Len(s) - 1 /\ Len(s) \in Nat /\ Len(s) > 0
      /\ \A i \in 1 .. Len(s) - 1 : Tail(s)[i] = s[i + 1]
  BY SeqTail, SeqFacts
<1>2. LET t == <<x>> \o Tail(s)
      IN  /\ IsSequence(t) /\ Len(t) = Len(Tail(s)) + 1 /\ t[1] = x
          /\ \A i \in 2 .. Len(t) : t[i] = Tail(s)[i - 1]
  BY <1>1, SeqCons
<1>3. ASSUME NEW i \in 2 .. Len(s)
      PROVE  Tail(s)[i - 1] = s[i]
  <2>1. i - 1 \in 1 .. Len(s) - 1 /\ (i - 1) + 1 = i
    BY <1>1
  <2>. QED
    BY <1>1, <2>1
<1>. QED
  BY <1>1, <1>2, <1>3

-----------------------------------------------------------------------------
(* Activation records *)

LEMMA RecordOnce ==
    ASSUME NEW k, NEW a, NEW l, NEW w, NEW y, NEW x
    PROVE  LET r == [kind |-> k, addr |-> a, left |-> l, vals |-> w, key |-> y]
           IN  /\ [r EXCEPT !.vals = x] =
                       [kind |-> k, addr |-> a, left |-> l, vals |-> x, key |-> y]
               /\ [r EXCEPT !.left = x] =
                       [kind |-> k, addr |-> a, left |-> x, vals |-> w, key |-> y]
               /\ [r EXCEPT !.key = x] =
                       [kind |-> k, addr |-> a, left |-> l, vals |-> w, key |-> x]
OBVIOUS

\* The activation record with an element appended; with a key and its value kept.
Appended(f, v) ==
    [f EXCEPT !.vals = Append(@, v), !.left = IF @ > 0 THEN @ - 1 ELSE @]
Kept(f, v) == [f EXCEPT !.key = Nothing, !.vals = @ \o <<f.key, v>>]

\* What appending an element, or keeping a key and its value, does to the fields.
LEMMA AppendFields ==
    ASSUME NEW f, IsRecord(f), NEW v, NEW g, g = Appended(f, v)
    PROVE  /\ IsRecord(g) /\ g.kind = f.kind /\ g.addr = f.addr /\ g.key = f.key
           /\ g.left = (IF f.left > 0 THEN f.left - 1 ELSE f.left)
           /\ g.vals = Append(f.vals, v)
<1>1. PICK k, a, l, w, y : f = [kind |-> k, addr |-> a, left |-> l, vals |-> w, key |-> y]
  BY DEF IsRecord
<1>. DEFINE c == Append(w, v)
            p == [kind |-> k, addr |-> a, left |-> l, vals |-> c, key |-> y]
            m == IF l > 0 THEN l - 1 ELSE l
<1>. HIDE DEF m, c
<1>2. [f EXCEPT !.vals = c] = p
  BY ONLY <1>1, RecordOnce DEF p
<1>3. [p EXCEPT !.left = m] =
          [kind |-> k, addr |-> a, left |-> m, vals |-> c, key |-> y]
  BY RecordOnce
<1>4. p.left = l /\ f.vals = w /\ f.left = l
  BY <1>1
<1>. HIDE DEF p
<1>5. g = [[f EXCEPT !.vals = c] EXCEPT !.left = m]
  BY <1>2, <1>4 DEF c, m, Appended
<1>6. g = [kind |-> k, addr |-> a, left |-> m, vals |-> c, key |-> y]
  BY <1>2, <1>3, <1>5
<1>7. /\ IsRecord(g) /\ g.kind = f.kind /\ g.addr = f.addr /\ g.key = f.key
      /\ g.left = m /\ g.vals = c
  BY ONLY <1>1, <1>6 DEF IsRecord
<1>. QED
  BY <1>4, <1>7 DEF c, m

LEMMA KeepFields ==
    ASSUME NEW f, IsRecord(f), NEW v, NEW g, g = Kept(f, v)
    PROVE  /\ IsRecord(g) /\ g.kind = f.kind /\ g.addr = f.addr /\ g.key = Nothing
           /\ g.left = f.left /\ g.vals = f.vals \o <<f.key, v>>
<1>1. PICK k, a, l, w, y : f = [kind |-> k, addr |-> a, left |-> l, vals |-> w, key |-> y]
  BY DEF IsRecord
<1>. DEFINE d == w \o <<y, v>>
            q == [kind |-> k, addr |-> a, left |-> l, vals |-> w, key |-> Nothing]
<1>. HIDE DEF d
<1>2. [f EXCEPT !.key = Nothing] = q
  BY ONLY <1>1, RecordOnce DEF q
<1>3. [q EXCEPT !.vals = d] =
          [kind |-> k, addr |-> a, left |-> l, vals |-> d, key |-> Nothing]
  BY RecordOnce
<1>4. f.vals = w /\ q.vals = w /\ f.key = y
  BY <1>1
<1>. HIDE DEF q
<1>5. g = [[f EXCEPT !.key = Nothing] EXCEPT !.vals = d]
  BY <1>2, <1>4 DEF d, Kept
<1>6. g = [kind |-> k, addr |-> a, left |-> l, vals |-> d, key |-> Nothing]
  BY <1>2, <1>3, <1>5
<1>7. /\ IsRecord(g) /\ g.kind = f.kind /\ g.addr = f.addr /\ g.key = Nothing
      /\ g.left = f.left /\ g.vals = d
  BY ONLY <1>1, <1>6 DEF IsRecord
<1>. QED
  BY <1>4, <1>7 DEF d

LEMMA NothingHeld == Nothing.own = {} /\ Nothing.shape.refs = {}
BY DEF Nothing, Val, Shape

\* A container just entered owns itself and holds nothing.
LEMMA FrameNew ==
    ASSUME NEW kind \in {"list", "map", "inst"}, NEW a, NEW left \in Int, left >= UntilEnd
    PROVE  LET f == Frame(kind, a, left)
           IN  FrameOK(f) /\ Owned(f) = {a} /\ f.key = Nothing /\ Len(f.vals) = 0
<1>. DEFINE f == Frame(kind, a, left)
<1>1. /\ f = [kind |-> kind, addr |-> a, left |-> left, vals |-> <<>>, key |-> Nothing]
      /\ f.kind = kind /\ f.addr = a /\ f.left = left /\ f.vals = <<>> /\ f.key = Nothing
  BY DEF Frame
<1>. HIDE DEF f
<1>2. Nothing.own = {} /\ IsSequence(<<>>) /\ Len(<<>>) = 0
  BY NothingHeld, SeqEmpty
<1>3. FrameOK(f)
  BY <1>1, <1>2 DEF FrameOK, IsRecord
<1>4. Owned(f) = {a}
  BY <1>1, <1>2 DEF Owned
<1>. QED
  BY <1>1, <1>2, <1>3, <1>4 DEF f

\* An element is appended.
LEMMA FrameAppend ==
    ASSUME NEW f, FrameOK(f), f.kind # "map", NEW v, Owned(f) \cap v.own = {}, NEW g, g = Appended(f, v)
    PROVE  /\ FrameOK(g) /\ Owned(g) = Owned(f) \cup v.own /\ g.key = f.key
           /\ \A i \in 1 .. Len(g.vals) :
                  g.vals[i] = v \/ \E j \in 1 .. Len(f.vals) : g.vals[i] = f.vals[j]
<1>. DEFINE n == Len(f.vals)
<1>1. /\ IsRecord(g) /\ g.kind = f.kind /\ g.addr = f.addr /\ g.key = f.key
      /\ g.left = (IF f.left > 0 THEN f.left - 1 ELSE f.left)
      /\ g.vals = Append(f.vals, v)
  <2>1. IsRecord(f)
    BY DEF FrameOK
  <2>. QED
    BY <2>1, AppendFields
<1>2. /\ IsSequence(g.vals) /\ Len(g.vals) = n + 1 /\ n \in Nat
      /\ g.vals[n + 1] = v /\ \A i \in 1 .. n : g.vals[i] = f.vals[i]
  BY <1>1, SeqAppend, SeqFacts DEF FrameOK
<1>3. g.left \in Int /\ g.left >= UntilEnd
  BY <1>1 DEF FrameOK, UntilEnd
<1>4. /\ f.addr \notin v.own /\ f.key.own \cap v.own = {}
      /\ \A i \in 1 .. n : f.vals[i].own \cap v.own = {}
  BY DEF Owned
<1>5. \A i \in 1 .. n + 1 : i \in 1 .. n \/ i = n + 1
  BY ONLY <1>2
<1>6. FrameOK(g)
  <2>1. ASSUME NEW i \in 1 .. n + 1
        PROVE  f.addr \notin g.vals[i].own /\ g.vals[i].own \cap f.key.own = {}
    <3>1. CASE i \in 1 .. n
      BY <1>2, <3>1 DEF FrameOK
    <3>2. CASE i = n + 1
      BY <1>2, <1>4, <3>2
    <3>. QED
      BY <1>5, <3>1, <3>2
  <2>2. ASSUME NEW i \in 1 .. n + 1, NEW j \in 1 .. n + 1, i # j
        PROVE  g.vals[i].own \cap g.vals[j].own = {}
    <3>1. CASE i \in 1 .. n /\ j \in 1 .. n
      BY <1>2, <2>2, <3>1 DEF FrameOK
    <3>2. CASE i \in 1 .. n /\ j = n + 1
      BY <1>2, <1>4, <3>2
    <3>3. CASE i = n + 1 /\ j \in 1 .. n
      BY <1>2, <1>4, <3>3
    <3>. QED
      BY <1>5, <2>2, <3>1, <3>2, <3>3
  <2>. QED
    BY <1>1, <1>2, <1>3, <2>1, <2>2 DEF FrameOK
<1>7. UNION {g.vals[i].own : i \in 1 .. n + 1} = v.own \cup UNION {f.vals[i].own : i \in 1 .. n}
  <2>1. 1 .. n + 1 = (1 .. n) \cup {n + 1}
    BY <1>2
  <2>. QED
    BY <1>2, <2>1
<1>8. Owned(g) = Owned(f) \cup v.own
  BY <1>1, <1>2, <1>7 DEF Owned
<1>9. \A i \in 1 .. n + 1 : g.vals[i] = v \/ \E j \in 1 .. n : g.vals[i] = f.vals[j]
  BY <1>2, <1>5
<1>. QED
  BY <1>1, <1>2, <1>6, <1>8, <1>9

\* A key is held until its value is read.
LEMMA FrameHold ==
    ASSUME NEW f, FrameOK(f), f.key = Nothing, NEW k, Owned(f) \cap k.own = {}, NEW g,
           g = [f EXCEPT !.key = k]
    PROVE  FrameOK(g) /\ Owned(g) = Owned(f) \cup k.own /\ g.key = k /\ g.vals = f.vals
<1>1. /\ IsRecord(g) /\ g.kind = f.kind /\ g.addr = f.addr /\ g.vals = f.vals /\ g.key = k
      /\ g.left = f.left
  BY DEF FrameOK, IsRecord
<1>2. /\ f.addr \notin k.own
      /\ \A i \in 1 .. Len(f.vals) : f.vals[i].own \cap k.own = {}
  BY DEF Owned
<1>3. FrameOK(g)
  BY <1>1, <1>2 DEF FrameOK
<1>4. Owned(g) = Owned(f) \cup k.own
  BY <1>1, NothingHeld DEF Owned
<1>. QED
  BY <1>1, <1>3, <1>4

\* A key that is there already is let go.
LEMMA FrameDrop ==
    ASSUME NEW f, FrameOK(f), NEW g, g = [f EXCEPT !.key = Nothing]
    PROVE  /\ FrameOK(g) /\ Owned(g) = Owned(f) \ f.key.own /\ g.key = Nothing
           /\ g.vals = f.vals
<1>1. /\ IsRecord(g) /\ g.kind = f.kind /\ g.addr = f.addr /\ g.vals = f.vals
      /\ g.key = Nothing /\ g.left = f.left
  BY DEF FrameOK, IsRecord
<1>2. Nothing.own = {}
  BY NothingHeld
<1>3. FrameOK(g)
  BY <1>1, <1>2 DEF FrameOK
<1>4. /\ f.addr \notin f.key.own
      /\ \A i \in 1 .. Len(f.vals) : f.vals[i].own \cap f.key.own = {}
  BY DEF FrameOK
<1>5. Owned(g) = Owned(f) \ f.key.own
  BY <1>1, <1>2, <1>4 DEF Owned
<1>. QED
  BY <1>1, <1>3, <1>5

\* A map keeps a key and its value.
LEMMA FrameKeep ==
    ASSUME NEW f, FrameOK(f), NEW v, Owned(f) \cap v.own = {}, NEW g, g = Kept(f, v)
    PROVE  /\ FrameOK(g) /\ Owned(g) = Owned(f) \cup v.own /\ g.key = Nothing
           /\ \A i \in 1 .. Len(g.vals) :
                  \/ g.vals[i] = v \/ g.vals[i] = f.key
                  \/ \E j \in 1 .. Len(f.vals) : g.vals[i] = f.vals[j]
<1>. DEFINE n == Len(f.vals)
<1>1. /\ IsRecord(g) /\ g.kind = f.kind /\ g.addr = f.addr /\ g.key = Nothing
      /\ g.left = f.left /\ g.vals = f.vals \o <<f.key, v>>
  <2>1. IsRecord(f)
    BY DEF FrameOK
  <2>. QED
    BY <2>1, KeepFields
<1>2. IsSequence(f.vals) /\ n \in Nat /\ Nothing.own = {}
  BY SeqFacts, NothingHeld DEF FrameOK
<1>3. /\ IsSequence(g.vals) /\ Len(g.vals) = n + 2
      /\ \A i \in 1 .. n : g.vals[i] = f.vals[i]
      /\ g.vals[n + 1] = f.key /\ g.vals[n + 2] = v
  <2>. DEFINE s == f.vals
              x == f.key
              t == s \o <<x, v>>
  <2>1. IsSequence(s)
    BY <1>2
  <2>. HIDE DEF s, x
  <2>2. /\ IsSequence(t) /\ Len(t) = Len(s) + 2
        /\ \A i \in 1 .. Len(s) : t[i] = s[i]
        /\ t[Len(s) + 1] = x /\ t[Len(s) + 2] = v
    BY <2>1, SeqPair
  <2>. HIDE DEF t
  <2>3. g.vals = t
    BY <1>1 DEF t, s, x
  <2>. QED
    BY <2>2, <2>3 DEF s, x
<1>4. \A i \in 1 .. n + 2 : i \in 1 .. n \/ i = n + 1 \/ i = n + 2
  BY ONLY <1>2
<1>5. /\ f.addr \notin v.own /\ f.key.own \cap v.own = {}
      /\ \A i \in 1 .. n : f.vals[i].own \cap v.own = {}
  BY DEF Owned
<1>6. /\ f.addr \notin f.key.own
      /\ \A i \in 1 .. n : f.addr \notin f.vals[i].own /\ f.vals[i].own \cap f.key.own = {}
      /\ \A i, j \in 1 .. n : i # j => f.vals[i].own \cap f.vals[j].own = {}
      /\ f.kind = "map" => n % 2 = 0
  BY DEF FrameOK
<1>7. FrameOK(g)
  <2>1. ASSUME NEW i \in 1 .. n + 2 PROVE f.addr \notin g.vals[i].own
    <3>1. CASE i \in 1 .. n
      BY <1>3, <1>6, <3>1
    <3>2. CASE i = n + 1
      BY <1>3, <1>6, <3>2
    <3>3. CASE i = n + 2
      BY <1>3, <1>5, <3>3
    <3>. QED
      BY <1>4, <3>1, <3>2, <3>3
  <2>2. ASSUME NEW i \in 1 .. n + 2, NEW j \in 1 .. n + 2, i # j
        PROVE  g.vals[i].own \cap g.vals[j].own = {}
    <3>1. \A a \in 1 .. n : f.vals[a].own \cap v.own = {} /\ f.vals[a].own \cap f.key.own = {}
      BY <1>5, <1>6
    <3>2. /\ i \in 1 .. n \/ i = n + 1 \/ i = n + 2
          /\ j \in 1 .. n \/ j = n + 1 \/ j = n + 2
      BY <1>4
    <3>3. CASE i \in 1 .. n /\ j \in 1 .. n
      BY <1>3, <1>6, <2>2, <3>3
    <3>4. CASE i \in 1 .. n /\ j = n + 1
      BY <1>3, <3>1, <3>4
    <3>5. CASE i \in 1 .. n /\ j = n + 2
      BY <1>3, <3>1, <3>5
    <3>6. CASE j \in 1 .. n /\ i = n + 1
      BY <1>3, <3>1, <3>6
    <3>7. CASE j \in 1 .. n /\ i = n + 2
      BY <1>3, <3>1, <3>7
    <3>8. CASE i = n + 1 /\ j = n + 2
      BY <1>3, <1>5, <3>8
    <3>9. CASE i = n + 2 /\ j = n + 1
      BY <1>3, <1>5, <3>9
    <3>. QED
      BY <2>2, <3>2, <3>3, <3>4, <3>5, <3>6, <3>7, <3>8, <3>9
  <2>3. f.kind = "map" => (n + 2) % 2 = 0
    <3>1. \A m \in Nat : m % 2 = 0 => (m + 2) % 2 = 0
      OBVIOUS
    <3>. QED
      BY <1>2, <1>6, <3>1
  <2>4. g.kind \in {"list", "map", "inst"} /\ g.left \in Int /\ g.left >= UntilEnd
    BY <1>1 DEF FrameOK
  <2>. QED
    BY <1>1, <1>2, <1>3, <2>1, <2>2, <2>3, <2>4 DEF FrameOK
<1>8. UNION {g.vals[i].own : i \in 1 .. n + 2}
          = f.key.own \cup v.own \cup UNION {f.vals[i].own : i \in 1 .. n}
  <2>. DEFINE own(i) == g.vals[i].own
  <2>1. 1 .. n + 2 = (1 .. n) \cup {n + 1} \cup {n + 2}
    BY <1>2
  <2>2. UNION {own(i) : i \in 1 .. n + 2}
            = own(n + 1) \cup own(n + 2) \cup UNION {own(i) : i \in 1 .. n}
    BY <2>1
  <2>3. \A i \in 1 .. n : own(i) = f.vals[i].own
    BY <1>3
  <2>4. own(n + 1) = f.key.own /\ own(n + 2) = v.own
    BY <1>3
  <2>. HIDE DEF own
  <2>5. UNION {own(i) : i \in 1 .. n} = UNION {f.vals[i].own : i \in 1 .. n}
    BY <2>3
  <2>6. UNION {own(i) : i \in 1 .. n + 2}
            = f.key.own \cup v.own \cup UNION {f.vals[i].own : i \in 1 .. n}
    BY <2>2, <2>4, <2>5
  <2>. QED
    BY <2>6 DEF own
<1>9. Owned(g) = Owned(f) \cup v.own
  BY <1>1, <1>2, <1>3, <1>8 DEF Owned
<1>10. \A i \in 1 .. n + 2 : \/ g.vals[i] = v \/ g.vals[i] = f.key
                               \/ \E j \in 1 .. n : g.vals[i] = f.vals[j]
  BY <1>3, <1>4
<1>. QED
  BY <1>1, <1>3, <1>7, <1>9, <1>10

LEMMA ShapeRefs ==
    ASSUME NEW k, k # "ref", NEW E, NEW S,
           \A e \in E : e[1].refs \subseteq S /\ e[2].refs \subseteq S
    PROVE  Shape(k, 0, E).refs \subseteq S
BY DEF Shape

LEMMA OddBeforeEven ==
    ASSUME NEW n \in Nat, NEW i \in 1 .. n, n % 2 = 0, i % 2 = 1
    PROVE  i + 1 \in 1 .. n
<1>1. i # n
  OBVIOUS
<1>. QED
  BY <1>1

\* What a finished container refers to, its elements refer to.
LEMMA FrameRefs ==
    ASSUME NEW f, FrameOK(f), NEW S, \A i \in 1 .. Len(f.vals) : f.vals[i].shape.refs \subseteq S
    PROVE  FrameShape(f).refs \subseteq S
<1>. DEFINE n == Len(f.vals)
            shapes == [i \in 1 .. n |-> f.vals[i].shape]
<1>1. n \in Nat /\ f.kind \in {"list", "map", "inst"} /\ (f.kind = "map" => n % 2 = 0)
  BY SeqFacts DEF FrameOK
<1>2. Len(shapes) = n
  <2>1. shapes \in [1 .. n -> {f.vals[i].shape : i \in 1 .. n}]
    OBVIOUS
  <2>2. shapes \in Seq({f.vals[i].shape : i \in 1 .. n}) /\ DOMAIN shapes = 1 .. n
    BY <1>1, <2>1, SeqDef
  <2>. HIDE DEF shapes
  <2>3. Len(shapes) \in Nat /\ 1 .. Len(shapes) = 1 .. n
    BY <2>2, LenProperties
  <2>. QED
    BY <1>1, <2>3
<1>3. \A i \in 1 .. n : shapes[i].refs \subseteq S
  OBVIOUS
<1>4. \A i : Scalar(i).refs = {}
  BY DEF Scalar, Shape
<1>5. CASE f.kind = "map"
  <2>. DEFINE odd == {j \in 1 .. Len(shapes) : j % 2 = 1}
              E == {<<shapes[i], shapes[i + 1]>> : i \in odd}
  <2>1. ASSUME NEW i \in odd PROVE i \in 1 .. n /\ i + 1 \in 1 .. n
    <3>1. i \in 1 .. n /\ i % 2 = 1 /\ n % 2 = 0
      BY <1>1, <1>2, <1>5
    <3>. QED
      BY <1>1, <3>1, OddBeforeEven
  <2>2. FrameShape(f) = Shape("map", 0, E)
    BY <1>5 DEF FrameShape
  <2>. HIDE DEF shapes, odd
  <2>3. \A e \in E : e[1].refs \subseteq S /\ e[2].refs \subseteq S
    BY <1>3, <2>1
  <2>. HIDE DEF E
  <2>. QED
    BY <2>2, <2>3, ShapeRefs
<1>6. CASE f.kind # "map"
  <2>. DEFINE E == {<<Scalar(i), shapes[i]>> : i \in 1 .. Len(shapes)}
  <2>1. FrameShape(f) = Shape(f.kind, 0, E)
    BY <1>6 DEF FrameShape, SeqShape
  <2>. HIDE DEF shapes
  <2>2. \A e \in E : e[1].refs \subseteq S /\ e[2].refs \subseteq S
    BY <1>2, <1>3, <1>4
  <2>. HIDE DEF E
  <2>. QED
    BY <1>1, <2>1, <2>2, ShapeRefs
<1>. QED
  BY <1>5, <1>6

-----------------------------------------------------------------------------
(* The steps, by what they do to the owners *)

\* Unless a result is taken or a call fails, the trusted results are what they were.
LEMMA TrustedStays ==
    ASSUME TrustedClosed, UNCHANGED <<results, trusted>>, repeated => repeated'
    PROVE  TrustedClosed'
BY DEF TrustedClosed, Trusted

LEMMA OwnersAlive ==
    ASSUME OneOwner
    PROVE  /\ \A i \in 1 .. Len(stack) : Owned(stack[i]) \subseteq alive
           /\ \A j \in 1 .. Len(results) : results[j].own \subseteq alive
<1>1. OwnedByStack \subseteq alive /\ OwnedByResults \subseteq alive
  BY DEF OneOwner
<1>2. \A i \in 1 .. Len(stack) : Owned(stack[i]) \subseteq OwnedByStack
  BY DEF OwnedByStack
<1>3. \A j \in 1 .. Len(results) : results[j].own \subseteq OwnedByResults
  BY DEF OwnedByResults
<1>. QED
  BY <1>1, <1>2, <1>3

\* A container is entered.
LEMMA OwnerEnters ==
    ASSUME ControlOK, OneOwner, ret = Nothing,
           NEW f, Owned(f) = {size + 1}, stack' = <<f>> \o stack,
           size' = size + 1, alive' = alive \cup {size + 1}, UNCHANGED <<ret, results>>
    PROVE  OneOwner'
<1>1. /\ IsSequence(stack) /\ IsSequence(results) /\ Len(stack) \in Nat /\ size \in Nat
      /\ ret.own = {}
  BY SeqFacts, NothingHeld DEF ControlOK
<1>2. /\ Len(stack') = Len(stack) + 1 /\ stack'[1] = f
      /\ \A i \in 2 .. Len(stack') : stack'[i] = stack[i - 1]
  BY <1>1, SeqCons
<1>3. \A i \in 1 .. Len(stack') : i = 1 \/ (i \in 2 .. Len(stack') /\ i - 1 \in 1 .. Len(stack))
  BY <1>1, <1>2
<1>4. \A i \in 1 .. Len(stack) : i + 1 \in 2 .. Len(stack') /\ (i + 1) - 1 = i
  BY <1>1, <1>2
<1>5. size + 1 \notin alive
  BY <1>1 DEF OneOwner
<1>6. /\ \A i \in 1 .. Len(stack) : Owned(stack[i]) \subseteq alive
      /\ \A j \in 1 .. Len(results) : results[j].own \subseteq alive
  BY OwnersAlive
<1>7. OwnedByStack' = {size + 1} \cup OwnedByStack
  <2>1. ASSUME NEW x \in OwnedByStack' PROVE x \in {size + 1} \cup OwnedByStack
    BY <1>2, <1>3 DEF OwnedByStack
  <2>2. ASSUME NEW x \in {size + 1} \cup OwnedByStack PROVE x \in OwnedByStack'
    <3>1. CASE x = size + 1
      <4>1. 1 \in 1 .. Len(stack')
        BY <1>1, <1>2
      <4>. QED
        BY <1>2, <3>1, <4>1 DEF OwnedByStack
    <3>2. CASE x \in OwnedByStack
      <4>1. PICK i \in 1 .. Len(stack) : x \in Owned(stack[i])
        BY <3>2 DEF OwnedByStack
      <4>2. i + 1 \in 1 .. Len(stack') /\ stack'[i + 1] = stack[i]
        BY <1>1, <1>2, <1>4
      <4>. QED
        BY <4>1, <4>2 DEF OwnedByStack
    <3>. QED
      BY <2>2, <3>1, <3>2
  <2>. QED
    BY <2>1, <2>2
<1>8. alive' \subseteq 1 .. size'
  BY <1>1 DEF OneOwner
<1>9. alive' = OwnedByStack' \cup ret'.own \cup OwnedByResults'
  <2>1. OwnedByResults' = OwnedByResults
    BY DEF OwnedByResults
  <2>. QED
    BY <1>7, <2>1 DEF OneOwner
<1>10. ASSUME NEW i \in 1 .. Len(stack'), NEW j \in 1 .. Len(stack'), i # j
       PROVE  Owned(stack'[i]) \cap Owned(stack'[j]) = {}
  <2>1. CASE i = 1
    BY <1>2, <1>3, <1>5, <1>6, <1>10, <2>1
  <2>2. CASE j = 1
    BY <1>2, <1>3, <1>5, <1>6, <1>10, <2>2
  <2>3. CASE i # 1 /\ j # 1
    <3>1. /\ i - 1 \in 1 .. Len(stack) /\ j - 1 \in 1 .. Len(stack) /\ i - 1 # j - 1
          /\ stack'[i] = stack[i - 1] /\ stack'[j] = stack[j - 1]
      BY <1>2, <1>3, <1>10, <2>3
    <3>. QED
      BY <3>1 DEF OneOwner
  <2>. QED
    BY <2>1, <2>2, <2>3
<1>11. ASSUME NEW i \in 1 .. Len(stack'), NEW j \in 1 .. Len(results')
       PROVE  Owned(stack'[i]) \cap results'[j].own = {}
  <2>1. CASE i = 1
    BY <1>2, <1>5, <1>6, <2>1
  <2>2. CASE i # 1
    BY <1>2, <1>3, <2>2 DEF OneOwner
  <2>. QED
    BY <2>1, <2>2
<1>. QED
  BY <1>1, <1>8, <1>9, <1>10, <1>11 DEF OneOwner

\* Nothing changes hands.
LEMMA OwnerStays ==
    ASSUME OneOwner, UNCHANGED <<stack, results, alive, size>>, ret'.own = ret.own
    PROVE  OneOwner'
BY DEF OneOwner, OwnedByStack, OwnedByResults

\* What the records below the innermost one own.
OwnedBelow == UNION {Owned(stack[i]) : i \in 2 .. Len(stack)}

LEMMA TopAndBelow ==
    ASSUME IsSequence(stack), stack # <<>>
    PROVE  OwnedByStack = Owned(Top) \cup OwnedBelow
<1>1. 1 .. Len(stack) = {1} \cup 2 .. Len(stack)
  BY SeqTail
<1>. QED
  BY <1>1 DEF OwnedByStack, OwnedBelow, Top

LEMMA BelowApart ==
    ASSUME IsSequence(stack), stack # <<>>, OneOwner
    PROVE  /\ Owned(Top) \cap OwnedBelow = {} /\ ret.own \cap OwnedBelow = {}
           /\ Owned(Top) \cap OwnedByResults = {} /\ ret.own \cap OwnedByResults = {}
           /\ Owned(Top) \cap ret.own = {}
<1>1. Len(stack) \in Nat /\ 1 \in 1 .. Len(stack)
  BY SeqTail, SeqFacts
<1>2. \A i \in 2 .. Len(stack) : i \in 1 .. Len(stack) /\ i # 1
  BY <1>1
<1>3. Owned(Top) \cap OwnedBelow = {} /\ ret.own \cap OwnedBelow = {}
  BY <1>1, <1>2 DEF OneOwner, OwnedBelow, Top
<1>4. Owned(Top) \cap OwnedByResults = {} /\ ret.own \cap OwnedByResults = {}
  BY <1>1 DEF OneOwner, OwnedByResults, Top
<1>. QED
  BY <1>1, <1>3, <1>4 DEF OneOwner, Top

\* The value just returned goes into the innermost container, or is destroyed with
\* what that container lets go.
LEMMA OwnerTop ==
    ASSUME ControlOK, OneOwner, stack # <<>>, NEW g, stack' = <<g>> \o Tail(stack),
           Owned(g) \subseteq Owned(Top) \cup ret.own,
           alive' = alive \ ((Owned(Top) \cup ret.own) \ Owned(g)),
           ret' = Nothing, UNCHANGED <<results, size>>
    PROVE  OneOwner'
<1>1. /\ IsSequence(stack) /\ Len(stack) \in Nat /\ 1 \in 1 .. Len(stack) /\ ret'.own = {}
  BY SeqFacts, SeqTail, NothingHeld DEF ControlOK
<1>2. /\ IsSequence(stack') /\ Len(stack') = Len(stack) /\ stack'[1] = g
      /\ \A i \in 2 .. Len(stack) : stack'[i] = stack[i]
  BY <1>1, SeqTop
<1>3. stack' # <<>>
  BY <1>1, <1>2, SeqEmpty
<1>4. OwnedByStack' = Owned(g) \cup OwnedBelow
  <2>1. OwnedBelow' = OwnedBelow
    BY <1>2 DEF OwnedBelow
  <2>2. OwnedByStack' = Owned(stack'[1]) \cup OwnedBelow'
    <3>1. 1 .. Len(stack') = {1} \cup 2 .. Len(stack')
      BY <1>1, <1>2
    <3>. QED
      BY <3>1 DEF OwnedByStack, OwnedBelow
  <2>. QED
    BY <1>2, <2>1, <2>2
<1>5. OwnedByResults' = OwnedByResults
  BY DEF OwnedByResults
<1>6. alive' = OwnedByStack' \cup ret'.own \cup OwnedByResults'
  <2>1. alive = Owned(Top) \cup OwnedBelow \cup ret.own \cup OwnedByResults
    BY <1>1, TopAndBelow DEF OneOwner
  <2>. QED
    BY <1>1, <1>4, <1>5, <2>1, BelowApart
<1>7. alive' \subseteq 1 .. size'
  BY DEF OneOwner
<1>8. ASSUME NEW i \in 2 .. Len(stack)
      PROVE  /\ i \in 1 .. Len(stack) /\ i # 1 /\ Owned(stack[i]) \subseteq OwnedBelow
             /\ Owned(g) \cap Owned(stack'[i]) = {}
  <2>1. i \in 1 .. Len(stack) /\ i # 1 /\ Owned(stack[i]) \subseteq OwnedBelow
    BY <1>1 DEF OwnedBelow
  <2>. QED
    BY <1>1, <1>2, <2>1, BelowApart
<1>9. \A i \in 1 .. Len(stack') : i = 1 \/ i \in 2 .. Len(stack)
  BY <1>1, <1>2
<1>10. ASSUME NEW i \in 1 .. Len(stack'), NEW j \in 1 .. Len(stack'), i # j
       PROVE  Owned(stack'[i]) \cap Owned(stack'[j]) = {}
  <2>1. CASE i = 1
    BY <1>2, <1>8, <1>9, <1>10, <2>1
  <2>2. CASE j = 1
    BY <1>2, <1>8, <1>9, <1>10, <2>2
  <2>3. CASE i # 1 /\ j # 1
    <3>1. /\ i \in 1 .. Len(stack) /\ j \in 1 .. Len(stack)
          /\ stack'[i] = stack[i] /\ stack'[j] = stack[j]
      BY <1>2, <1>8, <1>9, <2>3
    <3>. QED
      BY <1>10, <3>1 DEF OneOwner
  <2>. QED
    BY <2>1, <2>2, <2>3
<1>11. ASSUME NEW i \in 1 .. Len(stack'), NEW j \in 1 .. Len(results')
       PROVE  Owned(stack'[i]) \cap results'[j].own = {}
  <2>1. CASE i = 1
    <3>1. results[j].own \subseteq OwnedByResults
      BY DEF OwnedByResults
    <3>. QED
      BY <1>1, <1>2, <2>1, <3>1, BelowApart
  <2>2. CASE i # 1
    <3>1. i \in 1 .. Len(stack) /\ stack'[i] = stack[i]
      BY <1>2, <1>8, <1>9, <2>2
    <3>. QED
      BY <3>1 DEF OneOwner
  <2>. QED
    BY <2>1, <2>2
<1>12. \A i, j \in 1 .. Len(results') : i # j => results'[i].own \cap results'[j].own = {}
  BY DEF OneOwner
<1>. QED
  BY <1>1, <1>6, <1>7, <1>10, <1>11, <1>12 DEF OneOwner

\* A container is finished and passes to its caller.
LEMMA OwnerPops ==
    ASSUME ControlOK, OneOwner, stack # <<>>, ret = Nothing, stack' = Tail(stack),
           ret'.own = Owned(Top), UNCHANGED <<alive, results, size>>
    PROVE  OneOwner'
<1>1. /\ IsSequence(stack) /\ Len(stack) \in Nat /\ 1 \in 1 .. Len(stack) /\ ret.own = {}
      /\ Len(stack') = Len(stack) - 1 /\ \A i \in 1 .. Len(stack') : stack'[i] = stack[i + 1]
  BY SeqFacts, SeqTail, NothingHeld DEF ControlOK
<1>2. \A i \in 1 .. Len(stack') : i + 1 \in 2 .. Len(stack) /\ i + 1 \in 1 .. Len(stack)
  BY <1>1
<1>3. \A i \in 2 .. Len(stack) : i - 1 \in 1 .. Len(stack') /\ (i - 1) + 1 = i
  BY <1>1
<1>4. OwnedByStack' = OwnedBelow
  <2>1. \A x \in OwnedByStack' : x \in OwnedBelow
    BY <1>1, <1>2 DEF OwnedByStack, OwnedBelow
  <2>2. ASSUME NEW x \in OwnedBelow PROVE x \in OwnedByStack'
    <3>1. PICK i \in 2 .. Len(stack) : x \in Owned(stack[i])
      BY DEF OwnedBelow
    <3>2. i - 1 \in 1 .. Len(stack') /\ stack'[i - 1] = stack[i]
      BY <1>1, <1>3
    <3>. QED
      BY <3>1, <3>2 DEF OwnedByStack
  <2>. QED
    BY <2>1, <2>2
<1>5. OwnedByResults' = OwnedByResults
  BY DEF OwnedByResults
<1>6. alive' = OwnedByStack' \cup ret'.own \cup OwnedByResults' /\ alive' \subseteq 1 .. size'
  BY <1>1, <1>4, <1>5, TopAndBelow DEF OneOwner
<1>7. ASSUME NEW i \in 1 .. Len(stack'), NEW j \in 1 .. Len(stack'), i # j
      PROVE  Owned(stack'[i]) \cap Owned(stack'[j]) = {}
  <2>1. i + 1 \in 1 .. Len(stack) /\ j + 1 \in 1 .. Len(stack) /\ i + 1 # j + 1
    BY <1>1, <1>2, <1>7
  <2>. QED
    BY <1>1, <2>1 DEF OneOwner
<1>8. \A i \in 1 .. Len(stack'), j \in 1 .. Len(results') :
          Owned(stack'[i]) \cap results'[j].own = {}
  BY <1>1, <1>2 DEF OneOwner
<1>9. ASSUME NEW i \in 1 .. Len(stack') PROVE Owned(stack'[i]) \cap ret'.own = {}
  <2>1. i + 1 \in 2 .. Len(stack) /\ stack'[i] = stack[i + 1]
    BY <1>1, <1>2
  <2>2. Owned(stack'[i]) \subseteq OwnedBelow
    BY <2>1 DEF OwnedBelow
  <2>. QED
    BY <1>1, <2>2, BelowApart
<1>10. ASSUME NEW j \in 1 .. Len(results') PROVE ret'.own \cap results'[j].own = {}
  BY <1>1 DEF OneOwner, Top
<1>11. \A i, j \in 1 .. Len(results') : i # j => results'[i].own \cap results'[j].own = {}
  BY DEF OneOwner
<1>. QED
  BY <1>6, <1>7, <1>8, <1>9, <1>10, <1>11 DEF OneOwner

\* A call fails: what its activation records own is destroyed.
LEMMA OwnerAborts ==
    ASSUME ControlOK, OneOwner, ret = Nothing, NEW after, Unwind(after), UNCHANGED results,
           size' \in {size, size + 1}
    PROVE  OneOwner' /\ need' = after /\ stack' = <<>> /\ ret' = Nothing
           /\ alive' = OwnedByResults
<1>1. /\ need' = after /\ stack' = <<>> /\ ret' = Nothing /\ alive' = alive \ OwnedByStack
  BY DEF Unwind, OwnedByStack
<1>2. Len(stack') = 0 /\ ret.own = {} /\ ret'.own = {} /\ size \in Nat
  BY <1>1, SeqEmpty, NothingHeld DEF ControlOK
<1>3. OwnedByStack \cap OwnedByResults = {}
  BY DEF OwnedByStack, OwnedByResults, OneOwner
<1>4. alive' = OwnedByResults
  BY <1>1, <1>2, <1>3 DEF OneOwner
<1>5. OwnedByStack' = {} /\ OwnedByResults' = OwnedByResults
  BY <1>2 DEF OwnedByStack, OwnedByResults
<1>6. alive' \subseteq 1 .. size'
  <2>1. 1 .. size \subseteq 1 .. size'
    BY <1>2
  <2>. QED
    BY <1>1, <2>1 DEF OneOwner
<1>7. \A i, j \in 1 .. Len(results') : i # j => results'[i].own \cap results'[j].own = {}
  BY DEF OneOwner
<1>. QED
  BY <1>1, <1>2, <1>4, <1>5, <1>6, <1>7 DEF OneOwner

\* The caller takes the result.
LEMMA OwnerTakes ==
    ASSUME ControlOK, OneOwner, stack = <<>>, results' = Append(results, ret),
           ret' = Nothing, UNCHANGED <<stack, alive, size>>
    PROVE  /\ OneOwner' /\ alive = OwnedByResults'
           /\ IsSequence(results') /\ Len(results') = Len(results) + 1
           /\ results'[Len(results) + 1] = ret
           /\ \A i \in 1 .. Len(results) : results'[i] = results[i]
<1>1. Len(stack) = 0 /\ ret'.own = {} /\ Len(results) \in Nat /\ IsSequence(results)
  BY SeqEmpty, NothingHeld, SeqFacts DEF ControlOK
<1>2. /\ IsSequence(results') /\ Len(results') = Len(results) + 1
      /\ results'[Len(results) + 1] = ret
      /\ \A i \in 1 .. Len(results) : results'[i] = results[i]
  BY <1>1, SeqAppend
<1>3. \A i \in 1 .. Len(results') : i \in 1 .. Len(results) \/ i = Len(results) + 1
  BY <1>1, <1>2
<1>4. \A i \in 1 .. Len(results) : i \in 1 .. Len(results')
  BY <1>1, <1>2
<1>5. Len(results) + 1 \in 1 .. Len(results')
  BY <1>1, <1>2
<1>6. OwnedByResults' = OwnedByResults \cup ret.own
  <2>1. \A x \in OwnedByResults' : x \in OwnedByResults \cup ret.own
    BY <1>2, <1>3 DEF OwnedByResults
  <2>2. \A x \in OwnedByResults : x \in OwnedByResults'
    BY <1>2, <1>4 DEF OwnedByResults
  <2>3. \A x \in ret.own : x \in OwnedByResults'
    BY <1>2, <1>5 DEF OwnedByResults
  <2>. QED
    BY <2>1, <2>2, <2>3
<1>7. OwnedByStack = {} /\ OwnedByStack' = {}
  BY <1>1 DEF OwnedByStack
<1>8. alive = OwnedByResults' /\ alive' = OwnedByStack' \cup ret'.own \cup OwnedByResults'
  BY <1>1, <1>6, <1>7 DEF OneOwner
<1>9. ASSUME NEW i \in 1 .. Len(results'), NEW j \in 1 .. Len(results'), i # j
      PROVE  results'[i].own \cap results'[j].own = {}
  <2>1. CASE i \in 1 .. Len(results) /\ j \in 1 .. Len(results)
    BY <1>2, <1>9, <2>1 DEF OneOwner
  <2>2. CASE i = Len(results) + 1 /\ j \in 1 .. Len(results)
    BY <1>2, <2>2 DEF OneOwner
  <2>3. CASE i \in 1 .. Len(results) /\ j = Len(results) + 1
    BY <1>2, <2>3 DEF OneOwner
  <2>. QED
    BY <1>3, <1>9, <2>1, <2>2, <2>3
<1>10. alive' \subseteq 1 .. size'
  BY DEF OneOwner
<1>. QED
  BY <1>1, <1>2, <1>8, <1>9, <1>10 DEF OneOwner

-----------------------------------------------------------------------------
(* Each step preserves the invariant *)

LEMMA PeekedToken ==
    ASSUME ControlOK, Left > 0
    PROVE  /\ Peeked \in Tokens /\ Peeked.n \in Int
           /\ pos + 1 \in 1 .. Len(wire) /\ pos \in Nat
<1>1. wire \in Seq(Tokens) /\ Len(wire) \in Nat /\ pos \in Nat /\ pos + 1 \in 1 .. Len(wire)
  BY DEF ControlOK, Left
<1>2. Peeked \in Tokens
  BY <1>1 DEF Peeked
<1>. QED
  BY <1>1, <1>2, ConstantsAssumption

LEMMA InitIInv == Init => IInv
<1>. SUFFICES ASSUME Init PROVE IInv
  OBVIOUS
<1>. USE DEF Init, DecInit
<1>1. IsSequence(<<>>) /\ Len(<<>>) = 0 /\ Nothing.own = {} /\ Nothing.shape.refs = {}
  BY SeqEmpty, NothingHeld
<1>2. ControlOK
  <2>1. wire \in Seq(Tokens) /\ defs \in Seq(Nat) /\ Len(wire) = 0
    BY <1>1
  <2>2. IsSequence(stack) /\ Len(stack) = 0 /\ IsSequence(results) /\ Len(results) = 0
    BY <1>1
  <2>3. pos \in 0 .. Len(wire) /\ size \in 0 .. pos /\ trusted \in NoFailure .. Len(results)
    BY <2>1, <2>2 DEF NoFailure
  <2>4. need \in Needs /\ repeated \in BOOLEAN
    BY DEF Needs
  <2>. QED
    BY <2>1, <2>2, <2>3, <2>4 DEF ControlOK
<1>3. OneOwner
  BY <1>1 DEF OneOwner, OwnedByStack, OwnedByResults
<1>4. AllAlive
  BY DEF AllAlive, Ended
<1>5. HeldEntered
  BY <1>1 DEF HeldEntered, Entered
<1>6. TrustedClosed
  BY <1>1 DEF TrustedClosed, Trusted
<1>. QED
  BY <1>2, <1>3, <1>4, <1>5, <1>6 DEF IInv

LEMMA StepGrows ==
    ASSUME IInv, Grows
    PROVE  IInv'
<1>1. PICK t \in Tokens : wire' = Append(wire, t)
  BY DEF Grows
<1>2. /\ wire' \in Seq(Tokens) /\ Len(wire') = Len(wire) + 1 /\ Len(wire) \in Nat
      /\ UNCHANGED decVars
  BY <1>1 DEF IInv, ControlOK, Grows
<1>3. ControlOK'
  BY <1>2 DEF IInv, ControlOK, decVars, Ended
<1>4. OneOwner'
  BY <1>2, OwnerStays DEF IInv, decVars
<1>5. AllAlive' /\ HeldEntered' /\ TrustedClosed'
  BY <1>2, TrustedStays DEF IInv, AllAlive, HeldEntered, Ended, Entered, decVars
<1>. QED
  BY <1>3, <1>4, <1>5 DEF IInv

LEMMA StepCall ==
    ASSUME IInv, Call
    PROVE  IInv'
<1>. USE DEF Call
<1>1. stack = <<>> /\ Len(stack) = 0 /\ ret = Nothing /\ Len(results) \in Nat
  BY SeqEmpty, SeqFacts DEF IInv, ControlOK, Ended
<1>2. ControlOK'
  BY <1>1 DEF IInv, ControlOK, Needs, Ended, NoFailure
<1>3. OneOwner'
  BY OwnerStays DEF IInv
<1>4. AllAlive'
  <2>1. CASE need = "idle"
    BY <2>1 DEF IInv, AllAlive, Ended, NoFailure
  <2>2. CASE need = "failed"
    BY <1>1, <2>2 DEF AllAlive, Ended, NoFailure
  <2>. QED
    BY <2>1, <2>2
<1>5. HeldEntered'
  BY <1>1, NothingHeld DEF HeldEntered, Entered
<1>6. Trusted' = Trusted
  BY <1>1 DEF Trusted, NoFailure
<1>7. TrustedClosed'
  BY <1>6 DEF IInv, TrustedClosed
<1>. QED
  BY <1>2, <1>3, <1>4, <1>5, <1>7 DEF IInv

LEMMA StepTake ==
    ASSUME IInv, Take
    PROVE  IInv'
<1>. USE DEF Take
<1>1. ControlOK /\ OneOwner /\ Len(results) \in Nat /\ ~Ended
  BY SeqFacts DEF IInv, ControlOK, Ended
<1>2. /\ OneOwner' /\ alive = OwnedByResults'
      /\ IsSequence(results') /\ Len(results') = Len(results) + 1
      /\ results'[Len(results) + 1] = ret
      /\ \A i \in 1 .. Len(results) : results'[i] = results[i]
  BY <1>1, OwnerTakes
<1>3. Len(stack) = 0
  BY SeqEmpty
<1>4. ControlOK'
  BY <1>1, <1>2 DEF ControlOK, Needs, Ended, NoFailure
<1>5. AllAlive'
  BY <1>1 DEF IInv, AllAlive, Ended
<1>6. HeldEntered'
  BY <1>3, NothingHeld DEF HeldEntered, Entered
<1>7. ASSUME ~repeated', NEW v \in Trusted', NEW a \in v.shape.refs
      PROVE  a \in UNION {w.own : w \in Trusted'}
  <2>1. CASE trusted = NoFailure
    <3>1. Trusted' = {results'[i] : i \in 1 .. Len(results')}
      BY <2>1 DEF Trusted
    <3>2. UNION {w.own : w \in Trusted'} = alive
      BY <1>2, <3>1 DEF OwnedByResults
    <3>3. PICK i \in 1 .. Len(results') : v = results'[i]
      BY <1>7, <3>1
    <3>4. CASE i \in 1 .. Len(results)
      <4>1. v \in Trusted
        BY <1>2, <2>1, <3>3, <3>4 DEF Trusted
      <4>2. PICK w \in Trusted : a \in w.own
        BY <1>7, <4>1 DEF IInv, TrustedClosed
      <4>3. PICK j \in 1 .. Len(results) : w = results[j]
        BY <2>1, <4>2 DEF Trusted
      <4>. QED
        BY <1>1, <3>2, <4>2, <4>3, OwnersAlive
    <3>5. CASE i = Len(results) + 1
      <4>1. v = ret
        BY <1>2, <3>3, <3>5
      <4>2. Entered(ret) /\ alive = 1 .. size
        BY <1>1, <1>7, <2>1 DEF IInv, HeldEntered, AllAlive, Ended
      <4>. QED
        BY <1>7, <3>2, <4>1, <4>2 DEF Entered
    <3>. QED
      BY <1>1, <1>2, <3>4, <3>5
  <2>2. CASE trusted # NoFailure
    <3>1. Trusted' = Trusted
      <4>1. \A i \in 1 .. trusted : results'[i] = results[i]
        BY <1>1, <1>2 DEF ControlOK, NoFailure
      <4>. QED
        BY <2>2, <4>1 DEF Trusted
    <3>. QED
      BY <1>7, <3>1 DEF IInv, TrustedClosed
  <2>. QED
    BY <2>1, <2>2
<1>8. TrustedClosed'
  BY <1>7 DEF TrustedClosed
<1>. QED
  BY <1>2, <1>4, <1>5, <1>6, <1>8 DEF IInv

\* A call fails, or throws, before it has returned anything.
LEMMA StepAborts ==
    ASSUME IInv, ret = Nothing, NEW after \in {"failed", "gone"}, Unwind(after),
           UNCHANGED <<wire, defs, results, repeated, trusted>>,
           pos' \in {pos, pos + 1}, pos' <= Len(wire), size' \in {size, size + 1},
           size' <= pos'
    PROVE  IInv'
<1>1. OneOwner' /\ need' = after /\ stack' = <<>> /\ ret' = Nothing /\ Ended'
  BY OwnerAborts DEF IInv, Ended
<1>2. Len(<<>>) = 0 /\ IsSequence(<<>>)
  BY SeqEmpty
<1>3. ControlOK'
  BY <1>1, <1>2 DEF IInv, ControlOK, Needs, Ended
<1>4. AllAlive' /\ HeldEntered'
  BY <1>1 DEF AllAlive, HeldEntered
<1>5. TrustedClosed'
  BY TrustedStays DEF IInv
<1>. QED
  BY <1>1, <1>3, <1>4, <1>5 DEF IInv

\* decode<Object> returns a value that owns nothing.
LEMMA StepReturns ==
    ASSUME IInv, need = "value", need' = "elem", ret'.own = {}, Entered(ret'),
           pos' = pos + 1, pos' <= Len(wire),
           UNCHANGED <<wire, defs, size, alive, stack, results, repeated, trusted>>
    PROVE  IInv'
<1>1. ControlOK /\ ret = Nothing /\ ret.own = {}
  BY NothingHeld DEF IInv, ControlOK
<1>2. ControlOK'
  BY <1>1 DEF ControlOK, Needs, Ended
<1>3. OneOwner'
  BY <1>1, OwnerStays DEF IInv
<1>4. AllAlive'
  BY DEF IInv, AllAlive, Ended
<1>5. HeldEntered'
  BY DEF IInv, HeldEntered, Entered, Ended
<1>6. TrustedClosed'
  BY TrustedStays DEF IInv
<1>. QED
  BY <1>2, <1>3, <1>4, <1>5, <1>6 DEF IInv

\* A container is entered.
LEMMA StepEnters ==
    ASSUME IInv, Left > 0, need = "value",
           NEW kind \in {"list", "map", "inst"}, NEW left \in Int, left >= UntilEnd,
           Enter(kind, left)
    PROVE  IInv'
<1>. DEFINE f == Frame(kind, size + 1, left)
<1>1. FrameOK(f) /\ Owned(f) = {size + 1} /\ f.key = Nothing /\ Len(f.vals) = 0
  BY FrameNew
<1>. HIDE DEF f
<1>2. /\ pos' = pos + 1 /\ size' = size + 1 /\ alive' = alive \cup {size + 1}
      /\ stack' = <<f>> \o stack /\ need' = "elem"
      /\ UNCHANGED <<wire, defs, ret, results, repeated, trusted>>
  BY DEF Enter, f
<1>3. /\ ControlOK /\ OneOwner /\ ret = Nothing /\ IsSequence(stack) /\ Len(stack) \in Nat
      /\ size \in Nat /\ pos \in Nat
  BY SeqFacts DEF IInv, ControlOK
<1>4. /\ IsSequence(stack') /\ Len(stack') = Len(stack) + 1 /\ stack'[1] = f
      /\ \A i \in 2 .. Len(stack') : stack'[i] = stack[i - 1]
  BY <1>2, <1>3, SeqCons
<1>5. ASSUME NEW i \in 1 .. Len(stack')
      PROVE  i = 1 \/ (i - 1 \in 1 .. Len(stack) /\ stack'[i] = stack[i - 1])
  BY <1>3, <1>4
<1>6. ControlOK'
  <2>1. \A i \in 1 .. Len(stack') : FrameOK(stack'[i])
    BY <1>1, <1>3, <1>4, <1>5 DEF ControlOK
  <2>2. pos' \in 0 .. Len(wire') /\ size' \in 0 .. pos'
    BY <1>2, <1>3 DEF ControlOK, Left
  <2>. QED
    BY <1>2, <1>3, <1>4, <2>1, <2>2 DEF ControlOK, Needs, Ended
<1>7. OneOwner'
  BY <1>1, <1>2, <1>3, OwnerEnters
<1>8. AllAlive'
  BY <1>2, <1>3 DEF IInv, AllAlive, Ended
<1>9. HeldEntered'
  <2>1. SUFFICES ASSUME trusted' = NoFailure
                 PROVE  /\ Entered(ret)'
                        /\ \A i \in 1 .. Len(stack') :
                              /\ Entered(stack[i].key)'
                              /\ \A j \in 1 .. Len(stack'[i].vals) : Entered(stack[i].vals[j])'
    BY DEF HeldEntered
  <2>2. 1 .. size \subseteq 1 .. size'
    BY <1>2, <1>3
  <2>3. /\ Entered(ret)
        /\ \A i \in 1 .. Len(stack) :
              /\ Entered(stack[i].key)
              /\ \A j \in 1 .. Len(stack[i].vals) : Entered(stack[i].vals[j])
    BY <1>2, <2>1 DEF IInv, HeldEntered, Ended
  <2>4. Entered(ret)'
    BY <1>2, <2>2, <2>3 DEF Entered
  <2>5. ASSUME NEW i \in 1 .. Len(stack')
        PROVE  /\ Entered(stack[i].key)'
               /\ \A j \in 1 .. Len(stack'[i].vals) : Entered(stack[i].vals[j])'
    <3>1. CASE i = 1
      BY <1>1, <1>4, <3>1, NothingHeld DEF Entered
    <3>2. CASE i # 1
      BY <1>5, <2>2, <2>3, <3>2 DEF Entered
    <3>. QED
      BY <3>1, <3>2
  <2>. QED
    BY <2>4, <2>5
<1>10. TrustedClosed'
  BY <1>2, TrustedStays DEF IInv
<1>. QED
  BY <1>6, <1>7, <1>8, <1>9, <1>10 DEF IInv

\* What was returned goes into the innermost container.
LEMMA StepTop ==
    ASSUME IInv, need = "elem", stack # <<>>,
           NEW g, FrameOK(g), stack' = WithTop(g),
           Owned(g) \subseteq Owned(Top) \cup ret.own,
           alive' = alive \ ((Owned(Top) \cup ret.own) \ Owned(g)),
           g.key \in {Nothing, ret, Top.key},
           \A i \in 1 .. Len(g.vals) :
               \/ g.vals[i] = ret \/ g.vals[i] = Top.key
               \/ \E j \in 1 .. Len(Top.vals) : g.vals[i] = Top.vals[j],
           ret' = Nothing, repeated' \in BOOLEAN, repeated => repeated',
           repeated' \/ alive' = alive,
           UNCHANGED <<wire, pos, defs, size, need, results, trusted>>
    PROVE  IInv'
<1>1. /\ ControlOK /\ OneOwner /\ IsSequence(stack) /\ Len(stack) \in Nat
      /\ stack' = <<g>> \o Tail(stack) /\ 1 \in 1 .. Len(stack) /\ Top = stack[1]
  BY SeqFacts, SeqTail DEF IInv, ControlOK, WithTop, Top
<1>2. /\ IsSequence(stack') /\ Len(stack') = Len(stack) /\ stack'[1] = g
      /\ \A i \in 2 .. Len(stack') : stack'[i] = stack[i]
  BY <1>1, SeqTop
<1>3. \A i \in 1 .. Len(stack') : i = 1 \/ (i \in 1 .. Len(stack) /\ stack'[i] = stack[i])
  BY <1>1, <1>2
<1>4. ControlOK'
  <2>1. \A i \in 1 .. Len(stack') : FrameOK(stack'[i])
    BY <1>1, <1>2, <1>3 DEF ControlOK
  <2>. QED
    BY <1>1, <1>2, <2>1 DEF ControlOK, Ended
<1>5. OneOwner'
  BY <1>1, OwnerTop
<1>6. AllAlive'
  BY DEF IInv, AllAlive, Ended
<1>7. HeldEntered'
  <2>1. SUFFICES ASSUME trusted' = NoFailure
                 PROVE  /\ Entered(ret)'
                        /\ \A i \in 1 .. Len(stack') :
                              /\ Entered(stack[i].key)'
                              /\ \A j \in 1 .. Len(stack'[i].vals) : Entered(stack[i].vals[j])'
    BY DEF HeldEntered
  <2>2. /\ Entered(ret) /\ Entered(Nothing)
        /\ \A i \in 1 .. Len(stack) :
              /\ Entered(stack[i].key)
              /\ \A j \in 1 .. Len(stack[i].vals) : Entered(stack[i].vals[j])
    BY <2>1, NothingHeld DEF IInv, HeldEntered, Entered, Ended
  <2>3. Entered(Top.key) /\ \A j \in 1 .. Len(Top.vals) : Entered(Top.vals[j])
    BY <1>1, <2>2
  <2>4. Entered(g.key) /\ \A j \in 1 .. Len(g.vals) : Entered(g.vals[j])
    BY <2>2, <2>3
  <2>5. Entered(ret)'
    BY <2>2 DEF Entered
  <2>6. ASSUME NEW i \in 1 .. Len(stack')
        PROVE  /\ Entered(stack[i].key)'
               /\ \A j \in 1 .. Len(stack'[i].vals) : Entered(stack[i].vals[j])'
    <3>1. CASE i = 1
      BY <1>2, <2>4, <3>1 DEF Entered
    <3>2. CASE i # 1
      BY <1>3, <2>2, <3>2 DEF Entered
    <3>. QED
      BY <3>1, <3>2
  <2>. QED
    BY <2>5, <2>6
<1>8. TrustedClosed'
  BY TrustedStays DEF IInv
<1>. QED
  BY <1>4, <1>5, <1>6, <1>7, <1>8 DEF IInv

LEMMA StepFinish ==
    ASSUME IInv, Finish
    PROVE  IInv'
<1>1. /\ ControlOK /\ OneOwner /\ IsSequence(stack) /\ Len(stack) \in Nat
      /\ need = "elem" /\ stack # <<>> /\ ret = Nothing
      /\ ret' = Val(FrameShape(Top), Owned(Top)) /\ stack' = Tail(stack)
      /\ UNCHANGED <<wire, defs, size, alive, need, results, repeated, trusted>>
      /\ 1 \in 1 .. Len(stack) /\ Top = stack[1] /\ FrameOK(Top)
  BY SeqFacts, SeqTail DEF IInv, ControlOK, Finish, InLoop, Top
<1>2. ret'.own = Owned(Top) /\ ret'.shape = FrameShape(Top)
  BY <1>1 DEF Val
<1>3. /\ IsSequence(stack') /\ Len(stack') = Len(stack) - 1
      /\ \A i \in 1 .. Len(stack') : stack'[i] = stack[i + 1] /\ i + 1 \in 1 .. Len(stack)
  BY <1>1, SeqTail
<1>4. pos' \in pos .. Len(wire)
  BY <1>1 DEF Finish, ControlOK, Left
<1>5. ControlOK'
  <2>1. \A i \in 1 .. Len(stack') : FrameOK(stack'[i])
    BY <1>1, <1>3 DEF ControlOK
  <2>2. pos' \in 0 .. Len(wire') /\ size' \in 0 .. pos'
    BY <1>1, <1>4 DEF ControlOK
  <2>. QED
    BY <1>1, <1>3, <2>1, <2>2 DEF ControlOK, Ended
<1>6. OneOwner'
  BY <1>1, <1>2, OwnerPops
<1>7. AllAlive'
  BY <1>1 DEF IInv, AllAlive, Ended
<1>8. HeldEntered'
  <2>1. SUFFICES ASSUME trusted' = NoFailure
                 PROVE  /\ Entered(ret)'
                        /\ \A i \in 1 .. Len(stack') :
                              /\ Entered(stack[i].key)'
                              /\ \A j \in 1 .. Len(stack'[i].vals) : Entered(stack[i].vals[j])'
    BY DEF HeldEntered
  <2>2. \A i \in 1 .. Len(stack) :
              /\ Entered(stack[i].key)
              /\ \A j \in 1 .. Len(stack[i].vals) : Entered(stack[i].vals[j])
    BY <1>1, <2>1 DEF IInv, HeldEntered, Ended
  <2>3. \A j \in 1 .. Len(Top.vals) : Top.vals[j].shape.refs \subseteq 1 .. size
    BY <1>1, <2>2 DEF Entered
  <2>4. FrameShape(Top).refs \subseteq 1 .. size
    BY <1>1, <2>3, FrameRefs
  <2>5. Entered(ret)'
    BY <1>1, <1>2, <2>4 DEF Entered
  <2>6. \A i \in 1 .. Len(stack') :
              /\ Entered(stack[i].key)'
              /\ \A j \in 1 .. Len(stack'[i].vals) : Entered(stack[i].vals[j])'
    BY <1>1, <1>3, <2>2 DEF Entered
  <2>. QED
    BY <2>5, <2>6
<1>9. TrustedClosed'
  BY <1>1, TrustedStays DEF IInv
<1>. QED
  BY <1>5, <1>6, <1>7, <1>8, <1>9 DEF IInv

\* Every step of the decoder.
LEMMA StepDecoder ==
    ASSUME IInv, DecNext
    PROVE  IInv'
<1>1. /\ ControlOK /\ OneOwner
      /\ need = "value" => ret = Nothing
      /\ size \in 0 .. pos /\ pos \in 0 .. Len(wire) /\ Len(wire) \in Nat
  BY DEF IInv, ControlOK
<1>2. CASE Call
  BY <1>2, StepCall
<1>3. CASE Take
  BY <1>3, StepTake
<1>4. CASE Reject
  BY <1>1, <1>4, StepAborts DEF Abort, Reject
<1>5. CASE Scalars
  <2>1. ret'.own = {} /\ Entered(ret')
    BY <1>5 DEF Scalars, Scalar, Shape, Val, Entered
  <2>2. pos' <= Len(wire)
    BY <1>1, <1>5 DEF Scalars, Asked, Left
  <2>. QED
    BY <1>5, <2>1, <2>2, StepReturns DEF Scalars, Asked
<1>6. CASE Reference
  <2>1. /\ need = "value" /\ Left > 0 /\ pos' = pos + 1 /\ pos' <= Len(wire)
        /\ UNCHANGED <<wire, defs, size, results, repeated, trusted>>
    BY <1>1, <1>6 DEF Reference, Asked, Left
  <2>2. CASE Peeked.n >= 0 /\ Peeked.n < size
    <3>1. /\ ret' = Val(Pointer(Peeked.n + 1), {}) /\ need' = "elem" /\ UNCHANGED <<alive, stack>>
      BY <1>6, <2>2 DEF Reference
    <3>2. Peeked.n + 1 \in 1 .. size
      BY <1>1, <2>1, <2>2, PeekedToken
    <3>3. ret'.own = {} /\ ret'.shape.refs = {Peeked.n + 1}
      BY <3>1 DEF Pointer, Shape, Val
    <3>4. Entered(ret')
      BY <3>2, <3>3 DEF Entered
    <3>. QED
      BY <2>1, <3>1, <3>3, <3>4, StepReturns
  <2>3. CASE ~(Peeked.n >= 0 /\ Peeked.n < size)
    <3>1. Abort
      BY <1>6, <2>3 DEF Reference
    <3>. QED
      BY <1>1, <2>1, <3>1, StepAborts DEF Abort
  <2>. QED
    BY <2>2, <2>3
<1>7. CASE Definition
  <2>1. /\ need = "value" /\ pos' = pos + 1 /\ pos' <= Len(wire) /\ defs' = Append(defs, Peeked.n)
        /\ UNCHANGED <<wire, size, alive, stack, need, ret, results, repeated, trusted>>
        /\ Peeked.n \in Nat
    BY <1>1, <1>7, PeekedToken DEF Definition, Asked, Left
  <2>2. ControlOK'
    <3>1. defs' \in Seq(Nat) /\ pos' \in 0 .. Len(wire') /\ size' \in 0 .. pos'
      BY <1>1, <2>1 DEF ControlOK
    <3>. QED
      BY <1>1, <2>1, <3>1 DEF ControlOK, Ended
  <2>3. OneOwner'
    BY <1>1, <2>1, OwnerStays
  <2>4. AllAlive' /\ HeldEntered' /\ TrustedClosed'
    BY <2>1, TrustedStays DEF IInv, AllAlive, HeldEntered, Ended, Entered
  <2>. QED
    BY <2>2, <2>3, <2>4 DEF IInv
<1>throw. CASE DefinitionThrows
  <2>1. PICK after \in {"failed", "gone"} : Unwind(after)
    BY <1>throw DEF DefinitionThrows
  <2>2. /\ ret = Nothing /\ pos' = pos + 1 /\ pos' <= Len(wire)
        /\ UNCHANGED <<wire, defs, size, results, repeated, trusted>>
    BY <1>1, <1>throw DEF DefinitionThrows, Asked, Left
  <2>. QED
    BY <1>1, <2>1, <2>2, StepAborts
<1>bad. CASE MalformedDefinition
  <2>1. /\ ret = Nothing /\ pos' = pos + 1 /\ pos' <= Len(wire) /\ Unwind("failed")
        /\ UNCHANGED <<wire, defs, size, results, repeated, trusted>>
    BY <1>1, <1>bad DEF MalformedDefinition, Asked, Left, Abort
  <2>. QED
    BY <1>1, <2>1, StepAborts
<1>enter. ASSUME NEW op, Asked(op), NEW kind \in {"list", "map", "inst"},
                 NEW left \in Int, left >= UntilEnd, Enter(kind, left)
          PROVE  IInv'
  BY <1>enter, StepEnters DEF Asked
<1>fail. ASSUME NEW op, Asked(op), EnterAndFail
         PROVE  IInv'
  <2>1. /\ ret = Nothing /\ pos' = pos + 1 /\ pos' <= Len(wire) /\ size' = size + 1
        /\ size' <= pos' /\ Abort /\ UNCHANGED <<wire, defs, results, repeated, trusted>>
    BY <1>1, <1>fail DEF Asked, EnterAndFail, Left
  <2>. QED
    BY <2>1, StepAborts DEF Abort
<1>8. CASE List
  <2>1. Asked("list") /\ Peeked.n \in Int
    BY <1>1, <1>8, PeekedToken DEF List, Asked
  <2>. DEFINE left == IF Peeked.n < 0 THEN 0 ELSE Peeked.n
  <2>2. Enter("list", left) /\ left \in Int /\ left >= UntilEnd
    BY <1>8, <2>1 DEF List, UntilEnd
  <2>. HIDE DEF left
  <2>. QED
    BY <1>enter, <2>1, <2>2
<1>9. CASE VariableList
  BY <1>9, <1>enter DEF VariableList, UntilEnd
<1>10. CASE MapObject
  BY <1>10, <1>enter DEF MapObject, UntilEnd
<1>11. CASE MalformedHeader
  BY <1>11, <1>fail DEF MalformedHeader
<1>12. CASE Instance
  <2>1. Asked("inst") /\ Peeked.n \in Int
    BY <1>1, <1>12, PeekedToken DEF Instance, Asked
  <2>2. CASE Peeked.n >= 0 /\ Peeked.n < Len(defs)
    <3>1. Enter("inst", defs[Peeked.n + 1])
      BY <1>12, <2>2 DEF Instance
    <3>2. defs[Peeked.n + 1] \in Nat
      BY <1>1, <2>1, <2>2 DEF ControlOK
    <3>. QED
      BY <1>enter, <2>1, <3>1, <3>2 DEF UntilEnd
  <2>3. CASE ~(Peeked.n >= 0 /\ Peeked.n < Len(defs))
    BY <1>12, <1>fail, <2>1, <2>3 DEF Instance
  <2>. QED
    BY <2>2, <2>3
<1>13. CASE AskElement
  <2>1. /\ ret = Nothing /\ need' = "value" /\ need = "elem"
        /\ UNCHANGED <<wire, pos, defs, size, alive, stack, ret, results, repeated, trusted>>
    BY <1>13 DEF AskElement, InLoop
  <2>2. ControlOK'
    BY <1>1, <2>1 DEF ControlOK, Needs, Ended
  <2>3. OneOwner'
    BY <1>1, <2>1, OwnerStays
  <2>4. AllAlive' /\ HeldEntered' /\ TrustedClosed'
    BY <2>1, TrustedStays DEF IInv, AllAlive, HeldEntered, Ended, Entered
  <2>. QED
    BY <2>2, <2>3, <2>4 DEF IInv
<1>14. CASE NoEnd
  BY <1>1, <1>14, StepAborts DEF Abort, NoEnd, InLoop
<1>top. ASSUME stack # <<>>
        PROVE  FrameOK(Top) /\ Owned(Top) \cap ret.own = {}
  <2>1. 1 \in 1 .. Len(stack)
    BY <1>1, <1>top, SeqTail, SeqFacts DEF ControlOK
  <2>. QED
    BY <1>1, <2>1 DEF ControlOK, OneOwner, Top
<1>15. CASE AppendElement
  <2>. DEFINE g == Appended(Top, ret)
  <2>1. /\ need = "elem" /\ stack # <<>> /\ Top.kind # "map" /\ stack' = WithTop(g)
        /\ ret' = Nothing
        /\ UNCHANGED <<wire, pos, defs, size, alive, need, results, repeated, trusted>>
    BY <1>15 DEF AppendElement, Appended
  <2>2. /\ FrameOK(g) /\ Owned(g) = Owned(Top) \cup ret.own /\ g.key = Top.key
        /\ \A i \in 1 .. Len(g.vals) :
               g.vals[i] = ret \/ \E j \in 1 .. Len(Top.vals) : g.vals[i] = Top.vals[j]
    BY <1>top, <2>1, FrameAppend
  <2>3. repeated \in BOOLEAN /\ alive' = alive \ ((Owned(Top) \cup ret.own) \ Owned(g))
    BY <1>1, <2>1, <2>2 DEF ControlOK
  <2>. HIDE DEF g
  <2>. QED
    BY <2>1, <2>2, <2>3, StepTop
<1>16. CASE HoldKey
  <2>. DEFINE g == [Top EXCEPT !.key = ret]
  <2>1. /\ need = "elem" /\ stack # <<>> /\ Top.key = Nothing /\ stack' = WithTop(g)
        /\ ret' = Nothing
        /\ UNCHANGED <<wire, pos, defs, size, alive, need, results, repeated, trusted>>
    BY <1>16 DEF HoldKey
  <2>2. /\ FrameOK(g) /\ Owned(g) = Owned(Top) \cup ret.own /\ g.key = ret
        /\ g.vals = Top.vals
    BY <1>top, <2>1, FrameHold
  <2>3. repeated \in BOOLEAN /\ alive' = alive \ ((Owned(Top) \cup ret.own) \ Owned(g))
    BY <1>1, <2>1, <2>2 DEF ControlOK
  <2>. HIDE DEF g
  <2>. QED
    BY <2>1, <2>2, <2>3, StepTop
<1>17. CASE Emplace
  <2>1. /\ need = "elem" /\ stack # <<>> /\ ret' = Nothing
        /\ UNCHANGED <<wire, pos, defs, size, need, results, trusted>>
    BY <1>17 DEF Emplace
  <2>2. FrameOK(Top) /\ Owned(Top) \cap ret.own = {} /\ repeated \in BOOLEAN
    BY <1>1, <1>top, <2>1 DEF ControlOK
  <2>3. CASE SameKey(Top, Top.key)
    <3>. DEFINE g == [Top EXCEPT !.key = Nothing]
    <3>1. /\ repeated' = TRUE /\ stack' = WithTop(g)
          /\ alive' = alive \ (Top.key.own \cup ret.own)
      BY <1>17, <2>3 DEF Emplace
    <3>2. /\ FrameOK(g) /\ Owned(g) = Owned(Top) \ Top.key.own /\ g.key = Nothing
          /\ g.vals = Top.vals
      BY <2>2, FrameDrop
    <3>. HIDE DEF g
    <3>3. Top.key.own \subseteq Owned(Top)
      BY DEF Owned
    <3>4. alive' = alive \ ((Owned(Top) \cup ret.own) \ Owned(g))
      BY <2>2, <3>1, <3>2, <3>3
    <3>. QED
      BY <2>1, <2>2, <3>1, <3>2, <3>4, StepTop
  <2>4. CASE ~SameKey(Top, Top.key)
    <3>. DEFINE g == Kept(Top, ret)
    <3>1. stack' = WithTop(g) /\ UNCHANGED <<alive, repeated>>
      BY <1>17, <2>4 DEF Emplace, Kept
    <3>2. /\ FrameOK(g) /\ Owned(g) = Owned(Top) \cup ret.own /\ g.key = Nothing
          /\ \A i \in 1 .. Len(g.vals) :
                 \/ g.vals[i] = ret \/ g.vals[i] = Top.key
                 \/ \E j \in 1 .. Len(Top.vals) : g.vals[i] = Top.vals[j]
      BY <2>2, FrameKeep
    <3>3. alive' = alive \ ((Owned(Top) \cup ret.own) \ Owned(g))
      BY <3>1, <3>2
    <3>. HIDE DEF g
    <3>. QED
      BY <2>1, <2>2, <3>1, <3>2, <3>3, StepTop
  <2>. QED
    BY <2>3, <2>4
<1>18. CASE Finish
  BY <1>18, StepFinish
<1>19. CASE HashNothing
  <2>1. /\ need' = "gone" /\ need = "elem" /\ stack # <<>>
        /\ UNCHANGED <<wire, pos, defs, size, alive, stack, ret, results, repeated, trusted>>
    BY <1>19 DEF HashNothing
  <2>2. ControlOK'
    BY <1>1, <2>1 DEF ControlOK, Needs, Ended
  <2>3. OneOwner'
    BY <1>1, <2>1, OwnerStays
  <2>4. AllAlive' /\ HeldEntered' /\ TrustedClosed'
    BY <2>1, TrustedStays DEF IInv, AllAlive, HeldEntered, Ended, Entered
  <2>. QED
    BY <2>2, <2>3, <2>4 DEF IInv
<1>. QED
  BY <1>2, <1>3, <1>4, <1>5, <1>6, <1>7, <1>8, <1>9, <1>10, <1>11, <1>12, <1>13, <1>14,
     <1>15, <1>16, <1>17, <1>18, <1>19, <1>throw, <1>bad DEF DecNext

LEMMA NextIInv == IInv /\ [Next]_vars => IInv'
<1>. SUFFICES ASSUME IInv, [Next]_vars PROVE IInv'
  OBVIOUS
<1>1. CASE Grows
  BY <1>1, StepGrows
<1>2. CASE Ends \/ UNCHANGED vars
  <2>1. UNCHANGED <<wire, decVars>>
    BY <1>2 DEF Ends, vars
  <2>2. ControlOK'
    BY <2>1 DEF IInv, ControlOK, decVars, Ended
  <2>3. OneOwner'
    BY <2>1, OwnerStays DEF IInv, decVars
  <2>4. AllAlive' /\ HeldEntered' /\ TrustedClosed'
    BY <2>1, TrustedStays DEF IInv, AllAlive, HeldEntered, Ended, Entered, decVars
  <2>. QED
    BY <2>2, <2>3, <2>4 DEF IInv
<1>3. CASE Step
  BY <1>3, StepDecoder DEF Step
<1>. QED
  BY <1>1, <1>2, <1>3 DEF Next

LEMMA Invariance == Spec => []IInv
BY InitIInv, NextIInv, PTL DEF Spec

-----------------------------------------------------------------------------
(* The keys of the maps that are being filled *)

\* A map has a key that is a reference to d.
KeyTo(f, d) ==
    f.kind = "map" /\ \E j \in 1 .. Len(f.vals) :
        j % 2 = 1 /\ f.vals[j].shape.k = "ref" /\ f.vals[j].shape.v = d

\* What may be destroyed while the call at depth i goes on: its key, the value it has
\* been given, and what the calls inside it are building.
InDanger(i) == ret.own \cup stack[i].key.own \cup UNION {Owned(stack[l]) : l \in 1 .. i - 1}

\* All of it was entered in values_ref_ after the destinations of the keys.
KeysBefore ==
    \A i \in 1 .. Len(stack) : \A d :
        KeyTo(stack[i], d) => d \in alive /\ \A a \in InDanger(i) : d < a

\* The innermost call changes its activation record.
LEMMA KeysTop ==
    ASSUME IInv, KeysBefore, stack # <<>>, NEW g, stack' = WithTop(g), ret' = Nothing,
           Owned(g) \subseteq Owned(Top) \cup ret.own,
           g.key.own \subseteq Top.key.own \cup ret.own,
           alive \ (Top.key.own \cup ret.own) \subseteq alive',
           \A d : KeyTo(g, d) => KeyTo(Top, d) \/ (d \in alive' /\ g.key.own = {})
    PROVE  KeysBefore'
<1>1. /\ IsSequence(stack) /\ Len(stack) \in Nat /\ 1 \in 1 .. Len(stack) /\ Top = stack[1]
      /\ stack' = <<g>> \o Tail(stack) /\ ret'.own = {} /\ size \in Nat /\ alive \subseteq 1 .. size
  BY SeqFacts, SeqTail, NothingHeld DEF IInv, ControlOK, OneOwner, WithTop, Top
<1>2. /\ Len(stack') = Len(stack) /\ stack'[1] = g
      /\ \A i \in 2 .. Len(stack') : stack'[i] = stack[i]
  BY <1>1, SeqTop
<1>3. \A d \in alive : ~(d < d)
  BY <1>1
<1>4. Top.key.own \subseteq Owned(Top)
  BY DEF Owned
<1>5. SUFFICES ASSUME NEW i \in 1 .. Len(stack'), NEW d, KeyTo(stack'[i], d)
               PROVE  d \in alive' /\ \A a \in InDanger(i)' : d < a
  BY DEF KeysBefore
<1>6. CASE i = 1
  <2>1. InDanger(1)' \subseteq g.key.own
    BY <1>1, <1>2 DEF InDanger
  <2>2. CASE d \in alive' /\ g.key.own = {}
    BY <1>6, <2>1, <2>2
  <2>3. CASE KeyTo(Top, d)
    <3>1. d \in alive /\ \A a \in InDanger(1) : d < a
      BY <1>1, <2>3 DEF KeysBefore
    <3>2. ret.own \cup Top.key.own \subseteq InDanger(1)
      BY <1>1 DEF InDanger
    <3>3. d \in alive'
      BY <1>3, <3>1, <3>2
    <3>. QED
      BY <1>6, <2>1, <3>1, <3>2, <3>3
  <2>. QED
    BY <1>2, <1>5, <1>6, <2>2, <2>3
<1>7. CASE i # 1
  <2>1. i \in 2 .. Len(stack') /\ i \in 1 .. Len(stack) /\ 1 \in 1 .. i - 1
    BY <1>1, <1>2, <1>7
  <2>2. KeyTo(stack[i], d) /\ stack'[i] = stack[i]
    BY <1>2, <1>5, <2>1
  <2>3. d \in alive /\ \A a \in InDanger(i) : d < a
    BY <2>1, <2>2 DEF KeysBefore
  <2>4. ret.own \cup Owned(Top) \subseteq InDanger(i)
    BY <1>1, <2>1 DEF InDanger
  <2>5. ASSUME NEW a \in InDanger(i)' PROVE a \in InDanger(i)
    <3>1. CASE a \in stack'[i].key.own
      BY <2>2, <3>1 DEF InDanger
    <3>2. CASE \E l \in 1 .. i - 1 : a \in Owned(stack'[l])
      <4>1. PICK l \in 1 .. i - 1 : a \in Owned(stack'[l])
        BY <3>2
      <4>2. CASE l = 1
        BY <1>2, <2>4, <4>1, <4>2
      <4>3. CASE l # 1
        <5>1. l \in 2 .. Len(stack')
          BY <1>1, <1>2, <2>1, <4>3
        <5>2. stack'[l] = stack[l]
          BY <1>2, <5>1
        <5>. QED
          BY <4>1, <5>2 DEF InDanger
      <4>. QED
        BY <4>2, <4>3
    <3>. QED
      BY <1>1, <3>1, <3>2 DEF InDanger
  <2>6. d \in alive'
    BY <1>3, <1>4, <2>3, <2>4
  <2>. QED
    BY <2>3, <2>5, <2>6
<1>. QED
  BY <1>6, <1>7

\* A container is entered: its address is after all there are.
LEMMA KeysEnter ==
    ASSUME IInv, KeysBefore, ret = Nothing, NEW kind, NEW left, Enter(kind, left)
    PROVE  KeysBefore'
<1>. DEFINE f == Frame(kind, size + 1, left)
<1>1. /\ IsSequence(stack) /\ Len(stack) \in Nat /\ size \in Nat /\ alive \subseteq 1 .. size
      /\ stack' = <<f>> \o stack /\ alive \subseteq alive' /\ ret' = ret
  BY SeqFacts DEF IInv, ControlOK, OneOwner, Enter
<1>2. f.vals = <<>> /\ Len(f.vals) = 0 /\ Owned(f) = {size + 1}
  BY SeqEmpty, NothingHeld DEF Frame, Owned
<1>. HIDE DEF f
<1>3. /\ Len(stack') = Len(stack) + 1 /\ stack'[1] = f
      /\ \A i \in 2 .. Len(stack') : stack'[i] = stack[i - 1]
  BY <1>1, SeqCons
<1>4. SUFFICES ASSUME NEW i \in 1 .. Len(stack'), NEW d, KeyTo(stack'[i], d)
               PROVE  d \in alive' /\ \A a \in InDanger(i)' : d < a
  BY DEF KeysBefore
<1>5. i # 1
  BY <1>2, <1>3, <1>4 DEF KeyTo
<1>6. i \in 2 .. Len(stack') /\ i - 1 \in 1 .. Len(stack)
  BY <1>1, <1>3, <1>5
<1>7. KeyTo(stack[i - 1], d) /\ stack'[i] = stack[i - 1]
  BY <1>3, <1>4, <1>6
<1>8. d \in alive /\ \A a \in InDanger(i - 1) : d < a
  BY <1>6, <1>7 DEF KeysBefore
<1>9. ASSUME NEW a \in InDanger(i)' PROVE a = size + 1 \/ a \in InDanger(i - 1)
  <2>1. CASE a \in ret'.own \/ a \in stack'[i].key.own
    BY <1>1, <1>7, <2>1 DEF InDanger
  <2>2. CASE \E l \in 1 .. i - 1 : a \in Owned(stack'[l])
    <3>1. PICK l \in 1 .. i - 1 : a \in Owned(stack'[l])
      BY <2>2
    <3>2. CASE l = 1
      BY <1>2, <1>3, <3>1, <3>2
    <3>3. CASE l # 1
      <4>1. l \in 2 .. Len(stack') /\ l - 1 \in 1 .. (i - 1) - 1
        BY <1>1, <1>3, <1>6, <3>3
      <4>2. stack'[l] = stack[l - 1]
        BY <1>3, <4>1
      <4>. QED
        BY <3>1, <4>1, <4>2 DEF InDanger
    <3>. QED
      BY <3>2, <3>3
  <2>. QED
    BY <2>1, <2>2 DEF InDanger
<1>10. d < size + 1
  BY <1>1, <1>8
<1>. QED
  BY <1>1, <1>8, <1>9, <1>10

\* A container is finished: what its call was building is the value now.
LEMMA KeysFinish ==
    ASSUME IInv, KeysBefore, Finish
    PROVE  KeysBefore'
<1>1. /\ IsSequence(stack) /\ Len(stack) \in Nat /\ stack # <<>> /\ alive' = alive
      /\ stack' = Tail(stack) /\ ret'.own = Owned(stack[1])
  BY SeqFacts DEF IInv, ControlOK, Finish, InLoop, Top, Val
<1>2. /\ Len(stack') = Len(stack) - 1
      /\ \A i \in 1 .. Len(stack) - 1 : stack'[i] = stack[i + 1]
  BY <1>1, SeqTail
<1>3. SUFFICES ASSUME NEW i \in 1 .. Len(stack'), NEW d, KeyTo(stack'[i], d)
               PROVE  d \in alive' /\ \A a \in InDanger(i)' : d < a
  BY DEF KeysBefore
<1>4. i + 1 \in 1 .. Len(stack) /\ i \in 1 .. Len(stack) - 1 /\ 1 \in 1 .. (i + 1) - 1
  BY <1>1, <1>2
<1>5. KeyTo(stack[i + 1], d) /\ stack'[i] = stack[i + 1]
  BY <1>2, <1>3, <1>4
<1>6. d \in alive /\ \A a \in InDanger(i + 1) : d < a
  BY <1>4, <1>5 DEF KeysBefore
<1>7. ASSUME NEW a \in InDanger(i)' PROVE a \in InDanger(i + 1)
  <2>1. CASE a \in ret'.own
    BY <1>1, <1>4, <2>1 DEF InDanger
  <2>2. CASE a \in stack'[i].key.own
    BY <1>5, <2>2 DEF InDanger
  <2>3. CASE \E l \in 1 .. i - 1 : a \in Owned(stack'[l])
    <3>1. PICK l \in 1 .. i - 1 : a \in Owned(stack'[l])
      BY <2>3
    <3>2. l \in 1 .. Len(stack) - 1 /\ l + 1 \in 1 .. (i + 1) - 1
      BY <1>1, <1>4
    <3>3. stack'[l] = stack[l + 1]
      BY <1>2, <3>2
    <3>. QED
      BY <3>1, <3>2, <3>3 DEF InDanger
  <2>. QED
    BY <2>1, <2>2, <2>3 DEF InDanger
<1>. QED
  BY <1>1, <1>6, <1>7

\* Nothing comes into danger.
LEMMA KeysStay ==
    ASSUME KeysBefore, UNCHANGED <<stack, alive>>, ret'.own \subseteq ret.own
    PROVE  KeysBefore'
<1>1. ASSUME NEW i PROVE InDanger(i)' \subseteq InDanger(i)
  BY DEF InDanger
<1>. QED
  BY <1>1 DEF KeysBefore

\* The process or the call has ended, or none is active.
LEMMA KeysNone ==
    ASSUME stack' = <<>>
    PROVE  KeysBefore'
<1>1. Len(stack') = 0
  BY SeqEmpty
<1>. QED
  BY <1>1 DEF KeysBefore

LEMMA StepKeys ==
    ASSUME IInv, KeysBefore, DecNext
    PROVE  KeysBefore'
<1>1. Nothing.own = {} /\ (need = "value" => ret = Nothing) /\ (need = "idle" \/ Ended => stack = <<>>)
  BY NothingHeld DEF IInv, ControlOK
<1>2. CASE Call
  BY <1>2, KeysStay DEF Call
<1>3. CASE Take
  BY <1>3, KeysNone DEF Take
<1>4. CASE Scalars
  <2>1. ret'.own = {} /\ UNCHANGED <<stack, alive>>
    BY <1>4 DEF Scalars, Val
  <2>. QED
    BY <2>1, KeysStay
<1>5. CASE Reference
  <2>1. CASE Peeked.n >= 0 /\ Peeked.n < size
    <3>1. ret'.own = {} /\ UNCHANGED <<stack, alive>>
      BY <1>5, <2>1 DEF Reference, Val
    <3>. QED
      BY <3>1, KeysStay
  <2>2. CASE ~(Peeked.n >= 0 /\ Peeked.n < size)
    BY <1>5, <2>2, KeysNone DEF Reference, Abort, Unwind
  <2>. QED
    BY <2>1, <2>2
<1>6. CASE Reject \/ DefinitionThrows \/ MalformedDefinition \/ MalformedHeader \/ NoEnd
  <2>1. stack' = <<>>
    BY <1>6 DEF Reject, DefinitionThrows, MalformedDefinition, MalformedHeader, EnterAndFail,
                NoEnd, Abort, Unwind
  <2>. QED
    BY <2>1, KeysNone
<1>7. CASE Definition \/ AskElement \/ HashNothing
  <2>1. UNCHANGED <<stack, alive, ret>>
    BY <1>7 DEF Definition, AskElement, HashNothing
  <2>. QED
    BY <2>1, KeysStay
<1>8. CASE List
  BY <1>1, <1>8, KeysEnter DEF List, Asked
<1>9. CASE VariableList
  BY <1>1, <1>9, KeysEnter DEF VariableList, Asked
<1>10. CASE MapObject
  BY <1>1, <1>10, KeysEnter DEF MapObject, Asked
<1>11. CASE Instance
  <2>1. ret = Nothing
    BY <1>1, <1>11 DEF Instance, Asked
  <2>2. CASE Peeked.n >= 0 /\ Peeked.n < Len(defs)
    BY <1>11, <2>1, <2>2, KeysEnter DEF Instance
  <2>3. CASE ~(Peeked.n >= 0 /\ Peeked.n < Len(defs))
    BY <1>11, <2>3, KeysNone DEF Instance, EnterAndFail, Abort, Unwind
  <2>. QED
    BY <2>2, <2>3
<1>top. ASSUME stack # <<>>
        PROVE  FrameOK(Top) /\ Owned(Top) \cap ret.own = {}
  <2>1. 1 \in 1 .. Len(stack)
    BY <1>top, SeqTail, SeqFacts DEF IInv, ControlOK
  <2>. QED
    BY <2>1 DEF IInv, ControlOK, OneOwner, Top
<1>12. CASE AppendElement
  <2>. DEFINE g == Appended(Top, ret)
  <2>1. /\ stack # <<>> /\ Top.kind # "map" /\ stack' = WithTop(g)
        /\ ret' = Nothing /\ alive' = alive
    BY <1>12 DEF AppendElement, Appended
  <2>2. Owned(g) = Owned(Top) \cup ret.own /\ g.key = Top.key
    BY <1>top, <2>1, FrameAppend
  <2>3. g.kind = Top.kind
    BY <1>top, <2>1, AppendFields DEF FrameOK
  <2>. HIDE DEF g
  <2>4. \A d : ~KeyTo(g, d)
    BY <2>1, <2>3 DEF KeyTo
  <2>. QED
    BY <2>1, <2>2, <2>4, KeysTop
<1>13. CASE HoldKey
  <2>. DEFINE g == [Top EXCEPT !.key = ret]
  <2>1. stack # <<>> /\ Top.key = Nothing /\ stack' = WithTop(g) /\ ret' = Nothing /\ alive' = alive
    BY <1>13 DEF HoldKey
  <2>2. Owned(g) = Owned(Top) \cup ret.own /\ g.key = ret /\ g.vals = Top.vals
    BY <1>top, <2>1, FrameHold
  <2>3. g.kind = Top.kind
    BY <1>top, <2>1 DEF FrameOK, IsRecord
  <2>. HIDE DEF g
  <2>4. \A d : KeyTo(g, d) => KeyTo(Top, d)
    BY <2>2, <2>3 DEF KeyTo
  <2>. QED
    BY <2>1, <2>2, <2>4, KeysTop
<1>14. CASE Emplace
  <2>1. /\ stack # <<>> /\ ret' = Nothing /\ ~DeadDestination(Top.key)
        /\ Top.kind = "map"
    BY <1>14 DEF Emplace, Unhashable
  <2>2. CASE SameKey(Top, Top.key)
    <3>. DEFINE g == [Top EXCEPT !.key = Nothing]
    <3>1. stack' = WithTop(g) /\ alive' = alive \ (Top.key.own \cup ret.own)
      BY <1>14, <2>2 DEF Emplace
    <3>2. /\ Owned(g) = Owned(Top) \ Top.key.own /\ g.key = Nothing /\ g.vals = Top.vals
          /\ g.kind = Top.kind
      BY <1>top, <2>1, FrameDrop DEF FrameOK, IsRecord
    <3>. HIDE DEF g
    <3>3. \A d : KeyTo(g, d) => KeyTo(Top, d)
      BY <3>2 DEF KeyTo
    <3>. QED
      BY <1>1, <2>1, <3>1, <3>2, <3>3, KeysTop
  <2>3. CASE ~SameKey(Top, Top.key)
    <3>. DEFINE g == Kept(Top, ret)
    <3>1. stack' = WithTop(g) /\ alive' = alive
      BY <1>14, <2>3 DEF Emplace, Kept
    <3>2. Owned(g) = Owned(Top) \cup ret.own /\ g.key = Nothing
      BY <1>top, <2>1, FrameKeep
    <3>3. /\ g.kind = Top.kind /\ g.vals = Top.vals \o <<Top.key, ret>>
          /\ IsSequence(Top.vals) /\ Len(Top.vals) % 2 = 0 /\ Len(Top.vals) \in Nat
      BY <1>top, <2>1, KeepFields, SeqFacts DEF FrameOK
    <3>. HIDE DEF g
    <3>4. ASSUME NEW d, KeyTo(g, d) PROVE KeyTo(Top, d) \/ d \in alive
      <4>1. PICK j \in 1 .. Len(g.vals) :
                j % 2 = 1 /\ g.vals[j].shape.k = "ref" /\ g.vals[j].shape.v = d
        BY <3>4 DEF KeyTo
      <4>2. /\ Len(g.vals) = Len(Top.vals) + 2
            /\ \A i \in 1 .. Len(Top.vals) : g.vals[i] = Top.vals[i]
            /\ g.vals[Len(Top.vals) + 1] = Top.key
        <5>. DEFINE t == Top.vals
                    x == Top.key
        <5>1. IsSequence(t)
          BY <3>3
        <5>. HIDE DEF t, x
        <5>2. /\ Len(t \o <<x, ret>>) = Len(t) + 2
              /\ \A i \in 1 .. Len(t) : (t \o <<x, ret>>)[i] = t[i]
              /\ (t \o <<x, ret>>)[Len(t) + 1] = x
          BY <5>1, SeqPair
        <5>. QED
          BY <3>3, <5>2 DEF t, x
      <4>3. j # Len(Top.vals) + 2
        <5>1. \A m \in Nat : m % 2 = 0 => (m + 2) % 2 = 0
          OBVIOUS
        <5>. DEFINE m == Len(Top.vals)
        <5>2. m \in Nat /\ m % 2 = 0 /\ j % 2 = 1
          BY <3>3, <4>1
        <5>. HIDE DEF m
        <5>3. (m + 2) % 2 = 0
          BY <5>1, <5>2
        <5>4. j # m + 2
          BY <5>2, <5>3
        <5>. QED
          BY <5>4 DEF m
      <4>4. j \in 1 .. Len(Top.vals) \/ j = Len(Top.vals) + 1
        BY <3>3, <4>2, <4>3
      <4>5. CASE j \in 1 .. Len(Top.vals)
        BY <2>1, <4>1, <4>2, <4>5 DEF KeyTo
      <4>6. CASE j = Len(Top.vals) + 1
        BY <2>1, <4>1, <4>2, <4>6 DEF DeadDestination
      <4>. QED
        BY <4>4, <4>5, <4>6
    <3>. QED
      BY <1>1, <2>1, <3>1, <3>2, <3>4, KeysTop
  <2>. QED
    BY <2>2, <2>3
<1>15. CASE Finish
  BY <1>15, KeysFinish
<1>. QED
  BY <1>2, <1>3, <1>4, <1>5, <1>6, <1>7, <1>8, <1>9, <1>10, <1>11, <1>12, <1>13, <1>14, <1>15
     DEF DecNext

LEMMA KeysInvariance == Spec => []KeysBefore
<1>1. Init => KeysBefore
  BY SeqEmpty DEF Init, DecInit, KeysBefore
<1>2. IInv /\ KeysBefore /\ [Next]_vars => KeysBefore'
  <2>. SUFFICES ASSUME IInv, KeysBefore, [Next]_vars PROVE KeysBefore'
    OBVIOUS
  <2>1. CASE Grows \/ Ends \/ UNCHANGED vars
    BY <2>1, KeysStay DEF Grows, Ends, vars, decVars
  <2>2. CASE Step
    BY <2>2, StepKeys DEF Step
  <2>. QED
    BY <2>1, <2>2 DEF Next
<1>. QED
  BY <1>1, <1>2, Invariance, PTL DEF Spec

-----------------------------------------------------------------------------
(* What the invariant gives *)

\* The counters of the Decoder stay within what it has read, and a failed call leaves
\* no activation record, whatever the tokens are and however many.
THEOREM DecoderTypeOK == Spec => []TypeOK
<1>1. IInv => TypeOK
  <2>. SUFFICES ASSUME IInv PROVE TypeOK
    OBVIOUS
  <2>1. pos \in 0 .. Len(wire) /\ size \in 0 .. Len(wire) /\ need \in Needs
    BY DEF IInv, ControlOK
  <2>2. alive \subseteq 1 .. size
    BY DEF IInv, OneOwner
  <2>3. \A i \in 1 .. Len(stack) : stack[i].left >= UntilEnd
    BY DEF IInv, ControlOK, FrameOK
  <2>4. need = "failed" => stack = <<>> /\ ret = Nothing
    BY DEF IInv, ControlOK, Ended
  <2>. QED
    BY <2>1, <2>2, <2>3, <2>4 DEF TypeOK
<1>. QED
  BY <1>1, Invariance, PTL

\* values_ref_ holds pointers to living objects as long as no call has failed and no
\* map has met a key twice.
THEOREM DecoderValuesRefAlive == Spec => []ValuesRefAlive
<1>1. IInv => ValuesRefAlive
  BY DEF IInv, AllAlive, Ended, ValuesRefAlive
<1>. QED
  BY <1>1, Invariance, PTL

\* The results own, each container once, all that was made for them and is left after
\* a call has returned or failed.
THEOREM DecoderOwnership == Spec => []Ownership
<1>1. IInv => Ownership
  <2>. SUFFICES ASSUME IInv PROVE Ownership
    OBVIOUS
  <2>1. \A i, j \in 1 .. Len(results) : i # j => results[i].own \cap results[j].own = {}
    BY DEF IInv, OneOwner
  <2>2. ASSUME need \in {"idle", "failed"} PROVE alive = OwnedByResults
    <3>1. Len(stack) = 0 /\ ret.own = {}
      BY <2>2, SeqEmpty, NothingHeld DEF IInv, ControlOK, Ended
    <3>2. OwnedByStack = {}
      BY <3>1 DEF OwnedByStack
    <3>. QED
      BY <3>1, <3>2 DEF IInv, OneOwner
  <2>. QED
    BY <2>1, <2>2 DEF Ownership, OwnedByResults
<1>. QED
  BY <1>1, Invariance, PTL

\* No value that the caller has, or that is being built, refers to a destroyed object;
\* the values from before a failed call stay whole however the decoder is used after it.
THEOREM DecoderPointersAlive == Spec => []PointersAlive
<1>1. IInv => PointersAlive
  <2>. SUFFICES ASSUME IInv, ~repeated,
                       NEW v \in IF trusted = NoFailure THEN Held ELSE Trusted
                PROVE  v.shape.refs \subseteq alive
    BY DEF PointersAlive
  <2>1. ControlOK /\ OneOwner /\ Len(results) \in Nat /\ trusted \in NoFailure .. Len(results)
    BY SeqFacts DEF IInv, ControlOK
  <2>2. ASSUME NEW w \in Trusted PROVE w.shape.refs \subseteq alive
    <3>1. \A i \in 1 .. IF trusted = NoFailure THEN Len(results) ELSE trusted :
              i \in 1 .. Len(results)
      BY <2>1 DEF NoFailure
    <3>2. \A u \in Trusted : u.own \subseteq alive
      BY <2>1, <3>1, OwnersAlive DEF Trusted
    <3>3. w.shape.refs \subseteq UNION {u.own : u \in Trusted}
      BY DEF IInv, TrustedClosed
    <3>. QED
      BY <3>2, <3>3
  <2>3. CASE trusted # NoFailure
    BY <2>2, <2>3
  <2>4. CASE trusted = NoFailure
    <3>1. CASE \E i \in 1 .. Len(results) : v = results[i]
      <4>1. v \in Trusted
        BY <2>4, <3>1 DEF Trusted
      <4>. QED
        BY <2>2, <4>1
    <3>2. ASSUME ~\E i \in 1 .. Len(results) : v = results[i]
          PROVE  \/ v = ret
                 \/ \E i \in 1 .. Len(stack) :
                       v = stack[i].key \/ \E j \in 1 .. Len(stack[i].vals) : v = stack[i].vals[j]
      BY <2>4, <3>2 DEF Held
    <3>3. CASE Ended /\ ~\E i \in 1 .. Len(results) : v = results[i]
      <4>1. stack = <<>> /\ Len(stack) = 0 /\ ret = Nothing
        BY <2>1, <3>3, SeqEmpty DEF ControlOK
      <4>2. v = Nothing
        BY <3>2, <3>3, <4>1
      <4>. QED
        BY <4>2, NothingHeld
    <3>4. CASE ~Ended /\ ~\E i \in 1 .. Len(results) : v = results[i]
      <4>1. Entered(v)
        BY <2>4, <3>2, <3>4 DEF IInv, HeldEntered
      <4>2. alive = 1 .. size
        BY <2>4, <3>4 DEF IInv, AllAlive
      <4>. QED
        BY <4>1, <4>2 DEF Entered
    <3>. QED
      BY <3>1, <3>3, <3>4
  <2>. QED
    BY <2>3, <2>4
<1>. QED
  BY <1>1, Invariance, PTL

\* A map that is being filled can hash its keys again, when its table grows: what they
\* refer to is alive, on any input and after any failure or repeated key.
THEOREM DecoderKeysAlive == Spec => []KeysAlive
<1>1. KeysBefore => KeysAlive
  BY DEF KeysBefore, KeysAlive, KeyTo, DeadDestination
<1>. QED
  BY <1>1, KeysInvariance, PTL
=============================================================================
