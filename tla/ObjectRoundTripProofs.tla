------------------------ MODULE ObjectRoundTripProofs ------------------------
(***************************************************************************)
(* For any graphs of objects: a reference to an enclosing container finds  *)
(* its destination, and the decoder reads what encode wrote, numbers       *)
(* containers and definitions as the encoder did, hashes no key that has   *)
(* no hash, does not fail, and gives back the graph that was encoded.      *)
(***************************************************************************)
EXTENDS ObjectRoundTrip, SequenceTheorems, WellFoundedInduction, TLAPS

Kids(o) == heap[o].kids
Nothing == Dec!Nothing
UntilEnd == Dec!UntilEnd

Frames == [o : DOMAIN heap, form : {"fixed", "var"}, todo : SUBSET Nat, owed : Nat]

\* What an activation record of encode still has to write: of a list or an instance,
\* the elements from one on; of a map, any, and the value of the last key.
FrameOK(f) ==
    /\ f \in Frames
    /\ f.todo \subseteq DOMAIN Kids(f.o)
    /\ f.form = "var" => heap[f.o].kind = "list"
    /\ IF heap[f.o].kind = "map"
       THEN f.owed % 2 = 0 /\ f.owed \in {0} \cup DOMAIN Kids(f.o)
       ELSE f.owed = 0 /\ \E m \in 1 .. Len(Kids(f.o)) + 1 : f.todo = m .. Len(Kids(f.o))

Opcodes == {"leaf", "list", "varlist", "map", "Z", "C", "inst", "ref"}
Tokens == [op : Opcodes, n : Int]

StackOK(s) == s \in Seq(Frames) /\ \A k \in 1 .. Len(s) : FrameOK(s[k])

EncTypeOK ==
    /\ heap \in Heaps /\ api \in {"encode", "begin"} /\ StackOK(eStack)
    /\ eValues \in Seq(DOMAIN heap) /\ eDefs \in Seq(Nat)
    /\ eWire \in Seq(Tokens) /\ eAssert \in BOOLEAN
    /\ api = "begin" => /\ \A o \in DOMAIN heap : \A j \in DOMAIN Kids(o) : Kids(o)[j].i # "ref"
                        /\ ~eAssert

\* What encloses a container that is being written has been registered.
AboveRegistered ==
    api = "encode" =>
        \A k \in 1 .. Len(eStack) : \A a \in DOMAIN heap :
            Encloses(heap, a, eStack[k].o) => \E i \in 1 .. Len(eValues) : eValues[i] = a

EncInv == EncTypeOK /\ AboveRegistered /\ (RefsUpward => ~eAssert)

-----------------------------------------------------------------------------
(* The record of an encode: what it had after each step, from nothing on *)

Entries == [stack : Seq(Frames), at : Nat, defs : Seq(Nat), num : Nat]

Now == [stack |-> eStack, at |-> Len(eWire), defs |-> eDefs, num |-> Len(eValues)]
Before == [stack |-> <<>>, at |-> 0, defs |-> <<>>, num |-> 0]

\* The stack with the innermost record moved past one of its next elements.
Moved(s, t) == \E j \in Enc!NextKids(s[1]) : t = <<Enc!Advance(s[1], j)>> \o Tail(s)

Holds(at, tokens) == \A i \in 1 .. Len(tokens) : eWire[at + i] = tokens[i]

\* A scalar, or a reference to a container registered before.
Leaves(a, b) ==
    /\ a.stack # <<>> /\ Moved(a.stack, b.stack)
    /\ b.at = a.at + 1 /\ b.defs = a.defs /\ b.num = a.num
    /\ \/ eWire[b.at].op = "leaf"
       \/ eWire[b.at].op = "ref" /\ api = "encode" /\ eWire[b.at].n \in 0 .. a.num - 1

Opens(a, b) ==
    LET f == b.stack[1]
        header == Enc!Header(f.o, f.form, a.defs)
    IN  /\ b.stack # <<>> /\ f = Enc!Frame(f.o, f.form)
        /\ IF a.stack = <<>> THEN Tail(b.stack) = <<>> ELSE Moved(a.stack, Tail(b.stack))
        /\ b.at = a.at + Len(header) /\ Holds(a.at, header)
        /\ b.defs = Enc!Known(f.o, a.defs)
        /\ b.num = IF api = "begin" THEN a.num ELSE a.num + 1
        /\ api = "encode" => b.num \in 1 .. Len(eValues) /\ eValues[b.num] = f.o

Closes(a, b) ==
    LET trailer == Enc!Trailer(a.stack[1])
    IN  /\ a.stack # <<>> /\ Enc!NextKids(a.stack[1]) = {}
        /\ b.stack = Tail(a.stack)
        /\ b.at = a.at + Len(trailer) /\ Holds(a.at, trailer)
        /\ b.defs = a.defs /\ b.num = a.num

\* The token of a scalar; of a reference, the place where its destination is first.
Shown(item, t) ==
    \/ item.i = "scalar" /\ t.op = "leaf" /\ t.n = item.n
    \/ /\ item.i = "ref" /\ t.op = "ref" /\ t.n \in Nat /\ t.n + 1 <= Len(eValues)
       /\ eValues[t.n + 1] = item.n /\ \A k \in 1 .. t.n : eValues[k] # item.n

\* The element that was written: one with a token, or a container, the root at first.
WroteLeaf(a, b) ==
    /\ b.at >= 1
    /\ \E j \in Enc!NextKids(a.stack[1]) :
          /\ b.stack = <<Enc!Advance(a.stack[1], j)>> \o Tail(a.stack)
          /\ Shown(Kids(a.stack[1].o)[j], eWire[b.at])

WroteHeader(a, b) ==
    IF a.stack = <<>> THEN b.stack[1].o = 1
    ELSE \E j \in Enc!NextKids(a.stack[1]) :
            /\ Tail(b.stack) = <<Enc!Advance(a.stack[1], j)>> \o Tail(a.stack)
            /\ Kids(a.stack[1].o)[j].i = "own" /\ Kids(a.stack[1].o)[j].n = b.stack[1].o

Wrote(a, b) ==
    \/ Len(b.stack) = Len(a.stack) /\ WroteLeaf(a, b)
    \/ Len(b.stack) = Len(a.stack) + 1 /\ WroteHeader(a, b)
    \/ Len(b.stack) = Len(a.stack) - 1

EntryOK(e) ==
    /\ StackOK(e.stack)
    /\ e.at <= Len(eWire) /\ e.num <= Len(eValues)

Recorded(log) ==
    /\ log \in Seq(Entries) /\ Len(log) >= 2
    /\ log[1] = Before /\ log[Len(log)] = Now
    /\ \A i \in 1 .. Len(log) : EntryOK(log[i])
    /\ \A i \in 2 .. Len(log) - 1 : log[i].stack # <<>>
    /\ \A i \in 1 .. Len(log) - 1 :
           Leaves(log[i], log[i + 1]) \/ Opens(log[i], log[i + 1]) \/ Closes(log[i], log[i + 1])
    /\ \A i \in 1 .. Len(log) - 1 : Wrote(log[i], log[i + 1])

-----------------------------------------------------------------------------
(* The decoder goes the way the encoder went *)

ToEnd(e) == e.form = "var" \/ heap[e.o].kind = "map"
IsMap(e) == heap[e.o].kind = "map"

IsSequence(s) == s \in Seq({s[k] : k \in 1 .. Len(s)})

IsRecord(d) ==
    /\ d.kind \in {"list", "map", "inst"}
    /\ d = [kind |-> d.kind, addr |-> d.addr, left |-> d.left, vals |-> d.vals, key |-> d.key]

\* The decoder has given the container the address that the encoder gave it.
Stands(d, e) == api = "encode" => d.addr \in 1 .. Len(eValues) /\ eValues[d.addr] = e.o

\* The decoder's record of a container is as far as the encoder's.
Mirrors(d, e) ==
    /\ IsRecord(d) /\ Stands(d, e)
    /\ d.kind = "map" <=> IsMap(e)
    /\ d.key = Nothing <=> e.owed = 0
    /\ IF ToEnd(e) THEN d.left = UntilEnd
       ELSE d.left \in Nat /\ e.todo = (Len(Kids(e.o)) + 1 - d.left) .. Len(Kids(e.o))

\* It is one element behind.
Awaits(d, e) ==
    /\ IsRecord(d) /\ Stands(d, e)
    /\ d.kind = "map" <=> IsMap(e)
    /\ d.key = Nothing <=> (IsMap(e) => e.owed # 0)
    /\ IF ToEnd(e) THEN d.left = UntilEnd
       ELSE d.left \in Nat \ {0} /\ e.todo = (Len(Kids(e.o)) + 2 - d.left) .. Len(Kids(e.o))

\* A stack of such records, and one whose innermost is as far as the encoder's.
Waits(s, es) == IsSequence(s) /\ Len(s) = Len(es) /\ \A k \in 1 .. Len(s) : Awaits(s[k], es[k])

Level(s, es) ==
    /\ IsSequence(s) /\ Len(s) = Len(es) /\ s # <<>> /\ Mirrors(s[1], es[1])
    /\ \A k \in 2 .. Len(s) : Awaits(s[k], es[k])

\* What the decoder has read is what the encoder had written at e.
Read(e) ==
    /\ pos = e.at /\ defs = e.defs
    /\ api = "encode" => size = e.num

InLoop(b) == need = "elem" /\ ret = Nothing /\ results = <<>> /\ Level(stack, b.stack) /\ Read(b)

AtLeaf(a, b) ==
    /\ need = "value" /\ ret = Nothing /\ results = <<>>
    /\ Leaves(a, b) /\ Waits(stack, b.stack) /\ Read(a)

AtHeader(a, b) ==
    /\ need = "value" /\ ret = Nothing /\ results = <<>>
    /\ Opens(a, b) /\ Waits(stack, Tail(b.stack)) /\ Read(a)

\* The definition of a class has been read, the instance has not.
AtInstance(a, b) ==
    /\ need = "value" /\ ret = Nothing /\ results = <<>>
    /\ Opens(a, b) /\ Waits(stack, Tail(b.stack))
    /\ pos = a.at + 1 /\ b.at = a.at + 2 /\ defs = b.defs
    /\ eWire[pos].op = "C"
    /\ api = "encode" => size = a.num

Returned(b) ==
    /\ need \in {"elem", "gone"} /\ ret # Nothing /\ results = <<>>
    /\ need = "gone" => stack # <<>>
    /\ Waits(stack, b.stack) /\ Read(b)

NotCalled ==
    /\ need = "idle" /\ ret = Nothing /\ results = <<>> /\ stack = <<>>
    /\ size = 0 /\ alive = {}
    /\ Read(Before)

Done ==
    /\ need = "idle" /\ ret = Nothing /\ Len(results) = 1 /\ stack = <<>>
    /\ Read(Now)

\* Where the decoder is in the record.
Follows(log) ==
    \/ NotCalled
    \/ /\ Enc!Encoded
       /\ \/ Done
          \/ \E i \in 2 .. Len(log) :
                \/ InLoop(log[i]) \/ Returned(log[i])
                \/ AtLeaf(log[i - 1], log[i]) \/ AtHeader(log[i - 1], log[i])
                \/ AtInstance(log[i - 1], log[i])

-----------------------------------------------------------------------------
(* The decoder has what the encoder wrote *)

ValueAt(e, j) == Value(Kids(e.o)[j])

\* What decode makes of a token that is no container.
TokenValue(t) == IF t.op = "leaf" THEN Scalar(t.n) ELSE Pointer(t.n + 1)

\* Of a map, a key that has been written, and the keys of which the value has been too.
KeyWritten(e, j) == j \in Odd(Len(Kids(e.o))) /\ j \notin e.todo
Complete(e) == {j \in Odd(Len(Kids(e.o))) : j \notin e.todo /\ j + 1 # e.owed}

PairsOf(e, keys) == {<<ValueAt(e, j), ValueAt(e, j + 1)>> : j \in keys}
Pairs(d) == {<<d.vals[i].shape, d.vals[i + 1].shape>> : i \in Odd(Len(d.vals))}

\* The decoder's record has the elements that the encoder's has written, in any order
\* of the keys of a map.
HasSome(d, e, n) ==
    /\ n \in Nat /\ Len(d.vals) = n /\ n <= Len(Kids(e.o))
    /\ \A i \in 1 .. n : d.vals[i].shape = ValueAt(e, i)

HasPairs(d, e, keys) == Len(d.vals) % 2 = 0 /\ Pairs(d) = PairsOf(e, keys)

Has(d, e) ==
    /\ IsSequence(d.vals) /\ d.kind = heap[e.o].kind
    /\ IF IsMap(e)
       THEN /\ HasPairs(d, e, Complete(e))
            /\ e.owed # 0 => /\ KeyWritten(e, e.owed - 1)
                             /\ d.key.shape = ValueAt(e, e.owed - 1)
       ELSE \E n \in Nat : HasSome(d, e, n) /\ e.todo = n + 1 .. Len(Kids(e.o))

\* It has them but for the last, whose value is v.
Lacks(d, e, v) ==
    /\ IsSequence(d.vals) /\ d.kind = heap[e.o].kind
    /\ IF ~IsMap(e)
       THEN \E n \in Nat : /\ HasSome(d, e, n) /\ e.todo = n + 2 .. Len(Kids(e.o))
                           /\ n + 1 <= Len(Kids(e.o)) /\ v = ValueAt(e, n + 1)
       ELSE \/ /\ e.owed # 0 /\ HasPairs(d, e, Complete(e))
               /\ KeyWritten(e, e.owed - 1) /\ v = ValueAt(e, e.owed - 1)
            \/ /\ e.owed = 0
               /\ \E j : /\ KeyWritten(e, j) /\ HasPairs(d, e, Complete(e) \ {j})
                         /\ d.key.shape = ValueAt(e, j) /\ v = ValueAt(e, j + 1)

\* The innermost record lacks v, the others what the one inside them stands for, and the
\* caller the root.
Lacking(es, v, k) == IF k = 1 THEN v ELSE Meaning[es[k - 1].o]

Lack(s, es, v) ==
    /\ \A k \in 1 .. Len(s) : Lacks(s[k], es[k], Lacking(es, v, k))
    /\ Lacking(es, v, Len(s) + 1) = Meaning[1]

LoopHas(b) ==
    Has(stack[1], b.stack[1]) /\ Lack(Tail(stack), Tail(b.stack), Meaning[b.stack[1].o])

Moves(a, b) ==
    \/ InLoop(b) /\ LoopHas(b)
    \/ Returned(b) /\ Lack(stack, b.stack, ret.shape)
    \/ AtLeaf(a, b) /\ Lack(stack, b.stack, TokenValue(eWire[b.at]))
    \/ AtHeader(a, b) /\ Lack(stack, Tail(b.stack), Meaning[b.stack[1].o])
    \/ AtInstance(a, b) /\ Lack(stack, Tail(b.stack), Meaning[b.stack[1].o])

\* The containers that have been entered are owned, in one place or another.
StackOwned(s) == UNION {Dec!Owned(s[k]) : k \in 1 .. Len(s)}
Owns == size \in Nat /\ StackOwned(stack) \cup ret.own = 1 .. size

\* None has been destroyed, and a reference that was read is to one of them.
Aims(x) == x.shape.k = "ref" => x.shape.v \in 1 .. size
Aimed == alive = 1 .. size /\ Aims(ret) /\ \A k \in 1 .. Len(stack) : Aims(stack[k].key)

Keeps == Owns /\ Aimed

Carries(log) ==
    \/ NotCalled
    \/ /\ Enc!Encoded
       /\ \/ Done /\ results[1].shape = Meaning[1] /\ results[1].own = 1 .. size
          \/ Keeps /\ \E i \in 2 .. Len(log) : Moves(log[i - 1], log[i])

-----------------------------------------------------------------------------
(* The inductive invariant *)

IInv ==
    /\ EncInv
    /\ AllEncodable /\ ~eAssert =>
          \E log : /\ Recorded(log) /\ Follows(log)
                   /\ DistinctKeys => Carries(log) /\ (KeysHashable => need # "gone")

-----------------------------------------------------------------------------
(* Sequences *)

\* The head and the rest of a sequence, and a sequence with another head.
LEMMA SeqTop ==
    ASSUME NEW S, NEW s \in Seq(S), s # <<>>, NEW x \in S
    PROVE  /\ Len(s) \in Nat /\ Len(s) >= 1 /\ s[1] \in S
           /\ Tail(s) \in Seq(S) /\ Len(Tail(s)) = Len(s) - 1
           /\ \A i \in 1 .. Len(s) - 1 : Tail(s)[i] = s[i + 1]
           /\ <<x>> \o Tail(s) \in Seq(S) /\ Len(<<x>> \o Tail(s)) = Len(s)
           /\ (<<x>> \o Tail(s))[1] = x
           /\ \A i \in 2 .. Len(s) : (<<x>> \o Tail(s))[i] = s[i]
           /\ Tail(<<x>> \o Tail(s)) = Tail(s)
<1>1. /\ Len(s) \in Nat /\ Len(s) >= 1 /\ s[1] \in S
      /\ Tail(s) \in Seq(S) /\ Len(Tail(s)) = Len(s) - 1
      /\ \A i \in 1 .. Len(s) - 1 : Tail(s)[i] = s[i + 1]
  OBVIOUS
<1>2. <<x>> \in Seq(S) /\ Len(<<x>>) = 1 /\ <<x>>[1] = x
  OBVIOUS
<1>. DEFINE u == <<x>>
<1>. HIDE DEF u
<1>3. /\ u \o Tail(s) \in Seq(S) /\ Len(u \o Tail(s)) = Len(s)
      /\ \A i \in 1 .. Len(s) : (u \o Tail(s))[i] = IF i <= 1 THEN u[i] ELSE Tail(s)[i - 1]
  BY <1>1, <1>2, ConcatProperties DEF u
<1>4. \A i \in 2 .. Len(s) : (u \o Tail(s))[i] = s[i]
  <2>. SUFFICES ASSUME NEW i \in 2 .. Len(s) PROVE (u \o Tail(s))[i] = s[i]
    OBVIOUS
  <2>1. i - 1 \in 1 .. Len(s) - 1 /\ (i - 1) + 1 = i /\ i \in 1 .. Len(s) /\ ~(i <= 1)
    BY <1>1
  <2>. QED
    BY <1>1, <1>3, <2>1
<1>5. (u \o Tail(s))[1] = x
  BY <1>1, <1>2, <1>3 DEF u
<1>6. Tail(u \o Tail(s)) = Tail(s)
  <2>1. /\ Tail(u \o Tail(s)) \in Seq(S) /\ Len(Tail(u \o Tail(s))) = Len(s) - 1
        /\ \A i \in 1 .. Len(s) - 1 : Tail(u \o Tail(s))[i] = (u \o Tail(s))[i + 1]
    BY <1>1, <1>3
  <2>2. ASSUME NEW i \in 1 .. Len(s) - 1 PROVE Tail(u \o Tail(s))[i] = Tail(s)[i]
    <3>1. i + 1 \in 2 .. Len(s)
      BY <1>1
    <3>. QED
      BY <1>1, <1>4, <2>1, <3>1
  <2>. QED
    BY <1>1, <2>1, <2>2, SeqEqual
<1>. QED
  BY <1>1, <1>3, <1>4, <1>5, <1>6 DEF u

\* A sequence with one more in front.
LEMMA SeqCons ==
    ASSUME NEW S, NEW s \in Seq(S), NEW x \in S
    PROVE  /\ Len(s) \in Nat
           /\ <<x>> \o s \in Seq(S) /\ Len(<<x>> \o s) = Len(s) + 1 /\ <<x>> \o s # <<>>
           /\ (<<x>> \o s)[1] = x
           /\ \A i \in 1 .. Len(s) : (<<x>> \o s)[i + 1] = s[i]
           /\ Tail(<<x>> \o s) = s
<1>1. <<x>> \in Seq(S) /\ Len(<<x>>) = 1 /\ <<x>>[1] = x /\ <<x>> # <<>> /\ Len(s) \in Nat
  OBVIOUS
<1>. DEFINE u == <<x>>
<1>. HIDE DEF u
<1>2. /\ u \o s \in Seq(S) /\ Len(u \o s) = Len(s) + 1
      /\ \A i \in 1 .. Len(s) + 1 : (u \o s)[i] = IF i <= 1 THEN u[i] ELSE s[i - 1]
  BY <1>1, ConcatProperties DEF u
<1>3. \A i \in 1 .. Len(s) : (u \o s)[i + 1] = s[i]
  <2>. SUFFICES ASSUME NEW i \in 1 .. Len(s) PROVE (u \o s)[i + 1] = s[i]
    OBVIOUS
  <2>1. i + 1 \in 1 .. Len(s) + 1 /\ (i + 1) - 1 = i /\ ~(i + 1 <= 1)
    BY <1>1
  <2>. QED
    BY <1>2, <2>1
<1>4. (u \o s)[1] = x /\ u \o s # <<>>
  BY <1>1, <1>2 DEF u
<1>5. Tail(u \o s) = s
  <2>1. /\ Tail(u \o s) \in Seq(S) /\ Len(Tail(u \o s)) = Len(s)
        /\ \A i \in 1 .. Len(s) : Tail(u \o s)[i] = (u \o s)[i + 1]
    BY <1>1, <1>2, <1>4
  <2>. QED
    BY <1>3, <2>1, SeqEqual
<1>. QED
  BY <1>1, <1>2, <1>3, <1>4, <1>5 DEF u

\* What was there stays, and the new comes behind it.
LEMMA SeqConcat ==
    ASSUME NEW S, NEW s \in Seq(S), NEW t \in Seq(S)
    PROVE  /\ Len(s) \in Nat /\ Len(t) \in Nat
           /\ s \o t \in Seq(S) /\ Len(s \o t) = Len(s) + Len(t)
           /\ \A i \in 1 .. Len(s) : (s \o t)[i] = s[i]
           /\ \A i \in 1 .. Len(t) : (s \o t)[Len(s) + i] = t[i]
<1>1. /\ Len(s) \in Nat /\ Len(t) \in Nat
      /\ s \o t \in Seq(S) /\ Len(s \o t) = Len(s) + Len(t)
      /\ \A i \in 1 .. Len(s) + Len(t) : (s \o t)[i] = IF i <= Len(s) THEN s[i] ELSE t[i - Len(s)]
  BY ConcatProperties
<1>2. ASSUME NEW i \in 1 .. Len(t) PROVE (s \o t)[Len(s) + i] = t[i]
  <2>1. /\ Len(s) + i \in 1 .. Len(s) + Len(t) /\ ~(Len(s) + i <= Len(s))
        /\ (Len(s) + i) - Len(s) = i
    BY <1>1
  <2>. QED
    BY <1>1, <2>1
<1>. QED
  BY <1>1, <1>2

-----------------------------------------------------------------------------
(* The elements of a container and the record of its handler *)

\* The containers are numbered from the root on.
LEMMA HeapNumbers ==
    ASSUME NEW h \in Heaps
    PROVE  /\ Len(h) \in Nat /\ DOMAIN h = 1 .. Len(h) /\ 1 \in DOMAIN h
           /\ \A p \in DOMAIN h : \A j \in DOMAIN h[p].kids :
                 h[p].kids[j].i = "own" => /\ h[p].kids[j].n \in DOMAIN h
                                           /\ h[p].kids[j].n > p /\ h[p].kids[j].n # 1
<1>1. /\ Len(h) \in Nat \ {0} /\ DOMAIN h = 1 .. Len(h)
      /\ \A p \in DOMAIN h : \A j \in DOMAIN h[p].kids :
            h[p].kids[j].i = "own" => h[p].kids[j].n \in DOMAIN h /\ h[p].kids[j].n > p
  BY HeapsAssumption
<1>2. 1 \in DOMAIN h
  BY <1>1
<1>3. ASSUME NEW p \in DOMAIN h, NEW n \in DOMAIN h, n > p PROVE n # 1
  BY <1>1, <1>3
<1>. QED
  BY <1>1, <1>2, <1>3

LEMMA HeapFacts ==
    ASSUME heap \in Heaps, NEW o \in DOMAIN heap
    PROVE  /\ 1 \in DOMAIN heap
           /\ heap[o].kind \in {"list", "map", "inst"}
           /\ Len(Kids(o)) \in Nat /\ DOMAIN Kids(o) = 1 .. Len(Kids(o))
           /\ heap[o].kind = "map" => Len(Kids(o)) % 2 = 0
           /\ \A j \in DOMAIN Kids(o) :
                 /\ Kids(o)[j].i \in {"scalar", "own", "ref", "bad"} /\ Kids(o)[j].n \in Nat
                 /\ Kids(o)[j].i \in {"own", "ref"} => Kids(o)[j].n \in DOMAIN heap
                 /\ Kids(o)[j].i = "own" => Kids(o)[j].n > o
<1>1. 1 \in DOMAIN heap
  BY HeapNumbers
<1>2. /\ heap[o].kind \in {"list", "map", "inst"}
      /\ Len(heap[o].kids) \in Nat /\ DOMAIN heap[o].kids = 1 .. Len(heap[o].kids)
      /\ heap[o].kind = "map" => Len(heap[o].kids) % 2 = 0
      /\ \A j \in DOMAIN heap[o].kids :
            /\ heap[o].kids[j].i \in {"scalar", "own", "ref", "bad"} /\ heap[o].kids[j].n \in Nat
            /\ heap[o].kids[j].i \in {"own", "ref"} => heap[o].kids[j].n \in DOMAIN heap
            /\ heap[o].kids[j].i = "own" => heap[o].kids[j].n > o
  BY HeapsAssumption
<1>. QED
  BY <1>1, <1>2 DEF Kids

LEMMA MinOfRange ==
    ASSUME NEW m \in Nat, NEW n \in Nat, m <= n
    PROVE  Enc!Min(m .. n) = m
<1>1. m \in m .. n /\ \A y \in m .. n : m <= y
  OBVIOUS
<1>2. \A x \in m .. n : (\A y \in m .. n : x <= y) => x = m
  OBVIOUS
<1>. QED
  BY <1>1, <1>2 DEF Enc!Min

LEMMA FrameMade ==
    ASSUME NEW o, NEW form, NEW todo, NEW owed, NEW f,
           f = [o |-> o, form |-> form, todo |-> todo, owed |-> owed]
    PROVE  f.o = o /\ f.form = form /\ f.todo = todo /\ f.owed = owed
OBVIOUS

LEMMA FrameOnce ==
    ASSUME NEW o, NEW form, NEW todo, NEW owed, NEW x
    PROVE  LET f == [o |-> o, form |-> form, todo |-> todo, owed |-> owed]
           IN  /\ [f EXCEPT !.todo = x] = [o |-> o, form |-> form, todo |-> x, owed |-> owed]
               /\ [f EXCEPT !.owed = x] = [o |-> o, form |-> form, todo |-> todo, owed |-> x]
OBVIOUS

Changed(f, todo, owed) == [f EXCEPT !.todo = todo, !.owed = owed]

LEMMA FrameChanged ==
    ASSUME NEW o, NEW form, NEW todo, NEW owed, NEW f, NEW t, NEW w,
           f = [o |-> o, form |-> form, todo |-> todo, owed |-> owed]
    PROVE  Changed(f, t, w) = [o |-> o, form |-> form, todo |-> t, owed |-> w]
<1>. DEFINE g == [f EXCEPT !.todo = t]
<1>1. g = [o |-> o, form |-> form, todo |-> t, owed |-> owed]
  BY FrameOnce
<1>. HIDE DEF g
<1>2. [g EXCEPT !.owed = w] = [o |-> o, form |-> form, todo |-> t, owed |-> w]
  BY <1>1, FrameOnce
<1>3. Changed(f, t, w) = [g EXCEPT !.owed = w]
  BY Zenon DEF g, Changed
<1>. QED
  BY <1>2, <1>3

\* Of a list or an instance, the next element is the first that is left; of a map, a
\* key, or the value of the key written last.
LEMMA NextKid ==
    ASSUME heap \in Heaps, NEW f, FrameOK(f), NEW j \in Enc!NextKids(f)
    PROVE  /\ f.o \in DOMAIN heap /\ j \in DOMAIN Kids(f.o)
           /\ ~IsMap(f) => j \in f.todo /\ f.todo = j .. Len(Kids(f.o))
           /\ IsMap(f) => (f.owed = 0 <=> j % 2 = 1)
<1>. DEFINE L == Len(Kids(f.o))
<1>1. f.o \in DOMAIN heap /\ f.todo \subseteq DOMAIN Kids(f.o)
  BY DEF FrameOK, Frames
<1>2. L \in Nat /\ DOMAIN Kids(f.o) = 1 .. L
  BY <1>1, HeapFacts
<1>3. CASE IsMap(f)
  <2>1. f.owed % 2 = 0 /\ f.owed \in {0} \cup DOMAIN Kids(f.o)
    BY <1>3 DEF FrameOK, IsMap
  <2>2. CASE f.owed # 0
    <3>1. j = f.owed
      BY <2>2 DEF Enc!NextKids
    <3>. QED
      BY <1>1, <1>3, <2>1, <2>2, <3>1
  <2>3. CASE f.owed = 0
    <3>1. j \in f.todo /\ j % 2 = 1
      BY <2>3, <1>3 DEF Enc!NextKids, IsMap
    <3>. QED
      BY <1>1, <1>3, <2>3, <3>1
  <2>. QED
    BY <2>2, <2>3
<1>4. CASE ~IsMap(f)
  <2>1. f.owed = 0
    BY <1>4 DEF FrameOK, IsMap
  <2>2. PICK m \in 1 .. L + 1 : f.todo = m .. L
    BY <1>4 DEF FrameOK, IsMap
  <2>3. f.todo # {} /\ j = Enc!Min(f.todo)
    BY <1>4, <2>1 DEF Enc!NextKids, IsMap
  <2>4. m <= L /\ m \in Nat
    BY <1>2, <2>2, <2>3
  <2>5. j = m
    BY <1>2, <2>2, <2>3, <2>4, MinOfRange
  <2>. QED
    BY <1>1, <1>2, <1>4, <2>2, <2>4, <2>5
<1>. QED
  BY <1>3, <1>4

\* Nothing is next when a list or an instance has nothing left.
LEMMA NoNextKid ==
    ASSUME heap \in Heaps, NEW f, FrameOK(f), ~IsMap(f), Enc!NextKids(f) = {}
    PROVE  f.todo = {}
BY DEF Enc!NextKids, FrameOK, IsMap

LEMMA AdvanceFields ==
    ASSUME heap \in Heaps, NEW f, FrameOK(f), NEW j
    PROVE  LET g == Enc!Advance(f, j)
           IN  /\ g = [o |-> f.o, form |-> f.form, todo |-> f.todo \ {j},
                       owed |-> IF IsMap(f) /\ j % 2 = 1 THEN j + 1 ELSE 0]
               /\ g.o = f.o /\ g.form = f.form /\ g.todo = f.todo \ {j}
               /\ g.owed = IF IsMap(f) /\ j % 2 = 1 THEN j + 1 ELSE 0
<1>1. f = [o |-> f.o, form |-> f.form, todo |-> f.todo, owed |-> f.owed]
  BY DEF FrameOK, Frames
<1>. DEFINE w == IF IsMap(f) /\ j % 2 = 1 THEN j + 1 ELSE 0
            t == f.todo \ {j}
<1>2. Enc!Advance(f, j) = Changed(f, t, w)
  BY Zenon DEF Enc!Advance, IsMap, Changed
<1>. HIDE DEF w, t
<1>3. PICK a, b, c, d : f = [o |-> a, form |-> b, todo |-> c, owed |-> d]
  BY ONLY <1>1
<1>4. a = f.o /\ b = f.form
  BY <1>3, FrameMade
<1>5. Changed(f, t, w) = [o |-> a, form |-> b, todo |-> t, owed |-> w]
  BY ONLY <1>3, FrameChanged
<1>. DEFINE g == Enc!Advance(f, j)
<1>6. g = [o |-> f.o, form |-> f.form, todo |-> t, owed |-> w]
  BY ONLY <1>2, <1>4, <1>5
<1>. HIDE DEF g
<1>7. g.o = f.o /\ g.form = f.form /\ g.todo = t /\ g.owed = w
  BY ONLY <1>6, FrameMade
<1>. QED
  BY ONLY <1>6, <1>7 DEF w, t, g

LEMMA AdvanceOK ==
    ASSUME heap \in Heaps, NEW f, FrameOK(f), NEW j \in Enc!NextKids(f)
    PROVE  FrameOK(Enc!Advance(f, j)) /\ Enc!Advance(f, j).o = f.o
<1>. DEFINE g == Enc!Advance(f, j)
            L == Len(Kids(f.o))
<1>1. /\ g.o = f.o /\ g.form = f.form /\ g.todo = f.todo \ {j}
      /\ g.owed = IF IsMap(f) /\ j % 2 = 1 THEN j + 1 ELSE 0
      /\ g = [o |-> f.o, form |-> f.form, todo |-> f.todo \ {j},
              owed |-> IF IsMap(f) /\ j % 2 = 1 THEN j + 1 ELSE 0]
  BY AdvanceFields
<1>2. /\ f.o \in DOMAIN heap /\ j \in DOMAIN Kids(f.o)
      /\ ~IsMap(f) => j \in f.todo /\ f.todo = j .. L
  BY NextKid
<1>3. L \in Nat /\ DOMAIN Kids(f.o) = 1 .. L /\ (IsMap(f) => L % 2 = 0)
  BY <1>2, HeapFacts DEF IsMap
<1>4. f \in Frames /\ f.todo \subseteq DOMAIN Kids(f.o) /\ (f.form = "var" => heap[f.o].kind = "list")
  BY DEF FrameOK
<1>5. /\ (IF IsMap(f) /\ j % 2 = 1 THEN j + 1 ELSE 0) \in Nat
      /\ IsMap(f) /\ j % 2 = 1 => j + 1 \in DOMAIN Kids(f.o) /\ (j + 1) % 2 = 0
  BY <1>2, <1>3
<1>6. g \in Frames
  BY <1>1, <1>4, <1>5 DEF Frames
<1>7. CASE IsMap(f)
  BY <1>1, <1>4, <1>5, <1>6, <1>7 DEF FrameOK, IsMap
<1>8. CASE ~IsMap(f)
  <2>1. f.todo \ {j} = (j + 1) .. L /\ j + 1 \in 1 .. L + 1
    BY <1>2, <1>3, <1>8
  <2>. QED
    BY <1>1, <1>4, <1>6, <1>8, <2>1 DEF FrameOK, IsMap
<1>. QED
  BY <1>1, <1>7, <1>8

LEMMA NewFrameOK ==
    ASSUME heap \in Heaps, NEW o \in DOMAIN heap, NEW form \in Enc!Forms(o)
    PROVE  /\ FrameOK(Enc!Frame(o, form))
           /\ Enc!Frame(o, form).o = o /\ Enc!Frame(o, form).form = form
<1>. DEFINE f == Enc!Frame(o, form)
            L == Len(Kids(o))
<1>1. f.o = o /\ f.form = form /\ f.todo = DOMAIN Kids(o) /\ f.owed = 0
  BY DEF Enc!Frame, Enc!Kids, Kids
<1>2. L \in Nat /\ DOMAIN Kids(o) = 1 .. L
  BY HeapFacts
<1>3. form \in {"fixed", "var"} /\ (form = "var" => heap[o].kind = "list")
  BY DEF Enc!Forms
<1>4. f \in Frames
  BY <1>2, <1>3 DEF Enc!Frame, Enc!Kids, Kids, Frames
<1>5. 1 \in 1 .. L + 1 /\ 0 % 2 = 0
  BY <1>2
<1>. QED
  BY <1>1, <1>2, <1>3, <1>4, <1>5 DEF FrameOK

-----------------------------------------------------------------------------
(* What encode writes *)

LEMMA Induction ==
    ASSUME NEW S, 0 \in S, \A n \in Nat : n \in S => n + 1 \in S
    PROVE  \A n \in Nat : n \in S
<1>. DEFINE R == OpToRel(<, Nat)
            T == {n \in Nat : n \notin S}
<1>1. SUFFICES ASSUME T # {} PROVE FALSE
  OBVIOUS
<1>2. PICK m \in T : \A n \in T : ~ (<<n, m>> \in R)
  BY <1>1, NatLessThanWellFounded, WFMin
<1>3. m \in Nat /\ m # 0
  OBVIOUS
<1>4. m - 1 \in Nat /\ (m - 1) + 1 = m /\ m - 1 < m
  BY <1>3
<1>5. m - 1 \in T
  BY <1>4
<1>6. <<m - 1, m>> \in R
  BY <1>3, <1>4 DEF OpToRel
<1>. QED
  BY <1>2, <1>5, <1>6

LEMMA LeastIs ==
    ASSUME NEW S \in SUBSET Nat, NEW x \in S
    PROVE  /\ Enc!Min(S) \in S /\ \A y \in S : Enc!Min(S) <= y
           /\ (\A y \in S : x <= y) => Enc!Min(S) = x
<1>. DEFINE R == OpToRel(<, Nat)
<1>1. PICK m \in S : \A n \in S : ~ (<<n, m>> \in R)
  BY NatLessThanWellFounded, WFMin
<1>2. ASSUME NEW y \in S PROVE m <= y
  <2>1. m \in Nat /\ y \in Nat
    OBVIOUS
  <2>2. y < m => <<y, m>> \in R
    BY <2>1 DEF OpToRel
  <2>3. ~ (y < m)
    BY <1>1, <2>2
  <2>. QED
    BY <2>1, <2>3
<1>3. Enc!Min(S) \in S /\ \A y \in S : Enc!Min(S) <= y
  BY <1>2 DEF Enc!Min
<1>4. ASSUME \A y \in S : x <= y PROVE Enc!Min(S) = x
  <2>1. x <= Enc!Min(S) /\ Enc!Min(S) <= x /\ x \in Nat /\ Enc!Min(S) \in Nat
    BY <1>3, <1>4
  <2>. QED
    BY <2>1
<1>. QED
  BY <1>3, <1>4

\* The index of the first place where x is.
LEMMA IndexRange ==
    ASSUME NEW S, NEW s \in Seq(S), NEW x
    PROVE  /\ Enc!IndexIn(s, x) \in -1 .. Len(s) - 1
           /\ Enc!IndexIn(s, x) # -1 => /\ s[Enc!IndexIn(s, x) + 1] = x
                                        /\ \A k \in 1 .. Enc!IndexIn(s, x) : s[k] # x
           /\ (\E i \in 1 .. Len(s) : s[i] = x) => Enc!IndexIn(s, x) # -1
<1>. DEFINE P == {i \in DOMAIN s : s[i] = x}
<1>1. Len(s) \in Nat /\ DOMAIN s = 1 .. Len(s)
  OBVIOUS
<1>2. CASE \E i \in DOMAIN s : s[i] = x
  <2>1. PICK c : c = Enc!Min(P)
    OBVIOUS
  <2>2. Enc!IndexIn(s, x) = c - 1
    BY <1>2, <2>1 DEF Enc!IndexIn
  <2>3. P \in SUBSET Nat /\ \E i \in P : TRUE
    BY <1>1, <1>2
  <2>4. c \in P /\ \A y \in P : c <= y
    <3>. HIDE DEF P
    <3>. QED
      BY <2>1, <2>3, LeastIs
  <2>5. c \in 1 .. Len(s) /\ (c - 1) + 1 = c /\ s[c] = x
    BY <1>1, <2>4
  <2>6. \A k \in 1 .. c - 1 : s[k] # x
    BY <1>1, <2>4, <2>5
  <2>. QED
    BY <1>1, <2>2, <2>5, <2>6
<1>3. CASE ~\E i \in DOMAIN s : s[i] = x
  <2>1. Enc!IndexIn(s, x) = -1
    BY <1>3 DEF Enc!IndexIn
  <2>. QED
    BY <1>1, <1>3, <2>1
<1>. QED
  BY <1>2, <1>3

LEMMA IndexIs ==
    ASSUME NEW S, NEW s \in Seq(S), NEW c \in 1 .. Len(s), NEW x, s[c] = x,
           \A k \in 1 .. c - 1 : s[k] # x
    PROVE  Enc!IndexIn(s, x) = c - 1
<1>. DEFINE P == {i \in DOMAIN s : s[i] = x}
<1>1. Len(s) \in Nat /\ DOMAIN s = 1 .. Len(s) /\ P \in SUBSET Nat /\ c \in P
  OBVIOUS
<1>2. \A y \in P : c <= y
  BY <1>1
<1>3. Enc!Min(P) = c
  <2>. HIDE DEF P
  <2>. QED
    BY <1>1, <1>2, LeastIs
<1>. QED
  BY <1>1, <1>3 DEF Enc!IndexIn

\* The two sides have the same tokens.
LEMMA SameTokens ==
    /\ Enc!VarList = VarList /\ Enc!Map = Map /\ Enc!End = End /\ Dec!End = End
    /\ \A n : /\ Enc!FixedList(n) = FixedList(n) /\ Enc!Def(n) = Def(n) /\ Enc!Inst(n) = Inst(n)
             /\ Enc!Leaf(n) = Leaf(n) /\ Enc!Ref(n) = Ref(n)
BY DEF VarList, Map, End, FixedList, Def, Inst, Leaf, Ref, Tok,
       Enc!VarList, Enc!Map, Enc!End, Enc!FixedList, Enc!Def, Enc!Inst, Enc!Leaf, Enc!Ref, Enc!Tok,
       Dec!End, Dec!Tok

LEMMA TokenMade ==
    ASSUME NEW op \in Opcodes, NEW n \in Int
    PROVE  Tok(op, n) \in Tokens /\ Tok(op, n).op = op /\ Tok(op, n).n = n
BY DEF Tok, Tokens

LEMMA TokensMade ==
    /\ VarList \in Tokens /\ VarList.op = "varlist"
    /\ Map \in Tokens /\ Map.op = "map"
    /\ End \in Tokens /\ End.op = "Z"
    /\ \A n \in Int :
          /\ FixedList(n) \in Tokens /\ FixedList(n).op = "list" /\ FixedList(n).n = n
          /\ Def(n) \in Tokens /\ Def(n).op = "C" /\ Def(n).n = n
          /\ Inst(n) \in Tokens /\ Inst(n).op = "inst" /\ Inst(n).n = n
          /\ Leaf(n) \in Tokens /\ Leaf(n).op = "leaf" /\ Leaf(n).n = n
          /\ Ref(n) \in Tokens /\ Ref(n).op = "ref" /\ Ref(n).n = n
<1>1. /\ VarList \in Tokens /\ VarList.op = "varlist"
      /\ Map \in Tokens /\ Map.op = "map"
      /\ End \in Tokens /\ End.op = "Z"
  BY TokenMade DEF VarList, Map, End, Opcodes
<1>2. ASSUME NEW n \in Int
      PROVE  /\ FixedList(n) \in Tokens /\ FixedList(n).op = "list" /\ FixedList(n).n = n
             /\ Def(n) \in Tokens /\ Def(n).op = "C" /\ Def(n).n = n
             /\ Inst(n) \in Tokens /\ Inst(n).op = "inst" /\ Inst(n).n = n
             /\ Leaf(n) \in Tokens /\ Leaf(n).op = "leaf" /\ Leaf(n).n = n
             /\ Ref(n) \in Tokens /\ Ref(n).op = "ref" /\ Ref(n).n = n
  BY TokenMade DEF FixedList, Def, Inst, Leaf, Ref, Opcodes
<1>. QED
  BY <1>1, <1>2

\* A header of one token, or the definition of a class and the instance.
OneToken(o, form, known, t) ==
    /\ t \in Tokens
    /\ \/ form = "var" /\ t.op = "varlist"
       \/ form # "var" /\ heap[o].kind = "map" /\ t.op = "map"
       \/ /\ form # "var" /\ heap[o].kind = "list"
          /\ t.op = "list" /\ t.n = Len(Kids(o))
       \/ /\ form # "var" /\ heap[o].kind = "inst" /\ t.op = "inst"
          /\ t.n \in 0 .. Len(known) - 1 /\ known[t.n + 1] = Len(Kids(o))

LEMMA HeaderCases ==
    ASSUME heap \in Heaps, NEW o \in DOMAIN heap, NEW form \in {"fixed", "var"},
           form = "var" => heap[o].kind = "list", NEW known \in Seq(Nat)
    PROVE  LET h == Enc!Header(o, form, known)
               n == Len(Kids(o))
           IN  /\ h \in Seq(Tokens) /\ Enc!Known(o, known) \in Seq(Nat)
               /\ \/ /\ Len(h) = 1 /\ OneToken(o, form, known, h[1])
                     /\ Enc!Known(o, known) = known
                  \/ /\ heap[o].kind = "inst" /\ form # "var"
                     /\ Len(h) = 2 /\ h[1] = Def(n) /\ h[2] = Inst(Len(known))
                     /\ Enc!Known(o, known) = Append(known, n)
<1>. DEFINE h == Enc!Header(o, form, known)
            n == Len(Kids(o))
<1>1. n \in Nat /\ heap[o].kind \in {"list", "map", "inst"} /\ Len(known) \in Nat
  BY HeapFacts
<1>2. CASE form = "var"
  <2>1. h = <<VarList>>
    BY <1>2, SameTokens DEF Enc!Header
  <2>2. VarList \in Tokens /\ VarList.op = "varlist"
    BY TokensMade
  <2>3. Enc!Known(o, known) = known
    BY <1>2 DEF Enc!Known
  <2>4. h \in Seq(Tokens) /\ Len(h) = 1 /\ h[1] = VarList
    BY <2>1, <2>2
  <2>. HIDE DEF h
  <2>5. OneToken(o, form, known, h[1])
    BY <1>2, <2>2, <2>4 DEF OneToken
  <2>. QED
    BY <2>3, <2>4, <2>5 DEF h
<1>3. CASE form # "var" /\ heap[o].kind = "map"
  <2>1. h = <<Map>>
    BY <1>3, SameTokens DEF Enc!Header
  <2>2. Map \in Tokens /\ Map.op = "map"
    BY TokensMade
  <2>3. Enc!Known(o, known) = known
    BY <1>3 DEF Enc!Known
  <2>. QED
    BY <1>3, <2>1, <2>2, <2>3 DEF OneToken
<1>4. CASE form # "var" /\ heap[o].kind = "list"
  <2>1. h = <<FixedList(n)>>
    BY <1>4, SameTokens DEF Enc!Header, Enc!Kids, Kids
  <2>2. FixedList(n) \in Tokens /\ FixedList(n).op = "list" /\ FixedList(n).n = n
    BY <1>1, TokensMade
  <2>3. Enc!Known(o, known) = known
    BY <1>4 DEF Enc!Known
  <2>. QED
    BY <1>4, <2>1, <2>2, <2>3 DEF OneToken
<1>5. CASE form # "var" /\ heap[o].kind = "inst"
  <2>. DEFINE i == Enc!IndexIn(known, n)
  <2>1. h = Enc!InstTokens(known, n)
    BY <1>5, SameTokens DEF Enc!Header, Enc!Kids, Kids
  <2>2. i \in -1 .. Len(known) - 1 /\ (i # -1 => known[i + 1] = n)
    BY IndexRange
  <2>3. CASE i = -1
    <3>1. h = <<Def(n), Inst(Len(known))>>
      BY <2>1, <2>3, SameTokens DEF Enc!InstTokens
    <3>2. Def(n) \in Tokens /\ Inst(Len(known)) \in Tokens
      BY <1>1, TokensMade
    <3>3. Enc!Known(o, known) = Append(known, n)
      BY <1>5, <2>3 DEF Enc!Known, Enc!Kids, Kids
    <3>4. Append(known, n) \in Seq(Nat)
      BY <1>1
    <3>. QED
      BY <1>5, <3>1, <3>2, <3>3, <3>4
  <2>4. CASE i # -1
    <3>1. h = <<Inst(i)>>
      BY <2>1, <2>4, SameTokens DEF Enc!InstTokens
    <3>2. Inst(i) \in Tokens /\ Inst(i).op = "inst" /\ Inst(i).n = i
      BY <2>2, TokensMade
    <3>3. Enc!Known(o, known) = known
      BY <1>5, <2>4 DEF Enc!Known, Enc!Kids, Kids
    <3>4. i \in 0 .. Len(known) - 1 /\ known[i + 1] = n
      BY <2>2, <2>4, <1>1
    <3>. HIDE DEF i
    <3>. QED
      BY <1>5, <3>1, <3>2, <3>3, <3>4 DEF OneToken
  <2>. QED
    BY <2>3, <2>4
<1>. QED
  BY <1>1, <1>2, <1>3, <1>4, <1>5

LEMMA TrailerCases ==
    ASSUME NEW f
    PROVE  /\ Enc!Trailer(f) \in Seq(Tokens)
           /\ ToEnd(f) => Len(Enc!Trailer(f)) = 1 /\ Enc!Trailer(f)[1] = End
           /\ ~ToEnd(f) => Len(Enc!Trailer(f)) = 0
<1>1. End \in Tokens
  BY TokensMade
<1>. QED
  BY <1>1, SameTokens DEF Enc!Trailer, ToEnd

-----------------------------------------------------------------------------
(* A step of encode *)

\* The handler goes on to its next element.
LEMMA RestOK ==
    ASSUME heap \in Heaps, StackOK(eStack), eStack # <<>>, NEW j \in Enc!NextKids(eStack[1])
    PROVE  LET rest == <<Enc!Advance(eStack[1], j)>> \o Tail(eStack)
           IN  /\ StackOK(rest) /\ Moved(eStack, rest) /\ rest # <<>>
               /\ Len(rest) = Len(eStack)
               /\ \A k \in 1 .. Len(rest) : rest[k].o = eStack[k].o
               /\ eStack[1].o \in DOMAIN heap /\ j \in DOMAIN Kids(eStack[1].o)
<1>. DEFINE g == Enc!Advance(eStack[1], j)
            rest == <<g>> \o Tail(eStack)
<1>1. eStack \in Seq(Frames) /\ \A k \in 1 .. Len(eStack) : FrameOK(eStack[k])
  BY DEF StackOK
<1>2. Len(eStack) \in Nat /\ Len(eStack) >= 1 /\ FrameOK(eStack[1])
  BY <1>1
<1>3. FrameOK(g) /\ g.o = eStack[1].o
  BY <1>2, AdvanceOK
<1>4. eStack[1].o \in DOMAIN heap /\ j \in DOMAIN Kids(eStack[1].o)
  BY <1>2, NextKid
<1>5. Moved(eStack, rest)
  BY DEF Moved
<1>. HIDE DEF g
<1>6. /\ rest \in Seq(Frames) /\ Len(rest) = Len(eStack) /\ rest[1] = g
      /\ \A k \in 2 .. Len(eStack) : rest[k] = eStack[k]
  BY <1>1, <1>3, SeqTop DEF FrameOK
<1>. HIDE DEF rest
<1>7. \A k \in 1 .. Len(rest) : FrameOK(rest[k]) /\ rest[k].o = eStack[k].o
  <2>. SUFFICES ASSUME NEW k \in 1 .. Len(rest)
                PROVE  FrameOK(rest[k]) /\ rest[k].o = eStack[k].o
    OBVIOUS
  <2>1. k = 1 \/ k \in 2 .. Len(eStack)
    BY <1>2, <1>6
  <2>. QED
    BY <1>1, <1>2, <1>3, <1>6, <2>1
<1>8. rest # <<>>
  BY <1>2, <1>6
<1>. QED
  BY <1>4, <1>5, <1>6, <1>7, <1>8 DEF g, rest, StackOK

LEMMA PushOK ==
    ASSUME heap \in Heaps, NEW s, StackOK(s), NEW o \in DOMAIN heap, NEW form \in Enc!Forms(o)
    PROVE  LET t == <<Enc!Frame(o, form)>> \o s
           IN  /\ StackOK(t) /\ t # <<>> /\ Len(t) = Len(s) + 1 /\ Len(s) \in Nat
               /\ t[1] = Enc!Frame(o, form) /\ t[1].o = o /\ t[1].form = form /\ Tail(t) = s
               /\ \A k \in 1 .. Len(s) : t[k + 1] = s[k]
<1>. DEFINE g == Enc!Frame(o, form)
            t == <<g>> \o s
<1>1. FrameOK(g) /\ g.o = o /\ g.form = form
  BY NewFrameOK
<1>. HIDE DEF g
<1>2. /\ Len(s) \in Nat /\ t \in Seq(Frames) /\ Len(t) = Len(s) + 1 /\ t[1] = g /\ Tail(t) = s
      /\ t # <<>> /\ \A k \in 1 .. Len(s) : t[k + 1] = s[k]
  BY <1>1, SeqCons DEF StackOK, FrameOK
<1>. HIDE DEF t
<1>3. ASSUME NEW k \in 1 .. Len(t) PROVE FrameOK(t[k])
  <2>1. k = 1 \/ (k - 1 \in 1 .. Len(s) /\ (k - 1) + 1 = k)
    BY <1>2
  <2>. QED
    BY <1>1, <1>2, <2>1 DEF StackOK
<1>. QED
  BY <1>1, <1>2, <1>3 DEF g, t, StackOK

LEMMA TailOK ==
    ASSUME NEW s, StackOK(s), s # <<>>
    PROVE  /\ StackOK(Tail(s)) /\ Len(s) \in Nat /\ Len(s) >= 1 /\ Len(Tail(s)) = Len(s) - 1
           /\ FrameOK(s[1])
           /\ \A k \in 1 .. Len(s) - 1 : Tail(s)[k] = s[k + 1]
<1>1. /\ s \in Seq(Frames) /\ Len(s) \in Nat /\ Len(s) >= 1 /\ Tail(s) \in Seq(Frames)
      /\ Len(Tail(s)) = Len(s) - 1
      /\ \A k \in 1 .. Len(s) - 1 : Tail(s)[k] = s[k + 1]
  BY DEF StackOK
<1>2. ASSUME NEW k \in 1 .. Len(Tail(s)) PROVE FrameOK(Tail(s)[k])
  <2>1. k \in 1 .. Len(s) - 1 /\ k + 1 \in 1 .. Len(s)
    BY <1>1
  <2>. QED
    BY <1>1, <2>1 DEF StackOK
<1>. QED
  BY <1>1, <1>2 DEF StackOK

\* An element that is no container: a token is written, or none.
PutsLeaf(t) ==
    /\ Moved(eStack, eStack') /\ Len(eStack') = Len(eStack)
    /\ \A k \in 1 .. Len(eStack) : eStack'[k].o = eStack[k].o
    /\ t \in Tokens /\ eWire' = Append(eWire, t) /\ eValues' = eValues /\ eDefs' = eDefs

PutsScalar == \E n \in Nat : PutsLeaf(Leaf(n)) /\ eAssert' = eAssert

PutsRef ==
    \E j \in Enc!NextKids(eStack[1]) :
        LET o == eStack[1].o
            i == Enc!IndexIn(eValues, Kids(o)[j].n)
        IN  /\ j \in DOMAIN Kids(o) /\ Kids(o)[j].i = "ref"
            /\ i \in -1 .. Len(eValues) - 1 /\ PutsLeaf(Ref(i))
            /\ eAssert' = (eAssert \/ i = -1)

PutsNothing ==
    /\ \E j \in DOMAIN Kids(eStack[1].o) : Kids(eStack[1].o)[j].i = "bad"
    /\ Len(eStack') = Len(eStack)
    /\ \A k \in 1 .. Len(eStack) : eStack'[k].o = eStack[k].o
    /\ UNCHANGED <<eWire, eValues, eDefs, eAssert>>

\* An element that is a container.
PutsHeader ==
    LET f == eStack'[1]
    IN  /\ Moved(eStack, Tail(eStack')) /\ Len(eStack') = Len(eStack) + 1 /\ eStack' # <<>>
        /\ \A k \in 1 .. Len(eStack) : eStack'[k + 1].o = eStack[k].o
        /\ f = Enc!Frame(f.o, f.form) /\ FrameOK(f)
        /\ \E j \in DOMAIN Kids(eStack[1].o) : Kids(eStack[1].o)[j].i = "own" /\ f.o = Kids(eStack[1].o)[j].n
        /\ f.o \in DOMAIN heap
        /\ eWire' = eWire \o Enc!Header(f.o, f.form, eDefs)
        /\ eValues' = IF api = "begin" THEN eValues ELSE Append(eValues, f.o)
        /\ eDefs' = Enc!Known(f.o, eDefs)
        /\ eAssert' = eAssert

\* The end of a container.
PutsTrailer ==
    /\ Enc!NextKids(eStack[1]) = {} /\ eStack' = Tail(eStack)
    /\ eWire' = eWire \o Enc!Trailer(eStack[1])
    /\ UNCHANGED <<eValues, eDefs, eAssert>>

LEMMA EncodeCases ==
    ASSUME EncTypeOK, Enc!EncNext
    PROVE  /\ heap' = heap /\ api' = api /\ eStack # <<>> /\ StackOK(eStack')
           /\ PutsScalar \/ PutsRef \/ PutsNothing \/ PutsHeader \/ PutsTrailer
<1>. DEFINE f == eStack[1]
            rest(j) == <<Enc!Advance(eStack[1], j)>> \o Tail(eStack)
<1>1. heap \in Heaps /\ StackOK(eStack) /\ eValues \in Seq(DOMAIN heap)
  BY DEF EncTypeOK
<1>2. CASE Enc!EncodeReturn
  <2>1. eStack # <<>> /\ eStack' = Tail(eStack) /\ PutsTrailer /\ heap' = heap /\ api' = api
    BY <1>2 DEF Enc!EncodeReturn, PutsTrailer
  <2>2. StackOK(eStack')
    BY <1>1, <2>1, TailOK
  <2>. QED
    BY <2>1, <2>2
<1>3. CASE Enc!EncodeElement
  <2>1. PICK j \in Enc!NextKids(f) : Enc!WriteKid(j, Kids(f.o)[j])
    BY <1>3 DEF Enc!EncodeElement, Enc!Kids, Kids
  <2>2. eStack # <<>>
    BY <1>3 DEF Enc!EncodeElement
  <2>. DEFINE r == rest(j)
              item == Kids(f.o)[j]
  <2>3. /\ StackOK(r) /\ Moved(eStack, r) /\ r # <<>> /\ Len(r) = Len(eStack)
        /\ \A k \in 1 .. Len(r) : r[k].o = eStack[k].o
        /\ f.o \in DOMAIN heap /\ j \in DOMAIN Kids(f.o)
    BY <1>1, <2>2, RestOK
  <2>4. /\ item.n \in Nat
        /\ item.i \in {"own", "ref"} => item.n \in DOMAIN heap
    BY <1>1, <2>3, HeapFacts
  <2>. HIDE DEF r
  <2>5. CASE /\ item.i = "own"
             /\ \E form \in Enc!Forms(item.n) : /\ Enc!Enter(item.n, form)
                                                /\ eStack' = <<Enc!Frame(item.n, form)>> \o r
             /\ UNCHANGED <<heap, api, eAssert>>
    <3>1. PICK form \in Enc!Forms(item.n) :
              Enc!Enter(item.n, form) /\ eStack' = <<Enc!Frame(item.n, form)>> \o r
      BY <2>5
    <3>. DEFINE o == item.n
    <3>6. o \in DOMAIN heap
      BY <2>4, <2>5
    <3>. HIDE DEF o
    <3>7. form \in Enc!Forms(o) /\ heap \in Heaps /\ StackOK(r) /\ eStack' = <<Enc!Frame(o, form)>> \o r
      BY <1>1, <2>3, <3>1 DEF o
    <3>9. eStack'[1] = Enc!Frame(o, form)
      BY ONLY <3>6, <3>7, PushOK
    <3>10. Enc!Frame(o, form).o = o /\ Enc!Frame(o, form).form = form
      BY ONLY <3>6, <3>7, NewFrameOK
    <3>11. /\ StackOK(eStack') /\ eStack' # <<>> /\ Len(eStack') = Len(r) + 1 /\ Tail(eStack') = r
           /\ \A k \in 1 .. Len(r) : eStack'[k + 1] = r[k]
      BY ONLY <3>6, <3>7, PushOK
    <3>2. /\ StackOK(eStack') /\ eStack' # <<>> /\ Len(eStack') = Len(r) + 1
          /\ eStack'[1] = Enc!Frame(item.n, form) /\ eStack'[1].o = item.n
          /\ eStack'[1].form = form /\ Tail(eStack') = r
          /\ \A k \in 1 .. Len(r) : eStack'[k + 1] = r[k]
      BY <3>9, <3>10, <3>11 DEF o
    <3>3. FrameOK(eStack'[1])
      BY <3>2, TailOK
    <3>4. eWire' = eWire \o Enc!Header(item.n, form, eDefs) /\ eDefs' = Enc!Known(item.n, eDefs)
          /\ eValues' = (IF api = "begin" THEN eValues ELSE Append(eValues, item.n))
      BY <3>1 DEF Enc!Enter
    <3>5. \A k \in 1 .. Len(eStack) : eStack'[k + 1].o = eStack[k].o
      BY <2>3, <3>2
    <3>8. PutsHeader
      BY <2>3, <2>4, <2>5, <3>2, <3>3, <3>4, <3>5 DEF PutsHeader
    <3>. QED
      BY <2>2, <2>5, <3>2, <3>8
  <2>6. CASE /\ item.i = "scalar"
             /\ eWire' = Append(eWire, Enc!Leaf(item.n))
             /\ eStack' = r
             /\ UNCHANGED <<heap, api, eValues, eDefs, eAssert>>
    <3>1. Enc!Leaf(item.n) = Leaf(item.n) /\ Leaf(item.n) \in Tokens
      BY <2>4, SameTokens, TokensMade
    <3>. HIDE DEF item
    <3>2. PutsScalar
      BY <2>3, <2>4, <2>6, <3>1 DEF PutsScalar, PutsLeaf
    <3>. QED
      BY <2>2, <2>3, <2>6, <3>2
  <2>7. CASE /\ item.i = "ref"
             /\ eWire' = Append(eWire, Enc!Ref(Enc!IndexIn(eValues, item.n)))
             /\ eAssert' = (eAssert \/ Enc!IndexIn(eValues, item.n) = -1)
             /\ eStack' = r
             /\ UNCHANGED <<heap, api, eValues, eDefs>>
    <3>. DEFINE i == Enc!IndexIn(eValues, item.n)
    <3>1. i \in -1 .. Len(eValues) - 1
      BY <1>1, IndexRange
    <3>. HIDE DEF i
    <3>2. i \in Int
      BY <1>1, <3>1
    <3>3. Enc!Ref(i) = Ref(i) /\ Ref(i) \in Tokens
      BY <3>2, SameTokens, TokensMade
    <3>4. PutsLeaf(Ref(i))
      BY <2>3, <2>7, <3>3 DEF PutsLeaf, i
    <3>5. PutsRef
      BY <2>3, <2>7, <3>1, <3>4 DEF PutsRef, i
    <3>. QED
      BY <2>2, <2>3, <2>7, <3>5
  <2>8. CASE /\ item.i = "bad"
             /\ eStack' = r
             /\ UNCHANGED <<heap, api, eValues, eDefs, eWire, eAssert>>
    <3>1. PutsNothing
      BY <2>3, <2>8 DEF PutsNothing
    <3>. QED
      BY <2>2, <2>3, <2>8, <3>1
  <2>. QED
    BY <2>1, <2>5, <2>6, <2>7, <2>8 DEF Enc!WriteKid, r
<1>. QED
  BY <1>2, <1>3 DEF Enc!EncNext

LEMMA StackStays ==
    ASSUME heap' = heap, StackOK(eStack')
    PROVE  StackOK(eStack)'
BY DEF StackOK, FrameOK, Frames, Kids

LEMMA TypeInit == Enc!EncInit => EncTypeOK /\ heap \in Heaps /\ 1 \in DOMAIN heap
<1>. SUFFICES ASSUME Enc!EncInit PROVE EncTypeOK /\ heap \in Heaps /\ 1 \in DOMAIN heap
  OBVIOUS
<1>. USE DEF Enc!EncInit
<1>1. heap \in Heaps /\ 1 \in DOMAIN heap
  BY HeapNumbers
<1>2. PICK form \in Enc!Forms(1) : /\ eStack = <<Enc!Frame(1, form)>>
                                   /\ eWire = Enc!Header(1, form, <<>>)
  OBVIOUS
<1>3. FrameOK(Enc!Frame(1, form))
  BY <1>1, NewFrameOK
<1>4. StackOK(eStack)
  <2>. DEFINE g == Enc!Frame(1, form)
  <2>. HIDE DEF g
  <2>1. g \in Frames /\ FrameOK(g) /\ eStack = <<g>>
    BY <1>2, <1>3 DEF FrameOK, g
  <2>2. <<g>> \in Seq(Frames) /\ Len(<<g>>) = 1 /\ <<g>>[1] = g
    BY <2>1
  <2>. QED
    BY <2>1, <2>2 DEF StackOK
<1>5. eWire \in Seq(Tokens) /\ eDefs \in Seq(Nat)
  <2>1. form \in {"fixed", "var"} /\ (form = "var" => heap[1].kind = "list") /\ <<>> \in Seq(Nat)
    BY DEF Enc!Forms
  <2>. QED
    BY <1>1, <1>2, <2>1, HeaderCases
<1>6. eValues \in Seq(DOMAIN heap)
  <2>1. <<>> \in Seq(DOMAIN heap) /\ <<1>> \in Seq(DOMAIN heap)
    BY <1>1
  <2>2. eValues = <<>> \/ eValues = <<1>>
    OBVIOUS
  <2>. QED
    BY ONLY <2>1, <2>2
<1>7. api = "begin" => \A o \in DOMAIN heap : \A j \in DOMAIN Kids(o) : Kids(o)[j].i # "ref"
  BY DEF Enc!Kids, Kids
<1>. QED
  BY <1>1, <1>4, <1>5, <1>6, <1>7 DEF EncTypeOK

LEMMA TypeStep ==
    ASSUME EncTypeOK, Enc!EncNext
    PROVE  EncTypeOK'
<1>1. /\ heap' = heap /\ api' = api /\ eStack # <<>> /\ StackOK(eStack')
      /\ PutsScalar \/ PutsRef \/ PutsNothing \/ PutsHeader \/ PutsTrailer
  BY EncodeCases
<1>2. /\ heap \in Heaps /\ api \in {"encode", "begin"}
      /\ StackOK(eStack) /\ eValues \in Seq(DOMAIN heap) /\ eDefs \in Seq(Nat)
      /\ eWire \in Seq(Tokens) /\ eAssert \in BOOLEAN
  BY DEF EncTypeOK
<1>3. StackOK(eStack)'
  BY <1>1, StackStays
<1>4. FrameOK(eStack[1]) /\ eStack[1].o \in DOMAIN heap
  BY <1>1, <1>2, TailOK DEF FrameOK, Frames
<1>5. api = "begin" => /\ \A o \in DOMAIN heap : \A j \in DOMAIN Kids(o) : Kids(o)[j].i # "ref"
                       /\ ~eAssert
  BY DEF EncTypeOK
<1>6. /\ eWire' \in Seq(Tokens) /\ eValues' \in Seq(DOMAIN heap) /\ eDefs' \in Seq(Nat)
      /\ eAssert' \in BOOLEAN /\ (api = "begin" => ~eAssert')
  <2>1. CASE PutsScalar
    BY <1>2, <1>5, <2>1 DEF PutsScalar, PutsLeaf
  <2>2. CASE PutsRef
    BY <1>2, <1>4, <1>5, <2>2 DEF PutsRef, PutsLeaf
  <2>3. CASE PutsNothing
    BY <1>2, <1>5, <2>3 DEF PutsNothing
  <2>4. CASE PutsHeader
    <3>. DEFINE f == eStack'[1]
    <3>1. /\ FrameOK(f) /\ f.o \in DOMAIN heap /\ eAssert' = eAssert
          /\ eWire' = eWire \o Enc!Header(f.o, f.form, eDefs)
          /\ eValues' = IF api = "begin" THEN eValues ELSE Append(eValues, f.o)
          /\ eDefs' = Enc!Known(f.o, eDefs)
      BY <2>4 DEF PutsHeader
    <3>2. f.form \in {"fixed", "var"} /\ (f.form = "var" => heap[f.o].kind = "list")
      BY <3>1 DEF FrameOK, Frames
    <3>. HIDE DEF f
    <3>3. Enc!Header(f.o, f.form, eDefs) \in Seq(Tokens) /\ Enc!Known(f.o, eDefs) \in Seq(Nat)
      BY <1>2, <3>1, <3>2, HeaderCases
    <3>4. Append(eValues, f.o) \in Seq(DOMAIN heap)
      BY <1>2, <3>1
    <3>5. eValues' \in Seq(DOMAIN heap)
      BY <1>2, <3>1, <3>4
    <3>6. eWire' \in Seq(Tokens)
      BY <1>2, <3>1, <3>3, SeqConcat
    <3>. QED
      BY <1>2, <1>5, <3>1, <3>3, <3>5, <3>6
  <2>5. CASE PutsTrailer
    <3>1. eWire' \in Seq(Tokens)
      BY <1>2, <2>5, TrailerCases, SeqConcat DEF PutsTrailer
    <3>. QED
      BY <1>2, <1>5, <2>5, <3>1 DEF PutsTrailer
  <2>. QED
    BY <1>1, <2>1, <2>2, <2>3, <2>4, <2>5
<1>. QED
  BY <1>1, <1>2, <1>3, <1>5, <1>6 DEF EncTypeOK, Kids

-----------------------------------------------------------------------------
(* What encloses a container is registered before its elements *)

LEMMA EnclosesRoot ==
    ASSUME NEW h \in Heaps, NEW a \in DOMAIN h, Encloses(h, a, 1)
    PROVE  a = 1
<1>1. /\ 1 \in DOMAIN h
      /\ \A p \in DOMAIN h : \A j \in DOMAIN h[p].kids : h[p].kids[j].i = "own" => h[p].kids[j].n # 1
  BY HeapNumbers
<1>2. {1} \in SUBSET DOMAIN h
  BY <1>1
<1>3. a \in {1}
  BY <1>1, <1>2 DEF Encloses
<1>. QED
  BY <1>3

\* What encloses a container encloses its owner, or is that container.
LEMMA EnclosesOwned ==
    ASSUME NEW h \in Heaps, NEW p \in DOMAIN h, NEW j \in DOMAIN h[p].kids,
           h[p].kids[j].i = "own", NEW o, o = h[p].kids[j].n,
           NEW a \in DOMAIN h, Encloses(h, a, o), a # o
    PROVE  Encloses(h, a, p)
<1>1. o \in DOMAIN h
  BY HeapsAssumption
<1>2. \A q \in DOMAIN h : \A k \in DOMAIN h[q].kids :
          h[q].kids[k].i = "own" /\ h[q].kids[k].n = o => q = p
  BY HeapsAssumption
<1>. SUFFICES ASSUME NEW S \in SUBSET DOMAIN h, p \in S,
                     \A q \in DOMAIN h : \A k \in DOMAIN h[q].kids :
                         h[q].kids[k].i = "own" /\ h[q].kids[k].n \in S => q \in S
              PROVE  a \in S
  BY DEF Encloses
<1>. DEFINE T == S \cup {o}
<1>3. T \in SUBSET DOMAIN h /\ o \in T
  BY <1>1
<1>4. \A q \in DOMAIN h : \A k \in DOMAIN h[q].kids :
          h[q].kids[k].i = "own" /\ h[q].kids[k].n \in T => q \in T
  BY <1>2
<1>. HIDE DEF T
<1>5. a \in T
  BY <1>3, <1>4 DEF Encloses
<1>. QED
  BY <1>5 DEF T

Registered(a) == \E i \in 1 .. Len(eValues) : eValues[i] = a

LEMMA AboveInit == Enc!EncInit => AboveRegistered
<1>. SUFFICES ASSUME Enc!EncInit, api = "encode", NEW k \in 1 .. Len(eStack),
                     NEW a \in DOMAIN heap, Encloses(heap, a, eStack[k].o)
              PROVE  Registered(a)
  BY DEF AboveRegistered, Registered
<1>1. heap \in Heaps /\ 1 \in DOMAIN heap
  BY TypeInit
<1>2. PICK form \in Enc!Forms(1) : eStack = <<Enc!Frame(1, form)>>
  BY DEF Enc!EncInit
<1>3. Enc!Frame(1, form).o = 1
  BY <1>1, NewFrameOK
<1>4. k = 1 /\ eStack[k].o = 1
  BY <1>2, <1>3
<1>5. a = 1
  BY <1>1, <1>4, EnclosesRoot
<1>6. eValues = <<1>>
  BY DEF Enc!EncInit
<1>. QED
  BY <1>5, <1>6 DEF Registered

LEMMA AboveStep ==
    ASSUME EncTypeOK, AboveRegistered, Enc!EncNext
    PROVE  AboveRegistered'
<1>1. /\ heap' = heap /\ api' = api /\ eStack # <<>> /\ StackOK(eStack')
      /\ PutsScalar \/ PutsRef \/ PutsNothing \/ PutsHeader \/ PutsTrailer
  BY EncodeCases
<1>2. heap \in Heaps /\ StackOK(eStack) /\ eValues \in Seq(DOMAIN heap)
  BY DEF EncTypeOK
<1>3. /\ FrameOK(eStack[1]) /\ eStack[1].o \in DOMAIN heap /\ Len(eStack) \in Nat /\ Len(eStack) >= 1
      /\ Len(Tail(eStack)) = Len(eStack) - 1
      /\ \A k \in 1 .. Len(eStack) - 1 : Tail(eStack)[k] = eStack[k + 1]
  BY <1>1, <1>2, TailOK DEF FrameOK, Frames
<1>. SUFFICES ASSUME api = "encode", NEW k \in 1 .. Len(eStack'), NEW a \in DOMAIN heap,
                     Encloses(heap, a, eStack'[k].o)
              PROVE  \E i \in 1 .. Len(eValues') : eValues'[i] = a
  BY <1>1 DEF AboveRegistered
<1>4. ASSUME NEW m \in 1 .. Len(eStack), Encloses(heap, a, eStack[m].o) PROVE Registered(a)
  BY <1>4 DEF AboveRegistered, Registered
<1>5. ASSUME eValues' = eValues, NEW m \in 1 .. Len(eStack), eStack'[k].o = eStack[m].o
      PROVE  \E i \in 1 .. Len(eValues') : eValues'[i] = a
  BY <1>4, <1>5 DEF Registered
<1>6. CASE PutsScalar \/ PutsRef \/ PutsNothing
  BY <1>3, <1>5, <1>6 DEF PutsScalar, PutsRef, PutsNothing, PutsLeaf
<1>7. CASE PutsTrailer
  <2>1. eStack' = Tail(eStack) /\ eValues' = eValues
    BY <1>7 DEF PutsTrailer
  <2>2. k + 1 \in 1 .. Len(eStack) /\ eStack'[k] = eStack[k + 1]
    BY <1>3, <2>1
  <2>. QED
    BY <1>5, <2>1, <2>2
<1>8. CASE PutsHeader
  <2>. DEFINE o == eStack'[1].o
  <2>1. /\ Len(eStack') = Len(eStack) + 1
        /\ \A m \in 1 .. Len(eStack) : eStack'[m + 1].o = eStack[m].o
        /\ eValues' = Append(eValues, o) /\ o \in DOMAIN heap
    BY <1>8 DEF PutsHeader
  <2>2. PICK j \in DOMAIN Kids(eStack[1].o) : Kids(eStack[1].o)[j].i = "own" /\ o = Kids(eStack[1].o)[j].n
    BY <1>8 DEF PutsHeader
  <2>. HIDE DEF o
  <2>3. /\ Len(eValues) \in Nat /\ Len(eValues') = Len(eValues) + 1 /\ eValues'[Len(eValues) + 1] = o
        /\ \A i \in 1 .. Len(eValues) : eValues'[i] = eValues[i]
    BY <1>2, <2>1
  <2>4. Registered(a) => \E i \in 1 .. Len(eValues') : eValues'[i] = a
    BY <2>3 DEF Registered
  <2>5. CASE k = 1
    <3>1. CASE a = o
      BY <2>3, <3>1
    <3>2. CASE a # o
      <4>1. Encloses(heap, a, o)
        BY <2>5 DEF o
      <4>2. Encloses(heap, a, eStack[1].o)
        BY <1>2, <1>3, <2>2, <3>2, <4>1, EnclosesOwned DEF Kids
      <4>. QED
        BY <1>3, <1>4, <2>4, <4>2
    <3>. QED
      BY <3>1, <3>2
  <2>6. CASE k # 1
    <3>1. k - 1 \in 1 .. Len(eStack) /\ (k - 1) + 1 = k
      BY <1>3, <2>1, <2>6
    <3>2. eStack'[k].o = eStack[k - 1].o
      BY <2>1, <3>1
    <3>. QED
      BY <1>4, <2>4, <3>1, <3>2
  <2>. QED
    BY <2>5, <2>6
<1>. QED
  BY <1>1, <1>6, <1>7, <1>8

LEMMA UpwardStep ==
    ASSUME EncInv, Enc!EncNext, RefsUpward
    PROVE  ~eAssert'
<1>1. /\ eStack # <<>>
      /\ PutsScalar \/ PutsRef \/ PutsNothing \/ PutsHeader \/ PutsTrailer
  BY EncodeCases DEF EncInv
<1>2. ~eAssert /\ heap \in Heaps /\ StackOK(eStack) /\ eValues \in Seq(DOMAIN heap)
  BY DEF EncInv, EncTypeOK
<1>3. CASE PutsRef
  <2>. DEFINE o == eStack[1].o
  <2>1. PICK j \in Enc!NextKids(eStack[1]) :
            /\ j \in DOMAIN Kids(o) /\ Kids(o)[j].i = "ref"
            /\ eAssert' = (eAssert \/ Enc!IndexIn(eValues, Kids(o)[j].n) = -1)
    BY <1>3 DEF PutsRef
  <2>2. o \in DOMAIN heap /\ 1 \in 1 .. Len(eStack)
    BY <1>1, <1>2, TailOK DEF FrameOK, Frames
  <2>3. Kids(o)[j].n \in DOMAIN heap
    BY <1>2, <2>1, <2>2, HeapFacts
  <2>4. Encloses(heap, Kids(o)[j].n, o)
    BY <2>1, <2>2 DEF RefsUpward, Kids
  <2>5. api = "encode"
    BY <2>1, <2>2 DEF EncInv, EncTypeOK
  <2>6. \E i \in 1 .. Len(eValues) : eValues[i] = Kids(o)[j].n
    BY <2>2, <2>3, <2>4, <2>5 DEF EncInv, AboveRegistered
  <2>7. Enc!IndexIn(eValues, Kids(o)[j].n) # -1
    BY <1>2, <2>6, IndexRange
  <2>. QED
    BY <1>2, <2>1, <2>7
<1>4. CASE PutsScalar \/ PutsNothing \/ PutsHeader \/ PutsTrailer
  BY <1>2, <1>4 DEF PutsScalar, PutsNothing, PutsHeader, PutsTrailer
<1>. QED
  BY <1>1, <1>3, <1>4

LEMMA EncUnchanged ==
    ASSUME EncInv, UNCHANGED <<heap, api, eStack, eValues, eDefs, eWire, eAssert>>
    PROVE  EncInv'
<1>1. EncTypeOK'
  BY DEF EncInv, EncTypeOK, StackOK, FrameOK, Frames, Kids
<1>2. AboveRegistered'
  BY DEF EncInv, AboveRegistered
<1>3. (RefsUpward => ~eAssert)'
  BY DEF EncInv, RefsUpward
<1>. QED
  BY <1>1, <1>2, <1>3 DEF EncInv

LEMMA EncInvInit == Init => EncInv
BY TypeInit, AboveInit DEF Init, Enc!EncInit, EncInv

LEMMA EncInvNext == EncInv /\ [Next]_vars => EncInv'
<1>. SUFFICES ASSUME EncInv, [Next]_vars PROVE EncInv'
  OBVIOUS
<1>1. CASE Encode
  <2>1. Enc!EncNext
    BY <1>1 DEF Encode
  <2>2. EncTypeOK' /\ AboveRegistered' /\ heap' = heap
    BY <2>1, TypeStep, AboveStep, EncodeCases DEF EncInv
  <2>3. RefsUpward' => RefsUpward
    BY <2>2 DEF RefsUpward
  <2>4. (RefsUpward => ~eAssert)'
    BY <2>1, <2>3, UpwardStep
  <2>. QED
    BY <2>2, <2>4 DEF EncInv
<1>2. CASE Decode
  <2>1. eWire' = eWire
    BY <1>2 DEF Decode, Dec!DecNext, Dec!Call, Dec!Take, Dec!Reject, Dec!Scalars, Dec!Reference,
       Dec!Definition, Dec!DefinitionThrows, Dec!MalformedDefinition, Dec!Abort, Dec!Unwind,
       Dec!List, Dec!VariableList, Dec!MapObject, Dec!MalformedHeader, Dec!Instance,
       Dec!Enter, Dec!EnterAndFail, Dec!AskElement, Dec!NoEnd, Dec!AppendElement, Dec!HoldKey,
       Dec!Emplace, Dec!Finish, Dec!HashNothing
  <2>. QED
    BY <1>2, <2>1, EncUnchanged DEF Decode
<1>3. CASE UNCHANGED vars
  BY <1>3, EncUnchanged DEF vars
<1>. QED
  BY <1>1, <1>2, <1>3 DEF Next

\* encode<RefObject> finds its destination (ABSL_ASSERT(ref != -1)) in every graph whose
\* references are to containers that enclose their holder, whatever the order in which
\* the maps are iterated, and of whatever size.
THEOREM DestinationFound == Spec => [](RefsUpward => DestinationRegistered)
<1>1. EncInv => (RefsUpward => DestinationRegistered)
  BY DEF EncInv, DestinationRegistered
<1>. QED
  BY <1>1, EncInvInit, EncInvNext, PTL DEF Spec

-----------------------------------------------------------------------------
(* The record of an encode grows with each step and is never rewritten *)

\* What is on the wire and in the tables stays.
Extends ==
    /\ heap' = heap /\ api' = api
    /\ Len(eWire) \in Nat /\ Len(eWire') \in Nat /\ Len(eWire) <= Len(eWire')
    /\ \A i \in 1 .. Len(eWire) : eWire'[i] = eWire[i]
    /\ Len(eValues) \in Nat /\ Len(eValues') \in Nat /\ Len(eValues) <= Len(eValues')

LEMMA HandlerStays ==
    ASSUME heap' = heap, api' = api
    PROVE  /\ \A f : Enc!NextKids(f)' = Enc!NextKids(f)
           /\ \A f, j : Enc!Advance(f, j)' = Enc!Advance(f, j)
           /\ \A o, form, known : Enc!Header(o, form, known)' = Enc!Header(o, form, known)
           /\ \A f : Enc!Trailer(f)' = Enc!Trailer(f)
           /\ \A o, form : Enc!Frame(o, form)' = Enc!Frame(o, form)
           /\ \A o, known : Enc!Known(o, known)' = Enc!Known(o, known)
<1>1. ASSUME NEW f PROVE Enc!NextKids(f)' = Enc!NextKids(f)
  BY Zenon DEF Enc!NextKids
<1>2. ASSUME NEW f, NEW j PROVE Enc!Advance(f, j)' = Enc!Advance(f, j)
  BY Zenon DEF Enc!Advance
<1>3. ASSUME NEW o, NEW form, NEW known
      PROVE  Enc!Header(o, form, known)' = Enc!Header(o, form, known)
  BY DEF Enc!Header, Enc!Kids
<1>4. ASSUME NEW f PROVE Enc!Trailer(f)' = Enc!Trailer(f)
  BY DEF Enc!Trailer
<1>5. ASSUME NEW o, NEW form PROVE Enc!Frame(o, form)' = Enc!Frame(o, form)
  BY DEF Enc!Frame, Enc!Kids
<1>6. ASSUME NEW o, NEW known PROVE Enc!Known(o, known)' = Enc!Known(o, known)
  BY DEF Enc!Known, Enc!Kids
<1>. QED
  BY <1>1, <1>2, <1>3, <1>4, <1>5, <1>6

LEMMA MovedStays ==
    ASSUME heap' = heap, api' = api, NEW s, NEW t
    PROVE  Moved(s, t) <=> Moved(s, t)'
<1>1. Enc!NextKids(s[1])' = Enc!NextKids(s[1])
  BY HandlerStays
<1>2. \A j : Enc!Advance(s[1], j)' = Enc!Advance(s[1], j)
  BY HandlerStays
<1>. QED
  BY <1>1, <1>2, Zenon DEF Moved

LEMMA HoldsStays ==
    ASSUME Extends, NEW at \in Nat, NEW t, Len(t) \in Nat, at + Len(t) <= Len(eWire), Holds(at, t)
    PROVE  Holds(at, t)'
<1>1. \A i \in 1 .. Len(t) : at + i \in 1 .. Len(eWire)
  BY DEF Extends
<1>. QED
  BY <1>1 DEF Extends, Holds

LEMMA HeaderLen ==
    ASSUME heap \in Heaps, NEW f, FrameOK(f), NEW known \in Seq(Nat)
    PROVE  /\ Enc!Header(f.o, f.form, known) \in Seq(Tokens)
           /\ Len(Enc!Header(f.o, f.form, known)) \in {1, 2}
<1>1. f.o \in DOMAIN heap /\ f.form \in {"fixed", "var"} /\ (f.form = "var" => heap[f.o].kind = "list")
  BY DEF FrameOK, Frames
<1>. QED
  BY <1>1, HeaderCases

\* What the record says of a step stays true.
LEMMA RecordStays ==
    ASSUME heap \in Heaps, Extends, \A i \in 1 .. Len(eValues) : eValues'[i] = eValues[i],
           NEW a \in Entries, NEW b \in Entries, EntryOK(a), EntryOK(b)
    PROVE  /\ EntryOK(b)'
           /\ Leaves(a, b) => Leaves(a, b)'
           /\ Opens(a, b) => Opens(a, b)'
           /\ Closes(a, b) => Closes(a, b)'
<1>1. heap' = heap /\ api' = api
  BY DEF Extends
<1>2. a.at \in Nat /\ b.at \in Nat /\ a.defs \in Seq(Nat) /\ b.at <= Len(eWire) /\ b.num <= Len(eValues) /\ b.num \in Nat
  BY DEF Entries, EntryOK
<1>3. EntryOK(b)'
  <2>1. StackOK(b.stack)'
    BY <1>1 DEF EntryOK, StackOK, FrameOK, Frames, Kids
  <2>. QED
    BY <1>2, <2>1 DEF EntryOK, Extends
<1>4. ASSUME Leaves(a, b) PROVE Leaves(a, b)'
  <2>1. Moved(a.stack, b.stack)'
    BY <1>1, <1>4, MovedStays DEF Leaves
  <2>2. b.at \in 1 .. Len(eWire)
    BY <1>2, <1>4 DEF Leaves
  <2>3. eWire'[b.at] = eWire[b.at]
    BY <2>2 DEF Extends
  <2>. QED
    BY <1>1, <1>4, <2>1, <2>3 DEF Leaves
<1>5. ASSUME Opens(a, b) PROVE Opens(a, b)'
  <2>. DEFINE f == b.stack[1]
  <2>9. PICK h : h = Enc!Header(f.o, f.form, a.defs)
    OBVIOUS
  <2>1. /\ b.stack # <<>> /\ f = Enc!Frame(f.o, f.form)
        /\ IF a.stack = <<>> THEN Tail(b.stack) = <<>> ELSE Moved(a.stack, Tail(b.stack))
        /\ b.at = a.at + Len(h) /\ Holds(a.at, h)
        /\ b.defs = Enc!Known(f.o, a.defs)
        /\ b.num = IF api = "begin" THEN a.num ELSE a.num + 1
        /\ api = "encode" => b.num \in 1 .. Len(eValues) /\ eValues[b.num] = f.o
    BY <1>5, <2>9 DEF Opens
  <2>2. FrameOK(f)
    BY <2>1, TailOK DEF EntryOK
  <2>3. Len(h) \in Nat
    BY <1>2, <2>2, <2>9, HeaderLen
  <2>4. Enc!Header(f.o, f.form, a.defs)' = h
    BY <1>1, <2>9, HandlerStays
  <2>5. Enc!Frame(f.o, f.form)' = f /\ Enc!Known(f.o, a.defs)' = b.defs
    BY <1>1, <2>1, HandlerStays
  <2>6. IF a.stack = <<>> THEN Tail(b.stack) = <<>> ELSE Moved(a.stack, Tail(b.stack))'
    BY <1>1, <2>1, MovedStays
  <2>7. Holds(a.at, h)'
    BY <1>2, <2>1, <2>3, HoldsStays
  <2>8. Holds(a.at, Enc!Header(f.o, f.form, a.defs))'
    BY <2>4, <2>7 DEF Holds
  <2>10. api = "encode" => b.num \in 1 .. Len(eValues') /\ eValues'[b.num] = f.o
    BY <2>1 DEF Extends
  <2>. QED
    BY <1>1, <2>1, <2>4, <2>5, <2>6, <2>8, <2>10 DEF Opens
<1>6. ASSUME Closes(a, b) PROVE Closes(a, b)'
  <2>9. PICK h : h = Enc!Trailer(a.stack[1])
    OBVIOUS
  <2>1. /\ a.stack # <<>> /\ Enc!NextKids(a.stack[1]) = {}
        /\ b.stack = Tail(a.stack)
        /\ b.at = a.at + Len(h) /\ Holds(a.at, h)
        /\ b.defs = a.defs /\ b.num = a.num
    BY <1>6, <2>9 DEF Closes
  <2>2. Len(h) \in Nat
    BY <2>9, TrailerCases
  <2>3. Enc!Trailer(a.stack[1])' = h /\ Enc!NextKids(a.stack[1])' = {}
    BY <1>1, <2>1, <2>9, HandlerStays
  <2>4. Holds(a.at, h)'
    BY <1>2, <2>1, <2>2, HoldsStays
  <2>5. Holds(a.at, Enc!Trailer(a.stack[1]))'
    BY <2>3, <2>4 DEF Holds
  <2>. QED
    BY <2>1, <2>3, <2>5 DEF Closes
<1>. QED
  BY <1>3, <1>4, <1>5, <1>6

-----------------------------------------------------------------------------
(* A step of encode is recorded *)

LEMMA StepExtends ==
    ASSUME EncTypeOK, Enc!EncNext
    PROVE  Extends
<1>1. /\ heap' = heap /\ api' = api /\ eStack # <<>>
      /\ PutsScalar \/ PutsRef \/ PutsNothing \/ PutsHeader \/ PutsTrailer
  BY EncodeCases
<1>2. /\ heap \in Heaps /\ StackOK(eStack) /\ eValues \in Seq(DOMAIN heap) /\ eDefs \in Seq(Nat)
      /\ eWire \in Seq(Tokens)
  BY DEF EncTypeOK
<1>3. Len(eWire) \in Nat /\ Len(eValues) \in Nat
  BY <1>2
<1>4. ASSUME NEW t \in Seq(Tokens), eWire' = eWire \o t,
             Len(eValues') \in Nat, Len(eValues) <= Len(eValues')
      PROVE  Extends
  BY <1>1, <1>2, <1>3, <1>4, SeqConcat DEF Extends
<1>5. ASSUME NEW t \in Tokens, eWire' = Append(eWire, t), eValues' = eValues PROVE Extends
  BY <1>1, <1>2, <1>3, <1>5 DEF Extends
<1>6. CASE PutsScalar \/ PutsRef
  BY <1>5, <1>6 DEF PutsScalar, PutsRef, PutsLeaf
<1>7. CASE PutsNothing
  BY <1>1, <1>3, <1>7 DEF PutsNothing, Extends
<1>8. CASE PutsHeader
  <2>. DEFINE f == eStack'[1]
  <2>1. /\ FrameOK(f) /\ f.o \in DOMAIN heap
        /\ eWire' = eWire \o Enc!Header(f.o, f.form, eDefs)
        /\ eValues' = IF api = "begin" THEN eValues ELSE Append(eValues, f.o)
    BY <1>8 DEF PutsHeader
  <2>. HIDE DEF f
  <2>2. Enc!Header(f.o, f.form, eDefs) \in Seq(Tokens)
    BY <1>2, <2>1, HeaderLen
  <2>3. Len(eValues') \in Nat /\ Len(eValues) <= Len(eValues')
    BY <1>2, <1>3, <2>1
  <2>. QED
    BY <1>4, <2>1, <2>2, <2>3
<1>9. CASE PutsTrailer
  <2>1. eWire' = eWire \o Enc!Trailer(eStack[1]) /\ eValues' = eValues
    BY <1>9 DEF PutsTrailer
  <2>2. PICK t : t = Enc!Trailer(eStack[1])
    OBVIOUS
  <2>3. t \in Seq(Tokens) /\ eWire' = eWire \o t
    BY <2>1, <2>2, TrailerCases
  <2>4. Len(eValues') \in Nat /\ Len(eValues) <= Len(eValues')
    BY <1>3, <2>1
  <2>. QED
    BY <1>4, <2>3, <2>4
<1>. QED
  BY <1>1, <1>6, <1>7, <1>8, <1>9

LEMMA NowOK ==
    ASSUME EncTypeOK
    PROVE  Now \in Entries /\ EntryOK(Now)
<1>1. StackOK(eStack) /\ eValues \in Seq(DOMAIN heap) /\ eDefs \in Seq(Nat) /\ eWire \in Seq(Tokens)
  BY DEF EncTypeOK
<1>2. eStack \in Seq(Frames) /\ Len(eWire) \in Nat /\ Len(eValues) \in Nat
  BY <1>1 DEF StackOK
<1>. QED
  BY <1>1, <1>2 DEF Now, Entries, EntryOK

LEMMA HoldsNew ==
    ASSUME eWire \in Seq(Tokens), NEW t \in Seq(Tokens), eWire' = eWire \o t,
           NEW at, at = Len(eWire)
    PROVE  Holds(at, t)' /\ Len(eWire') = at + Len(t)
<1>1. \A i \in 1 .. Len(t) : eWire'[at + i] = t[i]
  BY SeqConcat
<1>2. Len(eWire') = at + Len(t)
  BY SeqConcat
<1>. QED
  BY <1>1, <1>2 DEF Holds

LEMMA StepRecords ==
    ASSUME EncTypeOK, EncTypeOK', Enc!EncNext, AllEncodable, ~eAssert',
           NEW a, a = Now, NEW b, b = Now'
    PROVE  a.stack # <<>> /\ (Leaves(a, b) \/ Opens(a, b) \/ Closes(a, b))'
<1>1. /\ heap' = heap /\ api' = api /\ eStack # <<>> /\ StackOK(eStack')
      /\ PutsScalar \/ PutsRef \/ PutsNothing \/ PutsHeader \/ PutsTrailer
  BY EncodeCases
<1>2. /\ heap \in Heaps /\ StackOK(eStack) /\ eValues \in Seq(DOMAIN heap) /\ eDefs \in Seq(Nat)
      /\ eWire \in Seq(Tokens) /\ eAssert \in BOOLEAN /\ api \in {"encode", "begin"}
      /\ eStack[1].o \in DOMAIN heap
  BY <1>1, TailOK DEF EncTypeOK, FrameOK, Frames
<1>3. /\ a.stack = eStack /\ a.at = Len(eWire) /\ a.defs = eDefs /\ a.num = Len(eValues)
      /\ b.stack = eStack' /\ b.at = Len(eWire') /\ b.defs = eDefs' /\ b.num = Len(eValues')
  BY DEF Now
<1>4. a.at \in Nat /\ a.num \in Nat
  BY <1>2, <1>3
<1>5. ASSUME NEW t \in Tokens, PutsLeaf(t),
             \/ t.op = "leaf"
             \/ t.op = "ref" /\ api = "encode" /\ t.n \in 0 .. a.num - 1
      PROVE  Leaves(a, b)'
  <2>1. /\ Moved(a.stack, b.stack) /\ eWire' = Append(eWire, t) /\ b.defs = a.defs /\ b.num = a.num
        /\ a.stack # <<>>
    BY <1>1, <1>3, <1>5 DEF PutsLeaf
  <2>2. Moved(a.stack, b.stack)'
    BY <1>1, <2>1, MovedStays
  <2>3. b.at = a.at + 1 /\ eWire'[b.at] = t
    BY <1>2, <1>3, <2>1
  <2>. QED
    BY <1>1, <1>5, <2>1, <2>2, <2>3 DEF Leaves
<1>6. CASE PutsScalar
  BY <1>1, <1>3, <1>5, <1>6, TokensMade DEF PutsScalar, PutsLeaf
<1>7. CASE PutsRef
  <2>. DEFINE o == eStack[1].o
  <2>1. PICK j \in Enc!NextKids(eStack[1]) :
            /\ j \in DOMAIN Kids(o) /\ Kids(o)[j].i = "ref"
            /\ Enc!IndexIn(eValues, Kids(o)[j].n) \in -1 .. Len(eValues) - 1
            /\ PutsLeaf(Ref(Enc!IndexIn(eValues, Kids(o)[j].n)))
            /\ eAssert' = (eAssert \/ Enc!IndexIn(eValues, Kids(o)[j].n) = -1)
    BY <1>7 DEF PutsRef
  <2>2. PICK i : i = Enc!IndexIn(eValues, Kids(o)[j].n)
    OBVIOUS
  <2>6. i # -1
    BY <2>1, <2>2
  <2>7. i \in -1 .. Len(eValues) - 1
    BY <2>1, <2>2
  <2>3. i \in 0 .. a.num - 1 /\ i \in Int
    BY ONLY <1>3, <1>4, <2>6, <2>7
  <2>4. api = "encode"
    BY <1>2, <2>1 DEF EncTypeOK
  <2>5. Ref(i) \in Tokens /\ Ref(i).op = "ref" /\ Ref(i).n = i /\ PutsLeaf(Ref(i))
    BY <2>1, <2>2, <2>3, TokensMade
  <2>. QED
    BY <1>1, <1>3, <1>5, <2>3, <2>4, <2>5
<1>8. CASE PutsNothing
  BY <1>2, <1>8 DEF PutsNothing, AllEncodable, Kids
<1>9. CASE PutsHeader
  <2>. DEFINE f == b.stack[1]
              h == Enc!Header(f.o, f.form, eDefs)
  <2>1. /\ Moved(a.stack, Tail(b.stack)) /\ b.stack # <<>>
        /\ f = Enc!Frame(f.o, f.form) /\ FrameOK(f)
        /\ eWire' = eWire \o h
        /\ eValues' = IF api = "begin" THEN eValues ELSE Append(eValues, f.o)
        /\ f.o \in DOMAIN heap
        /\ b.defs = Enc!Known(f.o, eDefs)
    BY <1>3, <1>9 DEF PutsHeader
  <2>2. PICK t : t = h
    OBVIOUS
  <2>3. t \in Seq(Tokens)
    BY <1>2, <2>1, <2>2, HeaderLen
  <2>4. Holds(a.at, t)' /\ b.at = a.at + Len(t)
    BY <1>2, <1>3, <2>1, <2>2, <2>3, HoldsNew
  <2>5. Enc!Header(f.o, f.form, a.defs)' = t
    BY <1>1, <1>3, <2>2, HandlerStays
  <2>6. Enc!Frame(f.o, f.form)' = f /\ Enc!Known(f.o, a.defs)' = b.defs
    BY <1>1, <1>3, <2>1, HandlerStays
  <2>7. Moved(a.stack, Tail(b.stack))'
    BY <1>1, <2>1, MovedStays
  <2>8. b.num = IF api = "begin" THEN a.num ELSE a.num + 1
    BY <1>2, <1>3, <2>1
  <2>10. api = "encode" => b.num \in 1 .. Len(eValues') /\ eValues'[b.num] = f.o
    BY <1>2, <1>3, <2>1
  <2>9. Opens(a, b)'
    BY <1>1, <1>3, <2>1, <2>4, <2>5, <2>6, <2>7, <2>8, <2>10 DEF Opens
  <2>. QED
    BY <1>1, <1>3, <2>9
<1>10. CASE PutsTrailer
  <2>1. /\ Enc!NextKids(a.stack[1]) = {} /\ b.stack = Tail(a.stack)
        /\ eWire' = eWire \o Enc!Trailer(a.stack[1])
        /\ b.defs = a.defs /\ b.num = a.num
    BY <1>3, <1>10 DEF PutsTrailer
  <2>2. PICK t : t = Enc!Trailer(a.stack[1])
    OBVIOUS
  <2>3. t \in Seq(Tokens)
    BY <2>2, TrailerCases
  <2>4. Holds(a.at, t)' /\ b.at = a.at + Len(t)
    BY <1>2, <1>3, <2>1, <2>2, <2>3, HoldsNew
  <2>5. Enc!Trailer(a.stack[1])' = t /\ Enc!NextKids(a.stack[1])' = {}
    BY <1>1, <2>1, <2>2, HandlerStays
  <2>6. Closes(a, b)'
    BY <1>1, <1>3, <2>1, <2>4, <2>5 DEF Closes
  <2>. QED
    BY <1>1, <1>3, <2>6
<1>. QED
  BY <1>1, <1>6, <1>7, <1>8, <1>9, <1>10

\* The element, the header or the end that it writes.

LEMMA ValuesGrow ==
    ASSUME EncTypeOK, Enc!EncNext
    PROVE  \A i \in 1 .. Len(eValues) : eValues'[i] = eValues[i]
<1>1. /\ heap' = heap /\ api' = api /\ eStack # <<>>
      /\ PutsScalar \/ PutsRef \/ PutsNothing \/ PutsHeader \/ PutsTrailer
  BY EncodeCases
<1>2. eValues' = eValues \/ \E o \in DOMAIN heap : eValues' = Append(eValues, o)
  BY <1>1 DEF PutsScalar, PutsRef, PutsLeaf, PutsNothing, PutsHeader, PutsTrailer
<1>3. eValues \in Seq(DOMAIN heap)
  BY DEF EncTypeOK
<1>. QED
  BY <1>2, <1>3

LEMMA WroteStays ==
    ASSUME Extends, \A i \in 1 .. Len(eValues) : eValues'[i] = eValues[i],
           NEW a \in Entries, NEW b \in Entries, EntryOK(a), EntryOK(b), Wrote(a, b)
    PROVE  Wrote(a, b)'
<1>1. heap' = heap /\ api' = api /\ Len(eValues) \in Nat /\ Len(eValues') \in Nat
      /\ Len(eValues) <= Len(eValues')
  BY DEF Extends
<1>2. /\ \A f : Enc!NextKids(f)' = Enc!NextKids(f)
      /\ \A f, j : Enc!Advance(f, j)' = Enc!Advance(f, j)
      /\ \A o : Kids(o)' = Kids(o)
  BY <1>1, HandlerStays DEF Kids
<1>3. b.at \in Nat /\ b.at <= Len(eWire)
  BY DEF Entries, EntryOK
<1>4. ASSUME NEW item, NEW t, Shown(item, t) PROVE Shown(item, t)'
  <2>1. CASE item.i = "scalar" /\ t.op = "leaf" /\ t.n = item.n
    BY <2>1 DEF Shown
  <2>2. CASE /\ item.i = "ref" /\ t.op = "ref" /\ t.n \in Nat /\ t.n + 1 <= Len(eValues)
             /\ eValues[t.n + 1] = item.n /\ \A k \in 1 .. t.n : eValues[k] # item.n
    <3>1. t.n + 1 \in 1 .. Len(eValues) /\ \A k \in 1 .. t.n : k \in 1 .. Len(eValues)
      BY <1>1, <2>2
    <3>2. t.n + 1 <= Len(eValues') /\ eValues'[t.n + 1] = item.n
          /\ \A k \in 1 .. t.n : eValues'[k] # item.n
      BY <1>1, <2>2, <3>1
    <3>. QED
      BY <2>2, <3>2 DEF Shown
  <2>. QED
    BY <1>4, <2>1, <2>2 DEF Shown
<1>5. ASSUME WroteLeaf(a, b) PROVE WroteLeaf(a, b)'
  <2>1. PICK j \in Enc!NextKids(a.stack[1]) :
            /\ b.stack = <<Enc!Advance(a.stack[1], j)>> \o Tail(a.stack)
            /\ Shown(Kids(a.stack[1].o)[j], eWire[b.at])
    BY <1>5 DEF WroteLeaf
  <2>2. b.at >= 1
    BY <1>5 DEF WroteLeaf
  <2>3. eWire'[b.at] = eWire[b.at]
    BY <1>3, <2>2 DEF Extends
  <2>4. PICK item, t : item = Kids(a.stack[1].o)[j] /\ t = eWire[b.at]
    OBVIOUS
  <2>5. Shown(item, t)' /\ eWire'[b.at] = t
    BY <1>4, <2>1, <2>3, <2>4
  <2>6. /\ j \in Enc!NextKids(a.stack[1])'
        /\ b.stack = <<Enc!Advance(a.stack[1], j)'>> \o Tail(a.stack)
        /\ Kids(a.stack[1].o)'[j] = item
    BY <1>2, <2>1, <2>4
  <2>. QED
    BY <2>2, <2>5, <2>6 DEF WroteLeaf
<1>6. ASSUME WroteHeader(a, b) PROVE WroteHeader(a, b)'
  <2>1. CASE a.stack = <<>>
    BY <1>6, <2>1 DEF WroteHeader
  <2>2. CASE a.stack # <<>>
    <3>1. PICK j \in Enc!NextKids(a.stack[1]) :
            /\ Tail(b.stack) = <<Enc!Advance(a.stack[1], j)>> \o Tail(a.stack)
            /\ Kids(a.stack[1].o)[j].i = "own" /\ Kids(a.stack[1].o)[j].n = b.stack[1].o
      BY <1>6, <2>2 DEF WroteHeader
    <3>2. /\ j \in Enc!NextKids(a.stack[1])'
          /\ Tail(b.stack) = <<Enc!Advance(a.stack[1], j)'>> \o Tail(a.stack)
          /\ Kids(a.stack[1].o)'[j].i = "own" /\ Kids(a.stack[1].o)'[j].n = b.stack[1].o
      BY <1>2, <3>1
    <3>. QED
      BY <2>2, <3>2 DEF WroteHeader
  <2>. QED
    BY <2>1, <2>2
<1>. QED
  BY <1>5, <1>6 DEF Wrote

LEMMA StepWrites ==
    ASSUME EncTypeOK, EncTypeOK', Enc!EncNext, AllEncodable, ~eAssert',
           NEW a, a = Now, NEW b, b = Now'
    PROVE  Wrote(a, b)'
<1>1. heap \in Heaps /\ StackOK(eStack) /\ eValues \in Seq(DOMAIN heap) /\ eWire \in Seq(Tokens)
  BY DEF EncTypeOK
<1>2. heap' = heap /\ api' = api /\ eStack # <<>>
  BY EncodeCases
<1>3. a.stack = eStack /\ b.stack = eStack' /\ b.at = Len(eWire')
  BY DEF Now
<1>4. /\ \A f : Enc!NextKids(f)' = Enc!NextKids(f)
      /\ \A f, j : Enc!Advance(f, j)' = Enc!Advance(f, j)
      /\ \A o : Kids(o)' = Kids(o)
  BY <1>2, HandlerStays DEF Kids
<1>5. PICK f : f = eStack[1]
  OBVIOUS
<1>6. CASE Enc!EncodeReturn
  <2>1. eStack' = Tail(eStack)
    BY <1>6 DEF Enc!EncodeReturn
  <2>2. Len(b.stack) = Len(a.stack) - 1
    BY <1>1, <1>2, <1>3, <2>1, TailOK
  <2>. QED
    BY <2>2 DEF Wrote
<1>7. CASE Enc!EncodeElement
  <2>1. PICK j \in Enc!NextKids(f) : Enc!WriteKid(j, Kids(f.o)[j])
    BY <1>5, <1>7 DEF Enc!EncodeElement, Enc!Kids, Kids
  <2>2. PICK r, item : r = <<Enc!Advance(f, j)>> \o Tail(eStack) /\ item = Kids(f.o)[j]
    OBVIOUS
  <2>3. /\ StackOK(r) /\ Len(r) = Len(eStack) /\ f.o \in DOMAIN heap /\ j \in DOMAIN Kids(f.o)
    BY <1>1, <1>2, <1>5, <2>1, <2>2, RestOK
  <2>4. /\ item.n \in Nat
        /\ item.i \in {"own", "ref"} => item.n \in DOMAIN heap
    BY <1>1, <2>2, <2>3, HeapFacts
  <2>5. item.i # "bad"
    BY <2>2, <2>3 DEF AllEncodable, Kids
  <2>6. ASSUME NEW t \in Tokens, eWire' = Append(eWire, t), eStack' = r, Shown(item, t)'
        PROVE  Wrote(a, b)'
    <3>1. b.at >= 1 /\ eWire'[b.at] = t
      BY <1>1, <1>3, <2>6
    <3>2. /\ j \in Enc!NextKids(a.stack[1])' /\ Kids(a.stack[1].o)'[j] = item
          /\ b.stack = <<Enc!Advance(a.stack[1], j)'>> \o Tail(a.stack)
      BY <1>3, <1>4, <1>5, <2>1, <2>2, <2>6
    <3>3. WroteLeaf(a, b)'
      BY <2>6, <3>1, <3>2 DEF WroteLeaf
    <3>4. Len(b.stack) = Len(a.stack)
      BY <1>3, <2>3, <2>6
    <3>. QED
      BY <3>3, <3>4 DEF Wrote
  <2>7. CASE item.i = "own"
    <3>1. PICK form : form \in Enc!Forms(item.n) /\ eStack' = <<Enc!Frame(item.n, form)>> \o r
      BY <2>1, <2>2, <2>7, <1>5 DEF Enc!WriteKid
    <3>2. PICK o : o = item.n
      OBVIOUS
    <3>3. o \in DOMAIN heap /\ form \in Enc!Forms(o) /\ heap \in Heaps /\ StackOK(r)
          /\ eStack' = <<Enc!Frame(o, form)>> \o r
      BY <1>1, <2>3, <2>4, <2>7, <3>1, <3>2
    <3>4. eStack'[1].o = o /\ Len(eStack') = Len(r) + 1 /\ Tail(eStack') = r
      BY ONLY <3>3, PushOK
    <3>5. /\ j \in Enc!NextKids(a.stack[1])'
          /\ Tail(b.stack) = <<Enc!Advance(a.stack[1], j)'>> \o Tail(a.stack)
          /\ Kids(a.stack[1].o)'[j].i = "own" /\ Kids(a.stack[1].o)'[j].n = b.stack[1].o
      BY <1>3, <1>4, <1>5, <2>1, <2>2, <2>7, <3>2, <3>4
    <3>6. WroteHeader(a, b)'
      BY <1>2, <1>3, <3>5 DEF WroteHeader
    <3>7. Len(b.stack) = Len(a.stack) + 1
      BY <1>3, <2>3, <3>4
    <3>. QED
      BY <3>6, <3>7 DEF Wrote
  <2>8. CASE item.i = "scalar"
    <3>1. /\ eWire' = Append(eWire, Enc!Leaf(item.n)) /\ eStack' = r
      BY <1>5, <2>1, <2>2, <2>8 DEF Enc!WriteKid
    <3>2. PICK n, t : n = item.n /\ t = Leaf(n)
      OBVIOUS
    <3>5. n \in Nat /\ eWire' = Append(eWire, t)
      BY <2>4, <3>1, <3>2, SameTokens
    <3>3. t \in Tokens /\ t.op = "leaf" /\ t.n = item.n /\ eWire' = Append(eWire, t)
      BY <3>2, <3>5, TokensMade
    <3>4. Shown(item, t)'
      BY <2>8, <3>3 DEF Shown
    <3>. QED
      BY <2>6, <3>1, <3>3, <3>4
  <2>9. CASE item.i = "ref"
    <3>1. /\ eWire' = Append(eWire, Enc!Ref(Enc!IndexIn(eValues, item.n))) /\ eStack' = r
          /\ eAssert' = (eAssert \/ Enc!IndexIn(eValues, item.n) = -1)
          /\ eValues' = eValues
      BY <1>5, <2>1, <2>2, <2>9 DEF Enc!WriteKid
    <3>2. PICK i : i = Enc!IndexIn(eValues, item.n)
      OBVIOUS
    <3>3. i \in -1 .. Len(eValues) - 1 /\ i # -1
          /\ (i # -1 => eValues[i + 1] = item.n /\ \A k \in 1 .. i : eValues[k] # item.n)
      BY <1>1, <3>1, <3>2, IndexRange
    <3>4. i \in Nat /\ i \in Int /\ i + 1 <= Len(eValues)
      BY <1>1, <3>3
    <3>5. PICK t : t = Ref(i)
      OBVIOUS
    <3>6. t \in Tokens /\ t.op = "ref" /\ t.n = i /\ eWire' = Append(eWire, t)
      BY <3>1, <3>2, <3>4, <3>5, SameTokens, TokensMade
    <3>7. Shown(item, t)'
      BY <2>9, <3>1, <3>3, <3>4, <3>6 DEF Shown
    <3>. QED
      BY <2>6, <3>1, <3>6, <3>7
  <2>. QED
    BY <2>1, <2>2, <2>5, <2>7, <2>8, <2>9 DEF Enc!WriteKid
<1>. QED
  BY <1>6, <1>7 DEF Enc!EncNext

LEMMA RecordedFacts ==
    ASSUME NEW log, Recorded(log)
    PROVE  /\ log \in Seq(Entries) /\ Len(log) \in Nat /\ Len(log) >= 2
           /\ log[1] = Before /\ log[Len(log)] = Now
           /\ \A i \in 1 .. Len(log) : log[i] \in Entries /\ EntryOK(log[i])
           /\ \A i \in 2 .. Len(log) - 1 : log[i].stack # <<>>
           /\ \A i \in 1 .. Len(log) - 1 :
                  \/ Leaves(log[i], log[i + 1]) \/ Opens(log[i], log[i + 1])
                  \/ Closes(log[i], log[i + 1])
           /\ \A i \in 1 .. Len(log) - 1 : Wrote(log[i], log[i + 1])
<1>1. log \in Seq(Entries) /\ Len(log) >= 2
  BY Zenon DEF Recorded
<1>2. /\ log[1] = Before /\ log[Len(log)] = Now
      /\ \A i \in 1 .. Len(log) : EntryOK(log[i])
      /\ \A i \in 2 .. Len(log) - 1 : log[i].stack # <<>>
  BY Zenon DEF Recorded
<1>3. /\ \A i \in 1 .. Len(log) - 1 :
             \/ Leaves(log[i], log[i + 1]) \/ Opens(log[i], log[i + 1])
             \/ Closes(log[i], log[i + 1])
      /\ \A i \in 1 .. Len(log) - 1 : Wrote(log[i], log[i + 1])
  BY Zenon DEF Recorded
<1>4. Len(log) \in Nat /\ \A i \in 1 .. Len(log) : log[i] \in Entries
  BY <1>1
<1>. QED
  BY <1>1, <1>2, <1>3, <1>4, Zenon

\* A record stays one when no step is made.
LEMMA RecordedStays ==
    ASSUME EncTypeOK, UNCHANGED <<heap, api, eStack, eValues, eDefs, eWire>>,
           NEW log, Recorded(log)
    PROVE  Recorded(log)'
<1>1. heap \in Heaps /\ Extends
  BY DEF EncTypeOK, Extends
<1>2. /\ log \in Seq(Entries) /\ Len(log) \in Nat /\ Len(log) >= 2
      /\ log[1] = Before /\ log[Len(log)] = Now
      /\ \A i \in 1 .. Len(log) : log[i] \in Entries /\ EntryOK(log[i])
      /\ \A i \in 2 .. Len(log) - 1 : log[i].stack # <<>>
      /\ \A i \in 1 .. Len(log) - 1 :
             \/ Leaves(log[i], log[i + 1]) \/ Opens(log[i], log[i + 1])
             \/ Closes(log[i], log[i + 1])
      /\ \A i \in 1 .. Len(log) - 1 : Wrote(log[i], log[i + 1])
  BY RecordedFacts
<1>3. \A i \in 1 .. Len(log) : EntryOK(log[i])'
  BY <1>1, <1>2, RecordStays
<1>4. \A i \in 1 .. Len(log) - 1 :
          (Leaves(log[i], log[i + 1]) \/ Opens(log[i], log[i + 1]) \/ Closes(log[i], log[i + 1]))'
  <2>. SUFFICES ASSUME NEW i \in 1 .. Len(log) - 1
                PROVE  (Leaves(log[i], log[i + 1]) \/ Opens(log[i], log[i + 1])
                           \/ Closes(log[i], log[i + 1]))'
    OBVIOUS
  <2>1. i \in 1 .. Len(log) /\ i + 1 \in 1 .. Len(log)
    BY <1>2
  <2>. QED
    BY <1>1, <1>2, <2>1, RecordStays
<1>6. \A i \in 1 .. Len(log) - 1 : Wrote(log[i], log[i + 1])'
  <2>. SUFFICES ASSUME NEW i \in 1 .. Len(log) - 1 PROVE Wrote(log[i], log[i + 1])'
    OBVIOUS
  <2>1. i \in 1 .. Len(log) /\ i + 1 \in 1 .. Len(log)
    BY <1>2
  <2>. QED
    BY <1>1, <1>2, <2>1, WroteStays
<1>5. Now' = Now /\ Before' = Before /\ Entries' = Entries
  BY DEF Now, Before, Entries, Frames
<1>. QED
  BY <1>2, <1>3, <1>4, <1>5, <1>6 DEF Recorded

\* A step adds an entry.
LEMMA RecordedGrows ==
    ASSUME EncTypeOK, EncTypeOK', Enc!EncNext, AllEncodable, ~eAssert',
           NEW log, Recorded(log), NEW b, b = Now'
    PROVE  Recorded(Append(log, b))'
<1>1. /\ heap' = heap /\ heap \in Heaps /\ Extends
      /\ \A i \in 1 .. Len(eValues) : eValues'[i] = eValues[i]
  BY EncodeCases, StepExtends, ValuesGrow DEF EncTypeOK
<1>2. /\ log \in Seq(Entries) /\ Len(log) \in Nat /\ Len(log) >= 2
      /\ log[1] = Before /\ log[Len(log)] = Now
      /\ \A i \in 1 .. Len(log) : log[i] \in Entries /\ EntryOK(log[i])
      /\ \A i \in 2 .. Len(log) - 1 : log[i].stack # <<>>
      /\ \A i \in 1 .. Len(log) - 1 :
             \/ Leaves(log[i], log[i + 1]) \/ Opens(log[i], log[i + 1])
             \/ Closes(log[i], log[i + 1])
      /\ \A i \in 1 .. Len(log) - 1 : Wrote(log[i], log[i + 1])
  BY RecordedFacts
<1>3. Entries' = Entries /\ Before' = Before
  BY <1>1 DEF Entries, Frames, Before
<1>4. b \in Entries /\ EntryOK(b)'
  <2>1. (Now \in Entries /\ EntryOK(Now))'
    BY NowOK, PTL
  <2>. QED
    BY <1>3, <2>1 DEF EntryOK, StackOK
<1>. DEFINE new == Append(log, b)
<1>5. /\ new \in Seq(Entries) /\ Len(new) = Len(log) + 1 /\ new[Len(log) + 1] = b
      /\ \A i \in 1 .. Len(log) : new[i] = log[i]
  BY <1>2, <1>4
<1>. HIDE DEF new
<1>6. \A i \in 1 .. Len(new) : EntryOK(new[i])'
  <2>1. \A i \in 1 .. Len(log) : EntryOK(log[i])'
    BY <1>1, <1>2, RecordStays
  <2>2. \A i \in 1 .. Len(new) : i \in 1 .. Len(log) \/ i = Len(log) + 1
    BY <1>2, <1>5
  <2>. QED
    BY <1>4, <1>5, <2>1, <2>2
<1>7. /\ log[Len(log)].stack # <<>>
      /\ (Leaves(log[Len(log)], b) \/ Opens(log[Len(log)], b) \/ Closes(log[Len(log)], b))'
      /\ Wrote(log[Len(log)], b)'
  BY <1>2, StepRecords, StepWrites
<1>8. ASSUME NEW i \in 1 .. Len(new) - 1
      PROVE  /\ (Leaves(new[i], new[i + 1]) \/ Opens(new[i], new[i + 1]) \/ Closes(new[i], new[i + 1]))'
             /\ Wrote(new[i], new[i + 1])'
  <2>1. CASE i = Len(log)
    BY <1>2, <1>5, <1>7, <2>1
  <2>2. CASE i # Len(log)
    <3>1. i \in 1 .. Len(log) - 1 /\ i \in 1 .. Len(log) /\ i + 1 \in 1 .. Len(log)
      BY <1>2, <1>5, <2>2
    <3>2. /\ (Leaves(log[i], log[i + 1]) \/ Opens(log[i], log[i + 1]) \/ Closes(log[i], log[i + 1]))'
          /\ Wrote(log[i], log[i + 1])'
      BY <1>1, <1>2, <3>1, RecordStays, WroteStays
    <3>. QED
      BY <1>5, <3>1, <3>2
  <2>. QED
    BY <2>1, <2>2
<1>9. \A i \in 2 .. Len(new) - 1 : new[i].stack # <<>>
  <2>. SUFFICES ASSUME NEW i \in 2 .. Len(new) - 1 PROVE new[i].stack # <<>>
    OBVIOUS
  <2>1. i = Len(log) \/ i \in 2 .. Len(log) - 1
    BY <1>2, <1>5
  <2>2. i \in 1 .. Len(log)
    BY <1>2, <1>5
  <2>. QED
    BY <1>2, <1>5, <1>7, <2>1, <2>2
<1>10. Len(new) >= 2 /\ new[1] = Before /\ new[Len(new)] = b
  BY <1>2, <1>5
<1>. QED
  BY <1>3, <1>5, <1>6, <1>8, <1>9, <1>10 DEF Recorded, new

-----------------------------------------------------------------------------
(* Stacks of the decoder's records *)

LEMMA SeqMade ==
    ASSUME NEW S, NEW s \in Seq(S)
    PROVE  IsSequence(s)
<1>1. /\ Len(s) \in Nat
      /\ s \in [1 .. Len(s) -> {s[i] : i \in 1 .. Len(s)}]
  BY LenProperties
<1>. QED
  BY <1>1, SeqDef DEF IsSequence

LEMMA StackEmpty == IsSequence(<<>>) /\ Len(<<>>) = 0
BY DEF IsSequence

LEMMA StackTop ==
    ASSUME NEW s, IsSequence(s), s # <<>>, NEW x
    PROVE  LET t == <<x>> \o Tail(s)
           IN  /\ IsSequence(t) /\ t # <<>> /\ Len(t) = Len(s) /\ t[1] = x
               /\ \A k \in 2 .. Len(s) : t[k] = s[k]
<1>. DEFINE S == {s[k] : k \in 1 .. Len(s)} \cup {x}
            t == <<x>> \o Tail(s)
<1>1. s \in Seq(S) /\ x \in S
  BY SeqMonotonic DEF IsSequence
<1>. HIDE DEF S
<1>2. /\ Len(s) \in Nat /\ Len(s) >= 1
      /\ t \in Seq(S) /\ Len(t) = Len(s) /\ t[1] = x
      /\ \A k \in 2 .. Len(s) : t[k] = s[k]
  BY <1>1, SeqTop
<1>. HIDE DEF t
<1>3. IsSequence(t) /\ t # <<>>
  BY <1>2, SeqMade
<1>. QED
  BY <1>2, <1>3 DEF t

LEMMA StackPush ==
    ASSUME NEW s, IsSequence(s), NEW x, NEW t, t = <<x>> \o s
    PROVE  /\ IsSequence(t) /\ t # <<>> /\ Len(s) \in Nat /\ Len(t) = Len(s) + 1 /\ t[1] = x
           /\ \A k \in 1 .. Len(s) : t[k + 1] = s[k]
<1>. DEFINE S == {s[k] : k \in 1 .. Len(s)} \cup {x}
            u == <<x>> \o s
<1>1. s \in Seq(S) /\ x \in S
  BY SeqMonotonic DEF IsSequence
<1>. HIDE DEF S
<1>2. /\ Len(s) \in Nat
      /\ u \in Seq(S) /\ u # <<>> /\ Len(u) = Len(s) + 1 /\ u[1] = x
      /\ \A k \in 1 .. Len(s) : u[k + 1] = s[k]
  BY <1>1, SeqCons
<1>3. t = u
  OBVIOUS
<1>. HIDE DEF u
<1>4. IsSequence(u)
  BY <1>2, SeqMade
<1>. QED
  BY <1>2, <1>3, <1>4

LEMMA StackPop ==
    ASSUME NEW s, IsSequence(s), s # <<>>
    PROVE  /\ IsSequence(Tail(s)) /\ Len(s) \in Nat /\ Len(s) >= 1 /\ Len(Tail(s)) = Len(s) - 1
           /\ \A k \in 1 .. Len(s) - 1 : Tail(s)[k] = s[k + 1]
<1>. DEFINE S == {s[k] : k \in 1 .. Len(s)}
<1>1. s \in Seq(S)
  BY DEF IsSequence
<1>. HIDE DEF S
<1>2. /\ Len(s) \in Nat /\ Len(s) >= 1
      /\ Tail(s) \in Seq(S) /\ Len(Tail(s)) = Len(s) - 1
      /\ \A k \in 1 .. Len(s) - 1 : Tail(s)[k] = s[k + 1]
  BY <1>1
<1>. QED
  BY <1>2, SeqMade

-----------------------------------------------------------------------------
(* The decoder's record of a container *)

LEMMA RecordOnce ==
    ASSUME NEW k, NEW a, NEW l, NEW w, NEW y, NEW x
    PROVE  LET r == [kind |-> k, addr |-> a, left |-> l, vals |-> w, key |-> y]
           IN  /\ [r EXCEPT !.vals = x] =
                       [kind |-> k, addr |-> a, left |-> l, vals |-> x, key |-> y]
               /\ [r EXCEPT !.left = x] =
                       [kind |-> k, addr |-> a, left |-> x, vals |-> w, key |-> y]
               /\ [r EXCEPT !.key = x] =
                       [kind |-> k, addr |-> a, left |-> l, vals |-> w, key |-> x]
OBVIOUS

LEMMA RecordFields ==
    ASSUME NEW k \in {"list", "map", "inst"}, NEW a, NEW l, NEW w, NEW y, NEW g,
           g = [kind |-> k, addr |-> a, left |-> l, vals |-> w, key |-> y]
    PROVE  IsRecord(g) /\ g.kind = k /\ g.addr = a /\ g.left = l /\ g.vals = w /\ g.key = y
BY DEF IsRecord

\* The record with an element appended, with a key held, and with the key let go.
Appended(f, v) == [f EXCEPT !.vals = Append(@, v), !.left = IF @ > 0 THEN @ - 1 ELSE @]
Held(f, v) == [f EXCEPT !.key = v]
Dropped(f) == [f EXCEPT !.key = Nothing]
Kept(f, v) == [f EXCEPT !.key = Nothing, !.vals = @ \o <<f.key, v>>]

LEMMA ChangedFields ==
    ASSUME NEW f, IsRecord(f), NEW v
    PROVE  /\ IsRecord(Appended(f, v)) /\ Appended(f, v).kind = f.kind
           /\ Appended(f, v).key = f.key
           /\ Appended(f, v).left = (IF f.left > 0 THEN f.left - 1 ELSE f.left)
           /\ IsRecord(Held(f, v)) /\ Held(f, v).kind = f.kind
           /\ Held(f, v).key = v /\ Held(f, v).left = f.left
           /\ IsRecord(Dropped(f)) /\ Dropped(f).kind = f.kind
           /\ Dropped(f).key = Nothing /\ Dropped(f).left = f.left
           /\ IsRecord(Kept(f, v)) /\ Kept(f, v).kind = f.kind
           /\ Kept(f, v).key = Nothing /\ Kept(f, v).left = f.left
           /\ Appended(f, v).addr = f.addr /\ Held(f, v).addr = f.addr
           /\ Dropped(f).addr = f.addr /\ Kept(f, v).addr = f.addr
<1>1. PICK k, a, l, w, y :
          /\ k \in {"list", "map", "inst"}
          /\ f = [kind |-> k, addr |-> a, left |-> l, vals |-> w, key |-> y]
  BY DEF IsRecord
<1>2. /\ f.kind = k /\ f.addr = a /\ f.left = l /\ f.key = y /\ f.vals = w
      /\ k \in {"list", "map", "inst"}
  BY <1>1
<1>3. PICK no : no = Nothing
  OBVIOUS
<1>4. Held(f, v) = [kind |-> k, addr |-> a, left |-> l, vals |-> w, key |-> v]
  BY ONLY <1>1, RecordOnce DEF Held
<1>5. Dropped(f) = [kind |-> k, addr |-> a, left |-> l, vals |-> w, key |-> no]
  BY ONLY <1>1, <1>3, RecordOnce DEF Dropped
<1>6. Appended(f, v) = [kind |-> k, addr |-> a, left |-> IF l > 0 THEN l - 1 ELSE l,
                        vals |-> Append(w, v), key |-> y]
  <2>. DEFINE c == Append(w, v)
              p == [kind |-> k, addr |-> a, left |-> l, vals |-> c, key |-> y]
              m == IF l > 0 THEN l - 1 ELSE l
  <2>. HIDE DEF m, c
  <2>1. [f EXCEPT !.vals = c] = p
    BY ONLY <1>1, RecordOnce DEF p
  <2>2. [p EXCEPT !.left = m] = [kind |-> k, addr |-> a, left |-> m, vals |-> c, key |-> y]
    BY RecordOnce
  <2>3. p.left = l
    OBVIOUS
  <2>. HIDE DEF p
  <2>4. Appended(f, v) = [[f EXCEPT !.vals = c] EXCEPT !.left = m]
    BY <1>2, <2>1, <2>3 DEF c, m, Appended
  <2>. QED
    BY <2>1, <2>2, <2>4 DEF c, m
<1>7. PICK d : Kept(f, v) = [kind |-> k, addr |-> a, left |-> l, vals |-> d, key |-> no]
  <2>. DEFINE d == w \o <<y, v>>
              q == [kind |-> k, addr |-> a, left |-> l, vals |-> w, key |-> no]
  <2>. HIDE DEF d
  <2>1. [f EXCEPT !.key = no] = q
    BY ONLY <1>1, RecordOnce DEF q
  <2>2. [q EXCEPT !.vals = d] = [kind |-> k, addr |-> a, left |-> l, vals |-> d, key |-> no]
    BY RecordOnce
  <2>3. q.vals = w
    OBVIOUS
  <2>. HIDE DEF q
  <2>4. Kept(f, v) = [[f EXCEPT !.key = no] EXCEPT !.vals = d]
    BY <1>2, <1>3, <2>1, <2>3 DEF d, Kept
  <2>. QED
    BY <2>1, <2>2, <2>4
<1>. QED
  BY <1>2, <1>3, <1>4, <1>5, <1>6, <1>7, RecordFields

LEMMA NewRecord ==
    ASSUME NEW kind \in {"list", "map", "inst"}, NEW addr, NEW left
    PROVE  LET d == Dec!Frame(kind, addr, left)
           IN  /\ IsRecord(d) /\ d.kind = kind /\ d.addr = addr /\ d.left = left
               /\ d.vals = <<>> /\ d.key = Nothing
BY RecordFields DEF Dec!Frame, Nothing

\* A value that has been read.
LEMMA SomeValue ==
    /\ \A n : Dec!Val(Dec!Scalar(n), {}) # Nothing
    /\ \A n : Dec!Val(Dec!Pointer(n), {}) # Nothing
    /\ \A d, own : IsRecord(d) => Dec!Val(Dec!FrameShape(d), own) # Nothing
<1>1. Nothing.shape.k = "nothing"
  BY DEF Nothing, Dec!Nothing, Dec!Val, Dec!Shape
<1>2. \A s, own : Dec!Val(s, own).shape = s
  BY DEF Dec!Val
<1>3. \A k, v, e : Dec!Shape(k, v, e).k = k
  BY DEF Dec!Shape
<1>4. \A n : Dec!Scalar(n).k = "leaf" /\ Dec!Pointer(n).k = "ref"
  BY <1>3 DEF Dec!Scalar, Dec!Pointer
<1>5. \A k, v, vals : Dec!SeqShape(k, v, vals).k = k
  BY <1>3 DEF Dec!SeqShape
<1>6. \A d : IsRecord(d) => Dec!FrameShape(d).k \in {"map", "list", "inst"}
  BY <1>3, <1>5 DEF Dec!FrameShape, IsRecord
<1>. QED
  BY <1>1, <1>2, <1>4, <1>6

-----------------------------------------------------------------------------
(* The decoder's records against the encoder's *)

\* When encode goes on to an element, the decoder waits for it.
LEMMA GoesOn ==
    ASSUME heap \in Heaps, NEW e, FrameOK(e), NEW d, Mirrors(d, e), NEW j \in Enc!NextKids(e)
    PROVE  Awaits(d, Enc!Advance(e, j)) /\ (~ToEnd(e) => d.left > 0)
<1>. DEFINE L == Len(Kids(e.o))
<1>1. PICK g : g = Enc!Advance(e, j)
  OBVIOUS
<1>2. /\ g.o = e.o /\ g.form = e.form /\ g.todo = e.todo \ {j}
      /\ g.owed = IF IsMap(e) /\ j % 2 = 1 THEN j + 1 ELSE 0
  BY <1>1, AdvanceFields
<1>3. /\ e.o \in DOMAIN heap /\ j \in DOMAIN Kids(e.o)
      /\ ~IsMap(e) => j \in e.todo /\ e.todo = j .. L
      /\ IsMap(e) => (e.owed = 0 <=> j % 2 = 1)
  BY NextKid
<1>4. L \in Nat /\ DOMAIN Kids(e.o) = 1 .. L
  BY <1>3, HeapFacts
<1>5. (IsMap(g) <=> IsMap(e)) /\ (ToEnd(g) <=> ToEnd(e)) /\ Kids(g.o) = Kids(e.o)
  BY <1>2 DEF IsMap, ToEnd
<1>6. j \in Nat /\ j >= 1
  BY <1>3, <1>4
<1>7. d.key = Nothing <=> (IsMap(g) => g.owed # 0)
  <2>1. CASE IsMap(e)
    <3>1. d.key = Nothing <=> j % 2 = 1
      BY <1>3, <2>1 DEF Mirrors
    <3>2. g.owed # 0 <=> j % 2 = 1
      BY <1>2, <1>6, <2>1
    <3>. QED
      BY <1>5, <2>1, <3>1, <3>2
  <2>2. CASE ~IsMap(e)
    BY <1>5, <2>2 DEF Mirrors, FrameOK, IsMap
  <2>. QED
    BY <2>1, <2>2
<1>10. Stands(d, g)
  BY <1>2 DEF Mirrors, Stands
<1>8. CASE ToEnd(e)
  BY <1>1, <1>5, <1>7, <1>8, <1>10 DEF Mirrors, Awaits, IsMap
<1>9. CASE ~ToEnd(e)
  <2>1. /\ d.left \in Nat /\ e.todo = (L + 1 - d.left) .. L /\ e.todo = j .. L
        /\ j <= L
    BY <1>3, <1>4, <1>9 DEF Mirrors, ToEnd, IsMap
  <2>2. j \in (L + 1 - d.left) .. L /\ j \in j .. L
    BY <1>4, <1>6, <2>1
  <2>3. L + 1 - d.left \in j .. L
    BY <1>4, <2>1, <2>2
  <2>4. d.left = L + 1 - j
    BY <1>4, <1>6, <2>1, <2>2, <2>3
  <2>5. d.left \in Nat \ {0} /\ d.left > 0
    BY <1>4, <1>6, <2>1, <2>4
  <2>6. e.todo \ {j} = (L + 2 - d.left) .. L
    BY <1>4, <1>6, <2>1, <2>4
  <2>. QED
    BY <1>1, <1>2, <1>5, <1>7, <1>9, <1>10, <2>5, <2>6 DEF Mirrors, Awaits, IsMap
<1>. QED
  BY <1>8, <1>9

\* When encode has no more elements, the decoder is at the end of its loop.
LEMMA AtEnd ==
    ASSUME heap \in Heaps, NEW e, FrameOK(e), NEW d, Mirrors(d, e), Enc!NextKids(e) = {}
    PROVE  ~ToEnd(e) => d.left = 0
<1>. DEFINE L == Len(Kids(e.o))
<1>. SUFFICES ASSUME ~ToEnd(e) PROVE d.left = 0
  OBVIOUS
<1>1. ~IsMap(e) /\ e.o \in DOMAIN heap
  BY DEF ToEnd, IsMap, FrameOK, Frames
<1>2. L \in Nat
  BY <1>1, HeapFacts
<1>3. d.left \in Nat /\ e.todo = (L + 1 - d.left) .. L
  BY DEF Mirrors
<1>4. e.todo = {}
  BY <1>1, NoNextKid
<1>5. d.left > 0 => L \in e.todo
  BY <1>2, <1>3
<1>6. d.left \in Nat /\ ~(d.left > 0)
  BY <1>3, <1>4, <1>5
<1>. QED
  BY ONLY <1>6

\* The element comes back to the record that waits for it.
LEMMA TakesElement ==
    ASSUME NEW e, FrameOK(e), NEW d, Awaits(d, e), NEW v, v # Nothing
    PROVE  /\ d.kind # "map" => Mirrors(Appended(d, v), e)
           /\ d.kind = "map" /\ d.key = Nothing => Mirrors(Held(d, v), e)
           /\ d.kind = "map" /\ d.key # Nothing => Mirrors(Dropped(d), e) /\ Mirrors(Kept(d, v), e)
<1>1. IsRecord(d) /\ (d.kind = "map" <=> IsMap(e))
  BY DEF Awaits
<1>4. \A g : g.addr = d.addr => Stands(g, e)
  BY DEF Awaits, Stands
<1>2. CASE d.kind # "map"
  <2>1. d.key = Nothing /\ e.owed = 0
    BY <1>1, <1>2 DEF Awaits, FrameOK, IsMap
  <2>2. PICK g : g = Appended(d, v)
    OBVIOUS
  <2>3. /\ IsRecord(g) /\ g.kind = d.kind /\ g.key = d.key /\ Stands(g, e)
        /\ g.left = IF d.left > 0 THEN d.left - 1 ELSE d.left
    BY <1>1, <1>4, <2>2, ChangedFields
  <2>4. CASE ToEnd(e)
    <3>1. d.left = UntilEnd /\ g.left = UntilEnd
      BY <2>3, <2>4 DEF Awaits, UntilEnd, Dec!UntilEnd
    <3>. QED
      BY <1>1, <1>2, <2>1, <2>2, <2>3, <2>4, <3>1 DEF Mirrors
  <2>5. CASE ~ToEnd(e)
    <3>1. d.left \in Nat \ {0} /\ e.todo = (Len(Kids(e.o)) + 2 - d.left) .. Len(Kids(e.o))
      BY <2>5 DEF Awaits
    <3>2. g.left = d.left - 1 /\ g.left \in Nat
      BY <2>3, <3>1
    <3>3. e.todo = (Len(Kids(e.o)) + 1 - g.left) .. Len(Kids(e.o))
      <4>1. \A n \in Int : n + 2 - d.left = n + 1 - (d.left - 1)
        BY <3>1
      <4>. QED
        BY <3>1, <3>2
    <3>. QED
      BY <1>1, <1>2, <2>1, <2>2, <2>3, <2>5, <3>2, <3>3 DEF Mirrors
  <2>. QED
    BY <1>2, <2>4, <2>5
<1>3. CASE d.kind = "map"
  <2>1. IsMap(e) /\ ToEnd(e) /\ d.left = UntilEnd /\ (d.key = Nothing <=> e.owed # 0)
    BY <1>1, <1>3 DEF Awaits, ToEnd, IsMap
  <2>2. ASSUME NEW g, IsRecord(g), g.kind = d.kind, g.left = d.left, g.addr = d.addr,
               g.key = Nothing <=> e.owed = 0
        PROVE  Mirrors(g, e)
    BY <1>3, <1>4, <2>1, <2>2 DEF Mirrors
  <2>3. /\ IsRecord(Held(d, v)) /\ Held(d, v).kind = d.kind
        /\ Held(d, v).key = v /\ Held(d, v).left = d.left
        /\ IsRecord(Dropped(d)) /\ Dropped(d).kind = d.kind
        /\ Dropped(d).key = Nothing /\ Dropped(d).left = d.left
        /\ IsRecord(Kept(d, v)) /\ Kept(d, v).kind = d.kind
        /\ Kept(d, v).key = Nothing /\ Kept(d, v).left = d.left
        /\ Held(d, v).addr = d.addr /\ Dropped(d).addr = d.addr /\ Kept(d, v).addr = d.addr
    BY <1>1, ChangedFields
  <2>. QED
    BY <1>3, <2>1, <2>2, <2>3
<1>. QED
  BY <1>2, <1>3

\* A container just entered on both sides.
LEMMA EntersAlike ==
    ASSUME heap \in Heaps, NEW f, FrameOK(f), f = Enc!Frame(f.o, f.form),
           NEW kind \in {"list", "map", "inst"}, NEW addr, NEW left,
           kind = "map" <=> IsMap(f),
           IF ToEnd(f) THEN left = UntilEnd ELSE left = Len(Kids(f.o)),
           api = "encode" => addr \in 1 .. Len(eValues) /\ eValues[addr] = f.o
    PROVE  Mirrors(Dec!Frame(kind, addr, left), f)
<1>. DEFINE L == Len(Kids(f.o))
<1>1. f.o \in DOMAIN heap
  BY DEF FrameOK, Frames
<1>2. L \in Nat /\ DOMAIN Kids(f.o) = 1 .. L
  BY <1>1, HeapFacts
<1>3. f.owed = 0 /\ f.todo = 1 .. L
  <2>1. PICK o, form : f = Enc!Frame(o, form) /\ o = f.o
    OBVIOUS
  <2>2. f.owed = 0 /\ f.todo = DOMAIN Kids(o)
    BY <2>1, FrameMade DEF Enc!Frame, Enc!Kids, Kids
  <2>. QED
    BY <1>2, <2>1, <2>2
<1>4. PICK d : d = Dec!Frame(kind, addr, left)
  OBVIOUS
<1>5. IsRecord(d) /\ d.kind = kind /\ d.left = left /\ d.key = Nothing /\ d.addr = addr
  BY <1>4, NewRecord
<1>9. Stands(d, f)
  BY <1>5 DEF Stands
<1>6. L + 1 - L = 1
  BY <1>2
<1>7. CASE ToEnd(f)
  BY <1>3, <1>4, <1>5, <1>7, <1>9 DEF Mirrors
<1>8. CASE ~ToEnd(f)
  BY <1>2, <1>3, <1>4, <1>5, <1>6, <1>8, <1>9 DEF Mirrors
<1>. QED
  BY <1>7, <1>8

-----------------------------------------------------------------------------
(* The decoder's stack against the encoder's *)

LEMMA StackGoesOn ==
    ASSUME heap \in Heaps, NEW es, StackOK(es), es # <<>>, NEW s, Level(s, es), NEW t, Moved(es, t)
    PROVE  Waits(s, t) /\ (~ToEnd(es[1]) => s[1].left > 0)
<1>1. PICK j \in Enc!NextKids(es[1]) : t = <<Enc!Advance(es[1], j)>> \o Tail(es)
  BY DEF Moved
<1>2. es \in Seq(Frames) /\ FrameOK(es[1])
  BY TailOK DEF StackOK
<1>3. PICK g : g = Enc!Advance(es[1], j)
  OBVIOUS
<1>4. FrameOK(g) /\ g \in Frames
  BY <1>2, <1>3, AdvanceOK DEF FrameOK
<1>5. /\ Len(es) \in Nat /\ Len(t) = Len(es) /\ t[1] = g
      /\ \A k \in 2 .. Len(es) : t[k] = es[k]
  BY <1>1, <1>2, <1>3, <1>4, SeqTop
<1>6. /\ IsSequence(s) /\ Len(s) = Len(es) /\ Mirrors(s[1], es[1])
      /\ \A k \in 2 .. Len(s) : Awaits(s[k], es[k])
  BY DEF Level
<1>7. Awaits(s[1], g) /\ (~ToEnd(es[1]) => s[1].left > 0)
  BY <1>2, <1>3, <1>6, GoesOn
<1>8. \A k \in 1 .. Len(s) : k = 1 \/ k \in 2 .. Len(s)
  BY <1>5, <1>6
<1>. QED
  BY <1>5, <1>6, <1>7, <1>8 DEF Waits

LEMMA StackPops ==
    ASSUME NEW es, StackOK(es), es # <<>>, NEW s, Level(s, es)
    PROVE  Waits(Tail(s), Tail(es))
<1>1. /\ Len(Tail(es)) = Len(es) - 1
      /\ \A k \in 1 .. Len(es) - 1 : Tail(es)[k] = es[k + 1]
  BY TailOK
<1>2. /\ IsSequence(Tail(s)) /\ Len(s) \in Nat /\ Len(s) >= 1 /\ Len(Tail(s)) = Len(s) - 1
      /\ \A k \in 1 .. Len(s) - 1 : Tail(s)[k] = s[k + 1]
  BY StackPop DEF Level
<1>3. Len(s) = Len(es) /\ \A k \in 2 .. Len(s) : Awaits(s[k], es[k])
  BY DEF Level
<1>4. \A k \in 1 .. Len(s) - 1 : k + 1 \in 2 .. Len(s)
  BY <1>2
<1>5. \A k \in 1 .. Len(s) - 1 : Awaits(Tail(s)[k], Tail(es)[k])
  BY <1>1, <1>2, <1>3, <1>4
<1>. QED
  BY <1>1, <1>2, <1>3, <1>5 DEF Waits

LEMMA StackEnters ==
    ASSUME NEW es, StackOK(es), es # <<>>, NEW s, Waits(s, Tail(es)), NEW d, Mirrors(d, es[1])
    PROVE  Level(<<d>> \o s, es)
<1>1. /\ Len(es) \in Nat /\ Len(es) >= 1 /\ Len(Tail(es)) = Len(es) - 1
      /\ \A k \in 1 .. Len(es) - 1 : Tail(es)[k] = es[k + 1]
  BY TailOK
<1>2. IsSequence(s) /\ Len(s) = Len(Tail(es)) /\ \A k \in 1 .. Len(s) : Awaits(s[k], Tail(es)[k])
  BY DEF Waits
<1>3. PICK t : t = <<d>> \o s
  OBVIOUS
<1>4. /\ IsSequence(t) /\ t # <<>> /\ Len(s) \in Nat /\ Len(t) = Len(s) + 1 /\ t[1] = d
      /\ \A k \in 1 .. Len(s) : t[k + 1] = s[k]
  <2>1. IsSequence(s) /\ t = <<d>> \o s
    BY <1>2, <1>3
  <2>2. IsSequence(t) /\ t # <<>>
    BY ONLY <2>1, StackPush
  <2>3. /\ Len(s) \in Nat /\ Len(t) = Len(s) + 1 /\ t[1] = d
        /\ \A k \in 1 .. Len(s) : t[k + 1] = s[k]
    BY ONLY <2>1, StackPush
  <2>. QED
    BY <2>2, <2>3
<1>5. ASSUME NEW k \in 2 .. Len(t) PROVE Awaits(t[k], es[k])
  <2>1. k - 1 \in 1 .. Len(s) /\ (k - 1) + 1 = k /\ k - 1 \in 1 .. Len(es) - 1
    BY <1>1, <1>2, <1>4
  <2>2. t[k] = s[k - 1] /\ es[k] = Tail(es)[k - 1]
    BY <1>1, <1>4, <2>1
  <2>. QED
    BY <1>2, <2>1, <2>2
<1>6. Len(t) = Len(es)
  BY <1>1, <1>2, <1>4
<1>7. Level(t, es)
  BY <1>4, <1>5, <1>6 DEF Level
<1>. QED
  BY <1>3, <1>7

LEMMA StackTakes ==
    ASSUME NEW es, NEW s, Waits(s, es), s # <<>>, NEW d, Mirrors(d, es[1])
    PROVE  Level(<<d>> \o Tail(s), es)
<1>1. IsSequence(s) /\ Len(s) = Len(es) /\ \A k \in 1 .. Len(s) : Awaits(s[k], es[k])
  BY DEF Waits
<1>2. PICK t : t = <<d>> \o Tail(s)
  OBVIOUS
<1>3. /\ IsSequence(t) /\ t # <<>> /\ Len(t) = Len(s) /\ t[1] = d
      /\ \A k \in 2 .. Len(s) : t[k] = s[k]
  BY <1>1, <1>2, StackTop
<1>4. Len(s) \in Nat
  BY <1>1, StackPop
<1>5. \A k \in 2 .. Len(t) : Awaits(t[k], es[k])
  <2>1. \A k \in 2 .. Len(t) : k \in 2 .. Len(s) /\ k \in 1 .. Len(s)
    BY <1>3, <1>4
  <2>. QED
    BY <1>1, <1>3, <2>1
<1>. QED
  BY <1>1, <1>2, <1>3, <1>5 DEF Level

LEMMA StackTopWaits ==
    ASSUME NEW es, StackOK(es), NEW s, Waits(s, es), s # <<>>
    PROVE  Awaits(s[1], es[1]) /\ FrameOK(es[1])
<1>1. Len(s) = Len(es) /\ IsSequence(s) /\ \A k \in 1 .. Len(s) : Awaits(s[k], es[k])
  BY DEF Waits
<1>2. Len(s) \in Nat /\ Len(s) >= 1
  BY <1>1, StackPop
<1>. QED
  BY <1>1, <1>2 DEF StackOK

DecUnchanged == UNCHANGED <<heap, api, eStack, eValues, eDefs, eWire>>

LEMMA AlikeStays ==
    ASSUME DecUnchanged, NEW es
    PROVE  /\ Level(stack', es) => Level(stack, es)'
           /\ Waits(stack', es) => Waits(stack, es)'
<1>1. \A d, e : (Mirrors(d, e) <=> Mirrors(d, e)') /\ (Awaits(d, e) <=> Awaits(d, e)')
  BY DEF Mirrors, Awaits, ToEnd, IsMap, Kids, Stands, DecUnchanged
<1>2. Level(stack', es) => Level(stack, es)'
  BY <1>1 DEF Level
<1>3. Waits(stack', es) => Waits(stack, es)'
  BY <1>1 DEF Waits
<1>. QED
  BY <1>2, <1>3

-----------------------------------------------------------------------------
(* The steps of the decoder *)

\* What a call can do when it is about to read a value, and in a loop.
LEMMA ReadsValue ==
    ASSUME need = "value", ret = Nothing, Dec!DecNext,
           Dec!Peeked.op # "baddef", Dec!Peeked.op = "C" => Dec!Peeked.n \in Nat
    PROVE  \/ Dec!Reject \/ Dec!Scalars \/ Dec!Reference \/ Dec!Definition \/ Dec!List
           \/ Dec!VariableList \/ Dec!MapObject \/ Dec!MalformedHeader \/ Dec!Instance
<1>1. ~Dec!DefinitionThrows /\ ~Dec!MalformedDefinition
  BY DEF Dec!DefinitionThrows, Dec!MalformedDefinition, Dec!Asked
<1>2. /\ ~Dec!Call /\ ~Dec!Take /\ ~Dec!AskElement /\ ~Dec!NoEnd /\ ~Dec!AppendElement
      /\ ~Dec!HoldKey /\ ~Dec!Emplace /\ ~Dec!Finish /\ ~Dec!HashNothing
  BY DEF Dec!Call, Dec!Take, Dec!AskElement, Dec!NoEnd, Dec!AppendElement, Dec!HoldKey,
         Dec!Emplace, Dec!Finish, Dec!HashNothing, Dec!InLoop, Nothing
<1>. QED
  BY <1>1, <1>2 DEF Dec!DecNext

LEMMA NotValue ==
    ASSUME need # "value"
    PROVE  /\ ~Dec!Reject /\ ~Dec!Scalars /\ ~Dec!Reference /\ ~Dec!Definition /\ ~Dec!List
      /\ ~Dec!DefinitionThrows /\ ~Dec!MalformedDefinition
           /\ ~Dec!VariableList /\ ~Dec!MapObject /\ ~Dec!MalformedHeader /\ ~Dec!Instance
BY DEF Dec!Reject, Dec!Scalars, Dec!Reference, Dec!Definition, Dec!List, Dec!VariableList,
       Dec!MapObject, Dec!MalformedHeader, Dec!Instance, Dec!Asked, Dec!DefinitionThrows,
       Dec!MalformedDefinition

LEMMA RunsLoop ==
    ASSUME need = "elem", ret = Nothing, Dec!DecNext
    PROVE  Dec!AskElement \/ Dec!NoEnd \/ Dec!Finish
<1>1. /\ ~Dec!Reject /\ ~Dec!Scalars /\ ~Dec!Reference /\ ~Dec!Definition /\ ~Dec!List
      /\ ~Dec!DefinitionThrows /\ ~Dec!MalformedDefinition
      /\ ~Dec!VariableList /\ ~Dec!MapObject /\ ~Dec!MalformedHeader /\ ~Dec!Instance
  BY NotValue
<1>2. /\ ~Dec!Call /\ ~Dec!Take /\ ~Dec!AppendElement /\ ~Dec!HoldKey
      /\ ~Dec!Emplace /\ ~Dec!HashNothing
  BY DEF Dec!Call, Dec!Take, Dec!AppendElement, Dec!HoldKey,
         Dec!Emplace, Dec!HashNothing, Nothing
<1>. QED
  BY <1>1, <1>2 DEF Dec!DecNext

LEMMA TakesValue ==
    ASSUME need \in {"elem", "gone"}, ret # Nothing, Dec!DecNext
    PROVE  \/ Dec!Take \/ Dec!AppendElement \/ Dec!HoldKey \/ Dec!Emplace
           \/ Dec!HashNothing
<1>1. /\ ~Dec!Reject /\ ~Dec!Scalars /\ ~Dec!Reference /\ ~Dec!Definition /\ ~Dec!List
      /\ ~Dec!DefinitionThrows /\ ~Dec!MalformedDefinition
      /\ ~Dec!VariableList /\ ~Dec!MapObject /\ ~Dec!MalformedHeader /\ ~Dec!Instance
  BY NotValue
<1>2. ~Dec!Call /\ ~Dec!AskElement /\ ~Dec!NoEnd /\ ~Dec!Finish
  BY DEF Dec!Call, Dec!AskElement, Dec!NoEnd, Dec!Finish, Dec!InLoop, Nothing
<1>. QED
  BY <1>1, <1>2 DEF Dec!DecNext

LEMMA OnlyCalls ==
    ASSUME need = "idle", ret = Nothing, Dec!DecNext
    PROVE  Dec!Call
<1>1. /\ ~Dec!Reject /\ ~Dec!Scalars /\ ~Dec!Reference /\ ~Dec!Definition /\ ~Dec!List
      /\ ~Dec!DefinitionThrows /\ ~Dec!MalformedDefinition
      /\ ~Dec!VariableList /\ ~Dec!MapObject /\ ~Dec!MalformedHeader /\ ~Dec!Instance
  BY NotValue
<1>2. /\ ~Dec!Take /\ ~Dec!AskElement /\ ~Dec!NoEnd /\ ~Dec!Finish /\ ~Dec!AppendElement
      /\ ~Dec!HoldKey /\ ~Dec!Emplace /\ ~Dec!HashNothing
  BY DEF Dec!Take, Dec!AskElement, Dec!NoEnd, Dec!Finish, Dec!InLoop, Dec!AppendElement,
         Dec!HoldKey, Dec!Emplace, Dec!HashNothing, Nothing
<1>. QED
  BY <1>1, <1>2 DEF Dec!DecNext

LEMMA EntryFacts ==
    ASSUME NEW a \in Entries, EntryOK(a)
    PROVE  /\ a.at \in Nat /\ a.at <= Len(eWire) /\ a.num \in Nat /\ a.num <= Len(eValues)
           /\ a.defs \in Seq(Nat) /\ StackOK(a.stack)
BY DEF Entries, EntryOK

\* A record's step says the same after a step of the decoder.
LEMMA PairStays ==
    ASSUME EncTypeOK, DecUnchanged, NEW a \in Entries, NEW b \in Entries, EntryOK(a), EntryOK(b)
    PROVE  /\ heap' = heap /\ api' = api /\ eWire' = eWire
           /\ Leaves(a, b) => Leaves(a, b)'
           /\ Opens(a, b) => Opens(a, b)'
<1>1. heap \in Heaps /\ Extends
  BY DEF EncTypeOK, Extends, DecUnchanged
<1>. QED
  BY <1>1, RecordStays DEF DecUnchanged

LEMMA HeaderRead ==
    ASSUME EncTypeOK, NEW a \in Entries, NEW b \in Entries, EntryOK(a), EntryOK(b), Opens(a, b)
    PROVE  LET f == b.stack[1]
               n == Len(Kids(f.o))
           IN  /\ FrameOK(f) /\ f.o \in DOMAIN heap /\ f = Enc!Frame(f.o, f.form) /\ n \in Nat
               /\ \/ /\ b.at = a.at + 1 /\ OneToken(f.o, f.form, a.defs, eWire[a.at + 1])
                     /\ b.defs = a.defs
                  \/ /\ heap[f.o].kind = "inst" /\ f.form # "var" /\ b.at = a.at + 2
                     /\ eWire[a.at + 1] = Def(n) /\ eWire[a.at + 2] = Inst(Len(a.defs))
                     /\ b.defs = Append(a.defs, n)
<1>1. PICK f : f = b.stack[1]
  OBVIOUS
<1>2. /\ heap \in Heaps /\ StackOK(b.stack) /\ a.defs \in Seq(Nat) /\ a.at \in Nat
  BY EntryFacts DEF EncTypeOK
<1>3. PICK h : h = Enc!Header(f.o, f.form, a.defs)
  OBVIOUS
<1>4. /\ b.stack # <<>> /\ f = Enc!Frame(f.o, f.form)
      /\ b.at = a.at + Len(h) /\ Holds(a.at, h) /\ b.defs = Enc!Known(f.o, a.defs)
  BY <1>1, <1>3 DEF Opens
<1>5. FrameOK(f)
  BY <1>1, <1>2, <1>4, TailOK
<1>6. /\ f.o \in DOMAIN heap /\ f.form \in {"fixed", "var"}
      /\ f.form = "var" => heap[f.o].kind = "list"
  BY <1>5 DEF FrameOK, Frames
<1>7. PICK n : n = Len(Kids(f.o))
  OBVIOUS
<1>8. n \in Nat
  BY <1>2, <1>6, <1>7, HeapFacts
<1>9. /\ h \in Seq(Tokens)
      /\ \/ /\ Len(h) = 1 /\ OneToken(f.o, f.form, a.defs, h[1])
            /\ Enc!Known(f.o, a.defs) = a.defs
         \/ /\ heap[f.o].kind = "inst" /\ f.form # "var"
            /\ Len(h) = 2 /\ h[1] = Def(n) /\ h[2] = Inst(Len(a.defs))
            /\ Enc!Known(f.o, a.defs) = Append(a.defs, n)
  BY <1>2, <1>3, <1>6, <1>7, HeaderCases
<1>10. \A i \in 1 .. Len(h) : eWire[a.at + i] = h[i]
  BY <1>4 DEF Holds
<1>11. CASE Len(h) = 1 /\ OneToken(f.o, f.form, a.defs, h[1]) /\ Enc!Known(f.o, a.defs) = a.defs
  <2>1. eWire[a.at + 1] = h[1]
    BY <1>10, <1>11
  <2>. QED
    BY <1>1, <1>4, <1>5, <1>6, <1>7, <1>8, <1>11, <2>1
<1>12. CASE /\ heap[f.o].kind = "inst" /\ f.form # "var"
            /\ Len(h) = 2 /\ h[1] = Def(n) /\ h[2] = Inst(Len(a.defs))
            /\ Enc!Known(f.o, a.defs) = Append(a.defs, n)
  <2>1. eWire[a.at + 1] = h[1] /\ eWire[a.at + 2] = h[2]
    BY <1>10, <1>12
  <2>. QED
    BY <1>1, <1>4, <1>5, <1>6, <1>7, <1>8, <1>12, <2>1
<1>. QED
  BY <1>9, <1>11, <1>12

\* At the head of a loop: it asks for an element, or the container is finished, as
\* the encoder did.
LEMMA LoopStep ==
    ASSUME EncTypeOK, DecUnchanged, Dec!DecNext,
           NEW a \in Entries, NEW b \in Entries, EntryOK(a), EntryOK(b), InLoop(a), a.stack # <<>>,
           Leaves(a, b) \/ Opens(a, b) \/ Closes(a, b)
    PROVE  (AtLeaf(a, b) \/ AtHeader(a, b) \/ Returned(b))'
<1>1. /\ need = "elem" /\ ret = Nothing /\ results = <<>> /\ Level(stack, a.stack) /\ Read(a)
  BY DEF InLoop
<1>2. /\ heap' = heap /\ api' = api /\ eWire' = eWire /\ heap \in Heaps
      /\ Leaves(a, b) => Leaves(a, b)'
      /\ Opens(a, b) => Opens(a, b)'
  BY PairStays DEF EncTypeOK
<1>3. /\ a.at \in Nat /\ StackOK(a.stack) /\ b.at \in Nat /\ b.at <= Len(eWire)
      /\ a.defs \in Seq(Nat) /\ Len(eWire) \in Nat
  BY EntryFacts DEF EncTypeOK
<1>4. Dec!AskElement \/ Dec!NoEnd \/ Dec!Finish
  BY <1>1, RunsLoop
<1>5. /\ stack # <<>> /\ Mirrors(stack[1], a.stack[1]) /\ IsRecord(stack[1])
      /\ ToEnd(a.stack[1]) => stack[1].left = UntilEnd
      /\ ~ToEnd(a.stack[1]) => stack[1].left \in Nat
  BY <1>1 DEF Level, Mirrors
<1>6. UntilEnd = -1 /\ Dec!UntilEnd = -1
  BY DEF UntilEnd, Dec!UntilEnd
<1>7. ASSUME NEW t, Moved(a.stack, t), Dec!AskElement
      PROVE  /\ (need = "value" /\ ret = Nothing /\ results = <<>>)'
             /\ Waits(stack, t)' /\ Read(a)'
  <2>1. Waits(stack, t)
    BY <1>1, <1>2, <1>3, <1>7, StackGoesOn
  <2>2. /\ need' = "value"
        /\ UNCHANGED <<pos, defs, size, stack, ret, results>>
    BY <1>7 DEF Dec!AskElement
  <2>3. Waits(stack, t)'
    BY <1>2, <2>1, <2>2, AlikeStays
  <2>. QED
    BY <1>1, <1>2, <2>2, <2>3 DEF Read, Nothing, Dec!Nothing, Dec!Val, Dec!Shape
<1>8. ASSUME NEW t, Moved(a.stack, t), a.at + 1 <= Len(eWire), eWire[a.at + 1].op # "Z"
      PROVE  Dec!AskElement
  <2>1. Dec!Left > 0 /\ Dec!Peeked = eWire[a.at + 1] /\ Dec!Peeked # Dec!End
    <3>1. pos = a.at
      BY <1>1 DEF Read
    <3>2. End.op = "Z"
      BY TokensMade
    <3>. QED
      BY <1>3, <1>8, <3>1, <3>2, SameTokens DEF Dec!Left, Dec!Peeked
  <2>2. ~ToEnd(a.stack[1]) => stack[1].left > 0
    BY <1>1, <1>2, <1>3, <1>8, StackGoesOn
  <2>3. ~Dec!NoEnd
    BY <1>3, <2>1 DEF Dec!NoEnd, Dec!Left
  <2>4. ~Dec!Finish
    <3>1. CASE ToEnd(a.stack[1])
      BY <1>5, <1>6, <2>1, <3>1 DEF Dec!Finish, Dec!Top
    <3>2. CASE ~ToEnd(a.stack[1])
      BY <1>5, <1>6, <2>2, <3>2 DEF Dec!Finish, Dec!Top
    <3>. QED
      BY <3>1, <3>2
  <2>. QED
    BY <1>4, <2>3, <2>4
<1>9. CASE Leaves(a, b)
  <2>1. Moved(a.stack, b.stack) /\ b.at = a.at + 1 /\ eWire[a.at + 1].op # "Z"
    BY <1>9 DEF Leaves
  <2>2. Dec!AskElement
    BY <1>3, <1>8, <2>1
  <2>3. AtLeaf(a, b)'
    BY <1>2, <1>7, <1>9, <2>1, <2>2 DEF AtLeaf
  <2>. QED
    BY <2>3
<1>10. CASE Opens(a, b)
  <2>1. Moved(a.stack, Tail(b.stack))
    BY <1>10 DEF Opens
  <2>2. a.at + 1 <= b.at /\ eWire[a.at + 1].op # "Z"
    <3>. DEFINE f == b.stack[1]
                n == Len(Kids(f.o))
    <3>1. /\ n \in Nat
          /\ \/ b.at = a.at + 1 /\ OneToken(f.o, f.form, a.defs, eWire[a.at + 1])
             \/ b.at = a.at + 2 /\ eWire[a.at + 1] = Def(n)
      BY <1>10, HeaderRead
    <3>. HIDE DEF f, n
    <3>2. Def(n).op = "C"
      BY <3>1, TokensMade
    <3>3. OneToken(f.o, f.form, a.defs, eWire[a.at + 1]) => eWire[a.at + 1].op # "Z"
      BY DEF OneToken
    <3>. QED
      BY <1>3, <3>1, <3>2, <3>3
  <2>3. Dec!AskElement
    BY <1>3, <1>8, <2>1, <2>2
  <2>4. AtHeader(a, b)'
    BY <1>2, <1>7, <1>10, <2>1, <2>3 DEF AtHeader
  <2>. QED
    BY <2>4
<1>11. CASE Closes(a, b)
  <2>1. /\ Enc!NextKids(a.stack[1]) = {} /\ b.stack = Tail(a.stack)
        /\ b.at = a.at + Len(Enc!Trailer(a.stack[1])) /\ Holds(a.at, Enc!Trailer(a.stack[1]))
        /\ b.defs = a.defs /\ b.num = a.num
    BY <1>11 DEF Closes
  <2>2. FrameOK(a.stack[1])
    BY <1>3, TailOK
  <2>3. pos = a.at
    BY <1>1 DEF Read
  <2>4. ASSUME ToEnd(a.stack[1]) PROVE Dec!Finish /\ pos' = b.at
    <3>1. b.at = a.at + 1 /\ eWire[a.at + 1] = End
      BY <2>1, <2>4, TrailerCases DEF Holds
    <3>2. Dec!Left > 0 /\ Dec!Peeked = Dec!End
      BY <1>3, <2>3, <3>1, SameTokens DEF Dec!Left, Dec!Peeked
    <3>3. stack[1].key = Nothing
      <4>1. a.stack[1].owed = 0
        BY <2>1 DEF Enc!NextKids
      <4>. QED
        BY <1>5, <4>1 DEF Mirrors
    <3>4. stack[1].left = -1
      BY <1>5, <1>6, <2>4
    <3>5. ~Dec!AskElement
      BY <1>6, <3>2, <3>3, <3>4 DEF Dec!AskElement, Dec!Top, Nothing
    <3>6. ~Dec!NoEnd
      BY <1>3, <3>2 DEF Dec!NoEnd, Dec!Left
    <3>7. Dec!Finish /\ pos' = b.at
      <4>1. Dec!Finish
        BY <1>4, <3>5, <3>6
      <4>. QED
        BY <2>3, <3>1, <3>4, <4>1 DEF Dec!Finish, Dec!Top
    <3>. QED
      BY <3>7
  <2>5. ASSUME ~ToEnd(a.stack[1]) PROVE Dec!Finish /\ pos' = b.at
    <3>1. b.at = a.at
      BY <1>3, <2>1, <2>5, TrailerCases
    <3>2. stack[1].left = 0 /\ stack[1].key = Nothing
      <4>1. a.stack[1].owed = 0
        BY <2>1 DEF Enc!NextKids
      <4>. QED
        BY <1>2, <1>5, <2>1, <2>2, <2>5, <4>1, AtEnd DEF Mirrors
    <3>3. Dec!Finish
      BY <1>4, <1>6, <3>2 DEF Dec!AskElement, Dec!NoEnd, Dec!Top, Nothing
    <3>4. pos' = b.at
      BY <1>6, <2>3, <3>1, <3>2, <3>3 DEF Dec!Finish, Dec!Top
    <3>. QED
      BY <3>3, <3>4
  <2>6. Dec!Finish /\ pos' = b.at
    BY <2>4, <2>5
  <2>7. /\ ret' = Dec!Val(Dec!FrameShape(stack[1]), Dec!Owned(stack[1])) /\ stack' = Tail(stack)
        /\ UNCHANGED <<defs, size, need, results>>
    BY <2>6 DEF Dec!Finish, Dec!Top
  <2>8. ret' # Nothing
    BY <1>5, <2>7, SomeValue
  <2>9. Waits(stack', b.stack)
    BY <1>1, <1>3, <2>1, <2>7, StackPops
  <2>10. Waits(stack, b.stack)'
    BY <1>2, <2>9, AlikeStays
  <2>11. Read(b)'
    BY <1>1, <1>2, <2>1, <2>6, <2>7 DEF Read
  <2>12. Returned(b)'
    BY <1>1, <2>7, <2>8, <2>10, <2>11 DEF Returned, Nothing, Dec!Nothing, Dec!Val, Dec!Shape
  <2>. QED
    BY <2>12
<1>. QED
  BY <1>9, <1>10, <1>11

\* A scalar or a reference is read.
LEMMA LeafStep ==
    ASSUME EncTypeOK, DecUnchanged, Dec!DecNext,
           NEW a \in Entries, NEW b \in Entries, EntryOK(a), EntryOK(b), AtLeaf(a, b)
    PROVE  Returned(b)'
<1>1. /\ need = "value" /\ ret = Nothing /\ results = <<>>
      /\ Leaves(a, b) /\ Waits(stack, b.stack) /\ Read(a)
  BY DEF AtLeaf
<1>2. heap' = heap /\ api' = api /\ eWire' = eWire
  BY DEF DecUnchanged
<1>3. a.at \in Nat /\ b.at <= Len(eWire) /\ Len(eWire) \in Nat
  BY EntryFacts DEF EncTypeOK
<1>4. pos = a.at /\ b.at = a.at + 1 /\ b.defs = a.defs /\ b.num = a.num
  BY <1>1 DEF Read, Leaves
<1>5. Dec!Left > 0 /\ Dec!Peeked = eWire[b.at]
  BY <1>3, <1>4 DEF Dec!Left, Dec!Peeked
<1>6. \/ Dec!Peeked.op = "leaf"
      \/ Dec!Peeked.op = "ref" /\ api = "encode" /\ Dec!Peeked.n \in 0 .. a.num - 1
  BY <1>1, <1>5 DEF Leaves
<1>7. Dec!Scalars \/ Dec!Reference
  BY <1>1, <1>5, <1>6, ReadsValue DEF Dec!Reject, Dec!Definition, Dec!List, Dec!VariableList,
     Dec!MapObject, Dec!MalformedHeader, Dec!Instance, Dec!Asked
<1>8. /\ need' = "elem" /\ pos' = pos + 1 /\ ret' # Nothing
      /\ UNCHANGED <<defs, size, stack, results>>
  <2>1. CASE Dec!Scalars
    BY <2>1, SomeValue DEF Dec!Scalars
  <2>2. CASE Dec!Reference
    <3>1. Dec!Peeked.n \in 0 .. a.num - 1 /\ size = a.num
      BY <1>1, <1>6, <2>2 DEF Dec!Reference, Dec!Asked, Read
    <3>2. Dec!Peeked.n >= 0 /\ Dec!Peeked.n < size
      BY <1>3, <3>1, EntryFacts
    <3>. QED
      BY <2>2, <3>2, SomeValue DEF Dec!Reference
  <2>. QED
    BY <1>7, <2>1, <2>2
<1>9. Waits(stack, b.stack)'
  BY <1>1, <1>2, <1>8, AlikeStays
<1>10. Read(b)'
  BY <1>1, <1>2, <1>4, <1>8 DEF Read
<1>. QED
  BY <1>1, <1>8, <1>9, <1>10 DEF Returned, Nothing, Dec!Nothing, Dec!Val, Dec!Shape

\* A container is entered.
LEMMA EnterStep ==
    ASSUME EncTypeOK, DecUnchanged, NEW b \in Entries, EntryOK(b), b.stack # <<>>,
           ret = Nothing, results = <<>>, Waits(stack, Tail(b.stack)), pos + 1 = b.at,
           defs = b.defs, api = "encode" => size + 1 = b.num,
           api = "encode" => b.num \in 1 .. Len(eValues) /\ eValues[b.num] = b.stack[1].o,
           b.stack[1] = Enc!Frame(b.stack[1].o, b.stack[1].form),
           NEW kind \in {"list", "map", "inst"}, NEW left, Dec!Enter(kind, left),
           kind = "map" <=> IsMap(b.stack[1]),
           IF ToEnd(b.stack[1]) THEN left = UntilEnd ELSE left = Len(Kids(b.stack[1].o))
    PROVE  InLoop(b)'
<1>1. heap' = heap /\ api' = api /\ heap \in Heaps /\ StackOK(b.stack) /\ FrameOK(b.stack[1])
  BY EntryFacts, TailOK DEF DecUnchanged, EncTypeOK
<1>2. /\ pos' = b.at /\ size' = size + 1 /\ need' = "elem"
      /\ stack' = <<Dec!Frame(kind, size + 1, left)>> \o stack
      /\ UNCHANGED <<defs, ret, results>>
  BY DEF Dec!Enter
<1>3. PICK addr, d : addr = size + 1 /\ d = Dec!Frame(kind, addr, left)
  OBVIOUS
<1>4. Mirrors(d, b.stack[1])
  BY <1>1, <1>3, EntersAlike
<1>5. Level(stack', b.stack)
  BY <1>1, <1>2, <1>3, <1>4, StackEnters
<1>6. Level(stack, b.stack)'
  BY <1>1, <1>5, AlikeStays
<1>7. Read(b)'
  BY <1>1, <1>2 DEF Read
<1>. QED
  BY <1>2, <1>6, <1>7 DEF InLoop, Nothing, Dec!Nothing, Dec!Val, Dec!Shape

\* A header is read, or the definition before an instance.
LEMMA HeaderStep ==
    ASSUME EncTypeOK, DecUnchanged, Dec!DecNext,
           NEW a \in Entries, NEW b \in Entries, EntryOK(a), EntryOK(b), AtHeader(a, b)
    PROVE  (InLoop(b) \/ AtInstance(a, b))'
<1>1. /\ need = "value" /\ ret = Nothing /\ results = <<>>
      /\ Opens(a, b) /\ Waits(stack, Tail(b.stack)) /\ Read(a)
  BY DEF AtHeader
<1>2. /\ heap' = heap /\ api' = api /\ eWire' = eWire /\ heap \in Heaps /\ Opens(a, b)'
  BY <1>1, PairStays DEF EncTypeOK
<1>3. /\ a.at \in Nat /\ b.at <= Len(eWire) /\ Len(eWire) \in Nat /\ a.defs \in Seq(Nat)
      /\ a.num \in Nat
  BY EntryFacts DEF EncTypeOK
<1>4. /\ pos = a.at /\ defs = a.defs /\ (api = "encode" => size = a.num)
      /\ b.stack # <<>> /\ b.num = IF api = "begin" THEN a.num ELSE a.num + 1
      /\ api = "encode" => b.num \in 1 .. Len(eValues) /\ eValues[b.num] = b.stack[1].o
  BY <1>1 DEF Read, Opens
<1>5. PICK f, n : f = b.stack[1] /\ n = Len(Kids(f.o))
  OBVIOUS
<1>6. /\ FrameOK(f) /\ f.o \in DOMAIN heap /\ f = Enc!Frame(f.o, f.form) /\ n \in Nat
      /\ \/ /\ b.at = a.at + 1 /\ OneToken(f.o, f.form, a.defs, eWire[a.at + 1])
            /\ b.defs = a.defs
         \/ /\ heap[f.o].kind = "inst" /\ f.form # "var" /\ b.at = a.at + 2
            /\ eWire[a.at + 1] = Def(n) /\ eWire[a.at + 2] = Inst(Len(a.defs))
            /\ b.defs = Append(a.defs, n)
  BY <1>1, <1>5, HeaderRead
<1>7. Dec!Left > 0 /\ Dec!Peeked = eWire[a.at + 1]
  BY <1>3, <1>4, <1>6 DEF Dec!Left, Dec!Peeked
<1>8. CASE /\ b.at = a.at + 1 /\ OneToken(f.o, f.form, a.defs, eWire[a.at + 1])
           /\ b.defs = a.defs
  <2>1. ASSUME NEW kind \in {"list", "map", "inst"}, NEW left, Dec!Enter(kind, left),
               kind = "map" <=> IsMap(f), IF ToEnd(f) THEN left = UntilEnd ELSE left = n
        PROVE  InLoop(b)'
    <3>1. pos + 1 = b.at /\ defs = b.defs /\ (api = "encode" => size + 1 = b.num)
      BY <1>4, <1>8
    <3>. QED
      BY <1>1, <1>4, <1>5, <1>6, <2>1, <3>1, EnterStep
  <2>2. PICK t : t = eWire[a.at + 1]
    OBVIOUS
  <2>3. OneToken(f.o, f.form, a.defs, t) /\ Dec!Peeked = t
    BY <1>7, <1>8, <2>2
  <2>4. Dec!UntilEnd = UntilEnd
    BY DEF UntilEnd
  <2>5. CASE f.form = "var" /\ t.op = "varlist"
    <3>1. heap[f.o].kind = "list"
      BY <1>6, <2>5 DEF FrameOK
    <3>2. Dec!VariableList
      BY <1>1, <1>7, <2>3, <2>5, ReadsValue DEF Dec!Reject, Dec!Scalars, Dec!Reference,
         Dec!Definition, Dec!List, Dec!MapObject, Dec!MalformedHeader, Dec!Instance, Dec!Asked
    <3>3. Dec!Enter("list", UntilEnd)
      BY <2>4, <3>2 DEF Dec!VariableList
    <3>. QED
      BY <2>1, <2>5, <3>1, <3>3 DEF IsMap, ToEnd
  <2>6. CASE f.form # "var" /\ heap[f.o].kind = "map" /\ t.op = "map"
    <3>2. Dec!MapObject
      BY <1>1, <1>7, <2>3, <2>6, ReadsValue DEF Dec!Reject, Dec!Scalars, Dec!Reference,
         Dec!Definition, Dec!List, Dec!VariableList, Dec!MalformedHeader, Dec!Instance, Dec!Asked
    <3>3. Dec!Enter("map", UntilEnd)
      BY <2>4, <3>2 DEF Dec!MapObject
    <3>. QED
      BY <2>1, <2>6, <3>3 DEF IsMap, ToEnd
  <2>7. CASE f.form # "var" /\ heap[f.o].kind = "list" /\ t.op = "list" /\ t.n = n
    <3>2. Dec!List
      BY <1>1, <1>7, <2>3, <2>7, ReadsValue DEF Dec!Reject, Dec!Scalars, Dec!Reference,
         Dec!Definition, Dec!MapObject, Dec!VariableList, Dec!MalformedHeader, Dec!Instance, Dec!Asked
    <3>3. Dec!Enter("list", n)
      BY <1>6, <2>3, <2>7, <3>2 DEF Dec!List
    <3>. QED
      BY <2>1, <2>7, <3>3 DEF IsMap, ToEnd
  <2>8. CASE /\ f.form # "var" /\ heap[f.o].kind = "inst" /\ t.op = "inst"
             /\ t.n \in 0 .. Len(a.defs) - 1 /\ a.defs[t.n + 1] = n
    <3>2. Dec!Instance
      BY <1>1, <1>7, <2>3, <2>8, ReadsValue DEF Dec!Reject, Dec!Scalars, Dec!Reference,
         Dec!Definition, Dec!MapObject, Dec!VariableList, Dec!MalformedHeader, Dec!List, Dec!Asked
    <3>4. t.n >= 0 /\ t.n < Len(defs) /\ defs[t.n + 1] = n
      BY <1>3, <1>4, <2>8
    <3>3. Dec!Enter("inst", n)
      BY <2>3, <3>2, <3>4 DEF Dec!Instance
    <3>. QED
      BY <2>1, <2>8, <3>3 DEF IsMap, ToEnd
  <2>. QED
    BY <1>5, <2>3, <2>5, <2>6, <2>7, <2>8 DEF OneToken
<1>9. CASE /\ heap[f.o].kind = "inst" /\ f.form # "var" /\ b.at = a.at + 2
           /\ eWire[a.at + 1] = Def(n) /\ eWire[a.at + 2] = Inst(Len(a.defs))
           /\ b.defs = Append(a.defs, n)
  <2>1. Dec!Peeked.op = "C" /\ Dec!Peeked.n = n
    BY <1>6, <1>7, <1>9, TokensMade
  <2>2. Dec!Definition
    BY <1>1, <1>6, <1>7, <2>1, ReadsValue DEF Dec!Reject, Dec!Scalars, Dec!Reference,
       Dec!Instance, Dec!MapObject, Dec!VariableList, Dec!MalformedHeader, Dec!List, Dec!Asked
  <2>3. /\ pos' = pos + 1 /\ defs' = b.defs
        /\ UNCHANGED <<size, stack, need, ret, results>>
    BY <1>4, <1>9, <2>1, <2>2 DEF Dec!Definition
  <2>4. Waits(stack, Tail(b.stack))'
    BY <1>1, <1>2, <2>3, AlikeStays
  <2>5. eWire'[pos'].op = "C"
    BY <1>2, <1>4, <1>7, <2>1, <2>3
  <2>6. AtInstance(a, b)'
    BY <1>1, <1>2, <1>4, <1>9, <2>3, <2>4, <2>5
       DEF AtInstance, Nothing, Dec!Nothing, Dec!Val, Dec!Shape
  <2>. QED
    BY <2>6
<1>. QED
  BY <1>6, <1>8, <1>9

\* The instance after its definition.
LEMMA InstanceStep ==
    ASSUME EncTypeOK, DecUnchanged, Dec!DecNext,
           NEW a \in Entries, NEW b \in Entries, EntryOK(a), EntryOK(b), AtInstance(a, b)
    PROVE  InLoop(b)'
<1>1. /\ need = "value" /\ ret = Nothing /\ results = <<>>
      /\ Opens(a, b) /\ Waits(stack, Tail(b.stack))
      /\ pos = a.at + 1 /\ b.at = a.at + 2 /\ defs = b.defs
      /\ eWire[pos].op = "C"
      /\ api = "encode" => size = a.num
  BY DEF AtInstance
<1>2. heap \in Heaps
  BY DEF EncTypeOK
<1>3. /\ a.at \in Nat /\ b.at <= Len(eWire) /\ Len(eWire) \in Nat /\ a.defs \in Seq(Nat)
      /\ a.num \in Nat
  BY EntryFacts DEF EncTypeOK
<1>4. /\ b.stack # <<>> /\ b.num = IF api = "begin" THEN a.num ELSE a.num + 1
      /\ api = "encode" => b.num \in 1 .. Len(eValues) /\ eValues[b.num] = b.stack[1].o
  BY <1>1 DEF Opens
<1>5. PICK f, n : f = b.stack[1] /\ n = Len(Kids(f.o))
  OBVIOUS
<1>6. /\ FrameOK(f) /\ f.o \in DOMAIN heap /\ f = Enc!Frame(f.o, f.form) /\ n \in Nat
      /\ heap[f.o].kind = "inst" /\ f.form # "var"
      /\ eWire[a.at + 2] = Inst(Len(a.defs)) /\ b.defs = Append(a.defs, n)
  <2>1. /\ FrameOK(f) /\ f.o \in DOMAIN heap /\ f = Enc!Frame(f.o, f.form) /\ n \in Nat
        /\ \/ /\ b.at = a.at + 1 /\ OneToken(f.o, f.form, a.defs, eWire[a.at + 1])
              /\ b.defs = a.defs
           \/ /\ heap[f.o].kind = "inst" /\ f.form # "var" /\ b.at = a.at + 2
              /\ eWire[a.at + 1] = Def(n) /\ eWire[a.at + 2] = Inst(Len(a.defs))
              /\ b.defs = Append(a.defs, n)
    BY <1>1, <1>5, HeaderRead
  <2>. QED
    BY <1>1, <1>3, <2>1
<1>7. Dec!Left > 0 /\ Dec!Peeked.op = "inst" /\ Dec!Peeked.n = Len(a.defs) /\ Len(a.defs) \in Nat
  <2>1. Dec!Peeked = eWire[a.at + 2] /\ Dec!Left > 0 /\ Len(a.defs) \in Nat
    BY <1>1, <1>3 DEF Dec!Left, Dec!Peeked
  <2>. QED
    BY <1>6, <2>1, TokensMade
<1>8. Len(defs) = Len(a.defs) + 1 /\ defs[Len(a.defs) + 1] = n
  BY <1>1, <1>3, <1>6
<1>9. Dec!Instance
  BY <1>1, <1>7, ReadsValue DEF Dec!Reject, Dec!Scalars, Dec!Reference,
     Dec!Definition, Dec!MapObject, Dec!VariableList, Dec!MalformedHeader, Dec!List, Dec!Asked
<1>10. Dec!Enter("inst", n)
  BY <1>7, <1>8, <1>9 DEF Dec!Instance
<1>11. pos + 1 = b.at /\ (api = "encode" => size + 1 = b.num)
  BY <1>1, <1>3, <1>4
<1>. QED
  BY <1>1, <1>4, <1>5, <1>6, <1>10, <1>11, EnterStep DEF IsMap, ToEnd

\* The record on top with the element in it.
LEMMA TakenRecord ==
    ASSUME NEW d, IsRecord(d), d = stack[1]
    PROVE  /\ Dec!AppendElement => d.kind # "map" /\ stack' = <<Appended(d, ret)>> \o Tail(stack)
           /\ Dec!HoldKey => /\ d.kind = "map" /\ d.key = Nothing
                             /\ stack' = <<Held(d, ret)>> \o Tail(stack)
           /\ Dec!Emplace => /\ d.kind = "map" /\ d.key # Nothing
                             /\ \/ stack' = <<Dropped(d)>> \o Tail(stack)
                                \/ stack' = <<Kept(d, ret)>> \o Tail(stack)
<1>1. Dec!AppendElement => d.kind # "map" /\ stack' = <<Appended(d, ret)>> \o Tail(stack)
  BY Zenon DEF Dec!AppendElement, Dec!Top, Dec!WithTop, Appended
<1>2. Dec!HoldKey => /\ d.kind = "map" /\ d.key = Nothing
                     /\ stack' = <<Held(d, ret)>> \o Tail(stack)
  BY Zenon DEF Dec!HoldKey, Dec!Top, Dec!WithTop, Held, Nothing
<1>3. ASSUME Dec!Emplace
      PROVE  /\ d.kind = "map" /\ d.key # Nothing
             /\ \/ stack' = <<Dropped(d)>> \o Tail(stack)
                \/ stack' = <<Kept(d, ret)>> \o Tail(stack)
  <2>1. d.kind = "map" /\ d.key # Nothing
    BY <1>3, Zenon DEF Dec!Emplace, Dec!Top, Nothing
  <2>2. CASE Dec!SameKey(Dec!Top, Dec!Top.key)
    <3>1. stack' = Dec!WithTop([Dec!Top EXCEPT !.key = Dec!Nothing])
      BY <1>3, <2>2, Zenon DEF Dec!Emplace
    <3>. QED
      BY <2>1, <3>1, Zenon DEF Dec!Top, Dec!WithTop, Dropped, Nothing
  <2>3. CASE ~Dec!SameKey(Dec!Top, Dec!Top.key)
    <3>1. stack' = Dec!WithTop([Dec!Top EXCEPT !.key = Dec!Nothing,
                                               !.vals = @ \o <<Dec!Top.key, ret>>])
      BY <1>3, <2>3, Zenon DEF Dec!Emplace
    <3>. QED
      BY <2>1, <3>1, Zenon DEF Dec!Top, Dec!WithTop, Kept, Nothing
  <2>. QED
    BY <2>2, <2>3
<1>. QED
  BY <1>1, <1>2, <1>3

\* A value comes back to the container that waits for it, or to the caller.
LEMMA ReturnStep ==
    ASSUME EncTypeOK, DecUnchanged, Dec!DecNext, NEW b \in Entries, EntryOK(b), Returned(b)
    PROVE  IF stack = <<>>
           THEN /\ need' = "idle" /\ ret' = Nothing /\ Len(results') = 1 /\ stack' = <<>>
                /\ Read(b)'
           ELSE (InLoop(b) \/ Returned(b))'
<1>1. /\ need \in {"elem", "gone"} /\ ret # Nothing /\ results = <<>>
      /\ need = "gone" => stack # <<>>
      /\ Waits(stack, b.stack) /\ Read(b)
  BY DEF Returned
<1>2. heap' = heap /\ api' = api
  BY DEF DecUnchanged
<1>3. \/ Dec!Take \/ Dec!AppendElement \/ Dec!HoldKey \/ Dec!Emplace
      \/ Dec!HashNothing
  BY <1>1, TakesValue
<1>4. Nothing' = Nothing
  BY DEF Nothing, Dec!Nothing, Dec!Val, Dec!Shape
<1>5. CASE stack = <<>>
  <2>1. Dec!Take
    BY <1>3, <1>5 DEF Dec!AppendElement, Dec!HoldKey, Dec!Emplace, Dec!HashNothing
  <2>2. /\ need' = "idle" /\ ret' = Nothing /\ stack' = <<>> /\ results' = Append(<<>>, ret)
        /\ UNCHANGED <<pos, defs, size>>
    BY <1>1, <1>5, <2>1 DEF Dec!Take, Nothing
  <2>3. Len(results') = 1
    BY <2>2
  <2>4. Read(b)'
    BY <1>1, <1>2, <2>2 DEF Read
  <2>. QED
    BY <1>5, <2>2, <2>3, <2>4
<1>6. CASE stack # <<>>
  <2>1. PICK d : d = stack[1]
    OBVIOUS
  <2>2. Awaits(d, b.stack[1]) /\ FrameOK(b.stack[1]) /\ IsRecord(d)
    BY <1>1, <1>6, <2>1, EntryFacts, StackTopWaits DEF Awaits
  <2>3. /\ d.kind # "map" => Mirrors(Appended(d, ret), b.stack[1])
        /\ d.kind = "map" /\ d.key = Nothing => Mirrors(Held(d, ret), b.stack[1])
        /\ d.kind = "map" /\ d.key # Nothing => /\ Mirrors(Dropped(d), b.stack[1])
                                                /\ Mirrors(Kept(d, ret), b.stack[1])
    BY <1>1, <2>2, TakesElement
  <2>4. ASSUME NEW g, Mirrors(g, b.stack[1]), stack' = <<g>> \o Tail(stack),
               need' = need, need = "elem", ret' = Nothing,
               UNCHANGED <<pos, defs, size, results>>
        PROVE  InLoop(b)'
    <3>1. Level(stack', b.stack)
      BY <1>1, <1>6, <2>4, StackTakes
    <3>2. Level(stack, b.stack)'
      BY <1>2, <3>1, AlikeStays
    <3>3. Read(b)'
      BY <1>1, <1>2, <2>4 DEF Read
    <3>. QED
      BY <1>1, <1>4, <2>4, <3>2, <3>3 DEF InLoop
  <2>5. ASSUME Dec!AppendElement \/ Dec!HoldKey \/ Dec!Emplace
        PROVE  /\ need' = need /\ need = "elem" /\ ret' = Nothing
               /\ UNCHANGED <<pos, defs, size, results>>
    BY <2>5 DEF Dec!AppendElement, Dec!HoldKey, Dec!Emplace, Nothing
  <2>6. CASE Dec!AppendElement
    BY <1>6, <2>1, <2>2, <2>3, <2>4, <2>5, <2>6, TakenRecord
  <2>7. CASE Dec!HoldKey
    BY <1>6, <2>1, <2>2, <2>3, <2>4, <2>5, <2>7, TakenRecord
  <2>8. CASE Dec!Emplace
    BY <1>6, <2>1, <2>2, <2>3, <2>4, <2>5, <2>8, TakenRecord
  <2>9. CASE Dec!HashNothing
    <3>1. /\ need' = "gone"
          /\ UNCHANGED <<pos, defs, size, stack, ret, results>>
      BY <2>9 DEF Dec!HashNothing
    <3>2. Waits(stack, b.stack)'
      BY <1>1, <1>2, <3>1, AlikeStays
    <3>3. Read(b)'
      BY <1>1, <1>2, <3>1 DEF Read
    <3>. QED
      BY <1>1, <1>4, <1>6, <3>1, <3>2, <3>3 DEF Returned
  <2>. QED
    BY <1>3, <1>6, <2>6, <2>7, <2>8, <2>9 DEF Dec!Take
<1>. QED
  BY <1>5, <1>6

\* The caller calls decode: a header is the first thing on the wire.
LEMMA CallStep ==
    ASSUME EncTypeOK, DecUnchanged, Dec!DecNext, NotCalled,
           NEW a \in Entries, NEW b \in Entries, EntryOK(a), EntryOK(b), a = Before,
           Leaves(a, b) \/ Opens(a, b) \/ Closes(a, b)
    PROVE  AtHeader(a, b)'
<1>1. need = "idle" /\ ret = Nothing /\ results = <<>> /\ stack = <<>> /\ Read(a)
  BY DEF NotCalled
<1>2. a.stack = <<>>
  BY DEF Before
<1>3. Opens(a, b)
  BY <1>2 DEF Leaves, Closes
<1>4. Tail(b.stack) = <<>>
  BY <1>2, <1>3 DEF Opens
<1>5. Dec!Call
  BY <1>1, OnlyCalls
<1>6. need' = "value" /\ UNCHANGED <<pos, defs, size, stack, ret, results>>
  BY <1>5 DEF Dec!Call
<1>7. Waits(<<>>, <<>>)
  BY StackEmpty DEF Waits
<1>8. heap' = heap /\ api' = api /\ Opens(a, b)'
  BY <1>3, PairStays
<1>9. Waits(stack', Tail(b.stack))
  BY <1>1, <1>4, <1>6, <1>7
<1>10. Waits(stack, Tail(b.stack))'
  BY <1>8, <1>9, AlikeStays
<1>11. Read(a)'
  BY <1>1, <1>6, <1>8 DEF Read
<1>. QED
  BY <1>1, <1>6, <1>8, <1>10, <1>11 DEF AtHeader, Nothing, Dec!Nothing, Dec!Val, Dec!Shape

\* Each step of the decoder leads to the next place in the record.
LEMMA FollowsStep ==
    ASSUME EncTypeOK, DecUnchanged, Dec!DecNext, Enc!Encoded,
           NEW log, Recorded(log), Follows(log)
    PROVE  Follows(log)'
<1>1. PICK L : L = Len(log)
  OBVIOUS
<1>2. /\ L \in Nat /\ L >= 2 /\ log[1] = Before /\ log[L] = Now
      /\ \A i \in 1 .. L : log[i] \in Entries /\ EntryOK(log[i])
      /\ \A i \in 2 .. L - 1 : log[i].stack # <<>>
      /\ \A i \in 1 .. L - 1 : \/ Leaves(log[i], log[i + 1]) \/ Opens(log[i], log[i + 1])
                               \/ Closes(log[i], log[i + 1])
  BY <1>1, RecordedFacts
<1>3. Enc!Encoded' /\ eWire' = eWire /\ eDefs' = eDefs /\ eValues' = eValues /\ api' = api
  BY DEF Enc!Encoded, DecUnchanged
<1>4. log[L].stack = <<>> /\ log[L].at = Len(eWire) /\ Len(eWire) \in Nat
  BY <1>2 DEF Now, Enc!Encoded, EncTypeOK
<1>5. ASSUME NEW a, NEW b, NEW i \in 2 .. L, a = log[i - 1], b = log[i],
             (InLoop(b) \/ Returned(b) \/ AtLeaf(a, b) \/ AtHeader(a, b) \/ AtInstance(a, b))'
      PROVE  Follows(log)'
  BY <1>1, <1>3, <1>5 DEF Follows
<1>6. CASE NotCalled
  <2>1. PICK a, b : a = log[1] /\ b = log[2]
    OBVIOUS
  <2>2. /\ a \in Entries /\ b \in Entries /\ EntryOK(a) /\ EntryOK(b) /\ a = Before
        /\ Leaves(a, b) \/ Opens(a, b) \/ Closes(a, b)
    <3>1. 1 \in 1 .. L - 1 /\ 1 \in 1 .. L /\ 2 \in 1 .. L /\ 1 + 1 = 2
      BY <1>2
    <3>. QED
      BY <1>2, <2>1, <3>1
  <2>3. AtHeader(a, b)'
    BY <1>6, <2>2, CallStep
  <2>4. 2 \in 2 .. L /\ 2 - 1 = 1
    BY <1>2
  <2>. QED
    BY <1>5, <2>1, <2>3, <2>4
<1>7. CASE Done
  <2>1. need = "idle" /\ ret = Nothing /\ pos = Len(eWire)
    BY <1>7 DEF Done, Read, Now
  <2>2. Dec!Call
    BY <2>1, OnlyCalls
  <2>3. Dec!Left > 0
    BY <2>2 DEF Dec!Call
  <2>. QED
    BY <1>4, <2>1, <2>3 DEF Dec!Left
<1>8. ASSUME NEW i \in 2 .. L, NEW a, NEW b, a = log[i - 1], b = log[i],
             InLoop(b) \/ Returned(b) \/ AtLeaf(a, b) \/ AtHeader(a, b) \/ AtInstance(a, b)
      PROVE  Follows(log)'
  <2>1. /\ a \in Entries /\ b \in Entries /\ EntryOK(a) /\ EntryOK(b)
    <3>1. i \in 1 .. L /\ i - 1 \in 1 .. L
      BY <1>2
    <3>. QED
      BY <1>2, <1>8, <3>1
  <2>2. StackOK(b.stack)
    BY <2>1, EntryFacts
  <2>3. Len(b.stack) \in Nat /\ (b.stack = <<>> <=> Len(b.stack) = 0)
    BY <2>2 DEF StackOK
  <2>4. CASE InLoop(b)
    <3>1. b.stack # <<>>
      <4>1. IsSequence(stack) /\ stack # <<>> /\ Len(stack) = Len(b.stack)
        BY <2>4 DEF InLoop, Level
      <4>2. Len(stack) >= 1
        BY <4>1, StackPop
      <4>. QED
        BY <2>3, <4>1, <4>2
    <3>2. i # L
      BY <1>4, <1>8, <3>1
    <3>3. PICK c, k : k = i + 1 /\ c = log[k]
      OBVIOUS
    <3>4. k \in 2 .. L /\ k \in 1 .. L /\ i \in 1 .. L - 1 /\ k - 1 = i
      BY <1>2, <3>2, <3>3
    <3>5. c \in Entries /\ EntryOK(c) /\ (Leaves(b, c) \/ Opens(b, c) \/ Closes(b, c))
      BY <1>2, <1>8, <3>3, <3>4
    <3>6. (AtLeaf(b, c) \/ AtHeader(b, c) \/ Returned(c))'
      BY <2>1, <2>4, <3>1, <3>5, LoopStep
    <3>7. b = log[k - 1]
      BY <1>8, <3>4
    <3>. QED
      BY <1>5, <3>3, <3>4, <3>6, <3>7
  <2>5. CASE Returned(b)
    <3>1. CASE stack = <<>>
      <4>1. Len(b.stack) = 0
        BY <2>5, <3>1, StackEmpty DEF Returned, Waits
      <4>2. i = L
        BY <1>2, <1>8, <2>3, <4>1
      <4>3. /\ need' = "idle" /\ ret' = Nothing /\ Len(results') = 1 /\ stack' = <<>>
            /\ Read(b)'
        BY <2>1, <2>5, <3>1, ReturnStep
      <4>4. b = Now /\ Now' = Now
        BY <1>2, <1>8, <4>2 DEF Now, DecUnchanged
      <4>5. Read(Now)'
        BY <4>3, <4>4 DEF Read
      <4>6. Done'
        BY <4>3, <4>5 DEF Done, Nothing, Dec!Nothing, Dec!Val, Dec!Shape
      <4>. QED
        BY <1>3, <4>6 DEF Follows
    <3>2. CASE stack # <<>>
      <4>1. (InLoop(b) \/ Returned(b))'
        BY <2>1, <2>5, <3>2, ReturnStep
      <4>. QED
        BY <1>5, <1>8, <4>1
    <3>. QED
      BY <3>1, <3>2
  <2>6. CASE AtLeaf(a, b)
    <3>1. Returned(b)'
      BY <2>1, <2>6, LeafStep
    <3>. QED
      BY <1>5, <1>8, <3>1
  <2>7. CASE AtHeader(a, b)
    <3>1. (InLoop(b) \/ AtInstance(a, b))'
      BY <2>1, <2>7, HeaderStep
    <3>. QED
      BY <1>5, <1>8, <3>1
  <2>8. CASE AtInstance(a, b)
    <3>1. InLoop(b)'
      BY <2>1, <2>8, InstanceStep
    <3>. QED
      BY <1>5, <1>8, <3>1
  <2>. QED
    BY <1>8, <2>4, <2>5, <2>6, <2>7, <2>8
<1>. QED
  BY <1>1, <1>6, <1>7, <1>8 DEF Follows

-----------------------------------------------------------------------------
(* What a container stands for *)

Below(f, c) == Whole(heap[c].kind, KidValues(f, Kids(c)))

\* What is below a container depends on the containers it owns.
LEMMA BelowSame ==
    ASSUME heap \in Heaps, NEW c \in DOMAIN heap, NEW f, NEW g,
           \A n \in DOMAIN heap : n > c => f[n] = g[n]
    PROVE  Below(f, c) = Below(g, c)
<1>1. PICK kids : kids = Kids(c)
  OBVIOUS
<1>2. \A j \in 1 .. Len(kids) : kids[j].i = "own" => f[kids[j].n] = g[kids[j].n]
  BY <1>1, HeapFacts
<1>3. KidValues(f, kids) = KidValues(g, kids)
  BY <1>2 DEF KidValues
<1>. QED
  BY <1>1, <1>3 DEF Below

LEMMA MeaningsExist ==
    ASSUME heap \in Heaps
    PROVE  \E f : f = [c \in DOMAIN heap |-> Below(f, c)]
<1>1. PICK N : N = Len(heap)
  OBVIOUS
<1>2. N \in Nat /\ DOMAIN heap = 1 .. N
  BY <1>1, HeapNumbers
<1>. DEFINE From(n) == {c \in DOMAIN heap : c > N - n}
            S == {n \in Nat : \E f : f = [c \in From(n) |-> Below(f, c)]}
<1>3. 0 \in S
  <2>1. From(0) = {}
    BY <1>2
  <2>2. PICK f : f = [c \in {} |-> Below({}, c)]
    OBVIOUS
  <2>3. f = [c \in {} |-> Below(f, c)]
    BY <2>2
  <2>. QED
    BY <2>1, <2>3
<1>4. ASSUME NEW n \in Nat, n \in S PROVE n + 1 \in S
  <2>1. PICK f : f = [c \in From(n) |-> Below(f, c)]
    BY <1>4
  <2>2. PICK g : g = [c \in From(n + 1) |-> Below(f, c)]
    OBVIOUS
  <2>3. ASSUME NEW c \in From(n + 1) PROVE Below(f, c) = Below(g, c)
    <3>1. ASSUME NEW m \in DOMAIN heap, m > c PROVE f[m] = g[m]
      <4>1. m \in From(n) /\ m \in From(n + 1)
        BY <1>2, <3>1
      <4>2. f[m] = Below(f, m) /\ g[m] = Below(f, m)
        BY <2>1, <2>2, <4>1, Zenon
      <4>. QED
        BY <4>2
    <3>2. c \in DOMAIN heap
      OBVIOUS
    <3>. QED
      BY <3>1, <3>2, BelowSame
  <2>4. g = [c \in From(n + 1) |-> Below(g, c)]
    <3>. HIDE DEF From
    <3>. QED
      BY <2>2, <2>3, Zenon
  <2>. QED
    BY <2>4
<1>5. N \in S
  <2>. HIDE DEF S
  <2>. QED
    BY <1>2, <1>3, <1>4, Induction
<1>6. From(N) = DOMAIN heap
  BY <1>2
<1>. QED
  BY <1>5, <1>6

LEMMA MeaningIs ==
    ASSUME heap \in Heaps, NEW o \in DOMAIN heap
    PROVE  Meaning[o] = Whole(heap[o].kind, [j \in 1 .. Len(Kids(o)) |-> Value(Kids(o)[j])])
<1>1. Meaning = [c \in DOMAIN heap |-> Below(Meaning, c)]
  BY MeaningsExist, Zenon DEF Meaning, Below, Kids
<1>2. Meaning[o] = Below(Meaning, o)
  BY <1>1, Zenon
<1>3. KidValues(Meaning, Kids(o)) = [j \in 1 .. Len(Kids(o)) |-> Value(Kids(o)[j])]
  BY DEF KidValues, Value
<1>. QED
  BY <1>2, <1>3 DEF Below

-----------------------------------------------------------------------------
(* The elements of the decoder's record *)

LEMMA SeqGrows ==
    ASSUME NEW s, IsSequence(s), NEW x
    PROVE  /\ Len(s) \in Nat
           /\ IsSequence(Append(s, x)) /\ Len(Append(s, x)) = Len(s) + 1
           /\ Append(s, x)[Len(s) + 1] = x
           /\ \A i \in 1 .. Len(s) : Append(s, x)[i] = s[i]
<1>. DEFINE S == {s[k] : k \in 1 .. Len(s)} \cup {x}
<1>1. s \in Seq(S) /\ x \in S
  BY SeqMonotonic DEF IsSequence
<1>. HIDE DEF S
<1>2. /\ Len(s) \in Nat /\ Append(s, x) \in Seq(S) /\ Len(Append(s, x)) = Len(s) + 1
      /\ Append(s, x)[Len(s) + 1] = x
      /\ \A i \in 1 .. Len(s) : Append(s, x)[i] = s[i]
  BY <1>1
<1>. QED
  BY <1>2, SeqMade

LEMMA SeqJoins ==
    ASSUME NEW s, IsSequence(s), NEW t, IsSequence(t)
    PROVE  /\ Len(s) \in Nat /\ Len(t) \in Nat
           /\ IsSequence(s \o t) /\ Len(s \o t) = Len(s) + Len(t)
           /\ \A i \in 1 .. Len(s) : (s \o t)[i] = s[i]
           /\ \A i \in 1 .. Len(t) : (s \o t)[Len(s) + i] = t[i]
<1>. DEFINE S == {s[k] : k \in 1 .. Len(s)} \cup {t[k] : k \in 1 .. Len(t)}
<1>1. s \in Seq(S)
  BY SeqMonotonic DEF IsSequence
<1>2. t \in Seq(S)
  BY SeqMonotonic DEF IsSequence
<1>. HIDE DEF S
<1>3. /\ Len(s) \in Nat /\ Len(t) \in Nat
      /\ s \o t \in Seq(S) /\ Len(s \o t) = Len(s) + Len(t)
      /\ \A i \in 1 .. Len(s) : (s \o t)[i] = s[i]
      /\ \A i \in 1 .. Len(t) : (s \o t)[Len(s) + i] = t[i]
  BY ONLY <1>1, <1>2, SeqConcat
<1>. QED
  BY <1>3, SeqMade

LEMMA PairIs ==
    ASSUME NEW x, NEW y, NEW w, w = <<x, y>>
    PROVE  IsSequence(w) /\ Len(w) = 2 /\ w[1] = x /\ w[2] = y
<1>1. w \in Seq({x, y}) /\ Len(w) = 2 /\ w[1] = x /\ w[2] = y
  OBVIOUS
<1>. QED
  BY <1>1, SeqMade

\* The elements of a record with one appended, with a key held, and with a key and its
\* value kept.
LEMMA AppendedElements ==
    ASSUME NEW f, IsRecord(f), IsSequence(f.vals), NEW v, NEW n \in Nat, n = Len(f.vals),
           NEW g, g = Appended(f, v)
    PROVE  /\ n \in Nat /\ IsSequence(g.vals) /\ Len(g.vals) = n + 1 /\ g.addr = f.addr
           /\ g.vals[n + 1] = v /\ \A i \in 1 .. n : g.vals[i] = f.vals[i]
<1>1. PICK k, a, l, w, y : f = [kind |-> k, addr |-> a, left |-> l, vals |-> w, key |-> y]
  BY DEF IsRecord
<1>2. f.addr = a /\ f.left = l /\ f.vals = w
  BY <1>1
<1>. DEFINE c == Append(w, v)
            p == [kind |-> k, addr |-> a, left |-> l, vals |-> c, key |-> y]
            m == IF l > 0 THEN l - 1 ELSE l
<1>3. IsSequence(w) /\ n = Len(w)
  BY <1>2
<1>4. /\ n \in Nat /\ IsSequence(c) /\ Len(c) = n + 1
      /\ c[n + 1] = v /\ \A i \in 1 .. n : c[i] = w[i]
  BY <1>3, SeqGrows
<1>. HIDE DEF m, c
<1>5. [f EXCEPT !.vals = c] = p
  BY ONLY <1>1, RecordOnce DEF p
<1>6. [p EXCEPT !.left = m] = [kind |-> k, addr |-> a, left |-> m, vals |-> c, key |-> y]
  BY RecordOnce
<1>7. p.left = l
  OBVIOUS
<1>. HIDE DEF p
<1>8. Appended(f, v) = [[f EXCEPT !.vals = c] EXCEPT !.left = m]
  BY <1>2, <1>5, <1>7 DEF c, m, Appended
<1>9. g = [kind |-> k, addr |-> a, left |-> m, vals |-> c, key |-> y]
  BY <1>5, <1>6, <1>8
<1>10. g.vals = c /\ g.addr = a
  BY ONLY <1>9
<1>. QED
  BY <1>2, <1>4, <1>10

LEMMA HeldElements ==
    ASSUME NEW f, IsRecord(f), NEW v, NEW g, g = Held(f, v)
    PROVE  g.vals = f.vals /\ g.addr = f.addr
<1>1. PICK k, a, l, w, y : f = [kind |-> k, addr |-> a, left |-> l, vals |-> w, key |-> y]
  BY DEF IsRecord
<1>2. f.addr = a /\ f.vals = w
  BY <1>1
<1>3. Held(f, v) = [kind |-> k, addr |-> a, left |-> l, vals |-> w, key |-> v]
  BY ONLY <1>1, RecordOnce DEF Held
<1>. QED
  BY <1>2, <1>3

LEMMA KeptElements ==
    ASSUME NEW f, IsRecord(f), IsSequence(f.vals), NEW v, NEW n \in Nat, n = Len(f.vals),
           NEW g, g = Kept(f, v)
    PROVE  /\ IsSequence(g.vals) /\ Len(g.vals) = n + 2 /\ g.addr = f.addr
           /\ g.vals[n + 1] = f.key /\ g.vals[n + 2] = v
           /\ \A i \in 1 .. n : g.vals[i] = f.vals[i]
<1>1. PICK k, a, l, w, y : f = [kind |-> k, addr |-> a, left |-> l, vals |-> w, key |-> y]
  BY DEF IsRecord
<1>2. f.addr = a /\ f.key = y /\ f.vals = w
  BY <1>1
<1>3. PICK no : no = Nothing
  OBVIOUS
<1>. DEFINE t == <<y, v>>
            c == w \o t
            q == [kind |-> k, addr |-> a, left |-> l, vals |-> w, key |-> no]
<1>4. IsSequence(t) /\ Len(t) = 2 /\ t[1] = y /\ t[2] = v
  BY PairIs
<1>. HIDE DEF t
<1>5. IsSequence(w) /\ IsSequence(t) /\ n = Len(w)
  BY <1>2, <1>4
<1>6. /\ n \in Nat /\ IsSequence(c) /\ Len(c) = n + Len(t)
      /\ \A i \in 1 .. n : c[i] = w[i]
      /\ \A i \in 1 .. Len(t) : c[n + i] = t[i]
  <2>1. IsSequence(w) /\ IsSequence(t)
    BY <1>5
  <2>2. /\ Len(w) \in Nat /\ IsSequence(c) /\ Len(c) = Len(w) + Len(t)
        /\ \A i \in 1 .. Len(w) : c[i] = w[i]
        /\ \A i \in 1 .. Len(t) : c[Len(w) + i] = t[i]
    BY ONLY <2>1, SeqJoins DEF c
  <2>. HIDE DEF c
  <2>. QED
    BY ONLY <1>5, <2>2
<1>. HIDE DEF c
<1>7. Len(c) = n + 2 /\ c[n + 1] = y /\ c[n + 2] = v
  <2>1. 1 \in 1 .. Len(t) /\ 2 \in 1 .. Len(t)
    BY <1>4
  <2>. QED
    BY <1>4, <1>6, <2>1
<1>8. [f EXCEPT !.key = no] = q
  BY ONLY <1>1, RecordOnce DEF q
<1>9. [q EXCEPT !.vals = c] = [kind |-> k, addr |-> a, left |-> l, vals |-> c, key |-> no]
  BY RecordOnce
<1>10. q.vals = w
  OBVIOUS
<1>. HIDE DEF q
<1>11. Kept(f, v) = [[f EXCEPT !.key = no] EXCEPT !.vals = c]
  BY <1>2, <1>3, <1>8, <1>10 DEF c, t, Kept
<1>12. g = [kind |-> k, addr |-> a, left |-> l, vals |-> c, key |-> no]
  BY <1>8, <1>9, <1>11
<1>13. g.vals = c /\ g.addr = a
  BY ONLY <1>12
<1>. QED
  BY <1>2, <1>6, <1>7, <1>13

\* The two sides have the same shapes.
LEMMA SameShapes ==
    /\ \A k, v, e : Dec!Shape(k, v, e) = Shape(k, v, e)
    /\ \A n : Dec!Scalar(n) = Scalar(n) /\ Dec!Pointer(n) = Pointer(n)
    /\ \A k, v, vals : Dec!SeqShape(k, v, vals) = SeqShape(k, v, vals)
<1>1. \A k, v, e : Dec!Shape(k, v, e) = Shape(k, v, e)
  BY Zenon DEF Dec!Shape, Shape
<1>2. \A n : Dec!Scalar(n) = Scalar(n) /\ Dec!Pointer(n) = Pointer(n)
  BY <1>1, Zenon DEF Dec!Scalar, Scalar, Dec!Pointer, Pointer
<1>3. \A k, v, vals : Dec!SeqShape(k, v, vals) = SeqShape(k, v, vals)
  BY <1>1, <1>2 DEF Dec!SeqShape, SeqShape
<1>. QED
  BY <1>1, <1>2, <1>3

Shapes(d) == [i \in 1 .. Len(d.vals) |-> d.vals[i].shape]

LEMMA FrameShapeIs ==
    ASSUME NEW d
    PROVE  Dec!FrameShape(d) = Whole(d.kind, Shapes(d))
<1>1. Dec!FrameShape(d) = IF d.kind = "map"
          THEN Dec!Shape("map", 0, {<<Shapes(d)[i], Shapes(d)[i + 1]>> :
                                       i \in {j \in 1 .. Len(Shapes(d)) : j % 2 = 1}})
          ELSE Dec!SeqShape(d.kind, 0, Shapes(d))
  BY Zenon DEF Dec!FrameShape, Shapes
<1>. QED
  BY <1>1, SameShapes, Zenon DEF Whole

LEMMA OddFacts ==
    ASSUME NEW n \in Nat, n % 2 = 0
    PROVE  /\ Odd(n + 2) = Odd(n) \cup {n + 1}
           /\ \A i \in Odd(n) : i \in 1 .. n /\ i + 1 \in 1 .. n
<1>1. \A i \in Odd(n + 2) : i \in Odd(n) \/ i = n + 1
  BY DEF Odd
<1>2. \A i \in Odd(n) : i \in 1 .. n /\ i + 1 \in 1 .. n /\ i \in Odd(n + 2)
  BY DEF Odd
<1>3. n + 1 \in Odd(n + 2)
  BY DEF Odd
<1>. QED
  BY <1>1, <1>2, <1>3

-----------------------------------------------------------------------------
(* The elements of the decoder's record against the encoder's *)

\* A container of which every element has been read is what the encoder's stands for.
LEMMA WholeRecord ==
    ASSUME heap \in Heaps, NEW e, FrameOK(e), NEW d, Has(d, e), Enc!NextKids(e) = {}
    PROVE  Dec!FrameShape(d) = Meaning[e.o]
<1>1. PICK L : L = Len(Kids(e.o))
  OBVIOUS
<1>2. e.o \in DOMAIN heap /\ e.todo \subseteq DOMAIN Kids(e.o)
  BY DEF FrameOK, Frames
<1>3. L \in Nat /\ DOMAIN Kids(e.o) = 1 .. L /\ (IsMap(e) => L % 2 = 0)
  BY <1>1, <1>2, HeapFacts DEF IsMap
<1>4. PICK vals : vals = [j \in 1 .. L |-> Value(Kids(e.o)[j])]
  OBVIOUS
<1>5. /\ Meaning[e.o] = Whole(heap[e.o].kind, vals)
      /\ Dec!FrameShape(d) = Whole(d.kind, Shapes(d))
  BY <1>1, <1>2, <1>4, MeaningIs, FrameShapeIs
<1>6. IsSequence(d.vals) /\ d.kind = heap[e.o].kind
  BY DEF Has
<1>7. PICK n : n = Len(d.vals)
  OBVIOUS
<1>8. n \in Nat
  BY <1>6, <1>7, SeqGrows
<1>9. CASE ~IsMap(e)
  <2>1. PICK m \in Nat : HasSome(d, e, m) /\ e.todo = m + 1 .. L
    BY <1>1, <1>9 DEF Has
  <2>2. m = n /\ n <= L /\ \A i \in 1 .. n : d.vals[i].shape = ValueAt(e, i)
    BY <1>1, <1>7, <2>1 DEF HasSome
  <2>3. e.todo = {}
    BY <1>9, NoNextKid
  <2>4. n = L
    <3>1. n < L => L \in n + 1 .. L
      BY <1>3, <1>8
    <3>2. n <= L /\ ~(n < L)
      BY <2>1, <2>2, <2>3, <3>1
    <3>. QED
      BY ONLY <1>3, <1>8, <3>2
  <2>5. Shapes(d) = vals
    BY <1>4, <1>7, <2>2, <2>4 DEF Shapes, ValueAt
  <2>. QED
    BY <1>5, <1>6, <2>5
<1>10. CASE IsMap(e)
  <2>1. HasPairs(d, e, Complete(e))
    BY <1>10 DEF Has
  <2>2. n % 2 = 0 /\ Pairs(d) = PairsOf(e, Complete(e))
    BY <1>7, <2>1 DEF HasPairs
  <2>3. e.owed = 0 /\ (e.todo = {} \/ \A j \in e.todo : j % 2 # 1)
    BY <1>10 DEF Enc!NextKids, IsMap
  <2>4. Complete(e) = Odd(L)
    BY <1>1, <1>3, <2>3 DEF Complete, Odd
  <2>5. PICK w : w = Shapes(d)
    OBVIOUS
  <2>6. Len(w) = n /\ \A i \in 1 .. n : w[i] = d.vals[i].shape
    BY <1>7, <1>8, <2>5 DEF Shapes
  <2>7. Len(vals) = L /\ \A i \in 1 .. L : vals[i] = ValueAt(e, i)
    BY <1>3, <1>4 DEF ValueAt
  <2>8. Whole("map", w) = Shape("map", 0, {<<w[i], w[i + 1]>> : i \in Odd(n)})
    BY <2>6 DEF Whole, Odd
  <2>9. Whole("map", vals) = Shape("map", 0, {<<vals[i], vals[i + 1]>> : i \in Odd(L)})
    BY <2>7 DEF Whole, Odd
  <2>10. {<<w[i], w[i + 1]>> : i \in Odd(n)} = Pairs(d)
    <3>1. \A i \in Odd(n) : w[i] = d.vals[i].shape /\ w[i + 1] = d.vals[i + 1].shape
      BY <1>8, <2>2, <2>6, OddFacts
    <3>. QED
      BY <1>7, <3>1 DEF Pairs
  <2>11. {<<vals[i], vals[i + 1]>> : i \in Odd(L)} = PairsOf(e, Odd(L))
    <3>1. \A i \in Odd(L) : vals[i] = ValueAt(e, i) /\ vals[i + 1] = ValueAt(e, i + 1)
      BY <1>3, <1>10, <2>7, OddFacts
    <3>. QED
      BY <3>1 DEF PairsOf
  <2>12. d.kind = "map" /\ heap[e.o].kind = "map"
    BY <1>6, <1>10 DEF IsMap
  <2>. QED
    BY <1>5, <2>2, <2>4, <2>5, <2>8, <2>9, <2>10, <2>11, <2>12
<1>. QED
  BY <1>9, <1>10

\* A container just entered has no elements yet.
LEMMA NewHas ==
    ASSUME heap \in Heaps, NEW e, FrameOK(e), e = Enc!Frame(e.o, e.form),
           NEW addr, NEW left, NEW kind, kind = heap[e.o].kind
    PROVE  Has(Dec!Frame(kind, addr, left), e)
<1>1. PICK L : L = Len(Kids(e.o))
  OBVIOUS
<1>2. e.o \in DOMAIN heap
  BY DEF FrameOK, Frames
<1>3. L \in Nat /\ DOMAIN Kids(e.o) = 1 .. L /\ kind \in {"list", "map", "inst"}
  BY <1>1, <1>2, HeapFacts
<1>4. e.owed = 0 /\ e.todo = 1 .. L
  <2>1. PICK o, form : e = Enc!Frame(o, form) /\ o = e.o
    OBVIOUS
  <2>2. e.owed = 0 /\ e.todo = DOMAIN Kids(o)
    BY <2>1, FrameMade DEF Enc!Frame, Enc!Kids, Kids
  <2>. QED
    BY <1>3, <2>1, <2>2
<1>5. PICK d : d = Dec!Frame(kind, addr, left)
  OBVIOUS
<1>6. d.kind = kind /\ d.vals = <<>>
  BY <1>3, <1>5, NewRecord
<1>7. IsSequence(d.vals) /\ Len(d.vals) = 0
  BY <1>6, StackEmpty
<1>8. CASE IsMap(e)
  <2>1. Complete(e) = {} /\ Odd(0) = {}
    BY <1>1, <1>4 DEF Complete, Odd
  <2>2. HasPairs(d, e, Complete(e))
    BY <1>7, <2>1 DEF HasPairs, Pairs, PairsOf
  <2>. QED
    BY <1>4, <1>5, <1>6, <1>7, <1>8, <2>2 DEF Has
<1>9. CASE ~IsMap(e)
  <2>1. HasSome(d, e, 0) /\ e.todo = 0 + 1 .. Len(Kids(e.o))
    BY <1>1, <1>3, <1>4, <1>7 DEF HasSome
  <2>. QED
    BY <1>5, <1>6, <1>7, <1>9, <2>1 DEF Has
<1>. QED
  BY <1>8, <1>9

\* When encode goes on to an element, the decoder lacks it.
LEMMA GoesOnHas ==
    ASSUME heap \in Heaps, NEW e, FrameOK(e), NEW d, Has(d, e), NEW j \in Enc!NextKids(e)
    PROVE  Lacks(d, Enc!Advance(e, j), ValueAt(e, j))
<1>1. PICK L, g : L = Len(Kids(e.o)) /\ g = Enc!Advance(e, j)
  OBVIOUS
<1>2. /\ g.o = e.o /\ g.todo = e.todo \ {j}
      /\ g.owed = IF IsMap(e) /\ j % 2 = 1 THEN j + 1 ELSE 0
  BY <1>1, AdvanceFields
<1>3. /\ e.o \in DOMAIN heap /\ j \in DOMAIN Kids(e.o)
      /\ ~IsMap(e) => j \in e.todo /\ e.todo = j .. L
      /\ IsMap(e) => (e.owed = 0 <=> j % 2 = 1)
  BY <1>1, NextKid
<1>4. L \in Nat /\ j \in 1 .. L /\ Len(Kids(g.o)) = L
  BY <1>1, <1>2, <1>3, HeapFacts
<1>5. (IsMap(g) <=> IsMap(e)) /\ \A k : ValueAt(g, k) = ValueAt(e, k)
  BY <1>2 DEF IsMap, ValueAt
<1>6. IsSequence(d.vals) /\ d.kind = heap[g.o].kind
  BY <1>2 DEF Has
<1>7. \A keys : PairsOf(g, keys) = PairsOf(e, keys)
  BY <1>5 DEF PairsOf
<1>8. CASE ~IsMap(e)
  <2>1. PICK n \in Nat : HasSome(d, e, n) /\ e.todo = n + 1 .. L
    BY <1>1, <1>8 DEF Has
  <2>2. j = n + 1
    <3>1. e.todo = j .. L /\ j \in e.todo
      BY <1>3, <1>8
    <3>2. n + 1 \in j .. L
      BY <1>4, <2>1, <3>1
    <3>. QED
      BY <1>4, <2>1, <3>1, <3>2
  <2>3. g.todo = n + 2 .. L
    BY <1>2, <1>4, <2>1, <2>2
  <2>4. HasSome(d, g, n)
    BY <1>1, <1>4, <1>5, <2>1 DEF HasSome
  <2>. QED
    BY <1>1, <1>4, <1>5, <1>6, <1>8, <2>1, <2>2, <2>3, <2>4 DEF Lacks
<1>9. CASE IsMap(e) /\ e.owed # 0
  <2>1. HasPairs(d, e, Complete(e)) /\ KeyWritten(e, e.owed - 1)
        /\ d.key.shape = ValueAt(e, e.owed - 1)
    BY <1>9 DEF Has
  <2>2. j = e.owed /\ g.owed = 0
    BY <1>2, <1>3, <1>9 DEF Enc!NextKids
  <2>3. KeyWritten(g, j - 1)
    BY <1>1, <1>2, <1>4, <2>1, <2>2 DEF KeyWritten
  <2>4. Complete(g) \ {j - 1} = Complete(e)
    <3>1. \A k \in Odd(L) : k # j
      BY <1>3, <1>9 DEF Odd
    <3>2. \A k \in Odd(L) : k + 1 # 0 /\ (k + 1 = j <=> k = j - 1)
      BY <1>4 DEF Odd
    <3>3. Complete(g) = {k \in Odd(L) : k \notin e.todo}
      BY <1>1, <1>2, <1>4, <2>2, <3>1, <3>2 DEF Complete
    <3>4. Complete(e) = {k \in Odd(L) : k \notin e.todo /\ k # j - 1}
      BY <1>1, <2>2, <3>2 DEF Complete
    <3>. QED
      BY <3>3, <3>4
  <2>5. HasPairs(d, g, Complete(g) \ {j - 1})
    BY <1>7, <2>1, <2>4 DEF HasPairs
  <2>6. d.key.shape = ValueAt(g, j - 1) /\ (j - 1) + 1 = j
    BY <1>4, <1>5, <2>1, <2>2
  <2>7. ValueAt(e, j) = ValueAt(g, (j - 1) + 1)
    BY <1>5, <2>6
  <2>. QED
    BY <1>1, <1>5, <1>6, <1>9, <2>2, <2>3, <2>5, <2>6, <2>7 DEF Lacks
<1>10. CASE IsMap(e) /\ e.owed = 0
  <2>1. HasPairs(d, e, Complete(e)) /\ j % 2 = 1
    BY <1>3, <1>10 DEF Has
  <2>2. g.owed = j + 1 /\ g.owed # 0 /\ g.owed - 1 = j
    BY <1>2, <1>4, <1>10, <2>1
  <2>3. KeyWritten(g, j)
    BY <1>1, <1>2, <1>4, <2>1 DEF KeyWritten, Odd
  <2>4. Complete(g) = Complete(e)
    <3>1. \A k \in Odd(L) : k + 1 # 0 /\ (k + 1 = g.owed <=> k = j)
      BY <1>4, <2>2 DEF Odd
    <3>2. j \in e.todo
      BY <1>10 DEF Enc!NextKids, IsMap
    <3>3. Complete(g) = {k \in Odd(L) : k \notin e.todo}
      BY <1>1, <1>2, <1>4, <3>1, <3>2 DEF Complete
    <3>4. Complete(e) = {k \in Odd(L) : k \notin e.todo}
      BY <1>1, <1>10, <3>1 DEF Complete
    <3>. QED
      BY <3>3, <3>4
  <2>5. HasPairs(d, g, Complete(g))
    BY <1>7, <2>1, <2>4 DEF HasPairs
  <2>. QED
    BY <1>1, <1>5, <1>6, <1>10, <2>2, <2>3, <2>5 DEF Lacks
<1>. QED
  BY <1>8, <1>9, <1>10

\* The element comes back to the record that lacks it; a map never holds its key.
LEMMA AppendedHas ==
    ASSUME NEW e, FrameOK(e), NEW d, IsRecord(d), NEW v, Lacks(d, e, v.shape), ~IsMap(e)
    PROVE  Has(Appended(d, v), e)
<1>1. PICK L, g : L = Len(Kids(e.o)) /\ g = Appended(d, v)
  OBVIOUS
<1>2. g.kind = d.kind
  BY <1>1, ChangedFields
<1>3. IsSequence(d.vals) /\ d.kind = heap[e.o].kind
  BY DEF Lacks
<1>4. PICK n \in Nat : /\ HasSome(d, e, n) /\ e.todo = n + 2 .. L
                       /\ n + 1 <= L /\ v.shape = ValueAt(e, n + 1)
  BY <1>1 DEF Lacks
<1>5. Len(d.vals) = n /\ n <= L /\ \A i \in 1 .. n : d.vals[i].shape = ValueAt(e, i)
  BY <1>1, <1>4 DEF HasSome
<1>8. IsSequence(g.vals) /\ Len(g.vals) = n + 1 /\ g.vals[n + 1] = v
      /\ \A i \in 1 .. n : g.vals[i] = d.vals[i]
  BY <1>1, <1>3, <1>5, AppendedElements
<1>9. ASSUME NEW i \in 1 .. n + 1 PROVE g.vals[i].shape = ValueAt(e, i)
  <2>1. i = n + 1 \/ i \in 1 .. n
    BY <1>4
  <2>. QED
    BY <1>4, <1>5, <1>8, <2>1
<1>10. HasSome(g, e, n + 1)
  BY <1>1, <1>4, <1>8, <1>9 DEF HasSome
<1>11. n + 1 \in Nat /\ e.todo = (n + 1) + 1 .. L
  BY <1>4
<1>. QED
  BY <1>1, <1>2, <1>3, <1>8, <1>10, <1>11 DEF Has

LEMMA HeldHas ==
    ASSUME NEW e, NEW d, Awaits(d, e), NEW v, Lacks(d, e, v.shape), IsMap(e), d.key = Nothing
    PROVE  Has(Held(d, v), e)
<1>1. PICK g : g = Held(d, v)
  OBVIOUS
<1>2. g.vals = d.vals /\ g.kind = d.kind /\ g.key = v
  BY <1>1, ChangedFields, HeldElements DEF Awaits
<1>3. e.owed # 0
  BY DEF Awaits
<1>4. /\ IsSequence(d.vals) /\ d.kind = heap[e.o].kind
      /\ HasPairs(d, e, Complete(e)) /\ KeyWritten(e, e.owed - 1) /\ v.shape = ValueAt(e, e.owed - 1)
  BY <1>3 DEF Lacks
<1>5. HasPairs(g, e, Complete(e))
  BY <1>2, <1>4 DEF HasPairs, Pairs
<1>. QED
  BY <1>1, <1>2, <1>4, <1>5 DEF Has

LEMMA KeptHas ==
    ASSUME heap \in Heaps, NEW e, FrameOK(e), NEW d, Awaits(d, e), NEW v, Lacks(d, e, v.shape),
           IsMap(e), d.key # Nothing, DistinctKeys
    PROVE  Has(Kept(d, v), e) /\ ~Dec!SameKey(d, d.key)
<1>1. PICK L, g, n : L = Len(Kids(e.o)) /\ g = Kept(d, v) /\ n = Len(d.vals)
  OBVIOUS
<1>2. IsRecord(d) /\ g.kind = d.kind
  BY <1>1, ChangedFields DEF Awaits
<1>3. e.owed = 0
  BY DEF Awaits
<1>4. PICK j : /\ KeyWritten(e, j) /\ HasPairs(d, e, Complete(e) \ {j})
               /\ d.key.shape = ValueAt(e, j) /\ v.shape = ValueAt(e, j + 1)
  BY <1>3 DEF Lacks
<1>5. IsSequence(d.vals) /\ d.kind = heap[e.o].kind
  BY DEF Lacks
<1>6. Len(d.vals) % 2 = 0 /\ Pairs(d) = PairsOf(e, Complete(e) \ {j})
  BY <1>4 DEF HasPairs
<1>7. /\ IsSequence(g.vals) /\ Len(g.vals) % 2 = 0
      /\ Pairs(g) = Pairs(d) \cup {<<d.key.shape, v.shape>>}
  <2>1. /\ n \in Nat /\ IsSequence(g.vals) /\ Len(g.vals) = n + 2
        /\ g.vals[n + 1] = d.key /\ g.vals[n + 2] = v
        /\ \A i \in 1 .. n : g.vals[i] = d.vals[i]
    <3>1. IsRecord(d) /\ IsSequence(d.vals) /\ n = Len(d.vals) /\ g = Kept(d, v)
      BY <1>1, <1>2, <1>5
    <3>2. n \in Nat
      BY <3>1, SeqGrows
    <3>. QED
      BY ONLY <3>1, <3>2, KeptElements
  <2>2. n \in Nat /\ n % 2 = 0 /\ n = Len(d.vals)
    BY <1>1, <1>6, <2>1
  <2>3. Len(g.vals) = n + 2 /\ \A i \in 1 .. n : g.vals[i] = d.vals[i]
    BY <2>1
  <2>4. /\ Len(g.vals) % 2 = 0
        /\ Pairs(g) = Pairs(d) \cup {<<g.vals[n + 1].shape, g.vals[n + 2].shape>>}
    <3>1. PICK s, t : s = d.vals /\ t = g.vals
      OBVIOUS
    <3>2. Len(s) = n /\ Len(t) = n + 2 /\ \A i \in 1 .. n : t[i] = s[i]
      BY ONLY <2>2, <2>3, <3>1
    <3>3. n \in Nat /\ n % 2 = 0
      BY <2>2
    <3>4. (n + 2) % 2 = 0
      BY ONLY <3>3
    <3>5. /\ Odd(n + 2) = Odd(n) \cup {n + 1}
          /\ \A i \in Odd(n) : i \in 1 .. n /\ i + 1 \in 1 .. n
      BY ONLY <3>3, OddFacts
    <3>6. Pairs(d) = {<<s[i].shape, s[i + 1].shape>> : i \in Odd(n)}
      BY ONLY <2>2, <3>1 DEF Pairs
    <3>7. Pairs(g) = {<<t[i].shape, t[i + 1].shape>> : i \in Odd(n + 2)}
      BY ONLY <3>1, <3>2 DEF Pairs
    <3>8. \A i \in Odd(n) : t[i] = s[i] /\ t[i + 1] = s[i + 1]
      BY ONLY <3>2, <3>5
    <3>9. (n + 1) + 1 = n + 2
      BY ONLY <3>3
    <3>10. Pairs(g) = {<<t[i].shape, t[i + 1].shape>> : i \in Odd(n)}
                      \cup {<<t[n + 1].shape, t[n + 2].shape>>}
      BY ONLY <3>5, <3>7, <3>9, Zenon
    <3>11. Pairs(g) = Pairs(d) \cup {<<t[n + 1].shape, t[n + 2].shape>>}
      BY ONLY <3>6, <3>8, <3>10
    <3>. QED
      BY ONLY <3>1, <3>2, <3>4, <3>11
  <2>. QED
    BY ONLY <2>1, <2>4
<1>8. e.o \in DOMAIN heap
  BY DEF FrameOK, Frames
<1>9. L \in Nat
  BY <1>1, <1>8, HeapFacts
<1>10. j \in Complete(e)
  <2>1. j \in Odd(L) /\ j \notin e.todo
    BY <1>1, <1>4 DEF KeyWritten
  <2>2. j + 1 # 0
    BY <1>9, <2>1 DEF Odd
  <2>. QED
    BY <1>1, <1>3, <2>1, <2>2 DEF Complete
<1>11. PairsOf(e, Complete(e)) = PairsOf(e, Complete(e) \ {j}) \cup {<<ValueAt(e, j), ValueAt(e, j + 1)>>}
  BY <1>10 DEF PairsOf
<1>12. HasPairs(g, e, Complete(e))
  BY <1>4, <1>6, <1>7, <1>11 DEF HasPairs
<1>13. Has(g, e)
  BY <1>2, <1>3, <1>5, <1>7, <1>12 DEF Has
<1>14. ASSUME NEW i \in 1 .. Len(d.vals), i % 2 = 1, Equals(d.vals[i].shape, d.key.shape)
       PROVE  FALSE
  <2>1. i \in Odd(Len(d.vals))
    BY <1>14 DEF Odd
  <2>2. <<d.vals[i].shape, d.vals[i + 1].shape>> \in PairsOf(e, Complete(e) \ {j})
    BY <1>6, <2>1 DEF Pairs
  <2>3. PICK k \in Complete(e) \ {j} :
            <<d.vals[i].shape, d.vals[i + 1].shape>> = <<ValueAt(e, k), ValueAt(e, k + 1)>>
    BY <2>2 DEF PairsOf
  <2>4. Equals(ValueAt(e, k), ValueAt(e, j))
    <3>1. d.vals[i].shape = ValueAt(e, k)
      BY <2>3
    <3>. QED
      BY <1>4, <1>14, <3>1
  <2>5. k \in Odd(L) /\ j \in Odd(L) /\ k # j
    BY <1>1, <1>10, <2>3 DEF Complete
  <2>. QED
    BY <1>1, <1>8, <2>4, <2>5 DEF DistinctKeys, ValueAt, IsMap, Kids
<1>15. ~Dec!SameKey(d, d.key)
  BY <1>14 DEF Dec!SameKey
<1>. QED
  BY <1>1, <1>13, <1>15

-----------------------------------------------------------------------------
(* The decoder's stack holds what the encoder's has written *)

\* The innermost record and those around it.
LEMMA LackSplits ==
    ASSUME NEW s, IsSequence(s), s # <<>>, NEW es, StackOK(es), es # <<>>, Len(s) = Len(es),
           NEW v
    PROVE  Lack(s, es, v) <=> /\ Lacks(s[1], es[1], v)
                              /\ Lack(Tail(s), Tail(es), Meaning[es[1].o])
<1>1. PICK n, t, et, u : n = Len(s) /\ t = Tail(s) /\ et = Tail(es) /\ u = Meaning[es[1].o]
  OBVIOUS
<1>2. n \in Nat /\ n >= 1 /\ Len(t) = n - 1 /\ \A k \in 1 .. n - 1 : t[k] = s[k + 1]
  BY <1>1, StackPop
<1>3. Len(es) = n /\ \A k \in 1 .. n - 1 : et[k] = es[k + 1]
  BY <1>1, TailOK
<1>4. ASSUME NEW k \in 1 .. n PROVE Lacking(et, u, k) = Lacking(es, v, k + 1)
  <2>1. CASE k = 1
    BY <1>1, <1>4, <2>1 DEF Lacking
  <2>2. CASE k # 1
    <3>1. k - 1 \in 1 .. n - 1 /\ (k - 1) + 1 = k /\ (k + 1) - 1 = k /\ k + 1 # 1
      BY <1>2, <1>4, <2>2
    <3>2. et[k - 1] = es[k]
      BY <1>3, <3>1
    <3>. QED
      BY <2>2, <3>1, <3>2 DEF Lacking
  <2>. QED
    BY <2>1, <2>2
<1>5. Lacking(es, v, 1) = v
  BY DEF Lacking
<1>6. \A k \in 1 .. n : k = 1 \/ (k - 1 \in 1 .. n - 1 /\ (k - 1) + 1 = k)
  BY <1>2
<1>7. \A k \in 1 .. n - 1 : k \in 1 .. n /\ k + 1 \in 1 .. n
  BY <1>2
<1>8. 1 \in 1 .. n /\ n \in 1 .. n /\ (n - 1) + 1 = n
  BY <1>2
<1>9. Lacking(et, u, n) = Lacking(es, v, n + 1)
  BY <1>4, <1>8
<1>10. /\ Lack(s, es, v) <=> /\ \A k \in 1 .. n : Lacks(s[k], es[k], Lacking(es, v, k))
                             /\ Lacking(es, v, n + 1) = Meaning[1]
       /\ Lack(t, et, u) <=> /\ \A k \in 1 .. n - 1 : Lacks(t[k], et[k], Lacking(et, u, k))
                             /\ Lacking(et, u, n) = Meaning[1]
  BY <1>1, <1>2, <1>8 DEF Lack
<1>11. ASSUME Lack(s, es, v) PROVE Lacks(s[1], es[1], v) /\ Lack(t, et, u)
  <2>1. Lacks(s[1], es[1], v)
    BY <1>5, <1>8, <1>10, <1>11
  <2>2. ASSUME NEW k \in 1 .. n - 1 PROVE Lacks(t[k], et[k], Lacking(et, u, k))
    BY <1>2, <1>3, <1>4, <1>7, <1>10, <1>11
  <2>. QED
    BY <1>9, <1>10, <1>11, <2>1, <2>2
<1>12. ASSUME Lacks(s[1], es[1], v), Lack(t, et, u) PROVE Lack(s, es, v)
  <2>1. ASSUME NEW k \in 1 .. n PROVE Lacks(s[k], es[k], Lacking(es, v, k))
    <3>1. CASE k = 1
      BY <1>5, <1>12, <3>1
    <3>2. CASE k # 1
      <4>1. PICK m : m = k - 1
        OBVIOUS
      <4>2. m \in 1 .. n - 1 /\ m + 1 = k
        BY <1>6, <3>2, <4>1
      <4>3. Lacks(t[m], et[m], Lacking(et, u, m))
        BY <1>10, <1>12, <4>2
      <4>4. t[m] = s[k] /\ et[m] = es[k] /\ Lacking(et, u, m) = Lacking(es, v, k)
        BY <1>2, <1>3, <1>4, <1>7, <4>2
      <4>. QED
        BY <4>3, <4>4
    <3>. QED
      BY <3>1, <3>2
  <2>. QED
    BY <1>9, <1>10, <1>12, <2>1
<1>. QED
  BY <1>1, <1>11, <1>12

\* What a container stands for stays, and what the records have.
LEMMA ValuesStay ==
    ASSUME heap \in Heaps, heap' = heap, eValues' = eValues
    PROVE  /\ Meaning' = Meaning
           /\ \A item : Value(item)' = Value(item)
           /\ \A t : TokenValue(t)' = TokenValue(t)
           /\ DistinctKeys' = DistinctKeys /\ KeysHashable' = KeysHashable
<1>1. \A n : AddressOf(n)' = AddressOf(n)
  BY DEF AddressOf, Enc!IndexIn, Enc!Min
<1>2. \A k, v, e : Shape(k, v, e)' = Shape(k, v, e)
  BY Zenon DEF Shape
<1>3. \A n : Scalar(n)' = Scalar(n) /\ Pointer(n)' = Pointer(n)
  BY <1>2, Zenon DEF Scalar, Pointer
<1>. DEFINE M(h, w) ==
              CHOOSE f : f = [o \in DOMAIN h |->
                  Whole(h[o].kind,
                        [j \in 1 .. Len(h[o].kids) |->
                            CASE h[o].kids[j].i = "scalar" -> Scalar(h[o].kids[j].n)
                              [] h[o].kids[j].i = "ref" ->
                                     Pointer(Enc!IndexIn(w, h[o].kids[j].n) + 1)
                              [] h[o].kids[j].i = "own" -> f[h[o].kids[j].n]])]
<1>8. Meaning = M(heap, eValues)
  BY Zenon DEF Meaning, KidValues, AddressOf
<1>9. Meaning' = M(heap', eValues')
  BY Zenon DEF Meaning, KidValues, AddressOf
<1>4. Meaning' = Meaning
  <2>. HIDE DEF M
  <2>. QED
    BY <1>8, <1>9
<1>5. \A item : Value(item)' = Value(item)
  BY <1>1, <1>3, <1>4, Zenon DEF Value
<1>6. \A t : TokenValue(t)' = TokenValue(t)
  BY <1>3, Zenon DEF TokenValue
<1>7. DistinctKeys' = DistinctKeys
  BY <1>5 DEF DistinctKeys, Kids
<1>10. KeysHashable' = KeysHashable
  BY DEF KeysHashable, Encloses, Odd
<1>. QED
  BY <1>4, <1>5, <1>6, <1>7, <1>10

LEMMA HavingStays ==
    ASSUME heap \in Heaps, heap' = heap, eValues' = eValues, NEW es, NEW v
    PROVE  /\ \A d, e : Has(d, e)' = Has(d, e)
           /\ Lack(stack', es, v) => Lack(stack, es, v)'
           /\ Lack(Tail(stack'), es, v) => Lack(Tail(stack), es, v)'
<1>1. Meaning' = Meaning /\ \A item : Value(item)' = Value(item)
  BY ValuesStay
<1>2. \A e, j : ValueAt(e, j)' = ValueAt(e, j)
  BY <1>1 DEF ValueAt, Kids
<1>8. \A e, keys : PairsOf(e, keys)' = PairsOf(e, keys)
  BY <1>2 DEF PairsOf
<1>9. \A e, j : KeyWritten(e, j)' = KeyWritten(e, j)
  BY DEF KeyWritten, Kids
<1>10. \A e : Complete(e)' = Complete(e) /\ IsMap(e)' = IsMap(e) /\ Kids(e.o)' = Kids(e.o)
  BY DEF Complete, Kids, IsMap
<1>11. \A d, e, keys : HasPairs(d, e, keys)' = HasPairs(d, e, keys)
  BY <1>8, Zenon DEF HasPairs, Pairs
<1>12. \A d, e, n : HasSome(d, e, n)' = HasSome(d, e, n)
  BY <1>2 DEF HasSome, Kids
<1>3. ASSUME NEW d, NEW e PROVE Has(d, e)' = Has(d, e)
  BY <1>2, <1>9, <1>10, <1>11, <1>12 DEF Has
<1>4. ASSUME NEW d, NEW e, NEW w, Lacks(d, e, w) PROVE Lacks(d, e, w)'
  <2>1. IsSequence(d.vals) /\ d.kind = heap'[e.o].kind
    BY <1>4 DEF Lacks
  <2>2. CASE ~IsMap(e)
    <3>1. PICK n \in Nat : /\ HasSome(d, e, n) /\ e.todo = n + 2 .. Len(Kids(e.o))
                           /\ n + 1 <= Len(Kids(e.o)) /\ w = ValueAt(e, n + 1)
      BY <1>4, <2>2 DEF Lacks
    <3>2. /\ HasSome(d, e, n)' /\ e.todo = n + 2 .. Len(Kids(e.o))'
          /\ n + 1 <= Len(Kids(e.o))' /\ w = ValueAt(e, n + 1)' /\ ~IsMap(e)'
      BY <1>2, <1>10, <1>12, <2>2, <3>1
    <3>. QED
      BY <2>1, <3>2 DEF Lacks
  <2>3. CASE IsMap(e) /\ e.owed # 0
    <3>1. /\ HasPairs(d, e, Complete(e)) /\ KeyWritten(e, e.owed - 1)
          /\ w = ValueAt(e, e.owed - 1)
      BY <1>4, <2>3 DEF Lacks
    <3>2. /\ HasPairs(d, e, Complete(e))' /\ KeyWritten(e, e.owed - 1)'
          /\ w = ValueAt(e, e.owed - 1)' /\ IsMap(e)'
      BY <1>2, <1>9, <1>10, <1>11, <2>3, <3>1
    <3>. QED
      BY <2>1, <2>3, <3>2 DEF Lacks
  <2>4. CASE IsMap(e) /\ e.owed = 0
    <3>1. PICK j : /\ KeyWritten(e, j) /\ HasPairs(d, e, Complete(e) \ {j})
                   /\ d.key.shape = ValueAt(e, j) /\ w = ValueAt(e, j + 1)
      BY <1>4, <2>4 DEF Lacks
    <3>2. /\ KeyWritten(e, j)' /\ HasPairs(d, e, Complete(e) \ {j})'
          /\ d.key.shape = ValueAt(e, j)' /\ w = ValueAt(e, j + 1)' /\ IsMap(e)'
      BY <1>2, <1>9, <1>10, <1>11, <2>4, <3>1
    <3>. QED
      BY <2>1, <2>4, <3>2 DEF Lacks
  <2>. QED
    BY <2>2, <2>3, <2>4
<1>5. \A k : Lacking(es, v, k)' = Lacking(es, v, k)
  BY <1>1 DEF Lacking
<1>6. Lack(stack', es, v) => Lack(stack, es, v)'
  BY <1>1, <1>4, <1>5 DEF Lack
<1>7. Lack(Tail(stack'), es, v) => Lack(Tail(stack), es, v)'
  BY <1>1, <1>4, <1>5 DEF Lack
<1>. QED
  BY <1>3, <1>6, <1>7

\* The token of an element reads as the element.
LEMMA ShownValue ==
    ASSUME EncTypeOK, NEW item, NEW t, Shown(item, t)
    PROVE  TokenValue(t) = Value(item)
<1>1. CASE item.i = "scalar" /\ t.op = "leaf" /\ t.n = item.n
  BY <1>1 DEF TokenValue, Value
<1>2. CASE /\ item.i = "ref" /\ t.op = "ref" /\ t.n \in Nat /\ t.n + 1 <= Len(eValues)
           /\ eValues[t.n + 1] = item.n /\ \A k \in 1 .. t.n : eValues[k] # item.n
  <2>1. PICK c, x, m : c = t.n + 1 /\ x = item.n /\ m = t.n
    OBVIOUS
  <2>2. eValues \in Seq(DOMAIN heap) /\ Len(eValues) \in Nat
    BY DEF EncTypeOK
  <2>3. c \in 1 .. Len(eValues) /\ c - 1 = t.n
    <3>1. m \in Nat /\ m + 1 <= Len(eValues) /\ c = m + 1
      BY <1>2, <2>1
    <3>2. c \in 1 .. Len(eValues) /\ c - 1 = m
      BY ONLY <2>2, <3>1
    <3>. QED
      BY <2>1, <3>2
  <2>4. eValues[c] = x /\ \A k \in 1 .. c - 1 : eValues[k] # x
    BY <1>2, <2>1, <2>3
  <2>5. Enc!IndexIn(eValues, x) = c - 1
    BY <2>2, <2>3, <2>4, IndexIs
  <2>6. AddressOf(item.n) = t.n + 1
    BY <1>2, <2>1, <2>3, <2>5 DEF AddressOf
  <2>. QED
    BY <1>2, <2>6 DEF TokenValue, Value
<1>. QED
  BY <1>1, <1>2 DEF Shown

\* The handler goes on: the record that is read lacks its next element.
LEMMA GoesOnLack ==
    ASSUME heap \in Heaps, NEW es, StackOK(es), es # <<>>, NEW s, IsSequence(s), s # <<>>,
           Len(s) = Len(es), Has(s[1], es[1]), Lack(Tail(s), Tail(es), Meaning[es[1].o]),
           NEW j \in Enc!NextKids(es[1]),
           NEW t, StackOK(t), t = <<Enc!Advance(es[1], j)>> \o Tail(es)
    PROVE  Lack(s, t, ValueAt(es[1], j))
<1>1. PICK g : g = Enc!Advance(es[1], j)
  OBVIOUS
<1>2. es \in Seq(Frames) /\ FrameOK(es[1])
  BY TailOK DEF StackOK
<1>3. FrameOK(g) /\ g \in Frames /\ g.o = es[1].o
  BY <1>1, <1>2, AdvanceOK DEF FrameOK
<1>4. Len(t) = Len(es) /\ t[1] = g /\ Tail(t) = Tail(es) /\ Len(es) \in Nat /\ Len(es) >= 1
  BY <1>1, <1>2, <1>3, SeqTop
<1>5. t # <<>>
  BY <1>4
<1>6. Lacks(s[1], g, ValueAt(es[1], j))
  BY <1>1, <1>2, GoesOnHas
<1>. QED
  BY <1>3, <1>4, <1>5, <1>6, LackSplits

\* At the head of a loop.
LEMMA LoopCarries ==
    ASSUME EncTypeOK, DecUnchanged, Dec!DecNext,
           NEW a \in Entries, NEW b \in Entries, EntryOK(a), EntryOK(b), InLoop(a), a.stack # <<>>,
           Leaves(a, b) \/ Opens(a, b) \/ Closes(a, b), Wrote(a, b), LoopHas(a)
    PROVE  Moves(a, b)'
<1>1. /\ need = "elem" /\ ret = Nothing /\ Level(stack, a.stack)
      /\ IsSequence(stack) /\ stack # <<>> /\ Len(stack) = Len(a.stack)
  BY DEF InLoop, Level
<1>2. /\ heap \in Heaps /\ heap' = heap /\ eValues' = eValues /\ eWire' = eWire
      /\ StackOK(a.stack) /\ StackOK(b.stack) /\ Len(a.stack) \in Nat
      /\ b.at \in Nat
  BY EntryFacts, TailOK DEF EncTypeOK, DecUnchanged
<1>3. /\ Has(stack[1], a.stack[1])
      /\ Lack(Tail(stack), Tail(a.stack), Meaning[a.stack[1].o])
  BY DEF LoopHas
<1>4. (AtLeaf(a, b) \/ AtHeader(a, b) \/ Returned(b))'
  BY LoopStep
<1>5. Dec!AskElement \/ Dec!NoEnd \/ Dec!Finish
  BY <1>1, RunsLoop
<1>6. need' \in {"value", "elem", "gone"}
  BY <1>4 DEF AtLeaf, AtHeader, Returned
<1>7. CASE Dec!AskElement
  <2>1. need' = "value" /\ stack' = stack
    BY <1>7 DEF Dec!AskElement
  <2>2. CASE AtLeaf(a, b)'
    <3>1. Len(b.stack) = Len(a.stack)
      BY <1>1, <2>1, <2>2 DEF AtLeaf, Waits
    <3>2. WroteLeaf(a, b)
      BY <1>2, <3>1 DEF Wrote
    <3>3. PICK j \in Enc!NextKids(a.stack[1]) :
              /\ b.stack = <<Enc!Advance(a.stack[1], j)>> \o Tail(a.stack)
              /\ Shown(Kids(a.stack[1].o)[j], eWire[b.at])
      BY <3>2 DEF WroteLeaf
    <3>4. PICK v, t, item : v = ValueAt(a.stack[1], j) /\ t = eWire[b.at]
                            /\ item = Kids(a.stack[1].o)[j]
      OBVIOUS
    <3>5. Lack(stack, b.stack, v)
      BY <1>1, <1>2, <1>3, <3>3, <3>4, GoesOnLack
    <3>6. TokenValue(t) = v
      BY <3>3, <3>4, ShownValue DEF ValueAt
    <3>7. Lack(stack, b.stack, v)' /\ TokenValue(t)' = TokenValue(t) /\ eWire'[b.at] = t
      BY <1>2, <2>1, <3>4, <3>5, HavingStays, ValuesStay
    <3>. QED
      BY <2>2, <3>6, <3>7 DEF Moves
  <2>3. CASE AtHeader(a, b)'
    <3>1. b.stack # <<>> /\ Len(stack) = Len(Tail(b.stack))
      BY <2>1, <2>3 DEF AtHeader, Opens, Waits
    <3>2. Len(b.stack) = Len(a.stack) + 1 /\ StackOK(Tail(b.stack))
      BY <1>1, <1>2, <3>1, TailOK
    <3>3. WroteHeader(a, b)
      BY <1>2, <3>2 DEF Wrote
    <3>4. PICK j \in Enc!NextKids(a.stack[1]) :
            /\ Tail(b.stack) = <<Enc!Advance(a.stack[1], j)>> \o Tail(a.stack)
            /\ Kids(a.stack[1].o)[j].i = "own" /\ Kids(a.stack[1].o)[j].n = b.stack[1].o
      BY <3>3 DEF WroteHeader
    <3>5. PICK v, t : v = Meaning[b.stack[1].o] /\ t = Tail(b.stack)
      OBVIOUS
    <3>6. ValueAt(a.stack[1], j) = v
      BY <3>4, <3>5 DEF ValueAt, Value
    <3>7. Lack(stack, t, v)
      BY <1>1, <1>2, <1>3, <3>2, <3>4, <3>5, <3>6, GoesOnLack
    <3>8. Lack(stack, t, v)' /\ Meaning' = Meaning
      BY <1>2, <2>1, <3>7, HavingStays, ValuesStay
    <3>. QED
      BY <2>3, <3>5, <3>8 DEF Moves
  <2>. QED
    BY <1>4, <2>1, <2>2, <2>3 DEF Returned
<1>8. CASE Dec!NoEnd
  BY <1>6, <1>8 DEF Dec!NoEnd, Dec!Abort, Dec!Unwind
<1>9. CASE Dec!Finish
  <2>1. /\ ret' = Dec!Val(Dec!FrameShape(stack[1]), Dec!Owned(stack[1])) /\ stack' = Tail(stack)
        /\ need' = "elem"
    BY <1>1, <1>9 DEF Dec!Finish, Dec!Top
  <2>2. Returned(b)'
    BY <1>4, <2>1 DEF AtLeaf, AtHeader
  <2>3. Len(b.stack) = Len(a.stack) - 1 /\ Len(b.stack) \in Nat
    BY <1>1, <1>2, <2>1, <2>2, StackPop DEF Returned, Waits
  <2>4. ~Leaves(a, b)
    <3>1. Leaves(a, b) => Waits(stack, b.stack)
      BY <1>1, <1>2, StackGoesOn DEF Leaves
    <3>. QED
      BY <1>1, <1>2, <2>3, <3>1 DEF Waits
  <2>5. ~Opens(a, b)
    <3>1. Opens(a, b) => Waits(stack, Tail(b.stack)) /\ b.stack # <<>>
      BY <1>1, <1>2, StackGoesOn DEF Opens
    <3>2. b.stack # <<>> => Len(Tail(b.stack)) = Len(b.stack) - 1
      BY <1>2, TailOK
    <3>. QED
      BY <1>1, <1>2, <2>3, <3>1, <3>2 DEF Waits
  <2>6. Enc!NextKids(a.stack[1]) = {} /\ b.stack = Tail(a.stack)
    BY <2>4, <2>5 DEF Closes
  <2>7. PICK v : v = Meaning[a.stack[1].o]
    OBVIOUS
  <2>8. FrameOK(a.stack[1])
    BY <1>2, TailOK
  <2>9. Dec!FrameShape(stack[1]) = v
    BY <1>2, <1>3, <2>6, <2>7, <2>8, WholeRecord
  <2>10. ret'.shape = v
    BY <2>1, <2>9 DEF Dec!Val
  <2>11. Lack(stack', b.stack, v)
    BY <1>3, <2>1, <2>6, <2>7
  <2>12. Lack(stack, b.stack, v)'
    BY <1>2, <2>11, HavingStays
  <2>. QED
    BY <2>2, <2>10, <2>12 DEF Moves
<1>. QED
  BY <1>5, <1>7, <1>8, <1>9

\* A scalar or a reference.
LEMMA LeafCarries ==
    ASSUME EncTypeOK, DecUnchanged, Dec!DecNext,
           NEW a \in Entries, NEW b \in Entries, EntryOK(a), EntryOK(b), AtLeaf(a, b),
           Lack(stack, b.stack, TokenValue(eWire[b.at]))
    PROVE  Moves(a, b)'
<1>1. /\ need = "value" /\ ret = Nothing /\ Leaves(a, b) /\ Read(a)
  BY DEF AtLeaf
<1>2. heap \in Heaps /\ heap' = heap /\ eValues' = eValues
  BY DEF DecUnchanged, EncTypeOK
<1>3. a.at \in Nat /\ b.at <= Len(eWire) /\ Len(eWire) \in Nat
  BY EntryFacts DEF EncTypeOK
<1>4. pos = a.at /\ b.at = a.at + 1
  BY <1>1 DEF Read, Leaves
<1>5. PICK t : t = eWire[b.at]
  OBVIOUS
<1>6. Dec!Left > 0 /\ Dec!Peeked = t
  BY <1>3, <1>4, <1>5 DEF Dec!Left, Dec!Peeked
<1>7. t.op = "leaf" \/ t.op = "ref"
  BY <1>1, <1>5 DEF Leaves
<1>8. Dec!Scalars \/ Dec!Reference
  BY <1>1, <1>6, <1>7, ReadsValue DEF Dec!Reject, Dec!Definition, Dec!List, Dec!VariableList,
     Dec!MapObject, Dec!MalformedHeader, Dec!Instance, Dec!Asked
<1>9. Returned(b)'
  BY LeafStep
<1>10. need' # "failed"
  BY <1>9 DEF Returned
<1>11. /\ stack' = stack
       /\ \/ t.op = "leaf" /\ ret' = Dec!Val(Dec!Scalar(t.n), {})
          \/ t.op = "ref" /\ ret' = Dec!Val(Dec!Pointer(t.n + 1), {})
  BY <1>6, <1>8, <1>10 DEF Dec!Scalars, Dec!Reference, Dec!Asked, Dec!Abort, Dec!Unwind
<1>12. ret'.shape = TokenValue(t)
  <2>1. \A s, own : Dec!Val(s, own).shape = s
    BY DEF Dec!Val
  <2>. QED
    BY <1>11, <2>1, SameShapes DEF TokenValue
<1>13. PICK v : v = TokenValue(t)
  OBVIOUS
<1>14. Lack(stack', b.stack, v)
  BY <1>5, <1>11, <1>13
<1>15. Lack(stack, b.stack, v)'
  BY <1>2, <1>14, HavingStays
<1>. QED
  BY <1>9, <1>12, <1>13, <1>15 DEF Moves

\* A container is entered.
LEMMA EnterCarries ==
    ASSUME EncTypeOK, DecUnchanged, NEW b \in Entries, EntryOK(b), b.stack # <<>>, IsSequence(stack),
           b.stack[1] = Enc!Frame(b.stack[1].o, b.stack[1].form),
           NEW kind, kind = heap[b.stack[1].o].kind, NEW left, Dec!Enter(kind, left),
           Lack(stack, Tail(b.stack), Meaning[b.stack[1].o])
    PROVE  LoopHas(b)'
<1>1. heap \in Heaps /\ heap' = heap /\ eValues' = eValues /\ FrameOK(b.stack[1])
  BY EntryFacts, TailOK DEF DecUnchanged, EncTypeOK
<1>2. PICK d, addr : addr = size + 1 /\ d = Dec!Frame(kind, addr, left)
  OBVIOUS
<1>3. stack' = <<d>> \o stack
  BY <1>2 DEF Dec!Enter
<1>4. Has(d, b.stack[1])
  BY <1>1, <1>2, NewHas
<1>5. stack'[1] = d /\ Tail(stack') = stack
  <2>. DEFINE S == {stack[k] : k \in 1 .. Len(stack)} \cup {d}
  <2>1. stack \in Seq(S) /\ d \in S
    BY SeqMonotonic DEF IsSequence
  <2>. HIDE DEF S
  <2>. QED
    BY <1>3, <2>1, SeqCons
<1>6. PICK v, t : v = Meaning[b.stack[1].o] /\ t = Tail(b.stack)
  OBVIOUS
<1>7. Lack(Tail(stack'), t, v)
  BY <1>5, <1>6
<1>8. Lack(Tail(stack), t, v)' /\ Meaning' = Meaning /\ Has(d, b.stack[1])'
  BY <1>1, <1>4, <1>7, HavingStays, ValuesStay
<1>. QED
  BY <1>5, <1>6, <1>8 DEF LoopHas

\* A header, or the definition before an instance.
LEMMA HeaderCarries ==
    ASSUME EncTypeOK, DecUnchanged, Dec!DecNext,
           NEW a \in Entries, NEW b \in Entries, EntryOK(a), EntryOK(b), AtHeader(a, b),
           Lack(stack, Tail(b.stack), Meaning[b.stack[1].o])
    PROVE  Moves(a, b)'
<1>1. /\ need = "value" /\ ret = Nothing /\ IsSequence(stack)
      /\ Opens(a, b) /\ Read(a)
  BY DEF AtHeader, Waits
<1>2. heap \in Heaps /\ heap' = heap /\ eValues' = eValues
  BY DEF DecUnchanged, EncTypeOK
<1>3. (InLoop(b) \/ AtInstance(a, b))'
  BY HeaderStep
<1>4. b.stack # <<>>
  BY <1>1 DEF Opens
<1>5. PICK f, n, t : f = b.stack[1] /\ n = Len(Kids(f.o)) /\ t = eWire[a.at + 1]
  OBVIOUS
<1>6. /\ FrameOK(f) /\ f = Enc!Frame(f.o, f.form) /\ n \in Nat
      /\ OneToken(f.o, f.form, a.defs, t) \/ t = Def(n)
  BY <1>1, <1>5, HeaderRead
<1>7. Dec!Left > 0 => Dec!Peeked = t
  BY <1>1, <1>5 DEF Dec!Peeked, Read
<1>8. Def(n).op = "C"
  BY <1>6, TokensMade
<1>9. f.form = "var" => heap[f.o].kind = "list"
  BY <1>6 DEF FrameOK
<1>19. Dec!Peeked.op # "baddef" /\ (Dec!Peeked.op = "C" => Dec!Peeked.n \in Nat)
  <2>1. Dec!Peeked = t
    BY <1>1, <1>5 DEF Dec!Peeked, Read
  <2>2. CASE t = Def(n)
    BY <1>6, <2>1, <2>2, TokensMade
  <2>3. CASE OneToken(f.o, f.form, a.defs, t)
    BY <2>1, <2>3 DEF OneToken
  <2>. QED
    BY <1>6, <2>2, <2>3
<1>10. ASSUME NEW kind, NEW left, Dec!Enter(kind, left), kind = heap[f.o].kind
       PROVE  Moves(a, b)'
  <2>1. LoopHas(b)'
    BY <1>1, <1>4, <1>5, <1>6, <1>10, EnterCarries
  <2>2. need' = "elem"
    BY <1>10 DEF Dec!Enter
  <2>3. InLoop(b)'
    BY <1>3, <2>2 DEF AtInstance
  <2>. QED
    BY <2>1, <2>3 DEF Moves
<1>11. need' # "failed" /\ ret' = Nothing
  BY <1>3 DEF InLoop, AtInstance, Nothing, Dec!Nothing, Dec!Val, Dec!Shape
<1>12. CASE Dec!Definition
  <2>1. need' = "value" /\ stack' = stack
    BY <1>1, <1>12 DEF Dec!Definition
  <2>2. AtInstance(a, b)'
    BY <1>3, <2>1 DEF InLoop
  <2>3. PICK v, u : v = Meaning[b.stack[1].o] /\ u = Tail(b.stack)
    OBVIOUS
  <2>4. Lack(stack', u, v)
    BY <2>1, <2>3
  <2>5. Lack(stack, u, v)' /\ Meaning' = Meaning
    BY <1>2, <2>4, HavingStays, ValuesStay
  <2>. QED
    BY <2>2, <2>3, <2>5 DEF Moves
<1>13. ~Dec!Reject /\ ~Dec!MalformedHeader
  BY <1>11 DEF Dec!Reject, Dec!MalformedHeader, Dec!EnterAndFail, Dec!Abort, Dec!Unwind
<1>14. ~Dec!Scalars /\ ~Dec!Reference
  BY <1>11, SomeValue DEF Dec!Scalars, Dec!Reference, Dec!Abort, Dec!Unwind
<1>15. CASE Dec!List
  <2>1. t.op = "list"
    BY <1>7, <1>15 DEF Dec!List, Dec!Asked
  <2>2. heap[f.o].kind = "list"
    BY <1>6, <1>8, <2>1 DEF OneToken
  <2>3. PICK left : Dec!Enter("list", left)
    BY <1>15 DEF Dec!List
  <2>. QED
    BY <1>10, <2>2, <2>3
<1>16. CASE Dec!VariableList
  <2>1. t.op = "varlist"
    BY <1>7, <1>16 DEF Dec!VariableList, Dec!Asked
  <2>2. heap[f.o].kind = "list"
    BY <1>6, <1>8, <1>9, <2>1 DEF OneToken
  <2>3. PICK left : Dec!Enter("list", left)
    BY <1>16 DEF Dec!VariableList
  <2>. QED
    BY <1>10, <2>2, <2>3
<1>17. CASE Dec!MapObject
  <2>1. t.op = "map"
    BY <1>7, <1>17 DEF Dec!MapObject, Dec!Asked
  <2>2. heap[f.o].kind = "map"
    BY <1>6, <1>8, <2>1 DEF OneToken
  <2>3. PICK left : Dec!Enter("map", left)
    BY <1>17 DEF Dec!MapObject
  <2>. QED
    BY <1>10, <2>2, <2>3
<1>18. CASE Dec!Instance
  <2>1. t.op = "inst"
    BY <1>7, <1>18 DEF Dec!Instance, Dec!Asked
  <2>2. heap[f.o].kind = "inst"
    BY <1>6, <1>8, <2>1 DEF OneToken
  <2>3. PICK left : Dec!Enter("inst", left)
    BY <1>11, <1>18 DEF Dec!Instance, Dec!EnterAndFail, Dec!Abort, Dec!Unwind
  <2>. QED
    BY <1>10, <2>2, <2>3
<1>. QED
  BY <1>1, <1>12, <1>13, <1>14, <1>15, <1>16, <1>17, <1>18, <1>19, ReadsValue

\* The instance after its definition.
LEMMA InstanceCarries ==
    ASSUME EncTypeOK, DecUnchanged, Dec!DecNext,
           NEW a \in Entries, NEW b \in Entries, EntryOK(a), EntryOK(b), AtInstance(a, b),
           Lack(stack, Tail(b.stack), Meaning[b.stack[1].o])
    PROVE  Moves(a, b)'
<1>1. /\ need = "value" /\ ret = Nothing /\ IsSequence(stack)
      /\ Opens(a, b) /\ pos = a.at + 1 /\ b.at = a.at + 2
  BY DEF AtInstance, Waits
<1>2. InLoop(b)'
  BY InstanceStep
<1>3. b.stack # <<>>
  BY <1>1 DEF Opens
<1>4. a.at \in Nat /\ a.defs \in Seq(Nat) /\ Len(a.defs) \in Nat
  BY EntryFacts
<1>5. PICK f, t, k : f = b.stack[1] /\ t = eWire[a.at + 2] /\ k = Len(a.defs)
  OBVIOUS
<1>6. /\ f = Enc!Frame(f.o, f.form) /\ heap[f.o].kind = "inst" /\ t = Inst(k)
  <2>1. a.at + 2 # a.at + 1
    BY <1>4
  <2>. QED
    BY <1>1, <1>5, <2>1, HeaderRead
<1>7. t.op = "inst"
  BY <1>4, <1>5, <1>6, TokensMade
<1>8. Dec!Peeked = t
  BY <1>1, <1>4, <1>5 DEF Dec!Peeked
<1>9. need' # "failed" /\ need' = "elem" /\ ret' = Nothing
  BY <1>2 DEF InLoop, Nothing, Dec!Nothing, Dec!Val, Dec!Shape
<1>10. Dec!Instance
  BY <1>1, <1>7, <1>8, <1>9, ReadsValue DEF Dec!Reject, Dec!Scalars, Dec!Reference,
     Dec!Definition, Dec!MapObject, Dec!VariableList, Dec!MalformedHeader, Dec!List, Dec!Asked,
     Dec!Abort, Dec!Unwind
<1>11. PICK left : Dec!Enter("inst", left)
  BY <1>9, <1>10 DEF Dec!Instance, Dec!EnterAndFail, Dec!Abort, Dec!Unwind
<1>12. PICK kind : kind = "inst" /\ Dec!Enter(kind, left)
  BY <1>11
<1>13. LoopHas(b)'
  BY <1>1, <1>3, <1>5, <1>6, <1>12, EnterCarries
<1>. QED
  BY <1>2, <1>13 DEF Moves

\* A value comes back.
LEMMA ReturnCarries ==
    ASSUME EncTypeOK, DecUnchanged, Dec!DecNext, NEW a, NEW b \in Entries, EntryOK(b),
           Returned(b), stack # <<>>, Lack(stack, b.stack, ret.shape), DistinctKeys
    PROVE  /\ Moves(a, b)' /\ IsRecord(stack[1]) /\ IsSequence(stack[1].vals)
           /\ Dec!Emplace => ~Dec!SameKey(stack[1], stack[1].key)
<1>1. /\ need \in {"elem", "gone"} /\ ret # Nothing /\ Waits(stack, b.stack)
      /\ IsSequence(stack) /\ Len(stack) = Len(b.stack)
  BY DEF Returned, Waits
<1>2. heap \in Heaps /\ heap' = heap /\ eValues' = eValues /\ StackOK(b.stack)
  BY EntryFacts DEF DecUnchanged, EncTypeOK
<1>3. \/ Dec!Take \/ Dec!AppendElement \/ Dec!HoldKey \/ Dec!Emplace
      \/ Dec!HashNothing
  BY <1>1, TakesValue
<1>4. ~Dec!Take
  BY DEF Dec!Take
<1>5. Nothing' = Nothing
  BY DEF Nothing, Dec!Nothing, Dec!Val, Dec!Shape
<1>6. (InLoop(b) \/ Returned(b))'
  BY ReturnStep
<1>7. b.stack # <<>>
  <2>1. Len(stack) >= 1
    BY <1>1, StackPop
  <2>2. b.stack = <<>> => Len(b.stack) = 0
    BY StackEmpty
  <2>. QED
    BY <1>1, <2>1, <2>2
<1>8. PICK e, d, v : e = b.stack[1] /\ d = stack[1] /\ v = ret
  OBVIOUS
<1>9. PICK u, es : u = Meaning[e.o] /\ es = Tail(b.stack)
  OBVIOUS
<1>10. Awaits(d, e) /\ FrameOK(e) /\ IsRecord(d) /\ (d.kind = "map" <=> IsMap(e))
  BY <1>1, <1>2, <1>8, StackTopWaits DEF Awaits
<1>11. Lacks(d, e, v.shape) /\ Lack(Tail(stack), es, u)
  BY <1>1, <1>2, <1>7, <1>8, <1>9, LackSplits
<1>12. IsSequence(d.vals)
  BY <1>11 DEF Lacks
<1>13. ASSUME NEW g, Has(g, e), stack' = <<g>> \o Tail(stack), ret' = Nothing PROVE Moves(a, b)'
  <2>1. stack'[1] = g /\ Tail(stack') = Tail(stack)
    <3>. DEFINE S == {stack[k] : k \in 1 .. Len(stack)} \cup {g}
    <3>1. stack \in Seq(S) /\ g \in S
      BY <1>1, SeqMonotonic DEF IsSequence
    <3>. HIDE DEF S
    <3>. QED
      BY <1>13, <3>1, SeqTop
  <2>2. Lack(Tail(stack'), es, u)
    BY <1>11, <2>1
  <2>3. Lack(Tail(stack), es, u)' /\ Meaning' = Meaning /\ Has(g, e)'
    BY <1>2, <1>13, <2>2, HavingStays, ValuesStay
  <2>4. LoopHas(b)'
    BY <1>8, <1>9, <2>1, <2>3 DEF LoopHas
  <2>5. InLoop(b)'
    BY <1>5, <1>6, <1>13 DEF Returned
  <2>. QED
    BY <2>4, <2>5 DEF Moves
<1>14. CASE Dec!AppendElement
  <2>1. d.kind # "map" /\ stack' = <<Appended(d, v)>> \o Tail(stack)
    BY <1>8, <1>10, <1>14, TakenRecord
  <2>2. Has(Appended(d, v), e)
    BY <1>10, <1>11, <2>1, AppendedHas
  <2>3. ret' = Nothing /\ ~Dec!Emplace
    BY <1>8, <1>14, <2>1 DEF Dec!AppendElement, Nothing, Dec!Emplace, Dec!Top
  <2>. QED
    BY <1>8, <1>10, <1>12, <1>13, <2>1, <2>2, <2>3
<1>15. CASE Dec!HoldKey
  <2>1. /\ d.kind = "map" /\ d.key = Nothing
        /\ stack' = <<Held(d, v)>> \o Tail(stack)
    BY <1>8, <1>10, <1>15, TakenRecord
  <2>2. Has(Held(d, v), e)
    BY <1>10, <1>11, <2>1, HeldHas
  <2>3. ret' = Nothing /\ ~Dec!Emplace
    BY <1>8, <1>15, <2>1 DEF Dec!HoldKey, Nothing, Dec!Emplace, Dec!Top
  <2>. QED
    BY <1>8, <1>10, <1>12, <1>13, <2>1, <2>2, <2>3
<1>16. CASE Dec!Emplace
  <2>1. d.kind = "map" /\ d.key # Nothing
    BY <1>8, <1>10, <1>16, TakenRecord
  <2>2. Has(Kept(d, v), e) /\ ~Dec!SameKey(d, d.key)
    BY <1>2, <1>10, <1>11, <2>1, KeptHas
  <2>3. ~Dec!SameKey(Dec!Top, Dec!Top.key)
    BY <1>8, <2>2, Zenon DEF Dec!Top
  <2>4. stack' = Dec!WithTop([Dec!Top EXCEPT !.key = Dec!Nothing,
                                             !.vals = @ \o <<Dec!Top.key, ret>>])
    BY <1>16, <2>3, Zenon DEF Dec!Emplace
  <2>5. stack' = <<Kept(d, v)>> \o Tail(stack)
    BY <1>8, <2>4, Zenon DEF Dec!Top, Dec!WithTop, Kept, Nothing
  <2>6. ret' = Nothing
    BY <1>16 DEF Dec!Emplace, Nothing
  <2>. QED
    BY <1>8, <1>10, <1>12, <1>13, <2>2, <2>5, <2>6
<1>17. CASE Dec!HashNothing
  <2>1. need' = "gone" /\ stack' = stack /\ ret' = ret
    BY <1>17 DEF Dec!HashNothing
  <2>2. Returned(b)'
    BY <1>6, <2>1 DEF InLoop
  <2>3. PICK w : w = ret.shape
    OBVIOUS
  <2>4. Lack(stack', b.stack, w)
    BY <2>1, <2>3
  <2>5. Lack(stack, b.stack, w)' /\ ret'.shape = w
    BY <1>2, <2>1, <2>3, <2>4, HavingStays
  <2>6. ~Dec!Emplace
    BY <1>17 DEF Dec!HashNothing, Dec!Emplace
  <2>. QED
    BY <1>8, <1>10, <1>12, <2>2, <2>5, <2>6 DEF Moves
<1>. QED
  BY <1>3, <1>4, <1>14, <1>15, <1>16, <1>17

\* The caller lacks the root.
LEMMA RootLacks ==
    ASSUME NEW es, NEW v
    PROVE  Lack(<<>>, es, v) <=> v = Meaning[1]
<1>1. Len(<<>>) = 0 /\ 0 + 1 = 1
  BY StackEmpty
<1>2. Lacking(es, v, 1) = v
  BY DEF Lacking
<1>. QED
  BY <1>1, <1>2 DEF Lack

\* The root is called for.
LEMMA CallCarries ==
    ASSUME EncTypeOK, DecUnchanged, Dec!DecNext, NotCalled,
           NEW a \in Entries, NEW b \in Entries, EntryOK(a), EntryOK(b), a = Before,
           Leaves(a, b) \/ Opens(a, b) \/ Closes(a, b), Wrote(a, b)
    PROVE  Moves(a, b)'
<1>1. AtHeader(a, b)'
  BY CallStep
<1>2. a.stack = <<>> /\ Len(a.stack) = 0
  BY StackEmpty DEF Before
<1>3. Opens(a, b)
  BY <1>2 DEF Leaves, Closes
<1>4. b.stack # <<>> /\ Tail(b.stack) = <<>>
  BY <1>2, <1>3 DEF Opens
<1>5. Len(b.stack) = 1
  <2>1. PICK n, t : n = Len(b.stack) /\ t = Tail(b.stack)
    OBVIOUS
  <2>2. n \in Nat /\ Len(t) = n - 1
    BY <1>4, <2>1, EntryFacts, TailOK
  <2>3. Len(t) = 0
    BY <1>4, <2>1, StackEmpty
  <2>4. n = 1
    BY ONLY <2>2, <2>3
  <2>. QED
    BY <2>1, <2>4
<1>6. b.stack[1].o = 1
  BY <1>2, <1>5 DEF Wrote, WroteHeader
<1>7. stack' = <<>>
  BY OnlyCalls DEF NotCalled, Dec!Call
<1>8. PICK v, es : v = Meaning[1] /\ es = Tail(b.stack)
  OBVIOUS
<1>10. heap \in Heaps /\ heap' = heap /\ eValues' = eValues
  BY DEF DecUnchanged, EncTypeOK
<1>11. Lack(stack', es, v)
  BY <1>7, <1>8, RootLacks
<1>12. Lack(stack, es, v)' /\ Meaning' = Meaning
  BY <1>10, <1>11, HavingStays, ValuesStay
<1>9. Lack(stack, Tail(b.stack), Meaning[b.stack[1].o])'
  BY <1>6, <1>8, <1>12
<1>. QED
  BY <1>1, <1>9 DEF Moves

-----------------------------------------------------------------------------
(* Every container that has been entered is owned *)

LEMMA OwnedPushed ==
    ASSUME NEW s, IsSequence(s), NEW d, NEW t, t = <<d>> \o s
    PROVE  StackOwned(t) = Dec!Owned(d) \cup StackOwned(s)
<1>1. PICK n : n = Len(s)
  OBVIOUS
<1>2. /\ n \in Nat /\ Len(t) = n + 1 /\ t[1] = d
      /\ \A k \in 1 .. n : t[k + 1] = s[k]
  <2>1. IsSequence(s) /\ t = <<d>> \o s
    OBVIOUS
  <2>2. /\ Len(s) \in Nat /\ Len(t) = Len(s) + 1 /\ t[1] = d
        /\ \A k \in 1 .. Len(s) : t[k + 1] = s[k]
    BY ONLY <2>1, StackPush
  <2>. QED
    BY <1>1, <2>2
<1>3. \A k \in 1 .. n + 1 : k = 1 \/ (k - 1 \in 1 .. n /\ (k - 1) + 1 = k)
  BY <1>2
<1>4. 1 \in 1 .. n + 1 /\ \A k \in 1 .. n : k + 1 \in 1 .. n + 1
  BY <1>2
<1>5. StackOwned(t) = UNION {Dec!Owned(t[k]) : k \in 1 .. n + 1}
  BY <1>2 DEF StackOwned
<1>6. StackOwned(s) = UNION {Dec!Owned(s[k]) : k \in 1 .. n}
  BY <1>1 DEF StackOwned
<1>7. ASSUME NEW x \in StackOwned(t) PROVE x \in Dec!Owned(d) \cup StackOwned(s)
  <2>1. PICK k \in 1 .. n + 1 : x \in Dec!Owned(t[k])
    BY <1>5
  <2>2. CASE k = 1
    BY <1>2, <2>1, <2>2
  <2>3. CASE k # 1
    <3>1. PICK m : m = k - 1
      OBVIOUS
    <3>2. m \in 1 .. n /\ m + 1 = k
      BY <1>3, <2>3, <3>1
    <3>3. t[k] = s[m]
      BY <1>2, <3>2
    <3>. QED
      BY <1>6, <2>1, <3>2, <3>3
  <2>. QED
    BY <2>2, <2>3
<1>8. ASSUME NEW x \in Dec!Owned(d) \cup StackOwned(s) PROVE x \in StackOwned(t)
  <2>1. CASE x \in Dec!Owned(d)
    BY <1>2, <1>4, <1>5, <2>1
  <2>2. CASE x \in StackOwned(s)
    <3>1. PICK k \in 1 .. n : x \in Dec!Owned(s[k])
      BY <1>6, <2>2
    <3>2. t[k + 1] = s[k] /\ k + 1 \in 1 .. n + 1
      BY <1>2, <1>4
    <3>. QED
      BY <1>5, <3>1, <3>2
  <2>. QED
    BY <2>1, <2>2
<1>. QED
  BY <1>7, <1>8

LEMMA OwnedSplits ==
    ASSUME NEW s, IsSequence(s), s # <<>>
    PROVE  StackOwned(s) = Dec!Owned(s[1]) \cup StackOwned(Tail(s))
<1>1. PICK n, r : n = Len(s) /\ r = Tail(s)
  OBVIOUS
<1>2. n \in Nat /\ n >= 1 /\ Len(r) = n - 1 /\ \A k \in 1 .. n - 1 : r[k] = s[k + 1]
  BY <1>1, StackPop
<1>3. \A k \in 1 .. n : k = 1 \/ (k - 1 \in 1 .. n - 1 /\ (k - 1) + 1 = k)
  BY <1>2
<1>4. 1 \in 1 .. n /\ \A k \in 1 .. n - 1 : k + 1 \in 1 .. n
  BY <1>2
<1>5. StackOwned(s) = UNION {Dec!Owned(s[k]) : k \in 1 .. n}
  BY <1>1 DEF StackOwned
<1>6. StackOwned(r) = UNION {Dec!Owned(r[k]) : k \in 1 .. n - 1}
  BY <1>2 DEF StackOwned
<1>7. ASSUME NEW x \in StackOwned(s) PROVE x \in Dec!Owned(s[1]) \cup StackOwned(r)
  <2>1. PICK k \in 1 .. n : x \in Dec!Owned(s[k])
    BY <1>5
  <2>2. CASE k = 1
    BY <2>1, <2>2
  <2>3. CASE k # 1
    <3>1. PICK m : m = k - 1
      OBVIOUS
    <3>2. m \in 1 .. n - 1 /\ m + 1 = k
      BY <1>3, <2>3, <3>1
    <3>3. s[k] = r[m]
      BY <1>2, <3>2
    <3>. QED
      BY <1>6, <2>1, <3>2, <3>3
  <2>. QED
    BY <2>2, <2>3
<1>8. ASSUME NEW x \in Dec!Owned(s[1]) \cup StackOwned(r) PROVE x \in StackOwned(s)
  <2>1. CASE x \in Dec!Owned(s[1])
    BY <1>4, <1>5, <2>1
  <2>2. CASE x \in StackOwned(r)
    <3>1. PICK k \in 1 .. n - 1 : x \in Dec!Owned(r[k])
      BY <1>6, <2>2
    <3>2. r[k] = s[k + 1] /\ k + 1 \in 1 .. n
      BY <1>2, <1>4
    <3>. QED
      BY <1>5, <3>1, <3>2
  <2>. QED
    BY <2>1, <2>2
<1>. QED
  BY <1>1, <1>7, <1>8

LEMMA NothingOwned ==
    /\ Nothing.own = {} /\ StackOwned(<<>>) = {}
    /\ \A s, own : Dec!Val(s, own).own = own
<1>1. \A s, own : Dec!Val(s, own).own = own
  BY DEF Dec!Val
<1>2. Nothing.own = {}
  BY <1>1 DEF Nothing, Dec!Nothing
<1>3. StackOwned(<<>>) = {}
  BY StackEmpty DEF StackOwned
<1>. QED
  BY <1>1, <1>2, <1>3

LEMMA NewOwned ==
    ASSUME NEW kind \in {"list", "map", "inst"}, NEW addr, NEW left
    PROVE  Dec!Owned(Dec!Frame(kind, addr, left)) = {addr}
<1>1. PICK d : d = Dec!Frame(kind, addr, left)
  OBVIOUS
<1>2. d.addr = addr /\ d.vals = <<>> /\ d.key = Nothing
  BY <1>1, NewRecord
<1>3. Dec!Owned(d) = {addr}
  BY <1>2, NothingOwned, StackEmpty DEF Dec!Owned
<1>. QED
  BY <1>1, <1>3

ElementsOwned(d) == UNION {d.vals[i].own : i \in 1 .. Len(d.vals)}

LEMMA OwnedByParts ==
    ASSUME NEW d
    PROVE  /\ Dec!Owned(d) = {d.addr} \cup d.key.own \cup ElementsOwned(d)
           /\ \A x : x \in ElementsOwned(d) <=> \E i \in 1 .. Len(d.vals) : x \in d.vals[i].own
<1>1. Dec!Owned(d) = {d.addr} \cup d.key.own \cup ElementsOwned(d)
  BY DEF Dec!Owned, ElementsOwned
<1>2. \A x : x \in ElementsOwned(d) <=> \E i \in 1 .. Len(d.vals) : x \in d.vals[i].own
  BY DEF ElementsOwned
<1>. QED
  BY <1>1, <1>2

\* What a record owns after an element is appended, a key held, a pair kept.
LEMMA TakesOwned ==
    ASSUME NEW d, IsRecord(d), IsSequence(d.vals), NEW v
    PROVE  /\ Dec!Owned(Appended(d, v)) = Dec!Owned(d) \cup v.own
           /\ d.key = Nothing => Dec!Owned(Held(d, v)) = Dec!Owned(d) \cup v.own
           /\ Dec!Owned(Kept(d, v)) = Dec!Owned(d) \cup v.own
<1>1. PICK n, u : n = Len(d.vals) /\ u = ElementsOwned(d)
  OBVIOUS
<1>2. n \in Nat
  BY <1>1, SeqGrows
<1>3. /\ Dec!Owned(d) = {d.addr} \cup d.key.own \cup u
      /\ \A x : x \in u <=> \E i \in 1 .. n : x \in d.vals[i].own
  BY <1>1, OwnedByParts
<1>4. ASSUME NEW g, g = Appended(d, v) PROVE Dec!Owned(g) = Dec!Owned(d) \cup v.own
  <2>1. /\ Len(g.vals) = n + 1 /\ g.addr = d.addr
        /\ g.vals[n + 1] = v /\ \A i \in 1 .. n : g.vals[i] = d.vals[i]
    <3>1. IsRecord(d) /\ IsSequence(d.vals) /\ n = Len(d.vals) /\ g = Appended(d, v)
      BY <1>1, <1>4
    <3>. QED
      BY ONLY <1>2, <3>1, AppendedElements
  <2>2. g.key = d.key
    BY <1>4, ChangedFields
  <2>3. PICK w : w = ElementsOwned(g)
    OBVIOUS
  <2>4. /\ Dec!Owned(g) = {g.addr} \cup g.key.own \cup w
        /\ \A x : x \in w <=> \E i \in 1 .. n + 1 : x \in g.vals[i].own
    BY <2>1, <2>3, OwnedByParts
  <2>5. 1 .. n + 1 = (1 .. n) \cup {n + 1}
    BY <1>2
  <2>6. \A x : x \in w <=> x \in u \/ x \in v.own
    BY <1>3, <2>1, <2>4, <2>5
  <2>7. w = u \cup v.own
    BY ONLY <2>6
  <2>. QED
    BY <1>3, <2>1, <2>2, <2>4, <2>7
<1>5. ASSUME NEW g, g = Held(d, v), d.key = Nothing PROVE Dec!Owned(g) = Dec!Owned(d) \cup v.own
  <2>1. g.vals = d.vals /\ g.addr = d.addr /\ g.key = v
    BY <1>5, HeldElements, ChangedFields
  <2>2. ElementsOwned(g) = u
    BY <1>1, <2>1 DEF ElementsOwned
  <2>3. Dec!Owned(g) = {g.addr} \cup g.key.own \cup u
    BY <2>2, OwnedByParts
  <2>4. d.key.own = {}
    BY <1>5, NothingOwned
  <2>. QED
    BY <1>3, <2>1, <2>3, <2>4
<1>6. ASSUME NEW g, g = Kept(d, v) PROVE Dec!Owned(g) = Dec!Owned(d) \cup v.own
  <2>1. /\ Len(g.vals) = n + 2 /\ g.addr = d.addr
        /\ g.vals[n + 1] = d.key /\ g.vals[n + 2] = v
        /\ \A i \in 1 .. n : g.vals[i] = d.vals[i]
    <3>1. IsRecord(d) /\ IsSequence(d.vals) /\ n = Len(d.vals) /\ g = Kept(d, v)
      BY <1>1, <1>6
    <3>. QED
      BY ONLY <1>2, <3>1, KeptElements
  <2>2. g.key.own = {}
    <3>1. g.key = Nothing
      BY <1>6, ChangedFields
    <3>. QED
      BY <3>1, NothingOwned
  <2>3. PICK w, k : w = ElementsOwned(g) /\ k = d.key
    OBVIOUS
  <2>4. /\ Dec!Owned(g) = {g.addr} \cup g.key.own \cup w
        /\ \A x : x \in w <=> \E i \in 1 .. n + 2 : x \in g.vals[i].own
    BY <2>1, <2>3, OwnedByParts
  <2>5. 1 .. n + 2 = (1 .. n) \cup {n + 1, n + 2}
    BY <1>2
  <2>6. \A x : x \in w <=> x \in u \/ x \in k.own \/ x \in v.own
    BY <1>3, <2>1, <2>3, <2>4, <2>5
  <2>7. w = u \cup k.own \cup v.own
    BY ONLY <2>6
  <2>8. Dec!Owned(d) = {d.addr} \cup k.own \cup u
    BY <1>3, <2>3
  <2>. QED
    BY <2>1, <2>2, <2>4, <2>7, <2>8
<1>. QED
  BY <1>4, <1>5, <1>6

LEMMA OwnsMeans == Owns' <=> size' \in Nat /\ StackOwned(stack') \cup ret'.own = 1 .. size'
BY DEF Owns, StackOwned, Dec!Owned

\* Nothing changes hands.
LEMMA OwnsKept ==
    ASSUME Owns, UNCHANGED <<stack, size>>, ret'.own = ret.own
    PROVE  Owns'
BY OwnsMeans DEF Owns

\* A container is entered.
LEMMA EnterOwns ==
    ASSUME Owns, IsSequence(stack), ret = Nothing, NEW kind \in {"list", "map", "inst"}, NEW left,
           Dec!Enter(kind, left)
    PROVE  Owns'
<1>1. PICK n, d, s : n = size /\ d = Dec!Frame(kind, n + 1, left) /\ s = stack
  OBVIOUS
<1>2. n \in Nat /\ StackOwned(s) \cup {} = 1 .. n
  BY <1>1, NothingOwned DEF Owns
<1>3. size' = n + 1 /\ stack' = <<d>> \o s /\ ret' = ret
  BY <1>1 DEF Dec!Enter
<1>4. Dec!Owned(d) = {n + 1}
  BY <1>1, NewOwned
<1>5. StackOwned(stack') = {n + 1} \cup StackOwned(s)
  BY <1>1, <1>3, <1>4, OwnedPushed
<1>6. n + 1 \in Nat /\ 1 .. n + 1 = (1 .. n) \cup {n + 1}
  BY <1>2
<1>7. ret'.own = {}
  BY <1>3, NothingOwned
<1>. QED
  BY <1>2, <1>3, <1>5, <1>6, <1>7, OwnsMeans

\* A container is finished: the value has what its record had.
LEMMA FinishOwns ==
    ASSUME Owns, IsSequence(stack), Dec!Finish
    PROVE  Owns'
<1>1. /\ ret = Nothing /\ stack # <<>> /\ stack' = Tail(stack) /\ size' = size
      /\ ret' = Dec!Val(Dec!FrameShape(stack[1]), Dec!Owned(stack[1]))
  BY DEF Dec!Finish, Dec!InLoop, Dec!Top, Nothing
<1>2. ret'.own = Dec!Owned(stack[1]) /\ ret.own = {}
  BY <1>1, NothingOwned
<1>3. StackOwned(stack) = Dec!Owned(stack[1]) \cup StackOwned(stack')
  BY <1>1, OwnedSplits
<1>. QED
  BY <1>1, <1>2, <1>3, OwnsMeans DEF Owns

\* The innermost record takes the value.
LEMMA TakeOwns ==
    ASSUME Owns, IsSequence(stack), stack # <<>>, IsRecord(stack[1]), IsSequence(stack[1].vals),
           Dec!AppendElement \/ Dec!HoldKey \/ Dec!Emplace,
           Dec!Emplace => ~Dec!SameKey(stack[1], stack[1].key)
    PROVE  Owns'
<1>1. PICK d, v, t : d = stack[1] /\ v = ret /\ t = Tail(stack)
  OBVIOUS
<1>2. IsRecord(d) /\ IsSequence(d.vals) /\ IsSequence(t)
  BY <1>1, StackPop
<1>3. size' = size /\ ret' = Nothing
  BY DEF Dec!AppendElement, Dec!HoldKey, Dec!Emplace, Nothing
<1>4. ASSUME NEW g, stack' = <<g>> \o t, Dec!Owned(g) = Dec!Owned(d) \cup v.own
      PROVE  Owns'
  <2>1. StackOwned(stack') = Dec!Owned(g) \cup StackOwned(t)
    BY <1>2, <1>4, OwnedPushed
  <2>2. StackOwned(stack) = Dec!Owned(d) \cup StackOwned(t)
    BY <1>1, OwnedSplits
  <2>3. ret'.own = {}
    BY <1>3, NothingOwned
  <2>4. size \in Nat /\ StackOwned(stack) \cup v.own = 1 .. size
    BY <1>1 DEF Owns
  <2>5. StackOwned(stack') \cup ret'.own = 1 .. size
    BY <1>4, <2>1, <2>2, <2>3, <2>4
  <2>. QED
    BY <1>3, <2>4, <2>5, OwnsMeans
<1>5. CASE Dec!AppendElement
  <2>1. stack' = <<Appended(d, v)>> \o t
    BY <1>1, <1>2, <1>5, TakenRecord
  <2>. QED
    BY <1>2, <1>4, <2>1, TakesOwned
<1>6. CASE Dec!HoldKey
  <2>1. d.key = Nothing /\ stack' = <<Held(d, v)>> \o t
    BY <1>1, <1>2, <1>6, TakenRecord
  <2>. QED
    BY <1>2, <1>4, <2>1, TakesOwned
<1>7. CASE Dec!Emplace
  <2>1. ~Dec!SameKey(Dec!Top, Dec!Top.key)
    BY <1>7, Zenon DEF Dec!Top
  <2>2. stack' = Dec!WithTop([Dec!Top EXCEPT !.key = Dec!Nothing,
                                             !.vals = @ \o <<Dec!Top.key, ret>>])
    BY <1>7, <2>1, Zenon DEF Dec!Emplace
  <2>3. stack' = <<Kept(d, v)>> \o t
    BY <1>1, <2>2, Zenon DEF Dec!Top, Dec!WithTop, Kept, Nothing
  <2>. QED
    BY <1>2, <1>4, <2>3, TakesOwned
<1>. QED
  BY <1>5, <1>6, <1>7

\* No step of a decode that does not fail lets a container go.
LEMMA OwnsStep ==
    ASSUME Owns, IsSequence(stack), Dec!DecNext, need' # "failed", ~Dec!Take,
           need' = "gone" => stack' # <<>>,
           need = "value" => ret = Nothing,
           ret # Nothing /\ stack # <<>> => /\ IsRecord(stack[1]) /\ IsSequence(stack[1].vals)
                                            /\ Dec!Emplace => ~Dec!SameKey(stack[1], stack[1].key)
    PROVE  Owns'
<1>1. CASE Dec!Call \/ Dec!AskElement \/ Dec!Definition \/ Dec!HashNothing
  <2>1. UNCHANGED <<stack, size, ret>>
    BY <1>1 DEF Dec!Call, Dec!AskElement, Dec!Definition, Dec!HashNothing
  <2>. QED
    BY <2>1, OwnsKept
<1>2. CASE Dec!Scalars \/ Dec!Reference
  <2>1. need = "value"
    BY <1>2 DEF Dec!Scalars, Dec!Reference, Dec!Asked
  <2>2. /\ UNCHANGED <<stack, size>>
        /\ \/ ret' = Dec!Val(Dec!Scalar(Dec!Peeked.n), {})
           \/ ret' = Dec!Val(Dec!Pointer(Dec!Peeked.n + 1), {})
    BY <1>2 DEF Dec!Scalars, Dec!Reference, Dec!Abort, Dec!Unwind
  <2>3. ret'.own = {} /\ ret.own = {}
    BY <2>1, <2>2, NothingOwned
  <2>. QED
    BY <2>2, <2>3, OwnsKept
<1>3. CASE Dec!List \/ Dec!VariableList \/ Dec!MapObject \/ Dec!Instance
  <2>1. need = "value"
    BY <1>3 DEF Dec!List, Dec!VariableList, Dec!MapObject, Dec!Instance, Dec!Asked
  <2>2. \E kind \in {"list", "map", "inst"} : \E left : Dec!Enter(kind, left)
    BY <1>3, Zenon DEF Dec!List, Dec!VariableList, Dec!MapObject, Dec!Instance, Dec!EnterAndFail, Dec!Abort, Dec!Unwind
  <2>. QED
    BY <2>1, <2>2, EnterOwns
<1>4. CASE Dec!AppendElement \/ Dec!HoldKey \/ Dec!Emplace
  <2>1. ret # Nothing /\ stack # <<>>
    BY <1>4 DEF Dec!AppendElement, Dec!HoldKey, Dec!Emplace, Nothing
  <2>. QED
    BY <1>4, <2>1, TakeOwns
<1>5. /\ ~Dec!Reject /\ ~Dec!MalformedHeader /\ ~Dec!NoEnd /\ ~Dec!DefinitionThrows
      /\ ~Dec!MalformedDefinition
  BY DEF Dec!Reject, Dec!MalformedHeader, Dec!NoEnd, Dec!EnterAndFail, Dec!DefinitionThrows,
     Dec!MalformedDefinition, Dec!Abort, Dec!Unwind
<1>. QED
  BY <1>1, <1>2, <1>3, <1>4, <1>5, FinishOwns DEF Dec!DecNext

-----------------------------------------------------------------------------
(* None is destroyed, and a reference is to one that was entered *)

LEMMA AimedMeans ==
    Aimed' <=> /\ alive' = 1 .. size'
               /\ ret'.shape.k = "ref" => ret'.shape.v \in 1 .. size'
               /\ \A k \in 1 .. Len(stack') :
                      stack'[k].key.shape.k = "ref" => stack'[k].key.shape.v \in 1 .. size'
BY DEF Aimed, Aims

\* A value that is no reference, and one that is.
LEMMA ShapesMade ==
    /\ Nothing.shape.k = "nothing"
    /\ \A n : Scalar(n).k = "leaf" /\ Pointer(n).k = "ref" /\ Pointer(n).v = n
    /\ \A s, own : Dec!Val(s, own).shape = s
    /\ \A kind, vals : kind \in {"list", "map", "inst"} => Whole(kind, vals).k # "ref"
BY DEF Nothing, Dec!Nothing, Dec!Val, Dec!Shape, Scalar, Pointer, Shape, Whole, SeqShape

\* The innermost record is another, with the same key, none, or the value just read.
LEMMA TakeAimed ==
    ASSUME Aimed, IsSequence(stack), stack # <<>>, UNCHANGED <<alive, size>>, ret' = Nothing,
           NEW g, stack' = <<g>> \o Tail(stack), g.key \in {stack[1].key, Nothing, ret}
    PROVE  Aimed'
<1>1. PICK t : t = Tail(stack)
  OBVIOUS
<1>2. /\ IsSequence(t) /\ Len(stack) \in Nat /\ Len(stack) >= 1 /\ Len(t) = Len(stack) - 1
      /\ \A k \in 1 .. Len(stack) - 1 : t[k] = stack[k + 1]
  BY <1>1, StackPop
<1>3. PICK u : u = stack'
  OBVIOUS
<1>4. u = <<g>> \o t
  BY <1>1, <1>3
<1>5. Len(u) = Len(t) + 1 /\ u[1] = g /\ \A k \in 1 .. Len(t) : u[k + 1] = t[k]
  BY <1>2, <1>4, StackPush
<1>6. /\ alive = 1 .. size /\ Aims(ret) /\ Aims(Nothing)
      /\ \A k \in 1 .. Len(stack) : Aims(stack[k].key)
  BY ShapesMade DEF Aimed, Aims
<1>7. ASSUME NEW k \in 1 .. Len(u) PROVE Aims(u[k].key)
  <2>1. CASE k = 1
    <3>1. 1 \in 1 .. Len(stack)
      BY <1>2
    <3>. QED
      BY <1>5, <1>6, <2>1, <3>1
  <2>2. CASE k # 1
    <3>1. PICK i : i = k - 1
      OBVIOUS
    <3>2. i \in 1 .. Len(t) /\ i \in 1 .. Len(stack) - 1 /\ k = i + 1 /\ k \in 1 .. Len(stack)
      BY <1>2, <1>5, <1>7, <2>2, <3>1
    <3>3. u[k] = stack[k]
      BY <1>2, <1>5, <3>2
    <3>. QED
      BY <1>6, <3>2, <3>3
  <2>. QED
    BY <2>1, <2>2
<1>8. ret'.shape.k # "ref"
  BY ShapesMade
<1>. QED
  BY <1>3, <1>6, <1>7, <1>8, AimedMeans DEF Aims

\* A container is entered: there is one address more.
LEMMA EnterAimed ==
    ASSUME Aimed, size \in Nat, IsSequence(stack), NEW kind, NEW left, Dec!Enter(kind, left)
    PROVE  Aimed'
<1>1. PICK n, d, s : n = size /\ d = Dec!Frame(kind, n + 1, left) /\ s = stack
  OBVIOUS
<1>2. size' = n + 1 /\ alive' = (1 .. n) \cup {n + 1} /\ ret' = ret
  BY <1>1 DEF Dec!Enter, Aimed
<1>3. PICK u : u = stack'
  OBVIOUS
<1>4. u = <<d>> \o s
  BY <1>1, <1>3 DEF Dec!Enter
<1>5. /\ Len(s) \in Nat /\ Len(u) = Len(s) + 1 /\ u[1] = d
      /\ \A k \in 1 .. Len(s) : u[k + 1] = s[k]
  BY <1>1, <1>4, StackPush
<1>6. d.key = Nothing
  BY <1>1 DEF Dec!Frame, Nothing
<1>7. n \in Nat /\ n + 1 \in Nat /\ 1 .. n + 1 = (1 .. n) \cup {n + 1}
  BY <1>1
<1>8. \A x : Aims(x) => (x.shape.k = "ref" => x.shape.v \in 1 .. n + 1)
  BY <1>1, <1>7 DEF Aims
<1>9. ASSUME NEW k \in 1 .. Len(u), u[k].key.shape.k = "ref"
      PROVE  u[k].key.shape.v \in 1 .. n + 1
  <2>1. CASE k = 1
    BY <1>5, <1>6, <1>9, <2>1, ShapesMade
  <2>2. CASE k # 1
    <3>1. PICK i : i = k - 1
      OBVIOUS
    <3>2. i \in 1 .. Len(s) /\ k = i + 1
      BY <1>5, <1>9, <2>2, <3>1
    <3>3. u[k] = s[i] /\ Aims(s[i].key)
      BY <1>1, <1>5, <3>2 DEF Aimed
    <3>. QED
      BY <1>8, <1>9, <3>3
  <2>. QED
    BY <2>1, <2>2
<1>10. ret'.shape.k = "ref" => ret'.shape.v \in 1 .. n + 1
  BY <1>2, <1>8 DEF Aimed
<1>. QED
  BY <1>2, <1>3, <1>7, <1>9, <1>10, AimedMeans

\* A container is finished: the value is no reference.
LEMMA FinishAimed ==
    ASSUME Aimed, IsSequence(stack), Dec!Finish, IsRecord(stack[1])
    PROVE  Aimed'
<1>1. PICK d, t : d = stack[1] /\ t = Tail(stack)
  OBVIOUS
<1>2. /\ stack # <<>> /\ stack' = t /\ UNCHANGED <<size, alive>>
      /\ ret' = Dec!Val(Dec!FrameShape(d), Dec!Owned(d))
  BY <1>1 DEF Dec!Finish, Dec!InLoop, Dec!Top
<1>3. /\ Len(stack) \in Nat /\ Len(t) = Len(stack) - 1
      /\ \A k \in 1 .. Len(stack) - 1 : t[k] = stack[k + 1]
  BY <1>1, <1>2, StackPop
<1>4. d.kind \in {"list", "map", "inst"}
  BY <1>1 DEF IsRecord
<1>5. Dec!FrameShape(d).k # "ref"
  BY <1>4 DEF Dec!FrameShape, Dec!SeqShape, Dec!Shape
<1>6. ret'.shape.k # "ref"
  BY <1>2, <1>5, ShapesMade
<1>7. ASSUME NEW k \in 1 .. Len(t) PROVE Aims(t[k].key)
  <2>1. k \in 1 .. Len(stack) - 1 /\ k + 1 \in 1 .. Len(stack)
    BY <1>3
  <2>. QED
    BY <1>3, <2>1 DEF Aimed
<1>. QED
  BY <1>2, <1>6, <1>7, AimedMeans DEF Aimed, Aims

\* No step of a decode that does not fail destroys a container or returns a reference to none.
LEMMA AimedStep ==
    ASSUME Aimed, size \in Nat, IsSequence(stack), Dec!DecNext, need' # "failed", ~Dec!Take,
           need' = "gone" => stack' # <<>>,
           need = "elem" /\ stack # <<>> => IsRecord(stack[1]),
           need = "value" /\ Dec!Left > 0 => Dec!Peeked.n \in Int,
           Dec!Emplace => ~Dec!SameKey(stack[1], stack[1].key)
    PROVE  Aimed'
<1>1. CASE Dec!Call \/ Dec!AskElement \/ Dec!Definition \/ Dec!HashNothing
  <2>1. UNCHANGED <<stack, size, ret, alive>>
    BY <1>1 DEF Dec!Call, Dec!AskElement, Dec!Definition, Dec!HashNothing
  <2>. QED
    BY <2>1, AimedMeans DEF Aimed, Aims
<1>2. CASE Dec!Scalars
  <2>1. UNCHANGED <<stack, size, alive>> /\ ret' = Dec!Val(Scalar(Dec!Peeked.n), {})
    BY <1>2 DEF Dec!Scalars, Dec!Scalar, Scalar, Dec!Shape, Shape
  <2>2. ret'.shape.k # "ref"
    BY <2>1, ShapesMade
  <2>. QED
    BY <2>1, <2>2, AimedMeans DEF Aimed, Aims
<1>3. CASE Dec!Reference
  <2>1. PICK n : n = Dec!Peeked.n
    OBVIOUS
  <2>2. /\ UNCHANGED <<stack, size, alive>> /\ n \in Int /\ n >= 0 /\ n < size
        /\ ret' = Dec!Val(Pointer(n + 1), {})
    BY <1>3, <2>1 DEF Dec!Reference, Dec!Asked, Dec!Abort, Dec!Unwind, Dec!Pointer, Pointer, Dec!Shape, Shape
  <2>3. ret'.shape.v = n + 1
    BY <2>2, ShapesMade
  <2>4. n + 1 \in 1 .. size
    BY <2>2
  <2>5. /\ alive = 1 .. size
        /\ \A k \in 1 .. Len(stack) :
               stack[k].key.shape.k = "ref" => stack[k].key.shape.v \in 1 .. size
    BY DEF Aimed, Aims
  <2>. QED
    BY <2>2, <2>3, <2>4, <2>5, AimedMeans
<1>4. CASE Dec!List \/ Dec!VariableList \/ Dec!MapObject \/ Dec!Instance
  <2>1. \E kind \in {"list", "map", "inst"} : \E left : Dec!Enter(kind, left)
    BY <1>4, Zenon DEF Dec!List, Dec!VariableList, Dec!MapObject, Dec!Instance,
       Dec!EnterAndFail, Dec!Abort, Dec!Unwind
  <2>. QED
    BY <2>1, EnterAimed
<1>5. CASE Dec!AppendElement \/ Dec!HoldKey \/ Dec!Emplace
  <2>1. PICK d, v : d = stack[1] /\ v = ret
    OBVIOUS
  <2>2. stack # <<>> /\ IsRecord(d) /\ size' = size /\ ret' = Nothing
    BY <1>5, <2>1 DEF Dec!AppendElement, Dec!HoldKey, Dec!Emplace, Nothing
  <2>3. Appended(d, v).key = d.key /\ Held(d, v).key = v /\ Dropped(d).key = Nothing
        /\ Kept(d, v).key = Nothing
    BY <2>2, ChangedFields
  <2>4. CASE Dec!AppendElement
    <3>1. stack' = <<Appended(d, v)>> \o Tail(stack) /\ alive' = alive
      BY <2>1, <2>2, <2>4, TakenRecord DEF Dec!AppendElement
    <3>. QED
      BY <2>1, <2>2, <2>3, <3>1, TakeAimed
  <2>5. CASE Dec!HoldKey
    <3>1. stack' = <<Held(d, v)>> \o Tail(stack) /\ alive' = alive
      BY <2>1, <2>2, <2>5, TakenRecord DEF Dec!HoldKey
    <3>. QED
      BY <2>1, <2>2, <2>3, <3>1, TakeAimed
  <2>6. CASE Dec!Emplace
    <3>1. ~Dec!SameKey(Dec!Top, Dec!Top.key)
      BY <2>6, Zenon DEF Dec!Top
    <3>2. alive' = alive
      BY <2>6, <3>1, Zenon DEF Dec!Emplace
    <3>3. stack' = Dec!WithTop([Dec!Top EXCEPT !.key = Dec!Nothing,
                                               !.vals = @ \o <<Dec!Top.key, ret>>])
      BY <2>6, <3>1, Zenon DEF Dec!Emplace
    <3>4. stack' = <<Kept(d, v)>> \o Tail(stack)
      BY <2>1, <3>3, Zenon DEF Dec!Top, Dec!WithTop, Kept, Nothing
    <3>. QED
      BY <2>1, <2>2, <2>3, <3>2, <3>4, TakeAimed
  <2>. QED
    BY <1>5, <2>4, <2>5, <2>6
<1>6. CASE Dec!Finish
  <2>1. need = "elem" /\ stack # <<>>
    BY <1>6 DEF Dec!Finish, Dec!InLoop
  <2>. QED
    BY <1>6, <2>1, FinishAimed
<1>7. /\ ~Dec!Reject /\ ~Dec!MalformedHeader /\ ~Dec!NoEnd /\ ~Dec!DefinitionThrows
      /\ ~Dec!MalformedDefinition
  BY DEF Dec!Reject, Dec!MalformedHeader, Dec!NoEnd, Dec!EnterAndFail, Dec!DefinitionThrows,
     Dec!MalformedDefinition, Dec!Abort, Dec!Unwind
<1>. QED
  BY <1>1, <1>2, <1>3, <1>4, <1>5, <1>6, <1>7 DEF Dec!DecNext

LEMMA KeepsStep ==
    ASSUME Keeps, IsSequence(stack), Dec!DecNext, need' # "failed", ~Dec!Take,
           need' = "gone" => stack' # <<>>,
           need = "value" => ret = Nothing,
           need = "elem" /\ stack # <<>> => IsRecord(stack[1]),
           need = "value" /\ Dec!Left > 0 => Dec!Peeked.n \in Int,
           ret # Nothing /\ stack # <<>> => /\ IsRecord(stack[1]) /\ IsSequence(stack[1].vals)
                                            /\ Dec!Emplace => ~Dec!SameKey(stack[1], stack[1].key)
    PROVE  Keeps'
<1>1. Owns /\ Aimed /\ size \in Nat
  BY DEF Keeps, Owns
<1>2. Dec!Emplace => ret # Nothing /\ stack # <<>>
  BY DEF Dec!Emplace, Nothing
<1>3. Owns'
  BY <1>1, OwnsStep
<1>4. Aimed'
  BY <1>1, <1>2, AimedStep
<1>. QED
  BY <1>3, <1>4 DEF Keeps

\* Each step of the decoder leads to the next place, with what belongs there.
LEMMA CarriesStep ==
    ASSUME EncTypeOK, DecUnchanged, Dec!DecNext, Enc!Encoded, DistinctKeys,
           NEW log, Recorded(log), Follows(log), Carries(log)
    PROVE  Carries(log)'
<1>1. PICK L : L = Len(log)
  OBVIOUS
<1>2. /\ L \in Nat /\ L >= 2 /\ log[1] = Before /\ log[L] = Now
      /\ \A i \in 1 .. L : log[i] \in Entries /\ EntryOK(log[i])
      /\ \A i \in 2 .. L - 1 : log[i].stack # <<>>
      /\ \A i \in 1 .. L - 1 : \/ Leaves(log[i], log[i + 1]) \/ Opens(log[i], log[i + 1])
                               \/ Closes(log[i], log[i + 1])
      /\ \A i \in 1 .. L - 1 : Wrote(log[i], log[i + 1])
  BY <1>1, RecordedFacts
<1>3. /\ Enc!Encoded' /\ eWire' = eWire /\ eDefs' = eDefs /\ eValues' = eValues
      /\ heap \in Heaps /\ heap' = heap
  BY DEF Enc!Encoded, DecUnchanged, EncTypeOK
<1>4. log[L].stack = <<>> /\ log[L].at = Len(eWire) /\ Len(eWire) \in Nat
  BY <1>2 DEF Now, Enc!Encoded, EncTypeOK
<1>5. ASSUME NEW a, NEW b, NEW i \in 2 .. L, a = log[i - 1], b = log[i], Moves(a, b)', Keeps'
      PROVE  Carries(log)'
  BY <1>1, <1>3, <1>5 DEF Carries
<1>6. need' # "failed" /\ (need' = "gone" => stack' # <<>>)
  <2>1. Follows(log)'
    BY FollowsStep
  <2>. QED
    BY <2>1 DEF Follows, NotCalled, Done, InLoop, Returned, AtLeaf, AtHeader, AtInstance
<1>7. ASSUME NotCalled
      PROVE  Carries(log)'
  <2>1. PICK a, b : a = log[1] /\ b = log[2]
    OBVIOUS
  <2>2. /\ a \in Entries /\ b \in Entries /\ EntryOK(a) /\ EntryOK(b) /\ a = Before
        /\ Leaves(a, b) \/ Opens(a, b) \/ Closes(a, b)
        /\ Wrote(a, b)
    <3>1. 1 \in 1 .. L - 1 /\ 1 \in 1 .. L /\ 2 \in 1 .. L /\ 1 + 1 = 2
      BY <1>2
    <3>. QED
      BY <1>2, <2>1, <3>1
  <2>3. Moves(a, b)'
    BY <1>7, <2>2, CallCarries
  <2>4. Keeps
    <3>1. size = 0 /\ alive = {} /\ stack = <<>> /\ ret.own = {} /\ 1 .. 0 = {}
      BY <1>7, NothingOwned DEF NotCalled
    <3>2. Owns
      BY <3>1, NothingOwned DEF Owns
    <3>3. Len(stack) = 0 /\ ret.shape.k # "ref"
      BY <1>7, <3>1, StackEmpty, ShapesMade DEF NotCalled
    <3>4. Aimed
      BY <3>1, <3>3 DEF Aimed, Aims
    <3>. QED
      BY <3>2, <3>4 DEF Keeps
  <2>5. UNCHANGED <<stack, size, ret, alive>>
    BY <1>7, OnlyCalls DEF NotCalled, Dec!Call
  <2>6. Keeps'
    <3>1. Owns'
      BY <2>4, <2>5, OwnsKept DEF Keeps
    <3>2. Aimed'
      BY <2>4, <2>5, AimedMeans DEF Keeps, Aimed, Aims
    <3>. QED
      BY <3>1, <3>2 DEF Keeps
  <2>7. 2 \in 2 .. L /\ 2 - 1 = 1
    BY <1>2
  <2>. QED
    BY <1>5, <2>1, <2>3, <2>6, <2>7
<1>8. ~Done
  <2>. SUFFICES ASSUME Done PROVE FALSE
    OBVIOUS
  <2>1. need = "idle" /\ ret = Nothing /\ pos = Len(eWire)
    BY DEF Done, Read, Now
  <2>2. Dec!Left > 0
    BY <2>1, OnlyCalls DEF Dec!Call
  <2>. QED
    BY <1>4, <2>1, <2>2 DEF Dec!Left
<1>9. ASSUME NEW i \in 2 .. L, NEW a, NEW b, a = log[i - 1], b = log[i], Moves(a, b), Keeps
      PROVE  Carries(log)'
  <2>1. /\ a \in Entries /\ b \in Entries /\ EntryOK(a) /\ EntryOK(b)
    <3>1. i \in 1 .. L /\ i - 1 \in 1 .. L
      BY <1>2
    <3>. QED
      BY <1>2, <1>9, <3>1
  <2>2. StackOK(b.stack)
    BY <2>1, EntryFacts
  <2>3. Len(b.stack) \in Nat /\ (b.stack = <<>> <=> Len(b.stack) = 0)
    BY <2>2 DEF StackOK
  <2>4. /\ IsSequence(stack) /\ (need = "value" => ret = Nothing)
        /\ need = "elem" /\ ret = Nothing => IsRecord(stack[1])
    BY <1>9 DEF Moves, InLoop, Returned, AtLeaf, AtHeader, AtInstance, Level, Waits, Mirrors
  <2>12. need = "value" /\ Dec!Left > 0 => Dec!Peeked.n \in Int
    <3>. SUFFICES ASSUME need = "value", Dec!Left > 0 PROVE Dec!Peeked.n \in Int
      OBVIOUS
    <3>1. a.at \in Nat /\ pos \in {a.at, a.at + 1}
      BY <1>9, <2>1, EntryFacts DEF Moves, InLoop, Returned, AtLeaf, AtHeader, AtInstance, Read
    <3>2. pos + 1 \in 1 .. Len(eWire)
      BY <1>4, <3>1 DEF Dec!Left
    <3>3. eWire[pos + 1] \in Tokens
      BY <3>2 DEF EncTypeOK
    <3>. QED
      BY <3>3 DEF Dec!Peeked, Tokens
  <2>5. ASSUME ret = Nothing PROVE Keeps'
    <3>1. ~Dec!Take
      BY <2>5 DEF Dec!Take, Nothing
    <3>. QED
      BY <1>6, <1>9, <2>4, <2>5, <2>12, <3>1, KeepsStep
  <2>6. CASE InLoop(b) /\ LoopHas(b)
    <3>1. b.stack # <<>>
      <4>1. IsSequence(stack) /\ stack # <<>> /\ Len(stack) = Len(b.stack)
        BY <2>6 DEF InLoop, Level
      <4>2. Len(stack) >= 1
        BY <4>1, StackPop
      <4>. QED
        BY <2>3, <4>1, <4>2
    <3>2. i # L
      BY <1>4, <1>9, <3>1
    <3>3. PICK c, k : k = i + 1 /\ c = log[k]
      OBVIOUS
    <3>4. k \in 2 .. L /\ k \in 1 .. L /\ i \in 1 .. L - 1 /\ k - 1 = i
      BY <1>2, <3>2, <3>3
    <3>5. /\ c \in Entries /\ EntryOK(c) /\ (Leaves(b, c) \/ Opens(b, c) \/ Closes(b, c))
          /\ Wrote(b, c)
      BY <1>2, <1>9, <3>3, <3>4
    <3>6. Moves(b, c)'
      BY <2>1, <2>6, <3>1, <3>5, LoopCarries
    <3>7. b = log[k - 1]
      BY <1>9, <3>4
    <3>8. Keeps'
      BY <2>5, <2>6 DEF InLoop
    <3>. QED
      BY <1>5, <3>3, <3>4, <3>6, <3>7, <3>8
  <2>7. CASE Returned(b) /\ Lack(stack, b.stack, ret.shape) /\ stack = <<>>
    <3>1. Len(b.stack) = 0
      BY <2>7, StackEmpty DEF Returned, Waits
    <3>2. i = L
      BY <1>2, <1>9, <2>3, <3>1
    <3>3. /\ need' = "idle" /\ ret' = Nothing /\ Len(results') = 1 /\ stack' = <<>>
          /\ Read(b)'
      BY <2>1, <2>7, ReturnStep
    <3>4. b = Now /\ Now' = Now
      BY <1>2, <1>9, <3>2 DEF Now, DecUnchanged
    <3>5. Read(Now)'
      BY <3>3, <3>4 DEF Read
    <3>6. Done'
      BY <3>3, <3>5 DEF Done, Nothing, Dec!Nothing, Dec!Val, Dec!Shape
    <3>7. need \in {"elem", "gone"} /\ ret # Nothing /\ results = <<>>
      BY <2>7 DEF Returned
    <3>8. Dec!Take
      BY <2>7, <3>7, TakesValue DEF Dec!AppendElement, Dec!HoldKey, Dec!Emplace,
                                    Dec!HashNothing
    <3>9. PICK v, es : v = ret /\ es = b.stack
      OBVIOUS
    <3>10. results' = Append(<<>>, v) /\ size' = size
      BY <3>7, <3>8, <3>9 DEF Dec!Take
    <3>11. results'[1] = v
      BY <3>10
    <3>12. v.shape = Meaning[1]
      BY <2>7, <3>9, RootLacks
    <3>13. v.own = 1 .. size
      BY <1>9, <2>7, <3>9, NothingOwned DEF Owns, Keeps
    <3>14. Meaning' = Meaning
      BY <1>3, ValuesStay
    <3>15. (results[1].shape = Meaning[1] /\ results[1].own = 1 .. size)'
      BY <3>10, <3>11, <3>12, <3>13, <3>14
    <3>. QED
      BY <1>3, <3>6, <3>15 DEF Carries
  <2>8. CASE Returned(b) /\ Lack(stack, b.stack, ret.shape) /\ stack # <<>>
    <3>1. /\ Moves(a, b)' /\ IsRecord(stack[1]) /\ IsSequence(stack[1].vals)
          /\ Dec!Emplace => ~Dec!SameKey(stack[1], stack[1].key)
      BY <2>1, <2>8, ReturnCarries
    <3>2. ~Dec!Take
      BY <2>8 DEF Dec!Take
    <3>3. Keeps'
      BY <1>6, <1>9, <2>4, <2>12, <3>1, <3>2, KeepsStep
    <3>. QED
      BY <1>5, <1>9, <3>1, <3>3
  <2>9. CASE AtLeaf(a, b) /\ Lack(stack, b.stack, TokenValue(eWire[b.at]))
    <3>1. Moves(a, b)'
      BY <2>1, <2>9, LeafCarries
    <3>. QED
      BY <1>5, <1>9, <2>5, <2>9, <3>1 DEF AtLeaf
  <2>10. CASE AtHeader(a, b) /\ Lack(stack, Tail(b.stack), Meaning[b.stack[1].o])
    <3>1. Moves(a, b)'
      BY <2>1, <2>10, HeaderCarries
    <3>. QED
      BY <1>5, <1>9, <2>5, <2>10, <3>1 DEF AtHeader
  <2>11. CASE AtInstance(a, b) /\ Lack(stack, Tail(b.stack), Meaning[b.stack[1].o])
    <3>1. Moves(a, b)'
      BY <2>1, <2>11, InstanceCarries
    <3>. QED
      BY <1>5, <1>9, <2>5, <2>11, <3>1 DEF AtInstance
  <2>. QED
    BY <1>9, <2>6, <2>7, <2>8, <2>9, <2>10, <2>11 DEF Moves
<1>. QED
  BY <1>1, <1>7, <1>8, <1>9 DEF Carries

-----------------------------------------------------------------------------
(* A key is hashed when what it refers to has been built *)

\* Container p has container o among its elements.
Nests(p, o) == \E j \in DOMAIN Kids(p) : Kids(p)[j].i = "own" /\ Kids(p)[j].n = o

\* Each container on the encoder's stack has the one inside it.
Nested(s) == \A k \in 1 .. Len(s) - 1 : Nests(s[k + 1].o, s[k].o)

\* An activation record that moves on is that of the same container.
LEMMA NestedMoved ==
    ASSUME heap \in Heaps, NEW s, StackOK(s), s # <<>>, Nested(s), NEW t, Moved(s, t)
    PROVE  Nested(t) /\ Len(t) = Len(s) /\ t[1].o = s[1].o
<1>1. PICK j \in Enc!NextKids(s[1]) : t = <<Enc!Advance(s[1], j)>> \o Tail(s)
  BY DEF Moved
<1>2. s \in Seq(Frames) /\ Len(s) \in Nat /\ Len(s) >= 1 /\ FrameOK(s[1])
  BY DEF StackOK
<1>3. PICK g : g = Enc!Advance(s[1], j)
  OBVIOUS
<1>4. g.o = s[1].o /\ g \in Frames
  BY <1>2, <1>3, AdvanceOK DEF FrameOK
<1>5. t = <<g>> \o Tail(s)
  BY <1>1, <1>3
<1>6. /\ Len(t) = Len(s) /\ t[1] = g /\ \A i \in 2 .. Len(s) : t[i] = s[i]
  BY <1>2, <1>4, <1>5, SeqTop
<1>7. \A k \in 1 .. Len(s) : t[k].o = s[k].o
  <2>. SUFFICES ASSUME NEW k \in 1 .. Len(s) PROVE t[k].o = s[k].o
    OBVIOUS
  <2>1. CASE k = 1
    BY <1>4, <1>6, <2>1
  <2>2. CASE k # 1
    <3>1. k \in 2 .. Len(s)
      BY <1>2, <2>2
    <3>. QED
      BY <1>6, <3>1
  <2>. QED
    BY <2>1, <2>2
<1>8. \A k \in 1 .. Len(s) - 1 : k \in 1 .. Len(s) /\ k + 1 \in 1 .. Len(s)
  BY <1>2
<1>9. Nested(t)
  BY <1>6, <1>7, <1>8 DEF Nested
<1>. QED
  BY <1>4, <1>6, <1>9

\* One is returned from.
LEMMA NestedTail ==
    ASSUME NEW s, StackOK(s), s # <<>>, Nested(s)
    PROVE  Nested(Tail(s))
<1>1. s \in Seq(Frames)
  BY DEF StackOK
<1>2. PICK t : t = Tail(s)
  OBVIOUS
<1>3. /\ Len(s) \in Nat /\ Len(s) >= 1 /\ Len(t) = Len(s) - 1
      /\ \A i \in 1 .. Len(s) - 1 : t[i] = s[i + 1]
  BY <1>1, <1>2
<1>4. \A k \in 1 .. Len(t) - 1 : /\ k + 1 \in 1 .. Len(s) - 1 /\ k \in 1 .. Len(s) - 1
  BY <1>3
<1>5. \A k \in 1 .. Len(t) - 1 : Nests(t[k + 1].o, t[k].o)
  BY <1>3, <1>4 DEF Nested
<1>. QED
  BY <1>2, <1>5 DEF Nested

\* One is entered.
LEMMA NestedPush ==
    ASSUME NEW s, StackOK(s), s # <<>>, Nested(Tail(s)),
           Tail(s) # <<>> => Nests(Tail(s)[1].o, s[1].o)
    PROVE  Nested(s)
<1>1. s \in Seq(Frames)
  BY DEF StackOK
<1>2. PICK t : t = Tail(s)
  OBVIOUS
<1>3. /\ Len(s) \in Nat /\ Len(s) >= 1 /\ Len(t) = Len(s) - 1
      /\ \A i \in 1 .. Len(s) - 1 : t[i] = s[i + 1]
  BY <1>1, <1>2
<1>4. ASSUME NEW k \in 1 .. Len(s) - 1 PROVE Nests(s[k + 1].o, s[k].o)
  <2>1. CASE k = 1
    <3>1. t # <<>>
      BY <1>3, <2>1, StackEmpty
    <3>2. t[1] = s[k + 1]
      BY <1>3, <1>4, <2>1
    <3>. QED
      BY <1>2, <2>1, <3>1, <3>2
  <2>2. CASE k # 1
    <3>1. PICK i : i = k - 1
      OBVIOUS
    <3>2. i \in 1 .. Len(t) - 1 /\ i \in 1 .. Len(s) - 1 /\ k = i + 1 /\ k \in 1 .. Len(s) - 1
      BY <1>3, <1>4, <2>2, <3>1
    <3>3. t[i] = s[k] /\ t[k] = s[k + 1]
      BY <1>3, <3>2
    <3>4. Nests(t[i + 1].o, t[i].o)
      BY <1>2, <3>2 DEF Nested
    <3>. QED
      BY <3>2, <3>3, <3>4
  <2>. QED
    BY <2>1, <2>2
<1>. QED
  BY <1>4 DEF Nested

\* The stacks of a record are nested.
LEMMA NestedRecord ==
    ASSUME heap \in Heaps, NEW log, Recorded(log)
    PROVE  \A i \in 1 .. Len(log) : Nested(log[i].stack)
<1>1. PICK L : L = Len(log)
  OBVIOUS
<1>2. /\ L \in Nat /\ L >= 2 /\ log[1] = Before
      /\ \A i \in 1 .. L : log[i] \in Entries /\ EntryOK(log[i])
      /\ \A i \in 1 .. L - 1 : \/ Leaves(log[i], log[i + 1]) \/ Opens(log[i], log[i + 1])
                               \/ Closes(log[i], log[i + 1])
      /\ \A i \in 1 .. L - 1 : Wrote(log[i], log[i + 1])
  BY <1>1, RecordedFacts
<1>. DEFINE S == {n \in Nat : n + 1 \in 1 .. L => Nested(log[n + 1].stack)}
<1>3. 0 \in S
  <2>1. log[0 + 1].stack = <<>>
    BY <1>2 DEF Before
  <2>2. Nested(<<>>)
    BY StackEmpty DEF Nested
  <2>. QED
    BY <2>1, <2>2
<1>4. ASSUME NEW n \in Nat, n \in S PROVE n + 1 \in S
  <2>1. SUFFICES ASSUME n + 2 \in 1 .. L PROVE Nested(log[n + 2].stack)
    OBVIOUS
  <2>2. PICK a, b : a = log[n + 1] /\ b = log[n + 2]
    OBVIOUS
  <2>3. n + 1 \in 1 .. L - 1 /\ n + 1 \in 1 .. L /\ (n + 1) + 1 = n + 2
    BY <1>2, <2>1
  <2>4. a \in Entries /\ b \in Entries /\ EntryOK(a) /\ EntryOK(b) /\ Nested(a.stack)
    BY <1>2, <1>4, <2>1, <2>2, <2>3
  <2>5. (Leaves(a, b) \/ Opens(a, b) \/ Closes(a, b)) /\ Wrote(a, b)
    BY <1>2, <2>2, <2>3
  <2>6. StackOK(a.stack) /\ StackOK(b.stack)
    BY <2>4, EntryFacts
  <2>7. CASE Leaves(a, b)
    <3>1. a.stack # <<>> /\ Moved(a.stack, b.stack)
      BY <2>7 DEF Leaves
    <3>2. Nested(b.stack)
      BY <2>4, <2>6, <3>1, NestedMoved
    <3>. QED
      BY <2>2, <3>2
  <2>8. CASE Closes(a, b)
    <3>1. a.stack # <<>> /\ b.stack = Tail(a.stack)
      BY <2>8 DEF Closes
    <3>2. Nested(b.stack)
      BY <2>4, <2>6, <3>1, NestedTail
    <3>. QED
      BY <2>2, <3>2
  <2>9. CASE Opens(a, b)
    <3>1. PICK t : t = Tail(b.stack)
      OBVIOUS
    <3>2. b.stack # <<>> /\ IF a.stack = <<>> THEN t = <<>> ELSE Moved(a.stack, t)
      BY <2>9, <3>1 DEF Opens
    <3>3. CASE a.stack = <<>>
      <4>1. t = <<>> /\ Nested(<<>>)
        BY <3>2, <3>3, StackEmpty DEF Nested
      <4>2. Nested(b.stack)
        BY <2>6, <3>1, <3>2, <4>1, NestedPush
      <4>. QED
        BY <2>2, <4>2
    <3>4. CASE a.stack # <<>>
      <4>1. Moved(a.stack, t)
        BY <3>2, <3>4
      <4>2. Nested(t) /\ Len(t) = Len(a.stack) /\ t[1].o = a.stack[1].o
        BY <2>4, <2>6, <3>4, <4>1, NestedMoved
      <4>3. PICK x, y : x = a.stack /\ y = b.stack
        OBVIOUS
      <4>4. Len(y) \in Nat /\ Len(y) >= 1 /\ Len(t) = Len(y) - 1 /\ Len(x) \in Nat
        BY <2>6, <3>1, <3>2, <4>3 DEF StackOK
      <4>5. Len(y) = Len(x) + 1
        BY <4>2, <4>3, <4>4
      <4>6. ~(Len(y) = Len(x)) /\ ~(Len(y) = Len(x) - 1)
        BY ONLY <4>4, <4>5
      <4>7. WroteHeader(a, b)
        BY <2>5, <4>3, <4>6 DEF Wrote
      <4>8. PICK j \in Enc!NextKids(a.stack[1]) :
                /\ Kids(a.stack[1].o)[j].i = "own" /\ Kids(a.stack[1].o)[j].n = b.stack[1].o
        BY <3>4, <4>7 DEF WroteHeader
      <4>9. FrameOK(a.stack[1])
        <5>1. 1 \in 1 .. Len(x)
          BY <3>4, <2>6, <4>3 DEF StackOK
        <5>. QED
          BY <2>6, <4>3, <5>1 DEF StackOK
      <4>10. j \in DOMAIN Kids(a.stack[1].o)
        BY <4>8, <4>9, NextKid
      <4>11. Nests(t[1].o, b.stack[1].o)
        BY <4>2, <4>8, <4>10 DEF Nests
      <4>12. Nested(b.stack)
        BY <2>6, <3>1, <3>2, <4>2, <4>11, NestedPush
      <4>. QED
        BY <2>2, <4>12
    <3>. QED
      BY <3>3, <3>4
  <2>. QED
    BY <2>5, <2>7, <2>8, <2>9
<1>. HIDE DEF S
<1>5. \A n \in Nat : n \in S
  BY <1>3, <1>4, Induction
<1>6. ASSUME NEW i \in 1 .. L PROVE Nested(log[i].stack)
  <2>1. i - 1 \in Nat /\ (i - 1) + 1 = i
    BY <1>2
  <2>2. i - 1 \in S
    BY <1>5, <2>1
  <2>. QED
    BY <2>1, <2>2 DEF S
<1>. QED
  BY <1>1, <1>6

\* What is on the stack encloses what is innermost.
LEMMA NestedEncloses ==
    ASSUME NEW s, StackOK(s), Nested(s), NEW i \in 1 .. Len(s)
    PROVE  Encloses(heap, s[i].o, s[1].o)
<1>1. SUFFICES ASSUME NEW T \in SUBSET DOMAIN heap, s[1].o \in T,
                      \A p \in DOMAIN heap : \A j \in DOMAIN heap[p].kids :
                          heap[p].kids[j].i = "own" /\ heap[p].kids[j].n \in T => p \in T
               PROVE  s[i].o \in T
  BY DEF Encloses
<1>2. PICK L : L = Len(s)
  OBVIOUS
<1>3. L \in Nat /\ \A k \in 1 .. L : s[k].o \in DOMAIN heap
  BY <1>2 DEF StackOK, FrameOK, Frames
<1>. DEFINE S == {n \in Nat : n + 1 \in 1 .. L => s[n + 1].o \in T}
<1>4. 0 \in S
  BY <1>1
<1>5. ASSUME NEW n \in Nat, n \in S PROVE n + 1 \in S
  <2>1. SUFFICES ASSUME n + 2 \in 1 .. L PROVE s[n + 2].o \in T
    OBVIOUS
  <2>2. n + 1 \in 1 .. L - 1 /\ n + 1 \in 1 .. L /\ (n + 1) + 1 = n + 2
    BY <1>3, <2>1
  <2>3. s[n + 1].o \in T
    BY <1>5, <2>2
  <2>4. PICK p, o : p = s[n + 2].o /\ o = s[n + 1].o
    OBVIOUS
  <2>5. Nests(p, o) /\ p \in DOMAIN heap
    BY <1>2, <1>3, <2>1, <2>2, <2>4 DEF Nested
  <2>6. p \in T
    BY <1>1, <2>3, <2>4, <2>5 DEF Nests, Kids
  <2>. QED
    BY <2>4, <2>6
<1>. HIDE DEF S
<1>6. \A n \in Nat : n \in S
  BY <1>4, <1>5, Induction
<1>7. i - 1 \in Nat /\ (i - 1) + 1 = i
  BY <1>2, <1>3
<1>8. i - 1 \in S
  BY <1>6, <1>7
<1>. QED
  BY <1>2, <1>7, <1>8 DEF S

\* What a map is about to hash has a hash: the destination of a reference has not been
\* destroyed, and it is no instance that is being read.
LEMMA KeyHashes ==
    ASSUME EncTypeOK, AllEncodable, KeysHashable, NEW b \in Entries, EntryOK(b),
           Nested(b.stack), Returned(b), stack # <<>>, Lack(stack, b.stack, ret.shape), Aimed,
           stack[1].kind = "map", stack[1].key # Nothing
    PROVE  ~Dec!Unhashable(stack[1].key)
<1>1. PICK es, d, e, x : es = b.stack /\ d = stack[1] /\ e = b.stack[1] /\ x = stack[1].key
  OBVIOUS
<1>2. StackOK(es) /\ Nested(es) /\ Waits(stack, es) /\ heap \in Heaps
  BY <1>1, EntryFacts DEF Returned, EncTypeOK
<1>3. /\ IsSequence(stack) /\ Len(stack) = Len(es) /\ Len(stack) \in Nat /\ Len(stack) >= 1
      /\ \A k \in 1 .. Len(stack) : Awaits(stack[k], es[k])
  BY <1>2, StackPop DEF Waits
<1>4. 1 \in 1 .. Len(stack)
  BY <1>3
<1>5. Awaits(d, e) /\ FrameOK(e) /\ e.o \in DOMAIN heap
  BY <1>1, <1>2, <1>3, <1>4 DEF StackOK, FrameOK, Frames
<1>6. IsMap(e) /\ e.owed = 0
  BY <1>1, <1>5 DEF Awaits
<1>7. \A k \in 1 .. Len(stack) : stack[k].kind = heap[es[k].o].kind
  BY <1>1 DEF Lack, Lacks
<1>8. Lacks(d, e, Lacking(es, ret.shape, 1))
  BY <1>1, <1>4 DEF Lack
<1>9. PICK j : KeyWritten(e, j) /\ x.shape = ValueAt(e, j)
  BY <1>1, <1>6, <1>8 DEF Lacks
<1>10. j \in Odd(Len(Kids(e.o)))
  BY <1>9 DEF KeyWritten
<1>11. PICK item : item = Kids(e.o)[j]
  OBVIOUS
<1>12. /\ j \in DOMAIN heap[e.o].kids /\ item.i \in {"scalar", "own", "ref"}
       /\ item.i = "own" => item.n \in DOMAIN heap
  <2>1. j \in DOMAIN heap[e.o].kids
    BY <1>2, <1>5, <1>10, HeapFacts DEF Odd, Kids
  <2>2. /\ heap[e.o].kids[j].i \in {"scalar", "own", "ref", "bad"}
        /\ heap[e.o].kids[j].i = "own" => heap[e.o].kids[j].n \in DOMAIN heap
    BY <1>2, <1>5, <2>1, HeapsAssumption
  <2>3. heap[e.o].kids[j].i # "bad"
    BY <1>5, <2>1 DEF AllEncodable
  <2>. QED
    BY <1>11, <2>1, <2>2, <2>3 DEF Kids
<1>13. x.shape = Value(item)
  BY <1>9, <1>11 DEF ValueAt
<1>14. ~Dec!DeadDestination(x)
  <2>1. Aims(x) /\ alive = 1 .. size
    BY <1>1, <1>4 DEF Aimed
  <2>. QED
    BY <2>1 DEF Dec!DeadDestination, Aims
<1>15. ASSUME NEW i \in 1 .. Len(stack), stack[i].kind = "inst", NEW n,
              n = stack[i].addr, x.shape = Pointer(n)
       PROVE  FALSE
  <2>1. x.shape.k = "ref" /\ x.shape.v = n
    BY <1>15, ShapesMade
  <2>2. item.i # "scalar"
    <3>1. item.i = "scalar" => Value(item) = Scalar(item.n)
      BY DEF Value
    <3>. QED
      BY <1>13, <2>1, <3>1, ShapesMade
  <2>3. item.i # "own"
    <3>. SUFFICES ASSUME item.i = "own" PROVE FALSE
      OBVIOUS
    <3>1. PICK c : c = item.n
      OBVIOUS
    <3>2. Value(item) = Meaning[c] /\ c \in DOMAIN heap
      BY <1>12, <3>1 DEF Value
    <3>3. heap[c].kind \in {"list", "map", "inst"}
      BY <1>2, <3>2, HeapsAssumption
    <3>4. PICK vals : vals = [k \in 1 .. Len(Kids(c)) |-> Value(Kids(c)[k])]
      OBVIOUS
    <3>5. Meaning[c] = Whole(heap[c].kind, vals)
      BY <1>2, <3>2, <3>4, MeaningIs
    <3>6. Meaning[c].k # "ref"
      BY <3>3, <3>5, ShapesMade
    <3>. QED
      BY <1>13, <2>1, <3>2, <3>6
  <2>4. item.i = "ref"
    BY <1>12, <2>2, <2>3
  <2>5. PICK t : t = item.n
    OBVIOUS
  <2>6. Value(item) = Pointer(AddressOf(t))
    BY <2>4, <2>5 DEF Value
  <2>7. n = AddressOf(t)
    BY <1>13, <2>1, <2>6, ShapesMade
  <2>8. api = "encode"
    BY <1>5, <1>11, <1>12, <2>4 DEF EncTypeOK, Kids
  <2>9. PICK o : o = es[i].o
    OBVIOUS
  <2>10. Stands(stack[i], es[i])
    BY <1>3 DEF Awaits
  <2>11. n \in 1 .. Len(eValues) /\ eValues[n] = o
    BY <1>15, <2>8, <2>9, <2>10 DEF Stands
  <2>12. PICK m : m = Enc!IndexIn(eValues, t)
    OBVIOUS
  <2>13. eValues \in Seq(DOMAIN heap)
    BY DEF EncTypeOK
  <2>14. m \in -1 .. Len(eValues) - 1 /\ (m # -1 => eValues[m + 1] = t)
    BY <2>12, <2>13, IndexRange
  <2>15. n = m + 1 /\ Len(eValues) \in Nat
    BY <2>7, <2>12, <2>13 DEF AddressOf
  <2>16. t = o
    BY <2>11, <2>14, <2>15
  <2>17. heap[t].kind = "inst"
    BY <1>7, <1>15, <2>9, <2>16
  <2>18. Encloses(heap, t, e.o)
    BY <1>1, <1>2, <1>3, <2>9, <2>16, NestedEncloses
  <2>. QED
    BY <1>5, <1>6, <1>10, <1>11, <2>4, <2>5, <2>17, <2>18 DEF KeysHashable, Kids, IsMap
<1>16. ~Dec!NoDefinition(x)
  <2>. SUFFICES ASSUME Dec!NoDefinition(x) PROVE FALSE
    OBVIOUS
  <2>1. PICK i \in 1 .. Len(stack) :
            stack[i].kind = "inst" /\ x.shape = Dec!Pointer(stack[i].addr)
    BY DEF Dec!NoDefinition
  <2>2. PICK n : n = stack[i].addr
    OBVIOUS
  <2>3. Dec!Pointer(n) = Pointer(n)
    BY DEF Dec!Pointer, Pointer, Dec!Shape, Shape
  <2>4. x.shape = Pointer(n)
    BY <2>1, <2>2, <2>3
  <2>. QED
    BY <1>15, <2>1, <2>2, <2>4
<1>. QED
  BY <1>1, <1>14, <1>16 DEF Dec!Unhashable

\* The decoder does not bring the process down.
LEMMA StaysAlive ==
    ASSUME EncTypeOK, DecUnchanged, Dec!DecNext, Enc!Encoded, AllEncodable, DistinctKeys,
           KeysHashable, need # "gone", NEW log, Recorded(log), Follows(log), Carries(log)
    PROVE  need' # "gone"
<1>1. PICK L : L = Len(log)
  OBVIOUS
<1>2. L \in Nat /\ L >= 2 /\ \A i \in 1 .. L : log[i] \in Entries /\ EntryOK(log[i])
  BY <1>1, RecordedFacts
<1>3. need' = "gone" => stack' # <<>>
  <2>1. Follows(log)'
    BY FollowsStep
  <2>. QED
    BY <2>1 DEF Follows, NotCalled, Done, InLoop, Returned, AtLeaf, AtHeader, AtInstance
<1>4. ~Dec!DefinitionThrows \/ need' # "gone"
  BY <1>3 DEF Dec!DefinitionThrows, Dec!Unwind
<1>5. ~Dec!HashNothing
  <2>. SUFFICES ASSUME Dec!HashNothing PROVE FALSE
    OBVIOUS
  <2>1. /\ need = "elem" /\ stack # <<>> /\ ret # Nothing /\ stack[1].kind = "map"
        /\ stack[1].key # Nothing /\ Dec!Unhashable(stack[1].key)
    BY DEF Dec!HashNothing, Dec!Top, Nothing
  <2>2. ~NotCalled /\ ~Done
    BY <2>1 DEF NotCalled, Done
  <2>3. PICK i \in 2 .. L : Aimed /\ Moves(log[i - 1], log[i])
    BY <1>1, <2>2 DEF Carries, Keeps
  <2>4. PICK b : b = log[i]
    OBVIOUS
  <2>5. Returned(b) /\ Lack(stack, b.stack, ret.shape)
    BY <2>1, <2>3, <2>4 DEF Moves, InLoop, AtLeaf, AtHeader, AtInstance
  <2>6. i \in 1 .. L
    BY <1>2
  <2>7. b \in Entries /\ EntryOK(b) /\ Nested(b.stack)
    BY <1>1, <1>2, <2>4, <2>6, NestedRecord DEF EncTypeOK
  <2>8. ~Dec!Unhashable(stack[1].key)
    BY <2>1, <2>3, <2>5, <2>7, KeyHashes
  <2>. QED
    BY <2>1, <2>8
<1>. QED
  BY <1>4, <1>5 DEF Dec!DecNext, Dec!Call, Dec!Take, Dec!Reject, Dec!Scalars, Dec!Reference,
     Dec!Definition, Dec!MalformedDefinition, Dec!Abort, Dec!Unwind, Dec!List, Dec!VariableList,
     Dec!MapObject, Dec!MalformedHeader, Dec!Instance, Dec!Enter, Dec!EnterAndFail,
     Dec!AskElement, Dec!NoEnd, Dec!AppendElement, Dec!HoldKey, Dec!Emplace, Dec!Finish

-----------------------------------------------------------------------------
(* The inductive invariant *)

\* The record of the first header.
LEMMA IInvInit == Init => IInv
<1>. SUFFICES ASSUME Init PROVE IInv
  OBVIOUS
<1>1. EncInv /\ EncTypeOK
  BY EncInvInit DEF EncInv
<1>2. heap \in Heaps /\ 1 \in DOMAIN heap
  BY TypeInit DEF Init
<1>3. PICK form : form \in Enc!Forms(1) /\ eStack = <<Enc!Frame(1, form)>>
                  /\ eWire = Enc!Header(1, form, <<>>)
  BY DEF Init, Enc!EncInit
<1>4. /\ eValues = IF api = "begin" THEN <<>> ELSE <<1>>
      /\ eDefs = Enc!Known(1, <<>>)
  BY DEF Init, Enc!EncInit
<1>5. PICK a, b : a = Before /\ b = Now
  OBVIOUS
<1>6. b \in Entries /\ EntryOK(b)
  BY <1>1, <1>5, NowOK
<1>7. a \in Entries /\ EntryOK(a)
  <2>1. StackOK(<<>>) /\ Len(eWire) \in Nat /\ Len(eValues) \in Nat
    BY <1>1 DEF StackOK, EncTypeOK
  <2>. QED
    BY <1>5, <2>1 DEF Before, Entries, EntryOK, StackOK
<1>8. Opens(a, b)
  <2>1. PICK f : f = Enc!Frame(1, form)
    OBVIOUS
  <2>2. /\ b.stack = <<f>> /\ b.at = Len(eWire) /\ b.defs = eDefs /\ b.num = Len(eValues)
        /\ a.stack = <<>> /\ a.at = 0 /\ a.defs = <<>> /\ a.num = 0
    BY <1>3, <1>5, <2>1 DEF Now, Before
  <2>3. f.o = 1 /\ f.form = form
    BY <2>1, FrameMade DEF Enc!Frame
  <2>4. b.stack # <<>> /\ b.stack[1] = f /\ Tail(b.stack) = <<>>
    BY <2>2
  <2>5. PICK h : h = Enc!Header(1, form, <<>>)
    OBVIOUS
  <2>6. Enc!Header(f.o, f.form, a.defs) = h /\ eWire = h
    BY <1>3, <2>2, <2>3, <2>5
  <2>7. Len(h) \in Nat /\ b.at = a.at + Len(h)
    BY <1>1, <2>2, <2>6 DEF EncTypeOK
  <2>8. Holds(a.at, h)
    <3>1. \A i \in 1 .. Len(h) : 0 + i = i
      BY <2>7
    <3>. QED
      BY <2>2, <2>6, <3>1 DEF Holds
  <2>9. b.defs = Enc!Known(f.o, a.defs)
    BY <1>4, <2>2, <2>3
  <2>10. b.num = IF api = "begin" THEN a.num ELSE a.num + 1
    BY <1>4, <2>2
  <2>11. f = Enc!Frame(f.o, f.form)
    BY <2>1, <2>3
  <2>12. api = "encode" => b.num \in 1 .. Len(eValues) /\ eValues[b.num] = f.o
    BY <1>4, <2>2, <2>3
  <2>. QED
    BY <2>2, <2>4, <2>6, <2>7, <2>8, <2>9, <2>10, <2>11, <2>12 DEF Opens
<1>9. PICK log : log = <<a, b>>
  OBVIOUS
<1>10. log \in Seq(Entries) /\ Len(log) = 2 /\ log[1] = a /\ log[2] = b
  BY <1>6, <1>7, <1>9
<1>11. Recorded(log)
  <2>1. \A i \in 1 .. 2 : EntryOK(log[i])
    BY <1>6, <1>7, <1>10
  <2>2. Opens(log[1], log[1 + 1])
    BY <1>8, <1>10
  <2>3. \A i \in 1 .. 2 - 1 : i = 1
    OBVIOUS
  <2>4. \A i \in 2 .. 2 - 1 : FALSE
    OBVIOUS
  <2>5. Wrote(log[1], log[1 + 1])
    <3>1. a.stack = <<>> /\ b.stack = <<Enc!Frame(1, form)>>
      BY <1>3, <1>5 DEF Now, Before
    <3>2. Len(b.stack) = Len(a.stack) + 1 /\ b.stack[1].o = 1
      BY <3>1, FrameMade DEF Enc!Frame
    <3>. QED
      <4>1. WroteHeader(a, b)
        BY <3>1, <3>2 DEF WroteHeader
      <4>2. Wrote(a, b)
        BY <3>2, <4>1 DEF Wrote
      <4>3. log[1 + 1] = b
        BY <1>10
      <4>. QED
        BY <1>10, <4>2, <4>3
  <2>. QED
    BY <1>5, <1>10, <2>1, <2>2, <2>3, <2>4, <2>5 DEF Recorded
<1>12. NotCalled
  BY DEF Init, Dec!DecInit, NotCalled, Read, Before, Nothing
<1>. QED
  BY <1>1, <1>11, <1>12 DEF IInv, Follows, Carries, NotCalled

\* A place in the record stays one when no step is made.
LEMMA PlacesStay ==
    ASSUME EncTypeOK, UNCHANGED <<heap, api, eStack, eValues, eDefs, eWire, eAssert>>,
           UNCHANGED <<pos, defs, size, alive, stack, need, ret, results>>,
           NEW a \in Entries, NEW b \in Entries, EntryOK(a), EntryOK(b)
    PROVE  /\ InLoop(b) => InLoop(b)'
           /\ Returned(b) => Returned(b)'
           /\ AtLeaf(a, b) => AtLeaf(a, b)'
           /\ AtHeader(a, b) => AtHeader(a, b)'
           /\ AtInstance(a, b) => AtInstance(a, b)'
           /\ NotCalled => NotCalled'
           /\ Done => Done'
           /\ Enc!Encoded => Enc!Encoded'
<1>1. /\ \A t : Level(stack, t) => Level(stack, t)'
      /\ \A t : Waits(stack, t) => Waits(stack, t)'
      /\ \A e : Read(e) => Read(e)'
      /\ Nothing' = Nothing
  BY AlikeStays DEF Read, Nothing, Dec!Nothing, Dec!Val, Dec!Shape, DecUnchanged
<1>2. (Leaves(a, b) => Leaves(a, b)') /\ (Opens(a, b) => Opens(a, b)')
  BY PairStays DEF DecUnchanged
<1>3. (NotCalled => NotCalled') /\ (Done => Done') /\ (Enc!Encoded => Enc!Encoded')
  BY <1>1 DEF NotCalled, Done, Read, Before, Now, Enc!Encoded
<1>4. (InLoop(b) => InLoop(b)') /\ (Returned(b) => Returned(b)')
  BY <1>1 DEF InLoop, Returned
<1>5. /\ AtLeaf(a, b) => AtLeaf(a, b)'
      /\ AtHeader(a, b) => AtHeader(a, b)'
      /\ AtInstance(a, b) => AtInstance(a, b)'
  BY <1>1, <1>2 DEF AtLeaf, AtHeader, AtInstance
<1>. QED
  BY <1>3, <1>4, <1>5

LEMMA FollowsUnchanged ==
    ASSUME EncTypeOK, UNCHANGED <<heap, api, eStack, eValues, eDefs, eWire, eAssert>>,
           UNCHANGED <<pos, defs, size, alive, stack, need, ret, results>>,
           NEW log, Recorded(log), Follows(log)
    PROVE  Follows(log)'
<1>1. PICK L : L = Len(log)
  OBVIOUS
<1>2. L \in Nat /\ L >= 2 /\ \A i \in 1 .. L : log[i] \in Entries /\ EntryOK(log[i])
  BY <1>1, RecordedFacts
<1>3. \A i \in 2 .. L : i \in 1 .. L /\ i - 1 \in 1 .. L
  BY <1>2
<1>4. (NotCalled => NotCalled') /\ (Done => Done') /\ (Enc!Encoded => Enc!Encoded')
  <2>1. 1 \in 1 .. L
    BY <1>2
  <2>. QED
    BY <1>2, <2>1, PlacesStay
<1>5. ASSUME NEW i \in 2 .. L, NEW a, NEW b, a = log[i - 1], b = log[i],
             InLoop(b) \/ Returned(b) \/ AtLeaf(a, b) \/ AtHeader(a, b) \/ AtInstance(a, b)
      PROVE  (InLoop(b) \/ Returned(b) \/ AtLeaf(a, b) \/ AtHeader(a, b) \/ AtInstance(a, b))'
  <2>1. a \in Entries /\ b \in Entries /\ EntryOK(a) /\ EntryOK(b)
    BY <1>2, <1>3, <1>5
  <2>. QED
    BY <1>5, <2>1, PlacesStay
<1>. QED
  BY <1>1, <1>4, <1>5 DEF Follows

LEMMA CarriesUnchanged ==
    ASSUME EncTypeOK, UNCHANGED <<heap, api, eStack, eValues, eDefs, eWire, eAssert>>,
           UNCHANGED <<pos, defs, size, alive, stack, need, ret, results>>,
           NEW log, Recorded(log), Carries(log)
    PROVE  Carries(log)'
<1>1. PICK L : L = Len(log)
  OBVIOUS
<1>2. L \in Nat /\ L >= 2 /\ \A i \in 1 .. L : log[i] \in Entries /\ EntryOK(log[i])
  BY <1>1, RecordedFacts
<1>3. \A i \in 2 .. L : i \in 1 .. L /\ i - 1 \in 1 .. L
  BY <1>2
<1>4. (NotCalled => NotCalled') /\ (Done => Done') /\ (Enc!Encoded => Enc!Encoded')
  <2>1. 1 \in 1 .. L
    BY <1>2
  <2>. QED
    BY <1>2, <2>1, PlacesStay
<1>5. heap \in Heaps
  BY DEF EncTypeOK
<1>6. Meaning' = Meaning /\ \A t : TokenValue(t)' = TokenValue(t)
  BY <1>5, ValuesStay
<1>7. \A es, v : Lack(stack, es, v) => Lack(stack, es, v)'
  <2>. SUFFICES ASSUME NEW es, NEW v, Lack(stack, es, v) PROVE Lack(stack, es, v)'
    OBVIOUS
  <2>1. Lack(stack', es, v)
    OBVIOUS
  <2>. QED
    BY <1>5, <2>1, HavingStays
<1>8. \A e : Has(stack[1], e) => Has(stack[1], e)'
  <2>. SUFFICES ASSUME NEW e, Has(stack[1], e) PROVE Has(stack[1], e)'
    OBVIOUS
  <2>1. PICK d : d = stack[1]
    OBVIOUS
  <2>2. Has(d, e)'
    BY <1>5, <2>1, HavingStays
  <2>. QED
    BY <2>1, <2>2
<1>9. \A es, v : Lack(Tail(stack), es, v) => Lack(Tail(stack), es, v)'
  <2>. SUFFICES ASSUME NEW es, NEW v, Lack(Tail(stack), es, v) PROVE Lack(Tail(stack), es, v)'
    OBVIOUS
  <2>1. Lack(Tail(stack'), es, v)
    OBVIOUS
  <2>. QED
    BY <1>5, <2>1, HavingStays
<1>10. Keeps => Keeps'
  <2>1. Owns => Owns'
    BY OwnsMeans DEF Owns
  <2>2. Aimed => Aimed'
    BY AimedMeans DEF Aimed, Aims
  <2>. QED
    BY <2>1, <2>2 DEF Keeps
<1>11. ASSUME NEW i \in 2 .. L, NEW a, NEW b, a = log[i - 1], b = log[i], Moves(a, b)
       PROVE  Moves(a, b)'
  <2>1. a \in Entries /\ b \in Entries /\ EntryOK(a) /\ EntryOK(b)
    BY <1>2, <1>3, <1>11
  <2>2. /\ InLoop(b) => InLoop(b)'
        /\ Returned(b) => Returned(b)'
        /\ AtLeaf(a, b) => AtLeaf(a, b)'
        /\ AtHeader(a, b) => AtHeader(a, b)'
        /\ AtInstance(a, b) => AtInstance(a, b)'
    BY <2>1, PlacesStay
  <2>3. CASE InLoop(b) /\ LoopHas(b)
    <3>1. PICK e, es, v : e = b.stack[1] /\ es = Tail(b.stack) /\ v = Meaning[b.stack[1].o]
      OBVIOUS
    <3>2. Has(stack[1], e)' /\ Lack(Tail(stack), es, v)'
      BY <1>8, <1>9, <2>3, <3>1 DEF LoopHas
    <3>3. LoopHas(b)'
      BY <1>6, <3>1, <3>2 DEF LoopHas
    <3>. QED
      BY <2>2, <2>3, <3>3 DEF Moves
  <2>4. CASE Returned(b) /\ Lack(stack, b.stack, ret.shape)
    <3>1. PICK es, v : es = b.stack /\ v = ret.shape
      OBVIOUS
    <3>2. Lack(stack, es, v)'
      BY <1>7, <2>4, <3>1
    <3>3. Lack(stack, b.stack, ret.shape)'
      BY <3>1, <3>2
    <3>. QED
      BY <2>2, <2>4, <3>3 DEF Moves
  <2>5. CASE AtLeaf(a, b) /\ Lack(stack, b.stack, TokenValue(eWire[b.at]))
    <3>1. PICK es, t : es = b.stack /\ t = eWire[b.at]
      OBVIOUS
    <3>2. PICK v : v = TokenValue(t)
      OBVIOUS
    <3>3. Lack(stack, es, v)'
      BY <1>7, <2>5, <3>1, <3>2
    <3>4. v = TokenValue(t)' /\ t = eWire'[b.at]
      BY <1>6, <3>1, <3>2
    <3>5. Lack(stack, b.stack, TokenValue(eWire[b.at]))'
      BY <3>1, <3>3, <3>4
    <3>. QED
      BY <2>2, <2>5, <3>5 DEF Moves
  <2>6. CASE /\ AtHeader(a, b) \/ AtInstance(a, b)
             /\ Lack(stack, Tail(b.stack), Meaning[b.stack[1].o])
    <3>1. PICK es, v : es = Tail(b.stack) /\ v = Meaning[b.stack[1].o]
      OBVIOUS
    <3>2. Lack(stack, es, v)'
      BY <1>7, <2>6, <3>1
    <3>3. Lack(stack, Tail(b.stack), Meaning[b.stack[1].o])'
      BY <1>6, <3>1, <3>2
    <3>. QED
      BY <2>2, <2>6, <3>3 DEF Moves
  <2>. QED
    BY <1>11, <2>3, <2>4, <2>5, <2>6 DEF Moves
<1>12. Done /\ results[1].shape = Meaning[1] => Done' /\ results'[1].shape = Meaning'[1]
  BY <1>4, <1>6
<1>. QED
  BY <1>1, <1>4, <1>10, <1>11, <1>12 DEF Carries

\* encode goes on: the record grows, and the decoder has not been called.
LEMMA RecordNext ==
    ASSUME IInv, EncInv', Encode, AllEncodable', ~eAssert'
    PROVE  (\E log : /\ Recorded(log) /\ Follows(log)
                     /\ DistinctKeys => Carries(log) /\ (KeysHashable => need # "gone"))'
<1>1. Enc!EncNext /\ UNCHANGED <<pos, defs, size, alive, stack, need, ret, results>>
  BY DEF Encode
<1>2. EncTypeOK /\ EncTypeOK'
  BY DEF IInv, EncInv
<1>3. heap' = heap /\ api' = api /\ eStack # <<>>
  BY <1>1, <1>2, EncodeCases
<1>4. AllEncodable
  BY <1>3 DEF AllEncodable
<1>5. ~eAssert
  BY <1>1 DEF Enc!EncNext, Enc!EncodeElement, Enc!WriteKid, Enc!EncodeReturn
<1>6. PICK log : Recorded(log) /\ Follows(log)
  BY <1>4, <1>5 DEF IInv
<1>7. PICK b : b = Now'
  OBVIOUS
<1>8. PICK new : new = Append(log, b)
  OBVIOUS
<1>9. Recorded(new)'
  BY <1>1, <1>2, <1>4, <1>6, <1>7, <1>8, RecordedGrows
<1>10. NotCalled
  BY <1>3, <1>6 DEF Follows, Enc!Encoded
<1>11. NotCalled'
  BY <1>1, <1>3, <1>10 DEF NotCalled, Read, Before, Nothing, Dec!Nothing, Dec!Val, Dec!Shape
<1>12. Follows(new)'
  BY <1>11 DEF Follows
<1>13. Carries(new)' /\ need' # "gone"
  BY <1>11 DEF Carries, NotCalled
<1>. QED
  BY <1>9, <1>12, <1>13

LEMMA IInvNext == IInv /\ [Next]_vars => IInv'
<1>. SUFFICES ASSUME IInv, [Next]_vars PROVE IInv'
  OBVIOUS
<1>1. EncInv' /\ EncTypeOK
  BY EncInvNext DEF IInv, EncInv
<1>2. CASE Encode
  BY <1>1, <1>2, RecordNext DEF IInv
<1>3. CASE Decode
  <2>1. eWire' = eWire
    BY <1>3 DEF Decode, Dec!DecNext, Dec!Call, Dec!Take, Dec!Reject, Dec!Scalars, Dec!Reference,
       Dec!Definition, Dec!DefinitionThrows, Dec!MalformedDefinition, Dec!Abort, Dec!Unwind,
       Dec!List, Dec!VariableList, Dec!MapObject, Dec!MalformedHeader, Dec!Instance,
       Dec!Enter, Dec!EnterAndFail, Dec!AskElement, Dec!NoEnd, Dec!AppendElement, Dec!HoldKey,
       Dec!Emplace, Dec!Finish, Dec!HashNothing
  <2>2. DecUnchanged /\ Dec!DecNext /\ Enc!Encoded /\ eAssert' = eAssert
    BY <1>3, <2>1 DEF Decode, DecUnchanged
  <2>3. SUFFICES ASSUME AllEncodable', ~eAssert'
                 PROVE  (\E log : /\ Recorded(log) /\ Follows(log)
                                  /\ DistinctKeys => /\ Carries(log)
                                                     /\ KeysHashable => need # "gone")'
    BY <1>1 DEF IInv
  <2>4. AllEncodable /\ ~eAssert
    BY <2>2, <2>3 DEF AllEncodable, DecUnchanged
  <2>5. PICK log : /\ Recorded(log) /\ Follows(log)
                   /\ DistinctKeys => Carries(log) /\ (KeysHashable => need # "gone")
    BY <2>4 DEF IInv
  <2>6. Recorded(log)'
    BY <1>1, <2>2, <2>5, RecordedStays DEF DecUnchanged
  <2>7. Follows(log)'
    BY <1>1, <2>2, <2>5, FollowsStep
  <2>8. DistinctKeys' = DistinctKeys /\ KeysHashable' = KeysHashable
    BY <1>1, <2>2, ValuesStay DEF DecUnchanged, EncTypeOK
  <2>9. (DistinctKeys => Carries(log))'
    BY <1>1, <2>2, <2>5, <2>8, CarriesStep
  <2>10. (DistinctKeys /\ KeysHashable => need # "gone")'
    BY <1>1, <2>2, <2>4, <2>5, <2>8, StaysAlive
  <2>. QED
    BY <2>6, <2>7, <2>9, <2>10
<1>4. CASE UNCHANGED vars
  <2>1. SUFFICES ASSUME AllEncodable', ~eAssert'
                 PROVE  (\E log : /\ Recorded(log) /\ Follows(log)
                                  /\ DistinctKeys => /\ Carries(log)
                                                     /\ KeysHashable => need # "gone")'
    BY <1>1 DEF IInv
  <2>2. UNCHANGED <<heap, api, eStack, eValues, eDefs, eWire, eAssert>>
    BY <1>4 DEF vars
  <2>3. UNCHANGED <<pos, defs, size, alive, stack, need, ret, results>>
    BY <1>4 DEF vars
  <2>4. AllEncodable /\ ~eAssert
    BY <2>1, <2>2 DEF AllEncodable
  <2>5. PICK log : /\ Recorded(log) /\ Follows(log)
                   /\ DistinctKeys => Carries(log) /\ (KeysHashable => need # "gone")
    BY <2>4 DEF IInv
  <2>6. Recorded(log)'
    BY <1>1, <2>2, <2>5, RecordedStays
  <2>7. Follows(log)'
    BY <1>1, <2>2, <2>3, <2>5, FollowsUnchanged
  <2>8. DistinctKeys' = DistinctKeys /\ KeysHashable' = KeysHashable
    BY <1>1, <2>2, ValuesStay DEF EncTypeOK
  <2>9. (DistinctKeys => Carries(log))'
    BY <1>1, <2>2, <2>3, <2>5, <2>8, CarriesUnchanged
  <2>10. (DistinctKeys /\ KeysHashable => need # "gone")'
    BY <2>3, <2>5, <2>8
  <2>. QED
    BY <2>6, <2>7, <2>9, <2>10
<1>. QED
  BY <1>2, <1>3, <1>4 DEF Next

LEMMA IInvAlways == Spec => []IInv
BY IInvInit, IInvNext, PTL DEF Spec

\* What the place in the record says of the two tables and of the results.
LEMMA Numbered ==
    ASSUME EncTypeOK, Enc!Encoded, NEW log, Recorded(log), Follows(log)
    PROVE  /\ SameNumbering
           /\ need # "failed" /\ (Dec!Decoded => Len(results) = 1)
<1>1. PICK L : L = Len(log)
  OBVIOUS
<1>2. /\ L \in Nat /\ L >= 2 /\ log[1] = Before /\ log[L] = Now
      /\ \A i \in 1 .. L : log[i] \in Entries /\ EntryOK(log[i])
      /\ \A i \in 1 .. L - 1 : \/ Leaves(log[i], log[i + 1]) \/ Opens(log[i], log[i + 1])
                               \/ Closes(log[i], log[i + 1])
  BY <1>1, RecordedFacts
<1>3. Len(eWire) \in Nat /\ Len(eValues) \in Nat
  BY DEF EncTypeOK
<1>4. CASE NotCalled
  <2>1. PICK a, b : a = log[1] /\ b = log[2]
    OBVIOUS
  <2>2. /\ a \in Entries /\ b \in Entries /\ EntryOK(a) /\ EntryOK(b) /\ a = Before
        /\ Leaves(a, b) \/ Opens(a, b) \/ Closes(a, b)
    <3>1. 1 \in 1 .. L - 1 /\ 1 \in 1 .. L /\ 2 \in 1 .. L /\ 1 + 1 = 2
      BY <1>2
    <3>. QED
      BY <1>2, <2>1, <3>1
  <2>3. a.stack = <<>> /\ a.at = 0
    BY <2>2 DEF Before
  <2>4. Opens(a, b)
    BY <2>2, <2>3 DEF Leaves, Closes
  <2>5. b.at >= 1 /\ b.at <= Len(eWire)
    BY <2>2, <2>3, <2>4, EntryFacts, HeaderRead
  <2>6. need = "idle" /\ pos = 0 /\ defs = <<>> /\ (api = "encode" => size = 0)
    BY <1>4 DEF NotCalled, Read, Before
  <2>7. ~Dec!Decoded
    BY <1>3, <2>2, <2>5, <2>6, EntryFacts DEF Dec!Decoded, Dec!Left
  <2>. QED
    BY <1>3, <2>6, <2>7 DEF SameNumbering
<1>5. CASE Done
  <2>1. /\ need = "idle" /\ Len(results) = 1 /\ defs = eDefs
        /\ api = "encode" => size = Len(eValues)
    BY <1>5 DEF Done, Read, Now
  <2>. QED
    BY <1>3, <2>1 DEF SameNumbering
<1>6. ASSUME NEW i \in 2 .. L, NEW a, NEW b, a = log[i - 1], b = log[i],
             InLoop(b) \/ Returned(b) \/ AtLeaf(a, b) \/ AtHeader(a, b) \/ AtInstance(a, b)
      PROVE  /\ SameNumbering
             /\ need # "failed" /\ (Dec!Decoded => Len(results) = 1)
  <2>1. /\ a \in Entries /\ b \in Entries /\ EntryOK(a) /\ EntryOK(b)
    <3>1. i \in 1 .. L /\ i - 1 \in 1 .. L
      BY <1>2
    <3>. QED
      BY <1>2, <1>6, <3>1
  <2>2. a.num \in Nat /\ a.num <= Len(eValues) /\ b.num \in Nat /\ b.num <= Len(eValues)
    BY <2>1, EntryFacts
  <2>3. /\ need \in {"elem", "gone", "value"}
        /\ api = "encode" => size = a.num \/ size = b.num
    BY <1>6 DEF InLoop, Returned, AtLeaf, AtHeader, AtInstance, Read
  <2>4. ~Dec!Decoded /\ need # "failed"
    BY <2>3 DEF Dec!Decoded
  <2>. QED
    BY <2>2, <2>3, <2>4 DEF SameNumbering
<1>. QED
  BY <1>1, <1>4, <1>5, <1>6 DEF Follows

\* Of any graph whose strings are UTF-8 and whose references encode<RefObject> finds, the
\* decoder numbers containers and classes as the encoder did, whatever the order of the
\* maps, and whether encode or the begin and end calls of codec.cc wrote it: at every
\* moment it has at most what the encoder registered, and when the wire is read all of it.
THEOREM NumberedAlike == Spec => [](AllEncodable /\ DestinationRegistered => SameNumbering)
<1>1. IInv => (AllEncodable /\ DestinationRegistered => SameNumbering)
  <2>. SUFFICES ASSUME IInv, AllEncodable, DestinationRegistered PROVE SameNumbering
    OBVIOUS
  <2>1. EncTypeOK
    BY DEF IInv, EncInv
  <2>2. PICK log : Recorded(log) /\ Follows(log)
    BY DEF IInv, DestinationRegistered
  <2>3. CASE Enc!Encoded
    BY <2>1, <2>2, <2>3, Numbered
  <2>4. CASE ~Enc!Encoded
    BY <2>4 DEF SameNumbering
  <2>. QED
    BY <2>3, <2>4
<1>. QED
  BY <1>1, IInvAlways, PTL

\* No decode of what was written of such a graph fails or brings the process down, and
\* it returns one value when it has read the wire: every header, element, 'Z' and index is
\* what the handler that reads it asks for (codec.hpp, list_codec.cc, map_codec.cc,
\* class_instance_codec.cc, ref_object_codec.cc), and a key that is a reference is hashed
\* when its destination has been built (map_codec.cc, object.hpp).
THEOREM DecodeSucceeds == Spec => []NeverFails
<1>1. IInv => NeverFails
  <2>. SUFFICES ASSUME IInv, AllEncodable, DestinationRegistered, DistinctKeys, KeysHashable
                PROVE  /\ need \notin {"failed", "gone"}
                       /\ Enc!Encoded /\ Dec!Decoded => Len(results) = 1
    BY DEF NeverFails
  <2>1. EncTypeOK
    BY DEF IInv, EncInv
  <2>2. PICK log : Recorded(log) /\ Follows(log) /\ need # "gone"
    BY DEF IInv, DestinationRegistered
  <2>3. CASE Enc!Encoded
    BY <2>1, <2>2, <2>3, Numbered
  <2>4. CASE ~Enc!Encoded
    BY <2>2, <2>4 DEF Follows, NotCalled
  <2>. QED
    BY <2>3, <2>4
<1>. QED
  BY <1>1, IInvAlways, PTL

\* What decode gives back is what encode was given: of a graph as above of which no map
\* holds two keys that operator== takes for equal (a Map is a hash map on them), and none
\* a reference to an instance around it, the decode does not fail, and when it has
\* returned every element is in its place, every pair in its map, every reference points
\* at the counterpart of the container it pointed at, and the value owns every container
\* that was made, whatever the order of the maps and the calls that wrote it.
THEOREM DecodedEqual ==
    Spec => [](AllEncodable /\ DestinationRegistered /\ DistinctKeys /\ KeysHashable =>
                   need \notin {"failed", "gone"} /\ RoundTrip)
<1>1. IInv => (AllEncodable /\ DestinationRegistered /\ DistinctKeys => RoundTrip)
  <2>. SUFFICES ASSUME IInv, AllEncodable, DestinationRegistered, DistinctKeys,
                       Enc!Encoded, Dec!Decoded
                PROVE  /\ need = "idle" /\ Len(results) = 1
                       /\ results[1].shape = Meaning[1] /\ results[1].own = 1 .. size
    BY DEF RoundTrip
  <2>1. EncTypeOK
    BY DEF IInv, EncInv
  <2>2. PICK log : Recorded(log) /\ Follows(log) /\ Carries(log)
    BY DEF IInv, DestinationRegistered
  <2>3. need # "failed" /\ Len(results) = 1
    BY <2>1, <2>2, Numbered
  <2>4. need = "idle"
    BY <2>3 DEF Dec!Decoded
  <2>5. ~NotCalled
    BY <2>3, StackEmpty DEF NotCalled
  <2>6. ASSUME NEW a, NEW b PROVE ~Moves(a, b)
    BY <2>4 DEF Moves, InLoop, Returned, AtLeaf, AtHeader, AtInstance
  <2>. QED
    BY <2>2, <2>3, <2>4, <2>5, <2>6 DEF Carries
<1>2. /\ NeverFails
      /\ AllEncodable /\ DestinationRegistered /\ DistinctKeys => RoundTrip
      => (AllEncodable /\ DestinationRegistered /\ DistinctKeys /\ KeysHashable =>
              need \notin {"failed", "gone"} /\ RoundTrip)
  BY DEF NeverFails
<1>. QED
  BY <1>1, <1>2, IInvAlways, DecodeSucceeds, PTL

\* The hypothesis on the input alone: with every reference to an enclosing container,
\* the decoder numbers alike, and if the keys of every map are distinct and can be hashed
\* while the map is read, it does not fail, and the graph comes back.
THEOREM UpwardSucceeds ==
    Spec => [](AllEncodable /\ RefsUpward =>
                   /\ SameNumbering
                   /\ DistinctKeys /\ KeysHashable =>
                          need \notin {"failed", "gone"} /\ RoundTrip)
BY DestinationFound, NumberedAlike, DecodedEqual, PTL
=============================================================================
