-------------------------- MODULE MCObjectRoundTrip --------------------------
(***************************************************************************)
(* Graphs of one or three containers with up to two elements each.         *)
(***************************************************************************)
EXTENDS ObjectRoundTrip, FiniteSets

Own(o) == IOwn(o)
Scal(n) == IScalar(n)
RefTo(o) == IRef(o)
Bad == IBad

UpToOne(S) == {<<>>} \cup {<<x>> : x \in S}
UpToTwo(S) == {<<>>} \cup {<<x>> : x \in S} \cup (S \X S)

\* A container of a kind: the elements of a map get the keys 1 and 2.
Node(kind, vals) ==
    [kind |-> kind,
     kids |-> IF kind # "map" THEN vals
              ELSE [j \in 1 .. 2 * Len(vals) |->
                       IF j % 2 = 1 THEN Scal((j + 1) \div 2) ELSE vals[j \div 2]]]

Kinds == {"list", "map", "inst"}

Owns(vals, o) == Cardinality({j \in DOMAIN vals : vals[j] = Own(o)})

\* One container, which may refer to itself; three, as a chain or side by
\* side, each owned once, the last no instance and with at most one element.
Graphs1(refs) == {<<Node(k, v)>> : k \in Kinds, v \in UpToTwo({Scal(1)} \cup refs)}

Graphs3(refs) ==
    LET plain == {Scal(1)} \cup refs
        V1 == UpToTwo(plain \cup {Own(2), Own(3)})
        V2 == UpToTwo(plain \cup {Own(3)})
        V12 == {v \in V1 \X V2 : /\ Owns(v[1], 2) = 1
                                 /\ Owns(v[1], 3) + Owns(v[2], 3) = 1}
    IN  {<<Node(k[1], v[1]), Node(k[2], v[2]), Node(k[3], w)>> :
            k \in Kinds \X Kinds \X {"list", "map"}, v \in V12, w \in UpToOne(plain)}

\* A reference to a container that encloses its holder can be encoded in any order.
\* A reference to a container finished earlier needs an order: no map above
\* both decides which of them comes first.  (Containers are numbered in the
\* order their owner lists them.)
Ordered(h, from, to) ==
    LET above == {a \in DOMAIN h : Encloses(h, a, from) /\ Encloses(h, a, to)}
        place(a, b) == {j \in DOMAIN h[a].kids :
                          \/ h[a].kids[j] = RefTo(to) /\ a = from /\ b = from
                          \/ h[a].kids[j].i = "own" /\ b # a /\ Encloses(h, h[a].kids[j].n, b)}
    IN  \E a \in above :
            /\ \A x \in above : Encloses(h, x, a)
            /\ h[a].kind # "map"
            /\ \A j \in place(a, from), k \in place(a, to) : k < j

Encodable(h) ==
    \A o \in DOMAIN h : \A j \in DOMAIN h[o].kids :
        h[o].kids[j].i = "ref" =>
            LET t == h[o].kids[j].n IN Encloses(h, t, o) \/ Ordered(h, o, t)

\* A map in a container of this kind, with a key that refers to that container.
KeyHeaps(kind) ==
    {<<Node(kind, <<Own(2)>>), [kind |-> "map", kids |-> <<RefTo(1), Scal(1)>>]>>}

InstanceKeyHeaps == KeyHeaps("inst")

\* A map with a key that refers to a container beside it.
BesideHeaps(kind) ==
    {<<Node("list", <<Own(2), Own(3)>>), Node(kind, <<>>),
       [kind |-> "map", kids |-> <<RefTo(2), Scal(1)>>]>>}

\* A string that is not UTF-8 before another element.
BadHeaps == {<<Node(k, <<Bad, Scal(1)>>)>> : k \in Kinds}

SomeHeaps == BadHeaps \cup UNION {KeyHeaps(k) \cup BesideHeaps(k) : k \in Kinds}
             \cup Graphs1({RefTo(1)}) \cup
             {h \in Graphs3({RefTo(1), RefTo(2), RefTo(3)}) : Encodable(h)}

\* No key here is a typed map with entries of its own, or NaN: equal is the same.
SameShape(a, b) == a = b

\* A map whose one value refers to the other.
SiblingHeaps == {<<Node("map", <<Own(2), RefTo(2)>>), Node("list", <<>>)>>}

=============================================================================
