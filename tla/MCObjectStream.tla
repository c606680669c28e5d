--------------------------- MODULE MCObjectStream ---------------------------
EXTENDS ObjectStream

MCTokens == {Leaf(1), FixedList(-1), FixedList(2), VarList, Map, End,
             Def(1), Def(-1), BadDef, Inst(0), Ref(0), Ref(1), Ref(2), BadHeader, Reserved}

\* The keys of these wires are equal exactly when they are the same: none is a typed map
\* with entries of its own, or NaN.
SameShape(a, b) == a = b
=============================================================================
