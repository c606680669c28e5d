----------------------------- MODULE ObjectWire -----------------------------
(***************************************************************************)
(* The tokens that encode<Object> writes and decode<Object> reads, and the *)
(* value they stand for.  A token is an opcode together with the fixed     *)
(* part that follows it: a whole scalar, a whole class definition, a list  *)
(* header with its type and its count.  How types and definitions are      *)
(* numbered is the subject of RefTables.                                   *)
(***************************************************************************)
EXTENDS Integers, Sequences, FiniteSets

Tok(op, n) == [op |-> op, n |-> n]

\* A scalar: null, bool, number, date, string or binary, told apart by n.
Leaf(n) == Tok("leaf", n)

\* Fixed-length list of n values: [x70-77] and [x78-7f], or 'V' and x58 with
\* an int, which may be negative on a wire nobody checked.
FixedList(n) == Tok("list", n)

VarList == Tok("varlist", 0)     \* x55 type, x57
Map     == Tok("map", 0)         \* 'M' type, 'H'
End     == Tok("Z", 0)
Inst(i) == Tok("inst", i)        \* 'O' int, [x60-x6f]
Ref(i)  == Tok("ref", i)         \* x51 int

\* Definition of a class with n fields, with their names.  A wire nobody checked may say
\* a negative number, or one that memory has no room for (n < 0 stands for both).
Def(n)  == Tok("C", n)

\* 'C' followed by a name, a number or names of fields that do not decode.
BadDef == Tok("baddef", 0)

\* A container opcode followed by a type or a count that does not decode.
BadHeader == Tok("badheader", 0)

\* A byte that starts no value.
Reserved == Tok("reserved", 0)

(* A value without its address: what UntypedList, UntypedMap and           *)
(* ClassInstance operator== compare.  The elements of a list or instance   *)
(* are keyed by their position, those of a map by their key; a reference   *)
(* is the address it points to.  refs collects the addresses that the      *)
(* value's RefObjects point to, however deep they are in it.               *)
Shape(k, v, elems) ==
    [k |-> k, v |-> v, elems |-> elems,
     refs |-> (IF k = "ref" THEN {v} ELSE {})
                  \cup UNION {e[1].refs \cup e[2].refs : e \in elems}]

Scalar(n) == Shape("leaf", n, {})
Pointer(a) == Shape("ref", a, {})

SeqShape(k, v, vals) ==
    Shape(k, v, {<<Scalar(i), vals[i]>> : i \in 1 .. Len(vals)})

(* An item: an element of a container in memory.  It is a scalar, an owned *)
(* container, a RefObject to a container of the same graph, or a scalar    *)
(* that cannot be encoded (a string that is not UTF-8).  The kids of a map *)
(* are its keys and values in turn.                                        *)
IScalar(n) == [i |-> "scalar", n |-> n]
IOwn(o)    == [i |-> "own", n |-> o]
IRef(o)    == [i |-> "ref", n |-> o]
IBad       == [i |-> "bad", n |-> 0]
=============================================================================
