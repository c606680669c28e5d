---------------------------- MODULE ObjectDecoder ----------------------------
(***************************************************************************)
(* decode<Object> and the container decoders it calls: a recursive descent *)
(* over the wire, with the lifetime of every object it makes.  A container *)
(* enters values_ref_ before its elements are read, so a reference can     *)
(* point to a container that is still being built; the pointer is not      *)
(* owned, and values_ref_ is never shortened.                              *)
(*                                                                         *)
(* A container's address is its position in values_ref_, counted from 1.   *)
(***************************************************************************)
EXTENDS ObjectWire, SequencesExt, FiniteSetsExt

(* What ObjectHasher and ObjectEqual, between them, say of a key that a map has and *)
(* of a new one.  It need not be sameness: TypedMap::operator== compares the other *)
(* size with itself, and NaN is not equal to NaN.                                  *)
CONSTANT Equals(_, _)

VARIABLES
    wire, pos,    \* the input and the reader's offset in it
    defs,         \* def_ref_: the number of fields of each class
    size,         \* values_ref_.size()
    alive,        \* the containers whose memory is still there
    stack,        \* activation records of the container decoders
    need,         \* what the innermost call is about to do, see below
    ret,          \* value a decode call has just returned (Nothing if none)
    results,      \* values returned to the caller, which keeps them
    repeated,     \* history: a map met a key a second time
    trusted       \* history: results there were when a call first failed, or NoFailure

decVars == <<pos, defs, size, alive, stack, need, ret, results, repeated, trusted>>

(* need = "value"  decode<Object> is called and peeks at the next byte     *)
(*        "elem"   a loop is at its head: it stops or asks for an element  *)
(*        "idle"   no call is active                                       *)
(*        "failed" the caller's decode has returned nullptr, or thrown     *)
(*        "gone"   the process has died, or has read through a pointer to  *)
(*                 nothing and may do anything                             *)
Needs == {"value", "elem", "idle", "failed", "gone"}

\* A value in flight: its shape and the containers it owns.
Val(shape, own) == [shape |-> shape, own |-> own]
Nothing == Val(Shape("nothing", 0, {}), {})

Frame(kind, addr, left) ==
    [kind |-> kind, addr |-> addr, left |-> left, vals |-> <<>>, key |-> Nothing]

Top == stack[1]
Left == Len(wire) - pos
Peeked == wire[pos + 1]

UntilEnd == -1
NoFailure == -1

(* What a frame owns: its elements, and the key that waits for its value.  *)
Owned(f) == {f.addr} \cup f.key.own
                     \cup UNION {f.vals[i].own : i \in 1 .. Len(f.vals)}

\* Slip: what was built so far is leaked.
UnwindLeaking(after) ==
    /\ need' = after
    /\ stack' = <<>>
    /\ ret' = Nothing
    /\ UNCHANGED alive

\* Every activation is left and its locals are destroyed.
Unwind(after) ==
    /\ need' = after
    /\ alive' = alive \ UNION {Owned(stack[i]) : i \in 1 .. Len(stack)}
    /\ stack' = <<>>
    /\ ret' = Nothing

\* Each of them returns nullptr.
Abort == Unwind("failed")

-----------------------------------------------------------------------------
(* The caller *)

\* A call of decode<Object> on the decoder, as long as there is input; the last call
\* may have failed, and the decoder goes on from where it stopped.
Call ==
    /\ need \in {"idle", "failed"} /\ Left > 0
    /\ need' = "value"
    /\ trusted' = IF need = "failed" /\ trusted = NoFailure THEN Len(results) ELSE trusted
    /\ UNCHANGED <<wire, pos, defs, size, alive, stack, ret, results, repeated>>

\* Slip: the caller lets the result go while it uses the decoder.
TakeAndDrop ==
    /\ ret # Nothing /\ stack = <<>>
    /\ results' = Append(results, ret)
    /\ alive' = alive \ ret.own
    /\ ret' = Nothing /\ need' = "idle"
    /\ UNCHANGED <<wire, pos, defs, size, stack, repeated, trusted>>

\* The caller takes the result.
Take ==
    /\ ret # Nothing /\ stack = <<>>
    /\ results' = Append(results, ret)
    /\ ret' = Nothing /\ need' = "idle"
    /\ UNCHANGED <<wire, pos, defs, size, alive, stack, repeated, trusted>>

-----------------------------------------------------------------------------
(* decode<Object>: dispatch on the byte peeked at *)

Asked(op) == need = "value" /\ Left > 0 /\ Peeked.op = op

\* Nothing to peek at, or a byte that starts no value ('Z' is one).
Reject ==
    /\ need = "value"
    /\ Left > 0 => Peeked.op \in {"reserved", "Z"}
    /\ Abort
    /\ UNCHANGED <<wire, pos, defs, size, results, repeated, trusted>>

\* Slip: a scalar is returned and not consumed.
ScalarsUnread ==
    /\ Asked("leaf")
    /\ ret' = Val(Scalar(Peeked.n), {})
    /\ need' = "elem"
    /\ UNCHANGED <<wire, pos, defs, size, alive, stack, results, repeated, trusted>>

\* Slip: one byte too many is consumed.
ScalarsOverrun ==
    /\ Asked("leaf")
    /\ pos' = pos + 2
    /\ ret' = Val(Scalar(Peeked.n), {})
    /\ need' = "elem"
    /\ UNCHANGED <<wire, defs, size, alive, stack, results, repeated, trusted>>

Scalars ==
    /\ Asked("leaf")
    /\ pos' = pos + 1
    /\ ret' = Val(Scalar(Peeked.n), {})
    /\ need' = "elem"
    /\ UNCHANGED <<wire, defs, size, alive, stack, results, repeated, trusted>>

\* Slip: the index is counted from 1.
ReferenceFromOne ==
    /\ Asked("ref")
    /\ pos' = pos + 1
    /\ IF Peeked.n >= 1 /\ Peeked.n <= size
       THEN /\ ret' = Val(Pointer(Peeked.n), {})
            /\ need' = "elem"
            /\ UNCHANGED <<alive, stack>>
       ELSE Abort
    /\ UNCHANGED <<wire, defs, size, results, repeated, trusted>>

\* decode<RefObject>
Reference ==
    /\ Asked("ref")
    /\ pos' = pos + 1
    /\ IF Peeked.n >= 0 /\ Peeked.n < size
       THEN /\ ret' = Val(Pointer(Peeked.n + 1), {})
            /\ need' = "elem"
            /\ UNCHANGED <<alive, stack>>
       ELSE Abort
    /\ UNCHANGED <<wire, defs, size, results, repeated, trusted>>

\* 'C': decode<Definition>, then decode<Object> again for the value.
Definition ==
    /\ Asked("C") /\ Peeked.n >= 0
    /\ pos' = pos + 1
    /\ defs' = Append(defs, Peeked.n)
    /\ UNCHANGED <<wire, size, alive, stack, need, ret, results, repeated, trusted>>

\* reserve() throws at such a number of fields.  If the caller catches what it throws, the
\* calls between are unwound; if not, the process ends.
DefinitionThrows ==
    /\ Asked("C") /\ Peeked.n < 0
    /\ pos' = pos + 1
    /\ \E after \in {"failed", "gone"} : Unwind(after)
    /\ UNCHANGED <<wire, defs, size, results, repeated, trusted>>

\* decode<Definition> returns nullptr, and has entered nothing in def_ref_.
MalformedDefinition ==
    /\ Asked("baddef")
    /\ pos' = pos + 1
    /\ Abort
    /\ UNCHANGED <<wire, defs, size, results, repeated, trusted>>

\* Slip: an instance is not entered in values_ref_.
EnterButInstances(kind, left) ==
    /\ pos' = pos + 1
    /\ size' = IF kind = "inst" THEN size ELSE size + 1
    /\ alive' = alive \cup {size + 1}
    /\ stack' = <<Frame(kind, size + 1, left)>> \o stack
    /\ need' = "elem"
    /\ UNCHANGED <<wire, defs, ret, results, repeated, trusted>>

\* values_ref_.push_back(result.get()), the first thing a container does.
Enter(kind, left) ==
    /\ pos' = pos + 1
    /\ size' = size + 1
    /\ alive' = alive \cup {size + 1}
    /\ stack' = <<Frame(kind, size + 1, left)>> \o stack
    /\ need' = "elem"
    /\ UNCHANGED <<wire, defs, ret, results, repeated, trusted>>

\* It is entered in values_ref_ and given up: its own address dangles.
EnterAndFail ==
    /\ pos' = pos + 1
    /\ size' = size + 1
    /\ Abort
    /\ UNCHANGED <<wire, defs, results, repeated, trusted>>

\* A loop "i < nums" runs no element when nums is negative.
List == Asked("list") /\ Enter("list", IF Peeked.n < 0 THEN 0 ELSE Peeked.n)

VariableList == Asked("varlist") /\ Enter("list", UntilEnd)

MapObject == Asked("map") /\ Enter("map", UntilEnd)

MalformedHeader == Asked("badheader") /\ EnterAndFail

\* decode<ClassInstanceObject>: one element for each field of the definition.
Instance ==
    /\ Asked("inst")
    /\ IF Peeked.n >= 0 /\ Peeked.n < Len(defs)
       THEN Enter("inst", defs[Peeked.n + 1])
       ELSE EnterAndFail

-----------------------------------------------------------------------------
(* Inside a container *)

InLoop == need = "elem" /\ stack # <<>> /\ ret = Nothing

\* The loop asks for one more element; a map at a value asks without looking.
AskElement ==
    /\ InLoop
    /\ \/ Top.left > 0
       \/ Top.key # Nothing
       \/ Top.left = UntilEnd /\ Left > 0 /\ Peeked # End
    /\ need' = "value"
    /\ UNCHANGED <<wire, pos, defs, size, alive, stack, ret, results, repeated, trusted>>

\* Slip: at the end of the input the loop goes round without an element.
NoEndSpins ==
    /\ InLoop
    /\ Top.left = UntilEnd /\ Top.key = Nothing /\ Left = 0
    /\ UNCHANGED <<wire, decVars>>

\* peek() finds no byte at the head of a loop that runs to 'Z'.
NoEnd ==
    /\ InLoop
    /\ Top.left = UntilEnd /\ Top.key = Nothing /\ Left = 0
    /\ Abort
    /\ UNCHANGED <<wire, pos, defs, size, results, repeated, trusted>>

\* emplace finds a key that it takes for the new one.
SameKey(f, k) ==
    \E i \in 1 .. Len(f.vals) : i % 2 = 1 /\ Equals(f.vals[i].shape, k.shape)

\* A RefObject hashes as the object it points to; an instance gets its def_
\* when its last field is read, and its hash() reads through it.
NoDefinition(k) ==
    \E i \in 1 .. Len(stack) :
        stack[i].kind = "inst" /\ k.shape = Pointer(stack[i].addr)

\* The object it points to was destroyed, by an earlier call that failed or by a map
\* that had its key: values_ref_ still has the address.
DeadDestination(k) == k.shape.k = "ref" /\ k.shape.v \notin alive

\* Slip: only a missing definition counts.
UnhashableUndefined(k) == NoDefinition(k)

Unhashable(k) == NoDefinition(k) \/ DeadDestination(k)

WithTop(f) == <<f>> \o Tail(stack)

\* Lists and instances append the element that was just read.
AppendElement ==
    /\ need = "elem" /\ stack # <<>> /\ ret # Nothing /\ Top.kind # "map"
    /\ stack' = WithTop([Top EXCEPT !.vals = Append(@, ret),
                                    !.left = IF @ > 0 THEN @ - 1 ELSE @])
    /\ ret' = Nothing
    /\ UNCHANGED <<wire, pos, defs, size, alive, need, results, repeated, trusted>>

HoldKey ==
    /\ need = "elem" /\ stack # <<>> /\ ret # Nothing /\ Top.kind = "map"
    /\ Top.key = Nothing
    /\ stack' = WithTop([Top EXCEPT !.key = ret])
    /\ ret' = Nothing
    /\ UNCHANGED <<wire, pos, defs, size, alive, need, results, repeated, trusted>>

\* Slip: the map keeps the value's shape but not the value.
EmplaceCopy ==
    /\ need = "elem" /\ stack # <<>> /\ ret # Nothing /\ Top.kind = "map"
    /\ Top.key # Nothing
    /\ stack' = WithTop([Top EXCEPT !.key = Nothing, !.vals = @ \o <<Top.key, ret>>])
    /\ alive' = alive \ ret.own
    /\ repeated' = (repeated \/ SameKey(Top, Top.key))
    /\ ret' = Nothing
    /\ UNCHANGED <<wire, pos, defs, size, need, results, trusted>>

\* field_name_and_value_.emplace(key, value): if an equal key is there, the
\* new key and value are destroyed with the containers they own.
Emplace ==
    /\ need = "elem" /\ stack # <<>> /\ ret # Nothing /\ Top.kind = "map"
    /\ Top.key # Nothing /\ ~Unhashable(Top.key)
    /\ IF SameKey(Top, Top.key)
       THEN /\ repeated' = TRUE
            /\ stack' = WithTop([Top EXCEPT !.key = Nothing])
            /\ alive' = alive \ (Top.key.own \cup ret.own)
       ELSE /\ stack' = WithTop([Top EXCEPT !.key = Nothing,
                                            !.vals = @ \o <<Top.key, ret>>])
            /\ UNCHANGED <<alive, repeated, trusted>>
    /\ ret' = Nothing
    /\ UNCHANGED <<wire, pos, defs, size, need, results, trusted>>

\* emplace(key, value) hashes a key that has no hash: ABSL_ASSERT(def_) fails or a null
\* pointer is followed, or the memory of a destroyed object is read.
HashNothing ==
    /\ need = "elem" /\ stack # <<>> /\ ret # Nothing /\ Top.kind = "map"
    /\ Top.key # Nothing /\ Unhashable(Top.key)
    /\ need' = "gone"
    /\ UNCHANGED <<wire, pos, defs, size, alive, stack, ret, results, repeated, trusted>>

FrameShape(f) ==
    LET shapes == [i \in 1 .. Len(f.vals) |-> f.vals[i].shape]
    IN  IF f.kind = "map"
        THEN Shape("map", 0, {<<shapes[i], shapes[i + 1]>> :
                                 i \in {j \in 1 .. Len(shapes) : j % 2 = 1}})
        ELSE SeqShape(f.kind, 0, shapes)

\* Slip: 'Z' is not skipped.
FinishBeforeEnd ==
    /\ InLoop
    /\ Top.key = Nothing
    /\ Top.left = 0 \/ (Top.left = UntilEnd /\ Left > 0 /\ Peeked = End)
    /\ ret' = Val(FrameShape(Top), Owned(Top))
    /\ stack' = Tail(stack)
    /\ UNCHANGED <<wire, pos, defs, size, alive, need, results, repeated, trusted>>

\* The count is reached, or 'Z' is skipped: setUntypedList and its siblings.
Finish ==
    /\ InLoop
    /\ Top.key = Nothing
    /\ \/ Top.left = 0 /\ pos' = pos
       \/ Top.left = UntilEnd /\ Left > 0 /\ Peeked = End /\ pos' = pos + 1
    /\ ret' = Val(FrameShape(Top), Owned(Top))
    /\ stack' = Tail(stack)
    /\ UNCHANGED <<wire, defs, size, alive, need, results, repeated, trusted>>

DecInit ==
    /\ pos = 0 /\ defs = <<>> /\ size = 0 /\ alive = {}
    /\ stack = <<>> /\ need = "idle" /\ ret = Nothing /\ results = <<>>
    /\ repeated = FALSE /\ trusted = NoFailure

DecNext ==
    \/ Call \/ Take \/ Reject \/ Scalars \/ Reference
    \/ Definition \/ DefinitionThrows \/ MalformedDefinition
    \/ List \/ VariableList \/ MapObject \/ MalformedHeader \/ Instance
    \/ AskElement \/ NoEnd \/ AppendElement \/ HoldKey \/ Emplace \/ Finish
    \/ HashNothing

Decoded == need \in {"idle", "failed"} /\ (need = "idle" => Left = 0)
=============================================================================
