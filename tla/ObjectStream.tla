---------------------------- MODULE ObjectStream ----------------------------
(***************************************************************************)
(* A Decoder on an input nobody vouches for: any sequence of tokens, which *)
(* may stop anywhere.  The input is chosen as the decoder comes to need    *)
(* it; Ends fixes that there is no more.                                   *)
(***************************************************************************)
EXTENDS ObjectDecoder

CONSTANTS Tokens,      \* the tokens an input is made of
          MaxWire      \* bound: length of an input

\* A token has whatever number its bytes spell.
ASSUME ConstantsAssumption == (\A t \in Tokens : t.n \in Int) /\ MaxWire \in Nat

VARIABLE closed        \* the input is known to end where it ends now

vars == <<wire, closed, decVars>>

Init == wire = <<>> /\ closed = FALSE /\ DecInit

AtFrontier == Left = 0 /\ ~closed /\ need # "gone"

Grows ==
    /\ AtFrontier /\ Len(wire) < MaxWire
    /\ \E t \in Tokens : wire' = Append(wire, t)
    /\ UNCHANGED <<closed, decVars>>

Ends == AtFrontier /\ closed' = TRUE /\ UNCHANGED <<wire, decVars>>

Step == ~AtFrontier /\ DecNext /\ UNCHANGED closed

Next == Grows \/ Ends \/ Step

Spec == Init /\ [][Next]_vars /\ WF_vars(Step) /\ WF_vars(Ends)

-----------------------------------------------------------------------------
\* The values there are: the caller's, the one a call has just returned, and the
\* elements and keys that the decoders hold.
Held ==
    {results[i] : i \in 1 .. Len(results)} \cup {ret}
        \cup UNION {{f.vals[i] : i \in 1 .. Len(f.vals)} \cup {f.key} :
                        f \in {stack[j] : j \in 1 .. Len(stack)}}

\* The caller's values from before a call first failed; all of them if none has.
Trusted == {results[i] : i \in 1 .. IF trusted = NoFailure THEN Len(results) ELSE trusted}

\* pos, the counters and the control state stay in range; the reader never
\* passes the end of its input.
TypeOK ==
    /\ pos \in 0 .. Len(wire)
    /\ size \in 0 .. Len(wire) /\ alive \subseteq 1 .. size
    /\ need \in Needs
    /\ \A i \in 1 .. Len(stack) : stack[i].left >= UntilEnd
    /\ need = "failed" => stack = <<>> /\ ret = Nothing

\* "decode's objects need to have a lifetime longer than value_ref_"
\* (codec.hpp): as long as no call has failed and no map has met a key
\* twice, every pointer in values_ref_ is to an object that still exists.
ValuesRefAlive ==
    need \notin {"failed", "gone"} /\ trusted = NoFailure /\ ~repeated => alive = 1 .. size

\* On such an input no value the caller has been given, or is about to be,
\* contains a reference to an object that was destroyed; and a decoder that is
\* used again after a failed call destroys nothing that the results from
\* before it refer to.
PointersAlive ==
    ~repeated =>
        \A v \in IF trusted = NoFailure THEN Held ELSE Trusted : v.shape.refs \subseteq alive

\* While a map is being filled, the destination of each of its keys that is a reference
\* is alive, after failures and repeated keys too: when the hash table grows, it hashes
\* its keys again, through their pointers.
KeysAlive ==
    \A i \in 1 .. Len(stack) : \A j \in 1 .. Len(stack[i].vals) :
        stack[i].kind = "map" /\ j % 2 = 1 => ~DeadDestination(stack[i].vals[j])

\* The results returned so far own, each container once, what was made for
\* them: nothing is lost between values_ref_ and the values, and a call that
\* failed leaves nothing behind but the earlier results.
Ownership ==
    /\ \A i, j \in 1 .. Len(results) :
           i # j => results[i].own \cap results[j].own = {}
    /\ need \in {"idle", "failed"} =>
           alive = UNION {results[i].own : i \in 1 .. Len(results)}

\* Every call, on any input and after any earlier failure, returns or brings the
\* process down.
Terminates == []<>(need \in {"idle", "failed", "gone"})
=============================================================================
