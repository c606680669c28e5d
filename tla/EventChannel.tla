---------------------------- MODULE EventChannel ----------------------------
(***************************************************************************)
(* What an Encoder and a Decoder joined by a buffer promise together: the  *)
(* caller on one side hands over logical events (a container of a type, an *)
(* instance of a class, a reference to an object met earlier), and the     *)
(* caller on the other side obtains the same events in the same order.     *)
(* Nothing of the wire format or of the reference tables is visible here.  *)
(***************************************************************************)
EXTENDS Integers, Sequences

CONSTANT Events          \* the logical events

VARIABLES sent,          \* events handed to the encoder
          rcvd           \* events obtained from the decoder

vars == <<sent, rcvd>>

Init == sent = <<>> /\ rcvd = <<>>

Send(e) == sent' = Append(sent, e) /\ UNCHANGED rcvd

Receive ==
    /\ Len(rcvd) < Len(sent)
    /\ rcvd' = Append(rcvd, sent[Len(rcvd) + 1])
    /\ UNCHANGED sent

Next == Receive \/ \E e \in Events : Send(e)

Spec == Init /\ [][Next]_vars

\* A decode call does not block: what is in the buffer is decoded in the end.
FairSpec == Spec /\ WF_vars(Receive)
=============================================================================
