----------------------------- MODULE MCDateCodec -----------------------------
(***************************************************************************)
(* A minute of 6 milliseconds in 3 seconds, an hour of 3 minutes, and      *)
(* minutes from -8 to 7 in an int32_t.                                     *)
(***************************************************************************)
EXTENDS DateCodec

MCUnits == {1, 2, 6, 18}

\* Minutes that an int32_t holds and minutes that it does not.
SomeDates == -60 .. 60
=============================================================================
