------------------------------ MODULE DateCodec ------------------------------
(***************************************************************************)
(* date_codec.cc: a point in time, written in minutes if it is a whole     *)
(* number of them and in milliseconds otherwise, and read in a unit that   *)
(* need not be the writer's.  DateObject writes and reads milliseconds.    *)
(***************************************************************************)
EXTENDS Integers, Sequences

CONSTANTS
    Minute,     \* milliseconds in a minute, 60000
    HalfInt,    \* 2^31: minutes are written as an int32_t
    Units,      \* the std::chrono types, as milliseconds in their unit
    Dates       \* the points in time to be sent, in milliseconds

ASSUME DateAssumption ==
    /\ Minute \in Nat \ {0} /\ HalfInt \in Nat \ {0}
    /\ 1 \in Units /\ Minute \in Units /\ Units \subseteq Nat \ {0}
    /\ Dates \subseteq Int

VARIABLES
    date,     \* the point in time, in milliseconds
    wire,     \* the code and the number after it; <<>> if nothing was written
    missing,  \* bytes of the date that did not arrive
    phase,    \* "encode", "transit", "decode", "ok" or "nullptr"
    unit,     \* the type the reader asks for
    result    \* its count()

dateVars == <<date, wire, missing, phase, unit, result>>

\* Slip: std::chrono::floor.
CastDown(ms, u) == ms \div u

\* duration_cast: towards zero.
Cast(ms, u) == IF ms >= 0 THEN ms \div u ELSE -((-ms) \div u)

AsInt32(n) == ((n + HalfInt) % (2 * HalfInt)) - HalfInt

Size(code) == IF code = "x4b" THEN 4 ELSE 8

\* A date of a unit is a whole number of it; seconds and milliseconds are
\* looked at for whole minutes, hours and minutes are whole minutes.
DateInit ==
    /\ date \in Dates
    /\ wire = <<>> /\ missing = 0 /\ phase = "encode" /\ unit \in Units /\ result = 0

Encode ==
    /\ phase = "encode" /\ phase' = "transit"
    /\ LET minutes == Cast(date, Minute)
       IN  wire' = IF minutes * Minute = date THEN <<"x4b", AsInt32(minutes)>>
                                              ELSE <<"x4a", date>>
    /\ UNCHANGED <<date, missing, unit, result>>

Deliver ==
    /\ phase = "transit" /\ phase' = "decode"
    /\ missing' \in 0 .. Size(wire[1]) + 1
    /\ UNCHANGED <<date, wire, unit, result>>

\* Slip: minutes read as a uint32_t.
DecodeUnsigned ==
    /\ phase = "decode"
    /\ IF missing > 0
       THEN phase' = "nullptr" /\ UNCHANGED result
       ELSE /\ phase' = "ok"
            /\ result' = Cast(IF wire[1] = "x4b" THEN (wire[2] % (2 * HalfInt)) * Minute
                                                ELSE wire[2], unit)
    /\ UNCHANGED <<date, wire, missing, unit>>

\* readDate
Decode ==
    /\ phase = "decode"
    /\ IF missing > 0
       THEN phase' = "nullptr" /\ UNCHANGED result
       ELSE /\ phase' = "ok"
            /\ result' = Cast(IF wire[1] = "x4b" THEN wire[2] * Minute ELSE wire[2], unit)
    /\ UNCHANGED <<date, wire, missing, unit>>

DateNext == Encode \/ Deliver \/ Decode

DateSpec == DateInit /\ [][DateNext]_dateVars

-----------------------------------------------------------------------------
\* The minutes of a date of whole minutes fit into an int32_t (date_codec.cc:36).
Fits == Cast(date, Minute) * Minute = date => Cast(date, Minute) \in -HalfInt .. HalfInt - 1

\* Whatever unit the reader asks for, it gets the point in time that was
\* written, cut off towards zero to a whole number of its unit, before and
\* after the epoch alike, unless it is of whole minutes beyond an int32_t: those are
\* cut to 32 bits though the other form could hold them.  A date that lost bytes is
\* rejected (date_codec.cc).
RoundTrip ==
    /\ phase = "ok" => missing = 0 /\ (Fits => result = Cast(date, unit))
    /\ phase = "nullptr" => missing > 0

\* What the reader gets is off by less than one of its units, and on the side of
\* the epoch: no unit makes a date later than it was before 1970, earlier than it
\* was after, or moves it across (duration_cast in readDate and encode).
WithinUnit ==
    phase = "ok" /\ Fits =>
        /\ date >= 0 => 0 <= result * unit /\ result * unit <= date /\ date < result * unit + unit
        /\ date <= 0 => result * unit <= 0 /\ date <= result * unit /\ result * unit - unit < date
=============================================================================
