----------------------------- MODULE MCObjectMap -----------------------------
EXTENDS ObjectMap

SomeKeys == {Scalar("Binary", 0), Scalar("Binary", 1), Scalar("Double", NaN)}

SomeValues == {Scalar("String", 1)}

Made(type, name)     == Container(type, name, TRUE)
Decoding(type, name) == Container(type, name, FALSE)

UMap == Made("UntypedMap", "")

SomeHeaps ==
    {<<Made("TypedMap", "t"), Made("TypedMap", "t")>>,
     <<UMap, UMap, Made("UntypedList", "")>>,
     <<UMap, Made("TypedList", "t"), Made("TypedList", "u")>>,
     <<UMap, Made("Class", "d"), Made("TypedList", "")>>,
     <<Decoding("Class", "d"), Decoding("UntypedMap", ""), Made("Class", "d")>>,
     <<Decoding("UntypedMap", ""), Decoding("TypedMap", "t"), Made("TypedMap", "t")>>}

SomeNames == {"t"}

\* After a careless call nothing is promised: what follows it is not explored.
Promised == ~careless
=============================================================================
