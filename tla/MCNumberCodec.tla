---------------------------- MODULE MCNumberCodec ----------------------------
EXTENDS NumberCodec

\* Both sides of every limit of a form, of a byte and of the type.
Limits == {0, 8, 16, 48, 64, 128, 256, 2048, 32768, 65536, 262144, 8388608,
           16777216, 1073741824}

Near == {m + d : m \in Limits \cup {-l : l \in Limits}, d \in -2 .. 2}

Extremes == UNION {{2147483647 - d, d - 2147483647 - 1} : d \in 0 .. 7}

Narrow == Near \cup Extremes \cup (-300 .. 300)

Longs == {LongOf(h, l) : h \in {0, -1, 1, -2, 2147483647, -2147483647 - 1},
                         l \in {0, -1, 1, 5, 2147483647, -2147483647 - 1}}

SomeDoubles ==
    {DoubleOf(n) : n \in Near \cup (-300 .. 300)} \cup
    {Value("fraction", 0, n) : n \in {-1, 0, 1, 5}} \cup
    {Value("thousandths", 0, n) : n \in {-1, 1, 1234567}} \cup
    {Value("minus zero", 0, 0), Value("beyond", 0, 0), Value("beyond", 0, 1)}

SomeNumbers ==
    {IntOf(n) : n \in Narrow} \cup {Widen(n) : n \in Narrow} \cup Longs \cup SomeDoubles \cup
    {UInt32(n) : n \in {0, 1, 262144, 2147483647, -1, -2147483647 - 1}} \cup
    {Bool(0), Bool(1), NullOb}

\* On the usual processors the smallest int32_t; on others anything.
SomeCasts == {-2147483647 - 1, 0, 1}
=============================================================================
