------------------------------ MODULE MCBuffer ------------------------------
EXTENDS Buffer

\* byte_order.h knows 1, 2, 4 and 8.  Here 3 is the largest, so that it can lie
\* beside another one, and an integer of two bytes can be read as a part of it.
SomeWidths == 1 .. 3

SomeOffsets == 0 .. MaxLength + 1 \cup {Wrap - 1}
=============================================================================
