\* Two byte values, up to four bytes: every way to cut them into integers.
CONSTANTS
    Half = 1
    Widths <- SomeWidths
    Wrap = 32
    MaxLength = 4
    Offsets <- SomeOffsets
SPECIFICATION Spec
INVARIANTS InBounds ReadBack
\* After an exception or an abort nothing happens any more.
CHECK_DEADLOCK FALSE
