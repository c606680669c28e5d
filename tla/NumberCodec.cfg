SPECIFICATION Spec
CONSTANTS
    Numbers <- SomeNumbers
    Casts <- SomeCasts
INVARIANTS RoundTrip Shortest
CHECK_DEADLOCK FALSE
