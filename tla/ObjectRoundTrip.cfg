SPECIFICATION Spec
CONSTANTS
    Heaps <- SomeHeaps
    Equals <- SameShape
INVARIANTS RoundTrip SameNumbering NeverFails DestinationRegistered
PROPERTY Terminates
CHECK_DEADLOCK FALSE
