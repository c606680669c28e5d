CONSTANTS
    Keys <- SomeKeys
    Values <- SomeValues
    Heaps <- SomeHeaps
    Names <- SomeNames
    MaxElements = 3
SPECIFICATION Spec
INVARIANTS HashCurrent FoundBySame EqualIsSame
CONSTRAINT Promised
\* When the containers are full, or after a fault, nothing happens any more.
CHECK_DEADLOCK FALSE
