SPECIFICATION Spec
CONSTANTS
    Heaps <- SiblingHeaps
    Equals <- SameShape
INVARIANTS DestinationRegistered
CHECK_DEADLOCK FALSE
