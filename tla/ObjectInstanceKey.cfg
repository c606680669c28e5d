SPECIFICATION Spec
CONSTANTS
    Heaps <- InstanceKeyHeaps
    Equals <- SameShape
INVARIANTS DefinitionKnown
CHECK_DEADLOCK FALSE
