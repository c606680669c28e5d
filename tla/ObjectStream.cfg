SPECIFICATION Spec
CONSTANTS
    Tokens <- MCTokens
    Equals <- SameShape
    MaxWire = 5
INVARIANTS TypeOK ValuesRefAlive PointersAlive KeysAlive Ownership
PROPERTY Terminates
CHECK_DEADLOCK FALSE
