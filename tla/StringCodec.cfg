SPECIFICATION Spec
CONSTANTS
    STRING_CHUNK_SIZE = 2
    ShortMax = 0
    MidMax = 1
    Cases <- SomeCases
    MaxWire = 7
INVARIANTS RoundTrip
PROPERTIES Shrinks Terminates
CHECK_DEADLOCK FALSE
