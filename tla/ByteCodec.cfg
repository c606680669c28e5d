SPECIFICATION Spec
CONSTANTS
    CHUNK_SIZE = 4
    Short = 2
    Mid = 4
    MaxSize = 9
INVARIANTS RoundTrip Beginning
CHECK_DEADLOCK FALSE
