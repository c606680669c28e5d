SPECIFICATION DateSpec
CONSTANTS
    Minute = 6
    HalfInt = 8
    Units <- MCUnits
    Dates <- SomeDates
INVARIANTS RoundTrip WithinUnit
CHECK_DEADLOCK FALSE
