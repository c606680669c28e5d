SPECIFICATION Spec
CONSTANTS
    Types = {}
    Defs = {}
    Objs = {o1, o2}
    None = None
    Half = 2
    ShortLimit = 0
    Again = {o1}
    MaxEntries = 2
    MaxWire = 4
INVARIANTS ReferencesResolve
CHECK_DEADLOCK FALSE
