SPECIFICATION FairSpec
CONSTANTS
    Types = {t1, t2}
    Defs = {d1, d2}
    Objs = {o1, o2}
    None = None
    Half = 2
    ShortLimit = 0
    Again = {}
    MaxEntries = 2
    MaxWire = 4
INVARIANTS TypeOK SameEvents TablesAgree TablesInv
PROPERTY ImplementsChannel
CHECK_DEADLOCK FALSE
