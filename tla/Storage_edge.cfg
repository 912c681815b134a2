CONSTANTS
    k1 = k1  k2 = k2  a = a  b = b  empty = empty
    Key <- TwoKeys
    Value <- Values
    Size <- TightSizes
    Garbage = Garbage
    GarbageLen = {9}
    PAGE_SIZE = 8
    ArenaPages = 1
    UINT16 = 10
    MaxPages = 2
    FGDB_FRAGMENTATION_FACTOR = 1
    None = None  Down = Down  Unknown = Unknown
    MaxOps = 4
    MaxDumped = 0
SPECIFICATION Spec
SYMMETRY KeySymmetry
VIEW Engine
INVARIANTS IndexConsistent EvictionFindsPage
CHECK_DEADLOCK FALSE
