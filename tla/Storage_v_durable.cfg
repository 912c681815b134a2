CONSTANTS
    k1 = k1  k2 = k2  a = a  b = b  empty = empty
    Key <- TwoKeys
    Value <- Values
    Size <- Sizes
    Garbage = Garbage
    GarbageLen = {0, 2}
    PAGE_SIZE = 9
    ArenaPages = 2
    UINT16 = 64
    MaxPages = 2
    FGDB_FRAGMENTATION_FACTOR = 4
    None = None  Down = Down  Unknown = Unknown
    MaxOps = 3
    MaxDumped = 2
SPECIFICATION Spec
SYMMETRY KeySymmetry
INVARIANTS DurableShutdown
CHECK_DEADLOCK FALSE
