CONSTANTS
    k1 = k1  k2 = k2  a = a  b = b  empty = empty
    Key <- TwoKeys
    Value <- TightValues
    Size <- EmptySizes
    Garbage = Garbage
    GarbageLen = {2}
    PAGE_SIZE = 8
    ArenaPages = 1
    UINT16 = 64
    MaxPages = 2
    FGDB_FRAGMENTATION_FACTOR = 4
    None = None  Down = Down  Unknown = Unknown
    MaxOps = 2
    MaxDumped = 1
SPECIFICATION FairSpec
PROPERTIES OperationsFinish HandlerMovesOn SpinEnds
CHECK_DEADLOCK FALSE
