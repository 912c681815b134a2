CONSTANTS
    p1 = p1  i1 = i1  d1 = d1
    Trans <- ThreeTrans
    Command <- ThreeCommands
    Padding = {0, 1}
    NULL = NULL
    ENTRIES_PER_PAGE = 1
    MinimumPages = 1
    MaxSignals = 0
SPECIFICATION OrderSpec
PROPERTIES ServedInOrder
