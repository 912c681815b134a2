CONSTANTS
    Level = 4
    Kb = 2
    ArenaBytes = 9
    PageKb = 2
    NULL = NULL
SPECIFICATION Spec
INVARIANTS TypeOK BlocksDisjoint FreeFindsBlock FreeAllTheWay
CHECK_DEADLOCK FALSE
