CONSTANTS
    Key <- NineKeys
    MAX_HASH_NODE = 5
    MAX_HASH_DEP = 8
    NULL = NULL
SPECIFICATION Spec
INVARIANTS TypeOK FindsExactly TreesConsistent EraseFreesAll
CHECK_DEADLOCK FALSE
