CONSTANTS
    Key <- NineKeys
    MAX_HASH_NODE = 5
    MAX_HASH_DEP = 8
    NULL = NULL
SPECIFICATION Spec
INVARIANTS DeletionKeepsOthers
CHECK_DEADLOCK FALSE
