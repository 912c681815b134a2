CONSTANTS
    p1 = p1  s1 = s1  i1 = i1  d1 = d1  d2 = d2
    Trans <- FiveTrans
    Command <- FiveCommands
    Padding = {0, 1}
    NULL = NULL
    ENTRIES_PER_PAGE = 1
    MinimumPages = 1
    MaxSignals = 2
SPECIFICATION FairSpec
INVARIANTS TypeOK MutualExclusion PopFindsTransaction EntriesInPages HeapOrder NothingLost
PROPERTIES WorkerProceeds ImplementsPriorityQueue
