SPECIFICATION FairSpec
CONSTANTS
    Threads = {t1, t2, t3}
    None = none
    MaxDepth = 2
INVARIANTS
    CountMatches
PROPERTIES
    ServedInOrder
    WaitEnds
CHECK_DEADLOCK FALSE
