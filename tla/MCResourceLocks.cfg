SPECIFICATION FairSpec
CONSTANTS
    Calls = {1, 2, 3}
    Keys = {1, 2}
    Locks = {l1, l2}
    None = none
    BatchOf <- MCBatchOf
    MaxWorkers = 2
INVARIANTS
    ExclusiveUse
    TableSound
PROPERTIES
    CallEnds
CHECK_DEADLOCK FALSE
