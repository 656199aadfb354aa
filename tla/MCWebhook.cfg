SPECIFICATION FairSpec
CONSTANTS
    MaxEvents = 6
    Size <- MCSize
    Timer = timer
    Closer = closer
    None = none
    EventBufferSize = 2
    MaxBatchBytes = 6
    MaxQueueSize = 3
    MaxQueueBytes = 10
    NumRetries = 1
    MaxFails = 4
INVARIANTS
    NothingLost
    GapsExplained
PROPERTIES
    AttendedUnlessFailed
    Delivered
CHECK_DEADLOCK FALSE
