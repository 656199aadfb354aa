SPECIFICATION FairSpec
CONSTANTS
    Convs = {c1, c2, c3}
    Sched = sched
    None = none
    Shared = {c1, c2, c3}
    Broken = {c1}
    Held = {c2}
    MaxRuns = 2
    SharedCap = 1
    MaxCrashes = 1
    Explicit = FALSE
    Stops = FALSE
    Evicts = FALSE
INVARIANTS
    QueueSound
    AcceptedKept
    DispatchCap
PROPERTIES
    StartsUnlessBlocked
CHECK_DEADLOCK FALSE
