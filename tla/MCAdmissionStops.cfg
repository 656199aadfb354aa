SPECIFICATION Spec
CONSTANTS
    Convs = {c1, c2}
    Sched = sched
    None = none
    Shared = {}
    Broken = {}
    Held = {c1, c2}
    MaxRuns = 1
    SharedCap = 0
    MaxCrashes = 0
    Explicit = TRUE
    Stops = TRUE
    Evicts = TRUE
SYMMETRY Symmetry
VIEW View
INVARIANTS
    SubmissionOrder
    RunsAreLoaded
CHECK_DEADLOCK FALSE
