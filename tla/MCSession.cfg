SPECIFICATION Spec
CONSTANTS
    Clients = {c1, c2}
    Tasks = {t1, t2}
    Sched = sched
    None = none
    MaxMsgs = 2
    MaxAsks = 2
    MaxIter = 2
    MaxDenials = 1
    MaxCondense = 1
    Scheduler = TRUE
    Others = FALSE
    StopHook = TRUE
    Confirm = TRUE
    Watchdog = TRUE
    Closes = TRUE
SYMMETRY Symmetry
INVARIANTS
    SingleRun
    ClosedHasNoRun
    FinishedAnswersNewest
    NoStrandedIdle
    NoUnaskedRun
CHECK_DEADLOCK FALSE
