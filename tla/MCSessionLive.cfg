SPECIFICATION FairSpec
CONSTANTS
    Clients = {c1, c2}
    Tasks = {t1, t2}
    Sched = sched
    None = none
    MaxMsgs = 1
    MaxAsks = 2
    MaxIter = 1
    MaxDenials = 2
    MaxCondense = 1
    Scheduler = TRUE
    Others = TRUE
    StopHook = FALSE
    Confirm = FALSE
    Watchdog = FALSE
    Closes = FALSE
PROPERTIES
    RequestServed
    IntentServed
CHECK_DEADLOCK FALSE
