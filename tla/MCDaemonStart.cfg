SPECIFICATION StartSpec
CONSTANTS
    Callers = {p1, p2, p3}
    Nobody = Nobody
    Linux = TRUE
    SlowStarts = FALSE
    MaxDeaths = 2
    MaxStops = 2
INVARIANTS
    OneDaemon
    OnlyLeftBehind
CHECK_DEADLOCK FALSE
