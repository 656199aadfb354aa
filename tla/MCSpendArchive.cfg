SPECIFICATION Spec
CONSTANTS
    c1 = c1
    c2 = c2
    Convs = {c1, c2}
    None = none
    Worker <- MCWorker
    MaxSpend <- MCMaxSpend
    MaxFaults = 2
    MaxCrashes = 2
    MaxPurges = 1
INVARIANTS
    CountExact
    DeletionTraced
PROPERTIES
    LoweredOnlyIfErased
CHECK_DEADLOCK FALSE
