SPECIFICATION Spec
CONSTANTS
    MaxLog = 5
    MaxCalls = 2
    MaxCrashes = 2
    MaxFaults = 1
INVARIANTS
    SavedWhenQuiet
    ResultsFollowActions
    AnsweredDuringCall
    RunOnce
PROPERTIES
    HeadMovesForward
VIEW View
CHECK_DEADLOCK FALSE
