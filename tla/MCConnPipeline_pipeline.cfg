SPECIFICATION Spec
CONSTANTS
    Size = 2
    CleanAbove = 1
    MaxConns = 3
    MaxBytes = 1
    Verdicts <- OnlyBad
    QueueCap = 1
    MaxWakes = 0
    DumpMayFail = FALSE
    StopBy = {"handler"}
INVARIANTS
    PositionsMatchIds
    PendingIsListed
    ClosedIsFreed
    EndIsShown
    NothingIsLost
    CountersMatchRing
PROPERTIES
    RegisterIsLog
CHECK_DEADLOCK FALSE
