SPECIFICATION FairSpec
CONSTANTS
    Size = 2
    CleanAbove = 1
    MaxConns = 1
    MaxBytes = 0
    Verdicts <- TwoVerdicts
    QueueCap = 1
    MaxWakes = 1
    DumpMayFail = TRUE
    StopBy = {"handler", "service"}
PROPERTIES
    CaptureStopsIfSignalled
CHECK_DEADLOCK FALSE
