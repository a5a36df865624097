SPECIFICATION Spec
CONSTANTS
    ClientData = 1
    ServerData = 1
    SegMax = 2
    RcvBuf = 2
    WinUnit = 1
    ISS = 7
    SeqMod = 8
    MaxProbes = 1
    Allow <- AllowClose
INVARIANTS
    WriteSetMatchesWork
    SelectedSocketsAreOpen
    ClosedCallbackOnce
    ClientKnowsClosed
PROPERTIES
    ClosedIsFinal
CHECK_DEADLOCK FALSE
