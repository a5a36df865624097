SPECIFICATION FairSpec
CONSTANTS
    ClientData = 1
    ServerData = 3
    SegMax = 2
    RcvBuf = 2
    WinUnit = 1
    ISS = 7
    SeqMod = 8
    MaxProbes = 1
    Allow <- AllowLive
PROPERTIES
    QueueDrains
    ServerDataArrives
    SynIsAnswered
CHECK_DEADLOCK FALSE
