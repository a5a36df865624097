SPECIFICATION Spec
CONSTANTS
    ClientData = 2
    ServerData = 3
    SegMax = 2
    RcvBuf = 2
    WinUnit = 1
    ISS = 7
    SeqMod = 8
    MaxProbes = 1
    Allow <- AllowStreams
INVARIANTS
    TypeOK
    UpstreamIsPrefix
    AckedIsWritten
    DownstreamIsPrefix
    WindowRespected
    FinIsServerEof
CHECK_DEADLOCK FALSE
