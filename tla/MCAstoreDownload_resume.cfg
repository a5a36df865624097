SPECIFICATION FairSpec
CONSTANTS
    NoFile = NoFile
    base = base
    config = config
    d1 = d1
    Versions = 3
    Size <- Sizes
    Parts <- Contents
    MaxSize = 3
    MaxRetries = 3
    Downloads = {d1}
    BufferSize = 2
    Faults = {"installer"}
INVARIANTS
    InstalledIsWhole
    TempIsPrefix
PROPERTIES
    DownloadIsReported
