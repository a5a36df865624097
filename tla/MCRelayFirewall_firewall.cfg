SPECIFICATION Spec
CONSTANTS
    browser = browser
    netd = netd
    unknown = unknown
    otherIp = otherIp
    dnsIp = dnsIp
    goodHost = goodHost
    otherHost = otherHost
    file = file
    NoHost = NoHost
    NoList = NoList
    NoConn = NoConn
    UnknownUid = unknown
    ExemptUids = {netd}
    Netd = netd
    MalwareDetection = TRUE
    Files = {file}
    Tuples <- QuicTuple
    Domains = {otherHost}
    MalwareLists <- TwoVersions
    MalWhitelists <- TrustApp
    Blocklists = {}
    FwWhitelists = {}
    MaxConns = 1
    LruSize = 1
INVARIANTS
    RequestedListIsComing
    TrustedAppIsClean
CHECK_DEADLOCK FALSE
