SPECIFICATION Spec
CONSTANTS
    browser = browser
    netd = netd
    unknown = unknown
    otherIp = otherIp
    dnsIp = dnsIp
    goodHost = goodHost
    otherHost = otherHost
    file = file
    NoHost = NoHost
    NoList = NoList
    NoConn = NoConn
    UnknownUid = unknown
    ExemptUids = {netd}
    Netd = netd
    MalwareDetection = TRUE
    Files = {file}
    Tuples <- TcpTuples
    Domains = {goodHost, otherHost}
    MalwareLists <- OneVersion
    MalWhitelists <- TrustApp
    Blocklists <- BlockHost
    FwWhitelists <- AllowNone
    MaxConns = 1
    LruSize = 1
PROPERTIES
    TrustUnblocks
CHECK_DEADLOCK FALSE
