SPECIFICATION Spec
CONSTANTS
    browser = browser
    netd = netd
    unknown = unknown
    otherIp = otherIp
    dnsIp = dnsIp
    goodHost = goodHost
    otherHost = otherHost
    file = file
    NoHost = NoHost
    NoList = NoList
    NoConn = NoConn
    UnknownUid = unknown
    ExemptUids = {netd}
    Netd = netd
    MalwareDetection = FALSE
    Files = {}
    Tuples <- TcpTuples
    Domains = {otherHost}
    MalwareLists <- NoVersions
    MalWhitelists = {}
    Blocklists <- BlockAny
    FwWhitelists <- AllowNone
    MaxConns = 2
    LruSize = 1
INVARIANTS
    TypeOK
    FirewallRulesEnforced
CHECK_DEADLOCK FALSE
