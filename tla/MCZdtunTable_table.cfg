SPECIFICATION Spec
CONSTANTS
    stun = stun
    peer = peer
    dns = dns
    web = web
    p1 = p1
    None = None
    Udp = {stun, peer, dns}
    Tcp = {web}
    Dns = {dns}
    Proxied = {web}
    ClientPort <- ThreeHosts
    LocalPorts = {1, 2, 3}
    MaxSockets = 2
    AfterPurge = 1
    Bnd = 2
    Password = TRUE
    Data = 1
    Allow = {"blocked", "udp_error"}
INVARIANTS
    TypeOK
    SocketsCounted
    MappingIsInUse
    CallbacksBalance
    OnlyDataForwarded
CHECK_DEADLOCK FALSE
