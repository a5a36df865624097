SPECIFICATION FairSpec
CONSTANTS
    MaxInstances = 2
    MaxIntents = 1
    MaxServices = 1
    MaxStarts = 2
    MaxCalls = 2
    Networks = {n1, n2}
    NoNetwork = NoNetwork
    Allow = {}
INVARIANTS
    OneLoop
PROPERTIES
    StopIsObeyed
    KnownVpnIsRespected
CHECK_DEADLOCK FALSE
