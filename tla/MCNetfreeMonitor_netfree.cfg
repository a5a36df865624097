SPECIFICATION FairSpec
CONSTANTS
    None = None
    Networks = {wifi}
    Wifi = {wifi}
    Cellular = {}
    MaxInstances = 2
    MaxCallbacks = 1
    MaxEvents = 1
    MaxIntents = 1
    MaxCrashes = 1
INVARIANTS
    ArmedWhileActive
PROPERTIES
    OpenIsRepaired
    LostNetworkIsForgotten
CHECK_DEADLOCK FALSE
