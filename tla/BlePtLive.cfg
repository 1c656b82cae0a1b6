CONSTANTS
    d1 = d1
    d2 = d2
    Devices <- OneDevice
    Resolvable <- OneDevice
    LinksKept = FALSE
    CreateMayFail = FALSE
    ExpireRetries = 1
    MaxRetries = 1
    MaxCalls = 1
    MaxAge = 0
    MaxIdle = 1
    MaxFaults = 2
SPECIFICATION FairSpec
CHECK_DEADLOCK FALSE
PROPERTIES ShutdownEnds RegisteredPolled
