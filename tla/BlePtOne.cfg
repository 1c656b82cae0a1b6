CONSTANTS
    d1 = d1
    d2 = d2
    Devices <- OneDevice
    Resolvable <- OneDevice
    LinksKept = TRUE
    CreateMayFail = TRUE
    ExpireRetries = 2
    MaxRetries = 2
    MaxCalls = 1
    MaxAge = 2
    MaxIdle = 2
    MaxFaults = 2
SPECIFICATION Spec
CHECK_DEADLOCK FALSE
INVARIANTS TypeOK TimerOwned NotForgotten FlagFollowsEdge
