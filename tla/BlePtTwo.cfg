CONSTANTS
    d1 = d1
    d2 = d2
    Devices <- TwoDevices
    Resolvable = {}
    LinksKept = FALSE
    CreateMayFail = TRUE
    ExpireRetries = 1
    MaxRetries = 1
    MaxCalls = 1
    MaxAge = 0
    MaxIdle = 1
    MaxFaults = 2
SPECIFICATION Spec
SYMMETRY DeviceSymmetry
CHECK_DEADLOCK FALSE
PROPERTIES Drains
