SPECIFICATION FairSpec
CONSTANTS
    t1 = t1
    p1 = p1
    t2 = t2
    Thread = {t1, t2}
    Pt = {p1}
    PtOf <- OnePt
    Pt0 = p1
    Device = {d1, d2}
    MaxDevices = 1
    MinDevices = 0
    MaxQueue = 2
    MaxFaults = 1
INVARIANTS
    TypeOK
    AnswersFindDevices
    ShutDownDrained
PROPERTIES
    Drains
    ShutdownEnds
CHECK_DEADLOCK FALSE
