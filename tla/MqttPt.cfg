SPECIFICATION FairSpec
CONSTANTS
    Device = {d1}
    Request = {r1}
    MaxSignals = 2
    MaxAsked = 2
    MaxFaults = 2
INVARIANTS
    TypeOK
    ThreadJoined
    PublishedAgrees
PROPERTIES
    ShutdownEnds
    RequestsAnswered
CHECK_DEADLOCK FALSE
