CONSTANTS
    MaxSignals = 2
    MaxFaults = 2
SPECIFICATION FairSpec
CHECK_DEADLOCK FALSE
INVARIANTS StoppedBeforeJoin
PROPERTIES GracefulStop JoinReturns
