CONSTANT MaxFaults = 2
SPECIFICATION FairSpec
CHECK_DEADLOCK FALSE
INVARIANTS ClientReady NoLostWakeup StopPursued
PROPERTIES ShutdownCompletes
