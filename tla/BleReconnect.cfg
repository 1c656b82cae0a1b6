CONSTANTS
    InitialSleep = 4
    Multiplier = 2
    MaxBackOff = 300
    MaxRetryTime = 86400
    MaxRetries = 10000
    LinkTimes = {1, 300, 86400}
    ReplyTimes = {25}
    MaxCalls = 2
    MaxLosses = 2
SPECIFICATION FairSpec
CHECK_DEADLOCK FALSE
INVARIANTS DelayInRange
PROPERTIES StaysRegistered GivenUp
