SPECIFICATION FairSpec
CONSTANTS
    Field = {0, 1}
    Switch = {0, 1}
    Raw = {}
    Held = {0}
    MaxWrites = 2
    MaxReads = 2
    MaxChanges = 0
    MaxFaults = 0
PROPERTIES OthersKept
CHECK_DEADLOCK FALSE
