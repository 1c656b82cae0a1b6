SPECIFICATION FairSpec
CONSTANTS
    Field = {0, 1}
    Switch = {0, 1, 2}
    Raw = {6}
    Held = {0, 5}
    MaxWrites = 2
    MaxReads = 2
    MaxChanges = 1
    MaxFaults = 2
INVARIANTS TypeOK
PROPERTIES OnlyItsField Settles
CHECK_DEADLOCK FALSE
