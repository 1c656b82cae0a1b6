SPECIFICATION FairSpec
CONSTANTS
    MaxTemp = 1
    Asset = {a1, a2}
    MaxChanges = 1
    MaxResets = 1
    MaxFaults = 1
INVARIANTS
    TypeOK
    Enclosed
    CampaignPursued
PROPERTIES
    ValueCatchesUp
    CampaignEnds
CHECK_DEADLOCK FALSE
