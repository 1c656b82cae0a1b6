SPECIFICATION FairSpec
CONSTANTS
    r1 = r1
    r2 = r2
    Row = {r1, r2}
    NameOf <- OneName
    KindOf <- LightAndSensor
    Default <- OneOn
    Recovered = {r1}
    Client = {c1, c2}
    Put = {"off", "measured"}
    Payload = {"01"}
    Capacity = 1
    MaxRequests = 2
    MaxWrites = 2
    MaxFaults = 1
INVARIANTS
    TypeOK
    AnswerComes
    Agreement
PROPERTIES
    HandlersReturn
    StartEnds
CHECK_DEADLOCK FALSE
