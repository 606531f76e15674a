SPECIFICATION Spec
CONSTANTS
    Sessions = {s1, s2}
    Requests = {r1, r2}
    Worker = worker
    NoSession = NoSession
    Capacities = {1, 2}
    DefaultCapacity = 1
    HistoryMax = 1
    MaxScan = 1
    Releases = {1}
    MaxList = 2
    MaxFaults = 1
    HashesExpire = TRUE
SYMMETRY Symmetry
INVARIANTS
    TypeOK
    ActiveHashHoldsSlot
    QueuedHashIsListed
PROPERTIES
    NeverGrowsPastLimit
    PlaceNeverWorsens
    ImplementsRoom
