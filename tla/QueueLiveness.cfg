SPECIFICATION FairSpec
CONSTANTS
    Sessions = {s1, s2}
    Requests = {r1}
    Worker = worker
    NoSession = NoSession
    Capacities = {1, 2}
    DefaultCapacity = 1
    HistoryMax = 1
    MaxScan = 1
    Releases = {1}
    MaxList = 3
    MaxFaults = 1
    HashesExpire = FALSE
PROPERTIES
    FreeSlotIsFilled
    GhostIsReaped
