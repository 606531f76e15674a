SPECIFICATION Spec
CONSTANTS
    Sessions = {s1}
    Requests = {r1, r2}
    Worker = worker
    NoSession = NoSession
    Capacities = {1}
    DefaultCapacity = 1
    HistoryMax = 1
    MaxScan = 2
    Releases = {1}
    MaxList = 2
    MaxFaults = 0
    HashesExpire = FALSE
INVARIANT
    SlotHolderHasHash
