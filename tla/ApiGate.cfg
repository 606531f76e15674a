SPECIFICATION FairSpec
CONSTANTS
    Clients = {alice}
    NoToken = NoToken
    Interval = 1
    Longest = 2
    Window = 1
    FetchTime = 1
    Lifespan = 2
    MaxRotations = 2
    MaxDeploys = 1
    MaxFaults = 1
INVARIANTS CacheLagsBriefly RefusedForAReason
PROPERTIES AcceptedStaysAccepted StaysUpToDate
CHECK_DEADLOCK FALSE
