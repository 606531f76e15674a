SPECIFICATION FairSpec
CONSTANTS
    Consumers = {c1, c2}
    Count = 3
    MaxLosses = 1
    MaxCrashes = 1
INVARIANTS TypeOK NothingIsLost SentIsAccepted RepeatsAreBounded
PROPERTIES OvertakingIsBounded StoredIsPrinted
CHECK_DEADLOCK FALSE
