SPECIFICATION FairSpec
CONSTANTS
    Replicas = {r1, r2}
    Seeds = 1
    MaxId = 4
    MaxWrites = 4
    MaxFaults = 2
INVARIANTS CollisionsAreBounded
PROPERTIES ReusedIdWasBrought AnswersConverge
CHECK_DEADLOCK FALSE
