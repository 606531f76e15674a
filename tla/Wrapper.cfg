SPECIFICATION FairSpec
CONSTANTS
    Browsers = {b1}
    Requests = {r1, r2}
    Background = background
    NoToken = NoToken
    Lifespan = 1
    MaxSkew = 1
    Drifts <- DriftsOfOne
    MaxTime = 3
    MaxRotations = 1
    MaxFaults = 1
INVARIANT TypeOK
PROPERTIES RotationHeals ExpiredTokenFades CacheCatchesUp
CHECK_DEADLOCK FALSE
