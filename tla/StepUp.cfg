SPECIFICATION FairPageSpec
CONSTANTS
    Users = {carol}
    Emails = {claimed}
    TokenEmail = claimed
    claimed = claimed
    ClaimEmail <- Claims
    Codes = {c1, c2}
    Requests = {t1, t2}
    None = None
    NoEmail = NoEmail
    MaxAttempts = 1
    MaxStarts = 2
    MaxFaults = 2
INVARIANTS OneWindowPerCode WrongTriesAreBounded NoStaleToken
           GateOpensAfterCode
PROPERTIES ReplayIsServed ClaimIsKept VerifiedUserIsEnrolled
CHECK_DEADLOCK FALSE
