SPECIFICATION Spec
CONSTANTS
    Users = {alice}
    Emails = {claimed, typed}
    TokenEmail = claimed
    ClaimEmail <- Claims
    Codes = {c1, c2}
    Requests = {r1, r2}
    None = None
    NoEmail = NoEmail
    MaxAttempts = 1
    MaxStarts = 2
    MaxFaults = 0
    claimed = claimed
PROPERTY PicksUpStartEmail
CHECK_DEADLOCK FALSE
