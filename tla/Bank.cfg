SPECIFICATION FairSpec
CONSTANTS
    Accounts = {A, B}
    Seeded = {A}
    Opening = 20
    MaxMoney = 40
    Requests = {r1, r2, r3}
    Amounts = {0, 5, 20}
    Conns = 2
    Nobody = Nobody
    MaxFaults = 1
    A = A
    B = B
INVARIANTS TypeOK BooksAgree AnswersAreTrue NobodyWaitsForAWaiter
PROPERTIES ActsAtOnce EveryRequestIsAnswered
CHECK_DEADLOCK FALSE
