SPECIFICATION Spec
CONSTANTS
    Callers = {p1, p2}
    NoTime = NoTime
    MinHistory = 5
    HistoryMax = 6
    MaxTime = 5
    MaxPosition = 3
INVARIANTS TypeOK EtaIsMeanGap
CHECK_DEADLOCK FALSE
