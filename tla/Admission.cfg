CONSTANTS
    Q = 3
    P = 6
    UN = 3
    UD = 4
    CompTimes = {0, 1, 2, 3, 4, 5, 6, 7, 8}
    Wcets = {0, 5, 8}
    MaxSlack = 18
SPECIFICATION AdmissionSpec
CHECK_DEADLOCK FALSE
INVARIANTS
    AdmissionInv
    BudgetIsDelivered
    PercentileInTime
    LaterIsMore
