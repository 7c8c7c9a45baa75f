CONSTANTS
    Worker = {w1, w2}
    Q = 3
    P = 6
    Offset = 3
    Suspended = 2
    MaxLatency = 1
    MaxTime = 16
    Digits = {20}
    NONE = NONE
SPECIFICATION SyncSpec
CHECK_DEADLOCK FALSE
INVARIANTS
    SyncInv
    OffsetWithinLatency
