CONSTANTS
    USEC_PER_SEC = 3
    NSEC_PER_USEC = 3
    CompTimes = {0, 1, 2}
    dismiss_point_us = 2
    UINT_RANGE = 64
    MaxTick = 2
    MaxWall = 18
SPECIFICATION ConsumeSpec
CHECK_DEADLOCK FALSE
INVARIANTS
    ToleranceSuffices
    DismissedIsLate
    FinishedHasRun
    ReportedToTheMicrosecond
