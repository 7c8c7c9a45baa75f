CONSTANTS
    USEC_PER_SEC = 2
    NSEC_PER_USEC = 2
    FRAC = 2
    NAN = NAN
    Probs = {"FIXED", "UNIF", "EXPON", "NORM", "GAMMA", "ARITH_SEQ", "GEO_SEQ", "SFILE"}
    Values <- MCValues
    Steps <- MCSteps
    Traces <- MCTraces
    Draws <- MCDraws
    MaxJobs = 3
    MaxRetries = 3
SPECIFICATION FairRelease
CHECK_DEADLOCK FALSE
INVARIANTS
    ReleaseTypeOK
    DriftIsBounded
    BoundedRetries
PROPERTY
    EveryJobReleased
