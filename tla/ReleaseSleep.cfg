CONSTANTS
    USEC_PER_SEC = 2
    NSEC_PER_USEC = 2
    FRAC = 2
    NAN = NAN
    Probs = {"FIXED", "UNIF", "EXPON", "NORM", "ARITH_SEQ", "GEO_SEQ", "SFILE"}
    Values = {0, 2, 6, 10}
    Steps = {0, 1, 2}
    Traces = {}
    Draws = {0, 4, 12}
    MaxJobs = 3
    MaxRetries = 3
SPECIFICATION ReleaseSpec
CHECK_DEADLOCK FALSE
INVARIANT
    SleepNeverFails
