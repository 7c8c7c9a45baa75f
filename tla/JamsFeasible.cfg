CONSTANTS
    MAX_SIZE = 3
    push_drop_size = 1
    NULL = NULL
    Elem = {0, 1, 2, 3}
    num_reqs = 3
    Workers = {w1, w2}
    MAX_NUM_REQS = 4
    pop_feasible_jobs = TRUE
    dismiss_point = TRUE
    measure_overheads = FALSE
    FifoDeadlines = TRUE
    AssertReloads = TRUE
    SZ = 3
    NAN = NAN
SPECIFICATION FairSpec
INVARIANTS
    IInv
PROPERTIES
    ScanPurgesLate
    Termination
