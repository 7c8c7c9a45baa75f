CONSTANTS
    MAX_SIZE = 3
    push_drop_size = 3
    NULL = NULL
    Elem = {0, 1, 2}
    num_reqs = 2
    Workers = {w1, w2}
    MAX_NUM_REQS = 3
    pop_feasible_jobs = FALSE
    dismiss_point = FALSE
    measure_overheads = FALSE
    FifoDeadlines = FALSE
    AssertReloads = FALSE
    SZ = 3
    NAN = NAN
SPECIFICATION Spec
INVARIANT
    DismissedMeansUnfinished
