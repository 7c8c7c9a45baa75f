CONSTANTS
    MAX_SIZE = 3
    push_drop_size = 3
    NULL = NULL
    Elem = {0, 1, 2, 3}
    num_reqs = 3
    Workers = {w1, w2}
    MAX_NUM_REQS = 4
    pop_feasible_jobs = TRUE
    dismiss_point = FALSE
    measure_overheads = FALSE
    FifoDeadlines = FALSE
    AssertReloads = FALSE
    SZ = 3
    NAN = NAN
SPECIFICATION Spec
PROPERTY
    LeftJobsStay
