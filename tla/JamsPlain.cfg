CONSTANTS
    MAX_SIZE = 3
    push_drop_size = 0
    NULL = NULL
    Elem = {0, 1, 2, 3, 4}
    num_reqs = 4
    Workers = {w1, w2}
    MAX_NUM_REQS = 5
    pop_feasible_jobs = FALSE
    dismiss_point = TRUE
    measure_overheads = TRUE
    FifoDeadlines = FALSE
    AssertReloads = FALSE
    SZ = 3
    NAN = NAN
SPECIFICATION FairSpec
INVARIANTS
    HistogramOfReport
    NoStrandedWorker
    DummyNeverPopped
    PopLogFits
    ReportTruth
    OneOwner
    NoneForgotten
PROPERTIES
    Termination
    FifoQueue
