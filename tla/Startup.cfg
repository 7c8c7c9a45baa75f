CONSTANTS
    w1 = w1
    w2 = w2
    Worker = {w1, w2}
    QN = 3
    QD = 4
    SCALE = 4
    CompTimes = {1, 4, 9}
    MaxPulls <- MCMaxPulls
    NONE = NONE
    Runtimes = {0, 1}
    Periods = {0, 2}
    Utils <- MCUtils
    Percs = {0, 3}
    WcetOpts = {0, 2, 5}
    NAN = NAN
SPECIFICATION StartupSpec
CHECK_DEADLOCK FALSE
INVARIANTS
    MarkersApart
    HeightsInOrder
    EstimateAmongSamples
    ScanHasSettings
