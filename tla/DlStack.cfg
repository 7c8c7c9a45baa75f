CONSTANTS
    Worker = {w1, w2}
    MaxReads = 1
    NONE = NONE
    TORN = TORN
    File = {prog, other}
    prog = prog
    other = other
SPECIFICATION StackSpec
INVARIANTS
    PopsReadOwn
    
    NothingLeftBehind
PROPERTIES
    DeltaSettled
    NoMixedTextAfterBarrier
    
