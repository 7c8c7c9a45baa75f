CONSTANTS
    MAX_SIZE = 4
    push_drop_size = 2
    NULL = NULL
    Elem = {a, b, c}
SPECIFICATION QSpec
INVARIANTS
    RingShape
    PopnLoopAgrees
PROPERTY
    YoungerStay
