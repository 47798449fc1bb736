CONSTANTS
    Workers = {w1, w2, w3, w4}
    Defsize = 2
    Maxsize = 3
    Sizes <- SmallSizes
    MayTimeout = FALSE
    Monitor = Monitor
    Nobody = Nobody
SPECIFICATION Spec
SYMMETRY Symmetry
INVARIANT WorkersSound
PROPERTY ShrinkSparesTasks
CHECK_DEADLOCK FALSE
