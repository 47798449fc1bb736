CONSTANTS
    Workers = {w1, w2}
    Defsize = 1
    Maxsize = 2
    Sizes <- UnitSizes
    MayTimeout = TRUE
    Monitor = Monitor
    Nobody = Nobody
SPECIFICATION FairSpec
PROPERTY CallsEnd
CHECK_DEADLOCK FALSE
