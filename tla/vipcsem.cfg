CONSTANTS
    Procs = {p1, p2, p3}
    Num = 1
    Timed = {TRUE, FALSE}
    MayDie = TRUE
    MaxSets = 2
SPECIFICATION FairSpec
INVARIANT UnitsSound
PROPERTIES SafeGetidInitialised GrabReturns
CHECK_DEADLOCK FALSE
