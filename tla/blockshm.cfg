CONSTANTS
    Procs = {p1, p2, p3}
    Locks = {l1}
    Timed = {TRUE, FALSE}
    MayDie = TRUE
    MaxReads = 2
    Users = {u1, u2}
    Contents <- ThreeBlocks
    Cap = 5
    MaxSegs = 2
    Used <- JustA
    Extra <- JustC
SPECIFICATION MCSpec
SYMMETRY Symmetry
INVARIANTS LockSound Sem1Bounded BlocksSound
PROPERTIES ImplementsGate BlocksStay
CHECK_DEADLOCK FALSE
