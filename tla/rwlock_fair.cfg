CONSTANTS
    Procs = {p1, p2, p3}
    Locks = {l1, l2}
    Timed = {FALSE}
    MayDie = FALSE
    MaxReads = 1
SPECIFICATION FairSpec
INVARIANT IdleLockWritable
PROPERTY EachServed
