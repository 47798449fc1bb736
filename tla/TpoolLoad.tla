----------------------------- MODULE TpoolLoad -----------------------------
(***************************************************************************)
(* The load control of the thread pool: what the monitor does when its     *)
(* wait for a command times out (Tpool_loadcal and the timer's part of     *)
(* Tpool_monitor, fram/module/threadpool/src/Tpoolcore.c).                 *)
(*                                                                         *)
(* The workers are the two counters here, and the number of those that are *)
(* in a task.  They take and end tasks between any two steps of the        *)
(* monitor, which reads the counters without a lock; the counters are      *)
(* changed without a test, and a worker that takes or ends a task while a  *)
(* shrink cancels it leaves them apart (TpoolWorkers says how).            *)
(***************************************************************************)
EXTENDS Integers

CONSTANTS Minsize, Maxsize, Defsize,   \* pool->attr
          Hload, Lload,                \* pool->attr, in percent
          Commands,                    \* the sizes that Tpool_sizectl asks for
          SilverBound,                 \* where the count of readings stops
          DriftBound                   \* bound: how far the counters are apart

ASSUME LoadAssumption ==
    /\ Minsize \in Nat \ {0} /\ Maxsize \in Nat \ {0} /\ Defsize \in Nat \ {0}
    /\ Hload \in 1..100 /\ Lload \in 1..100
    /\ Commands \subseteq Int
    /\ SilverBound \in Nat /\ SilverBound > 5 /\ DriftBound \in Nat

VARIABLES
    cursize,      \* pool->cursize
    available,    \* pool->available
    busy,         \* the workers in a task, among the cursize (not in the code)
    rate,         \* pool->rate
    loadsilver,   \* pool->loadsilver
    loadctl,      \* loadctl of Tpool_monitor
    mpc,          \* the monitor: "wait", "control", or "crashed"
    commanded,    \* whether a size was ever asked for (not in the code)
    failed,       \* whether workers failed to start when the pool was last to
                  \* grow (not in the code)
    drifted       \* whether a cancelled worker took or ended a task meanwhile
                  \* (not in the code)

vars == <<cursize, available, busy, rate, loadsilver, loadctl, mpc, commanded, failed, drifted>>
history == <<commanded, failed, drifted>>
size == <<cursize, available, failed, drifted>>

-----------------------------------------------------------------------------
Init ==
    /\ cursize = Defsize /\ available = Defsize /\ busy = 0
    /\ rate = 0 /\ loadsilver = 0 /\ loadctl = 0
    /\ mpc = "wait"
    /\ commanded = FALSE /\ failed = FALSE /\ drifted = FALSE

\* Workers that are free take tasks, and end them: the counter follows.
TakeTask ==
    /\ busy < cursize
    /\ busy' = busy + 1
    /\ available' = available - 1
    /\ UNCHANGED <<cursize, rate, loadsilver, loadctl, mpc, history>>

EndTask ==
    /\ busy > 0
    /\ busy' = busy - 1
    /\ available' = available + 1
    /\ UNCHANGED <<cursize, rate, loadsilver, loadctl, mpc, history>>

\* A reading of the load in percent; the division is towards zero.
Reading ==
    IF available <= cursize THEN ((cursize - available) * 100) \div cursize
    ELSE 0 - (((available - cursize) * 100) \div cursize)

\* Mutant of Counted: high readings are not added up.
CountedOnce(r) ==
    IF r >= Hload THEN 1
    ELSE IF r <= Lload THEN IF loadsilver > -5 THEN loadsilver - 1 ELSE -6
    ELSE loadsilver

\* The count is kept within its bound: any count beyond five means the same.
Bounded(n) == IF n \in (0 - SilverBound)..SilverBound THEN n ELSE loadsilver

\* A reading between the two thresholds leaves the count alone.
Counted(r) ==
    IF r >= Hload THEN IF loadsilver <= 0 THEN 1 ELSE Bounded(loadsilver + 1)
    ELSE IF r <= Lload THEN IF loadsilver >= 0 THEN -1 ELSE Bounded(loadsilver - 1)
    ELSE loadsilver

\* How much to grow or to shrink after more than five readings of one kind.
Change(silver) ==
    IF silver > 5 THEN cursize \div 5
    ELSE IF silver < -5 THEN 0 - (cursize \div 5)
    ELSE 0

\* Tpool_loadcal.  At the maximum nothing is counted.
Loadcal ==
    /\ mpc = "wait"
    /\ cursize # 0
    /\ rate' = Reading
    /\ \/ /\ cursize = Maxsize
          /\ loadctl' = 0 /\ UNCHANGED loadsilver
       \/ /\ cursize # Maxsize
          /\ loadsilver' = Counted(Reading)
          /\ loadctl' = Change(Counted(Reading))
    /\ mpc' = "control"
    /\ UNCHANGED <<size, busy, commanded>>

\* The division by cursize.
LoadcalCrashes ==
    /\ mpc = "wait"
    /\ cursize = 0
    /\ mpc' = "crashed"
    /\ UNCHANGED <<size, busy, rate, loadsilver, loadctl, commanded>>

\* Mutant of Grow: one worker too many.
GrowOneMore(n) ==
    /\ n > 0 /\ cursize + n <= Maxsize + 1
    /\ cursize' = cursize + n /\ available' = available + n
    /\ UNCHANGED <<busy, failed, drifted>>

\* _Tpool_sizectl, on the counters, for a change that is not 0.  It grows up to
\* the maximum, unless workers fail to start, ...
Grow(n) ==
    /\ n > 0 /\ cursize + n <= Maxsize
    /\ \E k \in 0..n : /\ cursize' = cursize + k /\ available' = available + k
                       /\ failed' = (k < n)
    /\ UNCHANGED <<busy, drifted>>

\* ... and shrinks by those of the available workers that take no task before
\* the scan comes to them.  Of the k workers cancelled, b are in a task when they
\* are taken off the counters; d is what the tasks taken and ended by workers that
\* were being cancelled leave in the counter of those available.
Shrink(n) ==
    /\ n < 0 /\ available + n >= 0
    /\ \E k \in 0..(0 - n), b \in 0..busy, d \in (0 - DriftBound)..DriftBound :
          /\ k - b \in 0..(cursize - busy) /\ d \in (0 - k)..k
          /\ cursize' = cursize - k /\ busy' = busy - b
          /\ available' = available - (k - b) + d
          /\ available' + busy' - cursize' \in (0 - DriftBound)..DriftBound
          /\ drifted' = (drifted \/ b # 0 \/ d # 0)
    /\ UNCHANGED failed

Refused(n) == n = 0 \/ cursize + n > Maxsize \/ available + n < 0

Sizectl(n) ==
    \/ Grow(n) \/ Shrink(n)
    \/ Refused(n) /\ UNCHANGED <<size, busy>>

\* Mutant of Clipped: the minimum is forgotten.
ClippedAbove ==
    IF loadctl > 0 /\ cursize + loadctl > Maxsize THEN Maxsize - cursize
    ELSE loadctl

\* The change is cut to the maximum or the minimum.
Clipped ==
    IF loadctl > 0 /\ cursize + loadctl > Maxsize THEN Maxsize - cursize
    ELSE IF loadctl < 0 /\ cursize + loadctl < Minsize THEN Minsize - cursize
    ELSE loadctl

\* Mutant of Control: the count is not restarted.
ControlKeepsCount ==
    /\ mpc = "control"
    /\ \/ loadctl # 0 /\ Sizectl(Clipped)
       \/ loadctl = 0 /\ UNCHANGED <<size, busy>>
    /\ mpc' = "wait"
    /\ UNCHANGED <<rate, loadsilver, loadctl, commanded>>

Control ==
    /\ mpc = "control"
    /\ \/ loadctl # 0 /\ Sizectl(Clipped) /\ loadsilver' = 0
       \/ loadctl = 0 /\ UNCHANGED <<size, busy, loadsilver>>
    /\ mpc' = "wait"
    /\ UNCHANGED <<rate, loadctl, commanded>>

\* A command comes before the timer.
Command(n) ==
    /\ mpc = "wait"
    /\ Sizectl(n)
    /\ commanded' = TRUE
    /\ UNCHANGED <<rate, loadsilver, loadctl, mpc>>

SomeCommand == \E n \in Commands : Command(n)

Next ==
    \/ TakeTask \/ EndTask
    \/ Loadcal \/ LoadcalCrashes \/ Control
    \/ SomeCommand

Spec == Init /\ [][Next]_vars

-----------------------------------------------------------------------------
TypeOK ==
    /\ cursize \in Nat /\ available \in Int /\ busy \in 0..cursize
    /\ rate \in Int
    /\ loadsilver \in (0 - SilverBound)..SilverBound
    /\ loadctl \in Int
    /\ mpc \in {"wait", "control", "crashed"}
    /\ commanded \in BOOLEAN /\ failed \in BOOLEAN /\ drifted \in BOOLEAN

\* The two counters say how many workers are free, and the reading is a part of all,
\* until a cancelled worker takes or ends a task while it is being cancelled.
CountersMeet == ~drifted => available = cursize - busy /\ rate \in 0..100

\* The load control keeps the pool within its limits, whatever tasks come and
\* go between its reading and its change, when it began within them and as long
\* as no command shrinks it.
WithinLimits == ~commanded => cursize \in Minsize..Maxsize

\* "Tpool Load is too high" and "Tpool Load is too low" are logged of a pool whose
\* last reading was, as long as no command has changed its size.
MessagesTrue ==
    mpc = "control" /\ ~commanded =>
        /\ loadctl > 0 => rate >= Hload
        /\ loadctl < 0 => rate <= Lload

\* A pool of fewer than five workers, as the default one of four, is left as it is by
\* the load control, however busy: what was shrunk so far does not grow again.
SmallPoolLeft == mpc = "control" /\ cursize < 5 => loadctl = 0

\* When the commands cease, which put the timer off each time, a pool of five or
\* more whose workers are all counted as busy gets a free worker, when no task ends
\* because it grows, unless the new workers fail to start or it is as large as it may
\* be.
BusyPoolRelieved ==
    <>[][~SomeCommand]_vars =>
        (cursize >= 5 /\ available <= 0 ~> available > 0 \/ failed \/ cursize >= Maxsize)

\* Whatever the commands and the load control ask for between them, the pool does
\* not outgrow its maximum.
MaximumKept == cursize <= Maxsize

\* The load control keeps the pool within its limits and changes it only as its
\* readings say, until a command interferes; the maximum holds even then, and a pool
\* below five is left alone.
LoadSound ==
    TypeOK /\ CountersMeet /\ WithinLimits /\ MessagesTrue /\ SmallPoolLeft /\ MaximumKept

=============================================================================
