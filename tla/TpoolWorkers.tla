---------------------------- MODULE TpoolWorkers ----------------------------
(***************************************************************************)
(* The workers of the thread pool and the monitor that creates and cancels *)
(* them: fram/module/threadpool/src/Tpoolcore.c over workerlist.c.         *)
(*                                                                         *)
(* A worker's status is written under its mutex by the worker when it      *)
(* registers and ends, under its rwlock when it takes and ends a task, and *)
(* by the monitor.  The monitor's sections under the mutex end in a        *)
(* condition wait, so each of them is one step and the mutex is not a      *)
(* variable; neither is the queue, from which a worker gets a task at any  *)
(* time after the pool was ready.                                          *)
(***************************************************************************)
EXTENDS Integers, Sequences, FiniteSets, SequencesExt

CONSTANTS Workers,      \* worker threads that can ever be created (a bound)
          Defsize,      \* pool->attr.defsize
          Maxsize,      \* pool->attr.maxsize
          Sizes,        \* arguments of _Tpool_sizectl
          MayTimeout,   \* whether the monitor's waits for a worker time out
          Monitor, Nobody

ASSUME TpoolAssumption ==
    /\ Monitor \notin Workers /\ Nobody \notin Workers \cup {Monitor}
    /\ Defsize \in Nat \ {0} /\ Maxsize \in Nat
    /\ Sizes \subseteq Int
    /\ MayTimeout \in BOOLEAN

VARIABLES
    pstatus,     \* pool->status
    cursize,     \* pool->cursize
    available,   \* pool->available
    prw,         \* who has pool->rwlock for writing, or Nobody
    list,        \* pool->workerlist behind the monitor's own node
    status,      \* worker->status
    wrw,         \* who has worker->rwlock for writing, or Nobody
    freed,       \* the worker structures that were freed
    cancelled,   \* the workers that pthread_cancel was called for
    pc,          \* what each worker does next
    mpc,         \* what the monitor does next
    job,         \* what it does it for: "init", "expand", "shrink", "destroy"
    left,        \* workers it has still to create or to cancel
    cur,         \* the worker it is about, or its place in the list
    crossed      \* whether a worker ever took a task while the monitor was at
                 \* work (not in the code)

workerVars == <<status, wrw, freed, cancelled, pc, crossed>>
monitorVars == <<mpc, job, left, cur>>
poolVars == <<pstatus, cursize, available, prw, list>>
vars == <<workerVars, monitorVars, poolVars>>

-----------------------------------------------------------------------------
Statuses == {"none", "INIT", "READY", "BUSY", "ERROR", "DEAD", "BEFREE"}

WorkerPC == {"none", "lookup", "register", "wait", "t_pool", "t_own", "task", "f_pool",
             "f_own", "clean", "dead", "gone", "wild"}

MonitorPC == {"spawn", "insert", "await", "count", "idle", "scan", "c_own", "c_pool",
              "c_error", "c_cancel", "c_wait", "c_next", "d_status", "d_list", "exit", "failed"}

Goto(w, s) == pc' = [pc EXCEPT ![w] = s]
MGoto(s) == mpc' = s

Listed == Range(list)

Init ==
    /\ pstatus = "init" /\ cursize = 0 /\ available = 0
    /\ prw = Nobody
    /\ list = <<>>
    /\ status = [w \in Workers |-> "none"]
    /\ wrw = [w \in Workers |-> Nobody]
    /\ freed = {} /\ cancelled = {} /\ crossed = FALSE
    /\ pc = [w \in Workers |-> "none"]
    /\ mpc = "spawn" /\ job = "init" /\ left = Defsize
    /\ cur = Nobody

-----------------------------------------------------------------------------
\* Tpool_task: the new thread looks itself up in the list.  It may run before
\* the monitor has put it there; then it ends, through Tpool_threadclean.
Lookup(w) ==
    /\ pc[w] = "lookup"
    /\ prw = Nobody
    /\ Goto(w, IF w \in Listed THEN "register" ELSE "clean")
    /\ UNCHANGED <<status, wrw, freed, cancelled, crossed, monitorVars, poolVars>>

\* A thread that goes on with its structure when it is freed: anything can
\* happen to it, and it keeps the locks it has.
Wild(w) ==
    /\ w \in freed
    /\ pc[w] \in {"register", "t_own", "f_own", "dead"}
    /\ Goto(w, "wild")
    /\ UNCHANGED <<status, wrw, freed, cancelled, crossed, monitorVars, poolVars>>

Register(w) ==
    /\ pc[w] = "register"
    /\ w \notin freed
    /\ status' = [status EXCEPT ![w] = "READY"]
    /\ Goto(w, "wait")
    /\ UNCHANGED <<wrw, freed, cancelled, crossed, monitorVars, poolVars>>

\* Tpool_popevt returns a task.
GetEvent(w) ==
    /\ pc[w] = "wait"
    /\ pstatus # "init" /\ mpc \notin {"exit", "failed"}
    /\ Goto(w, "t_pool")
    /\ crossed' = (crossed \/ mpc # "idle")
    /\ UNCHANGED <<status, wrw, freed, cancelled, monitorVars, poolVars>>

\* pool->rwlock first, then the worker's own.
TakePool(w) ==
    /\ pc[w] \in {"t_pool", "f_pool"}
    /\ prw = Nobody
    /\ prw' = w
    /\ Goto(w, IF pc[w] = "t_pool" THEN "t_own" ELSE "f_own")
    /\ UNCHANGED <<status, wrw, freed, cancelled, crossed, monitorVars, pstatus, cursize, available, list>>

\* Mutant of Busy: pool->rwlock is not released.
BusyKeepsPool(w) ==
    /\ pc[w] = "t_own"
    /\ w \notin freed
    /\ wrw[w] = Nobody
    /\ status' = [status EXCEPT ![w] = "BUSY"]
    /\ available' = available - 1
    /\ Goto(w, "task")
    /\ UNCHANGED <<wrw, freed, cancelled, crossed, monitorVars, pstatus, cursize, prw, list>>

Busy(w) ==
    /\ pc[w] = "t_own"
    /\ w \notin freed
    /\ wrw[w] = Nobody
    /\ status' = [status EXCEPT ![w] = "BUSY"]
    /\ available' = available - 1
    /\ prw' = Nobody
    /\ Goto(w, "task")
    /\ UNCHANGED <<wrw, freed, cancelled, crossed, monitorVars, pstatus, cursize, list>>

\* The task's function returns.
Finish(w) ==
    /\ pc[w] = "task"
    /\ Goto(w, "f_pool")
    /\ UNCHANGED <<status, wrw, freed, cancelled, crossed, monitorVars, poolVars>>

Ready(w) ==
    /\ pc[w] = "f_own"
    /\ w \notin freed
    /\ wrw[w] = Nobody
    /\ status' = [status EXCEPT ![w] = "READY"]
    /\ available' = available + 1
    /\ prw' = Nobody
    /\ Goto(w, "wait")
    /\ UNCHANGED <<wrw, freed, cancelled, crossed, monitorVars, pstatus, cursize, list>>

\* pthread_cancel takes effect while the worker waits for a task, while it logs
\* that it has one, or in a task that has a cancellation point.
ActOnCancel(w) ==
    /\ w \in cancelled
    /\ pc[w] \in {"wait", "t_pool", "task"}
    /\ Goto(w, "clean")
    /\ UNCHANGED <<status, wrw, freed, cancelled, crossed, monitorVars, poolVars>>

\* Tpool_threadclean: the thread looks itself up; one that is not in the list
\* leaves its status as it is.
Clean(w) ==
    /\ pc[w] = "clean"
    /\ prw = Nobody
    /\ Goto(w, IF w \in Listed THEN "dead" ELSE "gone")
    /\ UNCHANGED <<status, wrw, freed, cancelled, crossed, monitorVars, poolVars>>

Dead(w) ==
    /\ pc[w] = "dead"
    /\ w \notin freed
    /\ status' = [status EXCEPT ![w] = "DEAD"]
    /\ Goto(w, "gone")
    /\ UNCHANGED <<wrw, freed, cancelled, crossed, monitorVars, poolVars>>

-----------------------------------------------------------------------------
\* The monitor is done with a call.  A failure to create the first workers
\* makes the pool unavailable, and the monitor ends.
Return(ok) ==
    /\ IF job = "init"
       THEN MGoto(IF ok THEN "idle" ELSE "failed")
            /\ pstatus' = IF ok THEN "ready" ELSE "unavailable"
       ELSE MGoto("idle") /\ UNCHANGED pstatus
    /\ left' = 0 /\ cur' = Nobody
    /\ UNCHANGED job

\* Tpool_createworker: the thread runs from here on ...
Spawn(w) ==
    /\ mpc = "spawn"
    /\ pc[w] = "none"
    /\ status' = [status EXCEPT ![w] = "INIT"]
    /\ Goto(w, "lookup")
    /\ MGoto("insert") /\ cur' = w
    /\ UNCHANGED <<wrw, freed, cancelled, crossed, job, left, poolVars>>

\* ... pthread_create fails ...
SpawnFails ==
    /\ mpc = "spawn"
    /\ Return(FALSE)
    /\ UNCHANGED <<workerVars, cursize, available, prw, list>>

\* ... and only now is it put into the list.
Insert ==
    /\ mpc = "insert"
    /\ prw = Nobody
    /\ list' = Append(list, cur)
    /\ MGoto("await")
    /\ UNCHANGED <<workerVars, job, left, cur, pstatus, cursize, available, prw>>

\* The wait for the worker to register, and its end; by the time the monitor
\* has the mutex again a worker that was ready can be busy.
Await ==
    /\ mpc = "await"
    /\ status[cur] # "INIT"
    /\ \/ status[cur] = "READY" /\ MGoto("count") /\ UNCHANGED <<status, job, left, cur, pstatus>>
       \/ status[cur] # "READY" /\ status' = [status EXCEPT ![cur] = "ERROR"] /\ Return(FALSE)
    /\ UNCHANGED <<wrw, freed, cancelled, crossed, pc, cursize, available, prw, list>>

AwaitTimeout ==
    /\ MayTimeout
    /\ mpc = "await"
    /\ status' = [status EXCEPT ![cur] = "ERROR"]
    /\ Return(FALSE)
    /\ UNCHANGED <<wrw, freed, cancelled, crossed, pc, cursize, available, prw, list>>

Count ==
    /\ mpc = "count"
    /\ prw = Nobody
    /\ cursize' = cursize + 1
    /\ available' = available + 1
    /\ \/ left > 1 /\ left' = left - 1 /\ MGoto("spawn") /\ UNCHANGED <<job, cur, pstatus>>
       \/ left = 1 /\ Return(TRUE)
    /\ UNCHANGED <<workerVars, prw, list>>

-----------------------------------------------------------------------------
\* The place of w in the list, the first worker there, and the one behind w,
\* or Nobody.
PlaceOf(w) == CHOOSE j \in 1..Len(list) : list[j] = w

FirstOf == IF list = <<>> THEN Nobody ELSE Head(list)

NextOf(w) == IF PlaceOf(w) = Len(list) THEN Nobody ELSE list[PlaceOf(w) + 1]

\* The monitor is given something to do, perhaps between the moment a worker gets
\* a task and the moment it says so.
MStart ==
    /\ mpc = "idle"
    /\ crossed' = (crossed \/ \E w \in Workers : pc[w] \in {"t_pool", "t_own"})
    /\ UNCHANGED <<status, wrw, freed, cancelled, pc>>

\* Mutants of Sizectl: no look at the maximum, and a count that stays negative.
SizectlUnlimited(size) ==
    /\ MStart
    /\ \/ /\ size > 0
          /\ MGoto("spawn") /\ job' = "expand" /\ left' = size
          /\ UNCHANGED cur
       \/ /\ size < 0 /\ available >= 0 - size
          /\ MGoto("scan") /\ job' = "shrink" /\ left' = 0 - size
          /\ cur' = FirstOf
    /\ UNCHANGED poolVars

SizectlSigned(size) ==
    /\ MStart
    /\ \/ /\ size > 0 /\ cursize + size <= Maxsize
          /\ MGoto("spawn") /\ job' = "expand" /\ left' = size
          /\ UNCHANGED cur
       \/ /\ size < 0 /\ available >= 0 - size
          /\ MGoto("scan") /\ job' = "shrink" /\ left' = size
          /\ cur' = FirstOf
    /\ UNCHANGED poolVars

\* _Tpool_sizectl, for a command or from the timer.  It counts on cursize and
\* available.  A size it cannot give, or 0, changes nothing.
Sizectl(size) ==
    /\ MStart
    /\ \/ /\ size > 0 /\ cursize + size <= Maxsize
          /\ MGoto("spawn") /\ job' = "expand" /\ left' = size
          /\ UNCHANGED cur
       \/ /\ size < 0 /\ available >= 0 - size
          /\ MGoto("scan") /\ job' = "shrink" /\ left' = 0 - size
          /\ cur' = FirstOf
    /\ UNCHANGED poolVars

\* Mutant of Scan: the first workers are chosen, whatever they do.
ScanAny ==
    /\ mpc = "scan"
    /\ cur # Nobody
    /\ wrw[cur] = Nobody
    /\ status' = [status EXCEPT ![cur] = "BEFREE"]
    /\ MGoto("c_own")
    /\ UNCHANGED <<wrw, freed, cancelled, crossed, pc, job, left, cur, poolVars>>

\* The scan of the shrink: a worker that is ready is chosen, under its rwlock,
\* which is then released; the others are passed.
Scan ==
    /\ mpc = "scan"
    /\ cur # Nobody
    /\ wrw[cur] = Nobody
    /\ \/ /\ status[cur] = "READY"
          /\ status' = [status EXCEPT ![cur] = "BEFREE"]
          /\ MGoto("c_own") /\ UNCHANGED cur
       \/ /\ status[cur] # "READY"
          /\ cur' = NextOf(cur) /\ UNCHANGED <<status, mpc>>
    /\ UNCHANGED <<wrw, freed, cancelled, crossed, pc, job, left, poolVars>>

ScanEnds ==
    /\ mpc = "scan"
    /\ cur = Nobody
    /\ Return(TRUE)
    /\ UNCHANGED <<workerVars, cursize, available, prw, list>>

\* Tpool_cancelworker: the worker's rwlock first, then the pool's.
CancelTakeOwn ==
    /\ mpc = "c_own"
    /\ wrw[cur] = Nobody
    /\ wrw' = [wrw EXCEPT ![cur] = Monitor]
    /\ MGoto("c_pool")
    /\ UNCHANGED <<status, freed, cancelled, crossed, pc, job, left, cur, poolVars>>

\* Mutant of CancelCount: a worker chosen by the shrink is not counted as free.
CancelCountReady ==
    /\ mpc = "c_pool"
    /\ prw = Nobody
    /\ \/ /\ status[cur] = "DEAD"
          /\ wrw' = [wrw EXCEPT ![cur] = Nobody]
          /\ MGoto("c_next") /\ UNCHANGED <<cursize, available>>
       \/ /\ status[cur] # "DEAD"
          /\ cursize' = cursize - 1
          /\ available' = IF status[cur] = "READY" THEN available - 1 ELSE available
          /\ MGoto("c_error") /\ UNCHANGED wrw
    /\ UNCHANGED <<status, freed, cancelled, crossed, pc, job, left, cur, pstatus, prw, list>>

CancelCount ==
    /\ mpc = "c_pool"
    /\ prw = Nobody
    /\ \/ /\ status[cur] = "DEAD"
          /\ wrw' = [wrw EXCEPT ![cur] = Nobody]
          /\ MGoto("c_next") /\ UNCHANGED <<cursize, available>>
       \/ /\ status[cur] # "DEAD"
          /\ cursize' = cursize - 1
          /\ available' = IF status[cur] \in {"READY", "BEFREE"} THEN available - 1 ELSE available
          /\ MGoto("c_error") /\ UNCHANGED wrw
    /\ UNCHANGED <<status, freed, cancelled, crossed, pc, job, left, cur, pstatus, prw, list>>

CancelError ==
    /\ mpc = "c_error"
    /\ status' = [status EXCEPT ![cur] = "ERROR"]
    /\ wrw' = [wrw EXCEPT ![cur] = Nobody]
    /\ MGoto("c_cancel")
    /\ UNCHANGED <<freed, cancelled, crossed, pc, job, left, cur, poolVars>>

CancelThread ==
    /\ mpc = "c_cancel"
    /\ cancelled' = cancelled \cup {cur}
    /\ MGoto("c_wait")
    /\ UNCHANGED <<status, wrw, freed, crossed, pc, job, left, cur, poolVars>>

\* Mutant of CancelWait: the cancelled thread is not waited for.
CancelWaitNot ==
    /\ mpc = "c_wait"
    /\ MGoto("c_next")
    /\ UNCHANGED <<workerVars, job, left, cur, poolVars>>

\* The wait for the worker to end, which a timeout ends too; the callers do not
\* look at which it was.
CancelWait ==
    /\ mpc = "c_wait"
    /\ status[cur] = "DEAD" \/ MayTimeout
    /\ MGoto("c_next")
    /\ UNCHANGED <<workerVars, job, left, cur, poolVars>>

\* The shrink takes the worker out of the list and frees it.
ShrinkNext ==
    /\ mpc = "c_next" /\ job = "shrink"
    /\ prw = Nobody
    /\ list' = RemoveAt(list, PlaceOf(cur))
    /\ freed' = freed \cup {cur}
    /\ \/ left > 1 /\ left' = left - 1 /\ cur' = NextOf(cur) /\ MGoto("scan") /\ UNCHANGED <<job, pstatus>>
       \/ left = 1 /\ Return(TRUE)
    /\ UNCHANGED <<status, wrw, cancelled, crossed, pc, cursize, available, prw>>

-----------------------------------------------------------------------------
\* _Tpool_destroy.
Destroy ==
    /\ MStart
    /\ MGoto("d_status") /\ job' = "destroy"
    /\ UNCHANGED <<left, cur, poolVars>>

DestroyStatus ==
    /\ mpc = "d_status"
    /\ prw = Nobody
    /\ pstatus' = "unavailable"
    /\ cur' = FirstOf
    /\ MGoto(IF FirstOf = Nobody THEN "d_list" ELSE "c_own")
    /\ UNCHANGED <<workerVars, job, left, cursize, available, prw, list>>

DestroyNext ==
    /\ mpc = "c_next" /\ job = "destroy"
    /\ cur' = NextOf(cur)
    /\ MGoto(IF NextOf(cur) = Nobody THEN "d_list" ELSE "c_own")
    /\ UNCHANGED <<workerVars, job, left, poolVars>>

\* All structures are freed; then Tpool_clrevt, and the monitor ends.
\* workerlist keeps its value.
DestroyList ==
    /\ mpc = "d_list"
    /\ prw = Nobody
    /\ freed' = freed \cup Listed
    /\ MGoto("exit")
    /\ UNCHANGED <<status, wrw, cancelled, crossed, pc, job, left, cur, poolVars>>

\* Tpool_create, told that the first workers could not be created, frees the
\* list; those of them that were created go on waiting.
CreateFails ==
    /\ mpc = "failed"
    /\ list # <<>>
    /\ freed' = freed \cup Listed
    /\ list' = <<>>
    /\ UNCHANGED <<status, wrw, cancelled, crossed, pc, monitorVars, pstatus, cursize, available, prw>>

-----------------------------------------------------------------------------
WorkerStep(w) ==
    \/ Lookup(w) \/ Register(w) \/ TakePool(w) \/ Busy(w) \/ Ready(w) \/ Clean(w) \/ Dead(w)
    \/ ActOnCancel(w) /\ pc[w] = "wait"

MonitorStep ==
    \/ \E w \in Workers : Spawn(w)
    \/ SpawnFails \/ Insert \/ Await \/ AwaitTimeout \/ Count
    \/ Scan \/ ScanEnds
    \/ CancelTakeOwn \/ CancelCount \/ CancelError \/ CancelThread \/ CancelWait
    \/ ShrinkNext \/ DestroyStatus \/ DestroyNext \/ DestroyList

Next ==
    \/ \E w \in Workers : \/ WorkerStep(w)
                          \/ GetEvent(w) \/ Finish(w) \/ ActOnCancel(w) \/ Wild(w)
    \/ MonitorStep
    \/ \E size \in Sizes : Sizectl(size)
    \/ Destroy
    \/ CreateFails

Spec == Init /\ [][Next]_vars

\* Fairness: threads that can go on do, a rwlock is not withheld from one for
\* ever, and waits time out.  No task need end, none need come, and one need
\* not have a cancellation point.
FairSpec ==
    /\ Spec
    /\ SF_vars(MonitorStep)
    /\ \A w \in Workers : SF_vars(WorkerStep(w))

-----------------------------------------------------------------------------
TypeOK ==
    /\ pstatus \in {"init", "ready", "unavailable"}
    /\ cursize \in Int /\ available \in Int
    /\ prw \in Workers \cup {Nobody}
    /\ list \in Seq(Workers)
    /\ status \in [Workers -> Statuses]
    /\ wrw \in [Workers -> {Monitor, Nobody}]
    /\ freed \subseteq Workers /\ cancelled \subseteq Workers
    /\ pc \in [Workers -> WorkerPC]
    /\ mpc \in MonitorPC
    /\ job \in {"init", "expand", "shrink", "destroy"}
    /\ left \in Nat
    /\ cur \in Workers \cup {Nobody}
    /\ crossed \in BOOLEAN

\* A worker at a step that uses its structure, or after one that did when the
\* structure was freed.
Uses(w) == pc[w] \in {"register", "t_own", "f_own", "dead", "wild"}

\* As long as no wait times out, the structure of a worker is freed only when its
\* thread is past its last use of it, however it ends: the monitor waits until the
\* thread has said that it is dead.  (After a failed Tpool_create the workers that
\* were created wait for ever.)
FreedIsUnused ==
    \A w \in freed : pc[w] = "gone" \/ (mpc = "failed" /\ pc[w] = "wait")

\* The pool can count on its counters when nothing is going on: cursize is the
\* number of workers that can serve, available the number of those that are
\* free, as the message about "insufficient free threads" has it.
Quiet == mpc = "idle" /\ \A w \in Workers : pc[w] \notin {"t_pool", "t_own", "f_pool", "f_own"}

Serving(w) == w \in Listed /\ pc[w] \in {"wait", "task"}

CountersExact ==
    Quiet => /\ cursize = Cardinality({w \in Workers : Serving(w)})
             /\ available = Cardinality({w \in Workers : Serving(w) /\ pc[w] = "wait"})

\* The counters are exact until, for the first time, a worker takes a task while
\* the monitor changes the size or destroys: the two-sided bookkeeping of status
\* and available is right as long as the two sides take turns.
ExactInTurn == ~crossed => CountersExact

\* A shrink never chooses a worker that is in its task, whatever crosses; and as long
\* as the two sides take turns it ends workers that have nothing to do: no task is cut
\* off in the middle, or lost before it began.  Once they cross, a worker can take a
\* task after it was chosen, and lose it.
ShrinkSparesTasks ==
    [][\A w \in Workers :
          /\ mpc = "scan" /\ mpc' = "c_own" /\ cur = w => pc[w] \notin {"task", "f_pool"}
          /\ ~crossed' /\ pc[w] \in {"t_pool", "task"} /\ pc'[w] = "clean" => job = "destroy"]_vars

\* As long as they take turns, and however the creation of workers goes, threads
\* that serve are within the maximum.
WithinMaximum == ~crossed => Cardinality({w \in Workers : Serving(w)}) <= Maxsize

\* The monitor and a worker wait for each other: it has the worker's rwlock and
\* wants the pool's, the worker has the pool's and wants its own.
Embrace ==
    /\ mpc = "c_pool"
    /\ prw = cur /\ wrw[cur] = Monitor /\ pc[cur] \in {"t_own", "f_own"}

\* What the monitor has begun ends, unless it and the worker are in each other's
\* way, or a worker had its structure freed while it used it.
CallsEnd ==
    mpc \notin {"idle", "exit", "failed"} ~>
        \/ mpc \in {"idle", "exit", "failed"}
        \/ Embrace
        \/ \E w \in freed : Uses(w)

\* A structure is freed when nobody uses it, and the counters of the pool are those
\* of its list, and within the maximum, whenever size and tasks did not cross.
WorkersSound == TypeOK /\ FreedIsUnused /\ ExactInTurn /\ WithinMaximum

----------------------------------------------------------------------------
(* Values for model checking: the workers are interchangeable, and commands *)
(* change the size by one or two.                                           *)

Symmetry == Permutations(Workers)
SmallSizes == {-2, -1, 1, 2}
UnitSizes == {-1, 1}

=============================================================================
