----------------------------- MODULE EventQueue -----------------------------
(***************************************************************************)
(* The event queue of the thread pool: fram/module/threadpool/src/         *)
(* Tpoolevent.c over the priority list of eventlist.c.  Callers of         *)
(* Tpool_addevt put tasks in; workers take them out with Tpool_popevt and  *)
(* may be cancelled or leave; the monitor gives the queue up with          *)
(* Tpool_clrevt.  A worker that is cancelled, or ends before it has        *)
(* registered, runs Tpool_threadclean, which releases eventQ->lock whether *)
(* or not the worker has it.                                               *)
(*                                                                         *)
(* The priority list is a circular list, here the sequence that starts at  *)
(* the head, so the last element is the head's prev.  A task carries the   *)
(* number of its arrival, which the code does not have, to tell tasks      *)
(* apart.                                                                  *)
(***************************************************************************)
EXTENDS Integers, Sequences, FiniteSets, SequencesExt

CONSTANT Priorities   \* the priorities tasks can have

ASSUME PrioritiesAssumption == Priorities \subseteq Int

Task == [prio : Priorities, no : Nat]

\* Mutant of StopOfWalk: the walk goes on past tasks of the same priority.
StopOfWalkPastEquals(l, k) == Max({0} \cup {i \in 1..Len(l) : l[i].prio < k})

\* EventListADD walks back from the last node and stops at the first one whose
\* priority is not greater, or beyond the head (0).
StopOfWalk(l, k) == Max({0} \cup {i \in 1..Len(l) : l[i].prio <= k})

\* The new node goes in behind the node where the walk stopped.
EventListADD(l, t) == InsertAt(l, StopOfWalk(l, t.prio) + 1, t)

\* Mutant of EventListPop: the last node is unlinked.
EventListPopLast(l) == Front(l)

\* EventListPop unlinks the head.
EventListPop(l) == Tail(l)

\* The order of service: by priority, the smaller number first, and in order
\* of arrival among equal priorities.
InServiceOrder(l) ==
    \A i, j \in 1..Len(l) :
        i < j => \/ l[i].prio < l[j].prio
                 \/ l[i].prio = l[j].prio /\ l[i].no < l[j].no

-----------------------------------------------------------------------------
CONSTANTS Producers,    \* threads that add tasks
          Consumers,    \* worker threads
          MaxTasks,     \* bound: tasks that are ever added
          MayCancel,    \* whether workers are cancelled or leave
          MayClear,     \* whether the queue is given up
          NoTask, Nobody

Threads == Producers \cup Consumers

ASSUME EventQueueAssumption ==
    /\ Producers \cap Consumers = {}
    /\ IsFiniteSet(Threads)
    /\ Nobody \notin Threads
    /\ MaxTasks \in Nat
    /\ MayCancel \in BOOLEAN /\ MayClear \in BOOLEAN
    /\ NoTask \notin Task

VARIABLES
    elist,    \* eventQ->elist
    num,      \* eventQ->num
    status,   \* eventQ->status: "ready" or "unavailable"
    lock,     \* the owner of eventQ->lock, or Nobody
    cleared,  \* the list is freed and the lock destroyed
    freed,    \* history: how often a leaving worker released another's lock
    pc,       \* what each thread does next
    task,     \* the task each worker has taken last, or NoTask
    arrived   \* how many tasks were inserted

vars == <<elist, num, status, lock, cleared, freed, pc, task, arrived>>

-----------------------------------------------------------------------------
ProducerPC == {"idle", "a_lock", "a_insert", "a_count", "a_unlock", "wild"}
ConsumerPC == {"run", "p_lock", "p_test", "p_wait", "p_pop", "p_count", "p_unlock",
               "c_lock", "c_unlock", "gone", "wild"}

\* Points between the taking of eventQ->lock and its release.
Inside(t) == pc[t] \in {"a_insert", "a_count", "a_unlock",
                        "p_test", "p_pop", "p_count", "p_unlock", "c_unlock"}

Goto(t, s) == pc' = [pc EXCEPT ![t] = s]

Init ==
    /\ elist = <<>>
    /\ num = 0
    /\ status = "ready"
    /\ lock = Nobody
    /\ cleared = FALSE
    /\ freed = 0
    /\ pc = [t \in Threads |-> IF t \in Producers THEN "idle" ELSE "run"]
    /\ task = [c \in Consumers |-> NoTask]
    /\ arrived = 0

\* pthread_mutex_lock and pthread_mutex_unlock of eventQ->lock: the mutex does not
\* check who releases it.
Lock(t) == ~cleared /\ lock = Nobody /\ lock' = t
Unlock(t) == ~cleared /\ lock' = Nobody

-----------------------------------------------------------------------------
\* Tpool_addevt: the status is read under rwlock, which is then released.
AddCheck(p) ==
    /\ pc[p] = "idle"
    /\ arrived + Cardinality({q \in Producers : pc[q] \in {"a_lock", "a_insert"}}) < MaxTasks
    /\ status = "ready"
    /\ Goto(p, "a_lock")
    /\ UNCHANGED <<elist, num, status, lock, cleared, freed, task, arrived>>

AddLock(p) ==
    /\ pc[p] = "a_lock"
    /\ Lock(p)
    /\ Goto(p, "a_insert")
    /\ UNCHANGED <<elist, num, status, cleared, freed, task, arrived>>

AddInsert(p, k) ==
    /\ pc[p] = "a_insert"
    /\ ~cleared
    /\ elist' = EventListADD(elist, [prio |-> k, no |-> arrived])
    /\ arrived' = arrived + 1
    /\ Goto(p, "a_count")
    /\ UNCHANGED <<num, status, lock, cleared, freed, task>>

\* pthread_cond_signal wakes one waiting thread if there is one.
Signal(p) ==
    LET waiting == {c \in Consumers : pc[c] = "p_wait"}
    IN  \/ \E c \in waiting : pc' = [pc EXCEPT ![p] = "a_unlock", ![c] = "p_lock"]
        \/ waiting = {} /\ Goto(p, "a_unlock")

\* Mutant of AddCount: the task is not counted.
AddCountForgotten(p) ==
    /\ pc[p] = "a_count"
    /\ ~cleared
    /\ Signal(p)
    /\ UNCHANGED <<elist, num, status, lock, cleared, freed, task, arrived>>

\* Mutant of AddCount: nobody is woken.
AddCountSilent(p) ==
    /\ pc[p] = "a_count"
    /\ ~cleared
    /\ num' = num + 1
    /\ Goto(p, "a_unlock")
    /\ UNCHANGED <<elist, status, lock, cleared, freed, task, arrived>>

AddCount(p) ==
    /\ pc[p] = "a_count"
    /\ ~cleared
    /\ num' = num + 1
    /\ Signal(p)
    /\ UNCHANGED <<elist, status, lock, cleared, freed, task, arrived>>

AddUnlock(p) ==
    /\ pc[p] = "a_unlock"
    /\ Unlock(p)
    /\ Goto(p, "idle")
    /\ UNCHANGED <<elist, num, status, cleared, freed, task, arrived>>

-----------------------------------------------------------------------------
\* A worker is done with its task and calls Tpool_popevt again; when the queue
\* is not ready it gets NULL and ends.
PopCheck(c) ==
    /\ pc[c] = "run"
    /\ task' = [task EXCEPT ![c] = NoTask]
    /\ Goto(c, IF status = "ready" THEN "p_lock" ELSE "gone")
    /\ UNCHANGED <<elist, num, status, lock, cleared, freed, arrived>>

\* Mutant of PopLock: num is not tested again after a wait.
PopLockUntested(c) ==
    /\ pc[c] = "p_lock"
    /\ Lock(c)
    /\ Goto(c, "p_pop")
    /\ UNCHANGED <<elist, num, status, cleared, freed, task, arrived>>

PopLock(c) ==
    /\ pc[c] = "p_lock"
    /\ Lock(c)
    /\ Goto(c, "p_test")
    /\ UNCHANGED <<elist, num, status, cleared, freed, task, arrived>>

\* while(num == 0) pthread_cond_wait: waiting releases the lock.
PopTest(c) ==
    /\ pc[c] = "p_test"
    /\ ~cleared
    /\ \/ num = 0 /\ Unlock(c) /\ Goto(c, "p_wait")
       \/ num # 0 /\ Goto(c, "p_pop") /\ UNCHANGED lock
    /\ UNCHANGED <<elist, num, status, cleared, freed, task, arrived>>

\* A wake-up without a signal, which pthread_cond_wait may have.
PopSpurious(c) ==
    /\ pc[c] = "p_wait"
    /\ ~cleared
    /\ Goto(c, "p_lock")
    /\ UNCHANGED <<elist, num, status, lock, cleared, freed, task, arrived>>

\* EventListPop unlinks the head; on an empty list it returns NULL.
PopHead(c) ==
    /\ pc[c] = "p_pop"
    /\ ~cleared
    /\ \/ elist = <<>> /\ UNCHANGED <<elist, task>>
       \/ elist # <<>> /\ elist' = EventListPop(elist) /\ task' = [task EXCEPT ![c] = Head(elist)]
    /\ Goto(c, "p_count")
    /\ UNCHANGED <<num, status, lock, cleared, freed, arrived>>

PopCount(c) ==
    /\ pc[c] = "p_count"
    /\ ~cleared
    /\ num' = num - 1
    /\ Goto(c, "p_unlock")
    /\ UNCHANGED <<elist, status, lock, cleared, freed, task, arrived>>

\* The worker goes on to run its task; without one it leaves its loop and ends.
PopUnlock(c) ==
    /\ pc[c] = "p_unlock"
    /\ Unlock(c)
    /\ Goto(c, IF task[c] = NoTask THEN "gone" ELSE "run")
    /\ UNCHANGED <<elist, num, status, cleared, freed, task, arrived>>

\* A worker in pthread_cond_wait is cancelled.  The wait takes the lock again
\* before the clean-up handler runs ...
CancelWaiting(c) ==
    /\ MayCancel
    /\ pc[c] = "p_wait"
    /\ ~cleared
    /\ Goto(c, "c_lock")
    /\ UNCHANGED <<elist, num, status, lock, cleared, freed, task, arrived>>

\* Mutant of CancelRelock: a cancelled wait does not take the lock again.
CancelRelockNot(c) ==
    /\ pc[c] = "c_lock"
    /\ Goto(c, "c_unlock")
    /\ UNCHANGED <<elist, num, status, lock, cleared, freed, task, arrived>>

CancelRelock(c) ==
    /\ pc[c] = "c_lock"
    /\ Lock(c)
    /\ Goto(c, "c_unlock")
    /\ UNCHANGED <<elist, num, status, cleared, freed, task, arrived>>

\* Tpool_threadclean, the clean-up handler: it first releases eventQ->lock,
\* whoever has it.
Tpool_threadclean(c) ==
    /\ Unlock(c)
    /\ freed' = IF lock \in {c, Nobody} THEN freed ELSE freed + 1
    /\ Goto(c, "gone")

\* ... and Tpool_threadclean releases it.
CancelUnlock(c) ==
    /\ pc[c] = "c_unlock"
    /\ Tpool_threadclean(c)
    /\ UNCHANGED <<elist, num, status, cleared, task, arrived>>

\* A worker that has not got the lock leaves: it is cancelled in its task or in a
\* log call around it, or ends because it is not in the list of workers.
LeaveOutside(c) ==
    /\ MayCancel
    /\ pc[c] = "run"
    /\ Tpool_threadclean(c)
    /\ UNCHANGED <<elist, num, status, cleared, task, arrived>>

-----------------------------------------------------------------------------
\* Tpool_clrevt, first part: the queue becomes unavailable.  The monitor calls
\* it when it has cancelled the workers, so none of them waits; one that did
\* not stop in time may still be anywhere else.
ClearStatus ==
    /\ MayClear
    /\ status = "ready"
    /\ \A c \in Consumers : pc[c] # "p_wait"
    /\ status' = "unavailable"
    /\ UNCHANGED <<elist, num, lock, cleared, freed, pc, task, arrived>>

\* Second part: the list is freed and the lock destroyed, whether or not a
\* thread has it; elist keeps its value.
ClearList ==
    /\ status = "unavailable"
    /\ ~cleared
    /\ cleared' = TRUE
    /\ UNCHANGED <<elist, num, status, lock, freed, pc, task, arrived>>

\* A thread read the status before it changed and is inside when the list is
\* freed and the lock destroyed, or is cancelled when they are gone: anything
\* can happen to it.
Late(t) ==
    /\ cleared
    /\ pc[t] \notin {"idle", "gone", "wild"}
    /\ pc[t] = "run" => MayCancel
    /\ Goto(t, "wild")
    /\ UNCHANGED <<elist, num, status, lock, cleared, freed, task, arrived>>

\* Two threads are inside at once and change the list together: what the links and
\* the counter are after that is undefined, and anything can happen to the threads.
Torn(t) ==
    /\ Inside(t)
    /\ \E u \in Threads \ {t} : Inside(u)
    /\ Goto(t, "wild")
    /\ UNCHANGED <<elist, num, status, lock, cleared, freed, task, arrived>>

Producer(p) ==
    \/ AddCheck(p) \/ AddLock(p)
    \/ \E k \in Priorities : AddInsert(p, k)
    \/ AddCount(p) \/ AddUnlock(p)

Consumer(c) ==
    \/ PopCheck(c) \/ PopLock(c) \/ PopTest(c) \/ PopHead(c) \/ PopCount(c) \/ PopUnlock(c)
    \/ CancelRelock(c) \/ CancelUnlock(c)

Next ==
    \/ \E p \in Producers : Producer(p)
    \/ \E c \in Consumers : Consumer(c) \/ PopSpurious(c) \/ CancelWaiting(c) \/ LeaveOutside(c)
    \/ \E t \in Threads : Late(t) \/ Torn(t)
    \/ ClearStatus
    \/ ClearList

Spec == Init /\ [][Next]_vars

(***************************************************************************)
(* Fairness: threads that can run do, the mutex does not starve a thread   *)
(* for ever, and a worker's task ends.  Nothing makes a caller add a task. *)
(***************************************************************************)
FairSpec ==
    /\ Spec
    /\ \A p \in Producers : /\ WF_vars(pc[p] # "idle" /\ Producer(p))
                            /\ SF_vars(AddLock(p))
    /\ \A c \in Consumers : /\ WF_vars(Consumer(c))
                            /\ SF_vars(PopLock(c))
                            /\ SF_vars(CancelRelock(c))

-----------------------------------------------------------------------------
TypeOK ==
    /\ elist \in Seq(Task)
    /\ num \in Int
    /\ status \in {"ready", "unavailable"}
    /\ lock \in Threads \cup {Nobody}
    /\ cleared \in BOOLEAN
    /\ freed \in Nat
    /\ pc \in [Threads -> ProducerPC \cup ConsumerPC]
    /\ task \in [Consumers -> Task \cup {NoTask}]
    /\ arrived \in Nat

\* The insertion from the tail keeps the list in the order of service: by
\* priority, and in order of arrival among equal priorities.
Ordered == freed = 0 => InServiceOrder(elist)

\* How far eventQ->lock excludes: a waiting worker that is cancelled costs nothing,
\* a leaving one that releases the lock of another lets at most one thread more
\* in than the lock admits, and no other step of anybody adds to that.
QueueExclusion ==
    ~cleared => Cardinality({t \in Threads : Inside(t) /\ lock # t}) <= freed

\* While no worker has released the lock of another, the threads inside are the
\* owner and nobody else.
OwnerAlone ==
    ~cleared /\ freed = 0 => \A t \in Threads : Inside(t) <=> lock = t

\* The counter and the list, which are changed one after the other, agree
\* whenever the lock is free, and differ by the step that is between them, until
\* a leaving worker lets a second thread in.
CountMatches ==
    ~cleared /\ freed = 0 =>
        /\ (lock = Nobody \/ pc[lock] \notin {"a_count", "p_count"}) => num = Len(elist)
        /\ lock # Nobody /\ pc[lock] = "a_count" => num = Len(elist) - 1
        /\ lock # Nobody /\ pc[lock] = "p_count" => num = Len(elist) + 1

\* A worker that has been let through by num # 0 finds a task: EventListPop
\* never returns NULL to it, which would end the worker without a trace, until a
\* leaving worker lets a second thread in.
PopFindsTask ==
    freed = 0 =>
        \A c \in Consumers :
            /\ pc[c] = "p_pop" /\ ~cleared => elist # <<>>
            /\ pc[c] \in {"p_count", "p_unlock"} => task[c] # NoTask

\* No wake-up is lost: a counted task is taken, though waiting workers are
\* cancelled, working ones leave and signals come between a test and a wait, as
\* long as a worker is left, the queue is not given up and no leaving worker
\* releases the lock of another.
TasksServed ==
    num > 0 ~>
        \/ num = 0
        \/ \A c \in Consumers : pc[c] = "gone"
        \/ status = "unavailable"
        \/ freed > 0

\* The two-step operations under the lock implement atomic operations on a set
\* of tasks from which the first in order of service is taken, until a leaving
\* worker releases the lock of another, which breaks the queue.
Abstract ==
    INSTANCE TaskQueue WITH
        sound <- freed = 0,
        queued <- IF cleared THEN {} ELSE {elist[i] : i \in 1..Len(elist)}

TaskQueueSpec == Abstract!Spec

\* The list, its counter and its lock agree: the list is in the order of service,
\* a worker that found num not 0 finds a task, and the lock admits one thread more
\* for each worker that released the lock of another while it left, no further one.
QueueSound ==
    TypeOK /\ Ordered /\ QueueExclusion /\ OwnerAlone /\ CountMatches /\ PopFindsTask

=============================================================================
