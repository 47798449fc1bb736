----------------------------- MODULE TaskQueue -----------------------------
(***************************************************************************)
(* What the event queue of the thread pool promises its users: a set of    *)
(* tasks in which a task is put whole, and from which the first one in     *)
(* order of priority, then of arrival, is taken by one worker, as long as  *)
(* nothing breaks it.                                                      *)
(***************************************************************************)
EXTENDS Integers

CONSTANTS Consumers,    \* the threads that take tasks
          Priorities,   \* the priorities tasks can have
          NoTask        \* no task

VARIABLES
    queued,   \* the tasks that wait
    sound,    \* nothing has broken the queue
    arrived,  \* how many tasks have been put
    task      \* the task each consumer has taken last, or NoTask

vars == <<queued, sound, arrived, task>>

Task == [prio : Priorities, no : Nat]

\* Order of service: the smaller number first, first come first served among
\* equals.
Before(e, f) == \/ e.prio < f.prio
                \/ e.prio = f.prio /\ e.no < f.no

Init ==
    /\ queued = {}
    /\ sound = TRUE
    /\ arrived = 0
    /\ task = [c \in Consumers |-> NoTask]

Put(k) ==
    /\ queued' = queued \cup {[prio |-> k, no |-> arrived]}
    /\ arrived' = arrived + 1
    /\ UNCHANGED <<sound, task>>

Get(c) ==
    \E e \in queued :
        /\ \A f \in queued \ {e} : Before(e, f)
        /\ queued' = queued \ {e}
        /\ task' = [task EXCEPT ![c] = e]
        /\ UNCHANGED <<sound, arrived>>

\* A consumer is done with its task.
Forget(c) ==
    /\ task' = [task EXCEPT ![c] = NoTask]
    /\ UNCHANGED <<queued, sound, arrived>>

\* The queue is given up with the tasks that are still in it.
Drop == queued' = {} /\ UNCHANGED <<sound, arrived, task>>

\* The queue breaks, and with it all that is promised, for good.
Break == sound' = FALSE

Next ==
    \/ Break
    \/ \E k \in Priorities : Put(k)
    \/ \E c \in Consumers : Get(c) \/ Forget(c)
    \/ Drop

Spec == Init /\ [][Next]_vars

=============================================================================
