------------------------------- MODULE RWLock -------------------------------
(***************************************************************************)
(* The System V "read-write lock" of fram/module/ipc/src/ipcsem.c.  A lock *)
(* is a set of two semaphores, both created with the value 1: semaphore 0  *)
(* is called the read lock and semaphore 1 the write lock.                 *)
(*                                                                         *)
(* One step of a process is one semaphore operation, the unit the kernel   *)
(* makes atomic, together with the process-local code around it.           *)
(***************************************************************************)
EXTENDS Integers, FiniteSets

CONSTANTS Procs,       \* the processes that use the locks
          Locks,       \* the semaphore set identifiers
          Timed,       \* the values of "the caller passes maxtime > 0"
          MayDie,      \* whether a process may end in the middle of a call
          MaxReads     \* bound: read locks a process has at one time

ASSUME RWLockAssumption ==
    /\ Procs # {} /\ IsFiniteSet(Procs)
    /\ Locks # {}
    /\ Timed \subseteq BOOLEAN
    /\ MayDie \in BOOLEAN
    /\ MaxReads \in Nat

VARIABLES
    sem,     \* sem[l][n]: the value of semaphore n of lock l
    iRnum,   \* iRnum[p]: the static counter of read locks of process p
    pc,      \* what process p does next
    cur,     \* the lock the call of process p is about
    left,    \* what is left of maxtime in the call of process p
    reads,   \* reads[p][l]: read locks on l that p has and has not released
    alive    \* the processes that have not ended

vars == <<sem, iRnum, pc, cur, left, reads, alive>>

-----------------------------------------------------------------------------
\* What maxtime has become: 0 is passed to semtimedop as "no timeout", a
\* negative one as an invalid timespec.
Left == {"forever", "timed", "expired"}

PC == {"idle", "w_grab1", "w_grab0", "w_locked", "w_free1", "r_grab0", "r_free0"}

\* Points at which a process has taken semaphore 0 and not given it back.
HasSem0(p, l) == cur[p] = l /\ pc[p] \in {"w_locked", "r_free0"}

\* The process is between a successful vipc_sem_Wlocked and vipc_sem_Wunlock.
InWrite(p, l) == cur[p] = l /\ pc[p] = "w_locked"

\* The process is between a successful vipc_sem_Rlocked and vipc_sem_Runlock.
InRead(p, l) == reads[p][l] > 0

ReadsHeld(p) == {l \in Locks : InRead(p, l)}

Give(l, n) == sem' = [sem EXCEPT ![l][n] = @ + 1]

\* Mutant of Take: a grab that does not wait for a unit.
TakeUnwaited(l, n) == sem' = [sem EXCEPT ![l][n] = @ - 1]

Take(l, n) == /\ sem[l][n] > 0
              /\ sem' = [sem EXCEPT ![l][n] = @ - 1]

Goto(p, s) == pc' = [pc EXCEPT ![p] = s]

Init ==
    /\ sem = [l \in Locks |-> [n \in {0, 1} |-> 1]]
    /\ iRnum = [p \in Procs |-> 0]
    /\ pc = [p \in Procs |-> "idle"]
    /\ cur \in [Procs -> Locks]
    /\ left = [p \in Procs |-> "forever"]
    /\ reads = [p \in Procs |-> [l \in Locks |-> 0]]
    /\ alive = Procs

\* vipc_sem_Wlocked is called: the deadline is fixed before the first grab.
WlockedCall(p, l, timed) ==
    /\ pc[p] = "idle"
    /\ ReadsHeld(p) = {}
    /\ cur' = [cur EXCEPT ![p] = l]
    /\ left' = [left EXCEPT ![p] = IF timed THEN "timed" ELSE "forever"]
    /\ Goto(p, "w_grab1")
    /\ UNCHANGED <<sem, iRnum, reads, alive>>

\* maxtime -= elapsed, in whole seconds: anything is possible afterwards.
Elapse(p) ==
    \E d \in Left : /\ (left[p] = "forever" => d = "forever")
                    /\ left' = [left EXCEPT ![p] = d]

\* The first semtimedop of vipc_sem_Wlocked succeeds.
WlockedGrab1(p) ==
    /\ pc[p] = "w_grab1"
    /\ Take(cur[p], 1)
    /\ Elapse(p)
    /\ Goto(p, "w_grab0")
    /\ UNCHANGED <<iRnum, cur, reads, alive>>

\* Mutant of WlockedGrab0: the failure of the second grab is ignored.
WlockedGrab0Ignored(p) ==
    /\ pc[p] = "w_grab0"
    /\ Goto(p, "w_locked")
    /\ UNCHANGED <<sem, iRnum, cur, left, reads, alive>>

\* The second semtimedop of vipc_sem_Wlocked succeeds.
WlockedGrab0(p) ==
    /\ pc[p] = "w_grab0"
    /\ left[p] # "expired"
    /\ Take(cur[p], 0)
    /\ Goto(p, "w_locked")
    /\ UNCHANGED <<iRnum, cur, left, reads, alive>>

\* A semtimedop of vipc_sem_Wlocked or vipc_sem_Rlocked fails, because it
\* times out or because its timespec is negative: the call returns and what an
\* earlier grab of the same call took is not given back.
GrabFails(p) ==
    /\ \/ /\ pc[p] = "w_grab1"
          /\ left[p] = "timed"
          /\ sem[cur[p]][1] = 0
       \/ /\ pc[p] \in {"w_grab0", "r_grab0"}
          /\ left[p] = "timed"
          /\ sem[cur[p]][0] = 0
       \/ /\ pc[p] \in {"w_grab0", "r_grab0"}
          /\ left[p] = "expired"
    /\ Goto(p, "idle")
    /\ UNCHANGED <<sem, iRnum, cur, left, reads, alive>>

\* Mutant of WunlockFree0: semaphore 1 is freed in its place.
WunlockFree0Wrong(p) ==
    /\ pc[p] = "w_locked"
    /\ Give(cur[p], 1)
    /\ Goto(p, "w_free1")
    /\ UNCHANGED <<iRnum, cur, left, reads, alive>>

\* vipc_sem_Wunlock frees semaphore 0 first ...
WunlockFree0(p) ==
    /\ pc[p] = "w_locked"
    /\ Give(cur[p], 0)
    /\ Goto(p, "w_free1")
    /\ UNCHANGED <<iRnum, cur, left, reads, alive>>

\* Mutant of WunlockFree1: semaphore 1 is forgotten.
WunlockFree1Forgotten(p) ==
    /\ pc[p] = "w_free1"
    /\ Goto(p, "idle")
    /\ UNCHANGED <<sem, iRnum, cur, left, reads, alive>>

\* ... and semaphore 1 afterwards.
WunlockFree1(p) ==
    /\ pc[p] = "w_free1"
    /\ Give(cur[p], 1)
    /\ Goto(p, "idle")
    /\ UNCHANGED <<iRnum, cur, left, reads, alive>>

\* Mutant of RlockedTry1: semaphore 1 is tested and not taken.
RlockedTry1Untaken(p, l, timed) ==
    /\ pc[p] = "idle"
    /\ iRnum[p] < MaxReads
    /\ cur' = [cur EXCEPT ![p] = l]
    /\ \E d \in (IF timed THEN Left ELSE {"forever"}) : left' = [left EXCEPT ![p] = d]
    /\ Goto(p, "r_grab0")
    /\ UNCHANGED <<sem, iRnum, reads, alive>>

\* vipc_sem_Rlocked is called: it takes semaphore 1 if it is there and goes on
\* if it is not (NORESOURCE is ignored).
RlockedTry1(p, l, timed) ==
    /\ pc[p] = "idle"
    /\ iRnum[p] < MaxReads
    /\ cur' = [cur EXCEPT ![p] = l]
    /\ sem' = IF sem[l][1] > 0 THEN [sem EXCEPT ![l][1] = @ - 1] ELSE sem
    /\ \E d \in (IF timed THEN Left ELSE {"forever"}) : left' = [left EXCEPT ![p] = d]
    /\ Goto(p, "r_grab0")
    /\ UNCHANGED <<iRnum, reads, alive>>

\* Mutant of RlockedGrab0: it does not wait for semaphore 0.
RlockedGrab0Unwaited(p) ==
    /\ pc[p] = "r_grab0"
    /\ sem' = [sem EXCEPT ![cur[p]][0] = 0]
    /\ Goto(p, "r_free0")
    /\ UNCHANGED <<iRnum, cur, left, reads, alive>>

\* The semtimedop on semaphore 0 in vipc_sem_Rlocked succeeds.
RlockedGrab0(p) ==
    /\ pc[p] = "r_grab0"
    /\ left[p] # "expired"
    /\ Take(cur[p], 0)
    /\ Goto(p, "r_free0")
    /\ UNCHANGED <<iRnum, cur, left, reads, alive>>

\* Mutant of RlockedFree0: the reader keeps semaphore 0.
RlockedFree0Kept(p) ==
    /\ pc[p] = "r_free0"
    /\ iRnum' = [iRnum EXCEPT ![p] = @ + 1]
    /\ reads' = [reads EXCEPT ![p][cur[p]] = @ + 1]
    /\ Goto(p, "idle")
    /\ UNCHANGED <<sem, cur, left, alive>>

\* Semaphore 0 goes back at once; the caller now has the read lock.
RlockedFree0(p) ==
    /\ pc[p] = "r_free0"
    /\ Give(cur[p], 0)
    /\ iRnum' = [iRnum EXCEPT ![p] = @ + 1]
    /\ reads' = [reads EXCEPT ![p][cur[p]] = @ + 1]
    /\ Goto(p, "idle")
    /\ UNCHANGED <<cur, left, alive>>

\* vipc_sem_Runlock: the counter is one per process, whatever the lock, and
\* the release of the last read lock of the process frees semaphore 1.
Runlock(p, l) ==
    /\ pc[p] = "idle"
    /\ InRead(p, l)
    /\ iRnum' = [iRnum EXCEPT ![p] = @ - 1]
    /\ reads' = [reads EXCEPT ![p][l] = @ - 1]
    /\ \/ iRnum[p] = 1 /\ Give(l, 1)
       \/ iRnum[p] # 1 /\ UNCHANGED sem
    /\ UNCHANGED <<pc, cur, left, alive>>

\* A process ends.  No operation carries SEM_UNDO, so the kernel leaves the
\* semaphores as they are.
Die(p) ==
    /\ MayDie
    /\ alive' = alive \ {p}
    /\ UNCHANGED <<sem, iRnum, pc, cur, left, reads>>

Step(p) ==
    \/ WlockedGrab1(p)
    \/ WlockedGrab0(p)
    \/ GrabFails(p)
    \/ WunlockFree0(p)
    \/ WunlockFree1(p)
    \/ RlockedGrab0(p)
    \/ RlockedFree0(p)

Call(p) ==
    \/ \E l \in Locks, t \in Timed : WlockedCall(p, l, t)
    \/ \E l \in Locks, t \in Timed : RlockedTry1(p, l, t)

Next ==
    \E p \in alive :
        \/ Call(p)
        \/ Step(p)
        \/ \E l \in Locks : Runlock(p, l)
        \/ Die(p)

Spec == Init /\ [][Next]_vars

-----------------------------------------------------------------------------
(***************************************************************************)
(* Fairness.  A process that can run runs, and a caller that has a lock    *)
(* releases it.  The kernel grants a semaphore to its sleepers in the      *)
(* order in which they went to sleep, so a grab that is possible again and *)
(* again is made: strong fairness of the blocking grab a process is at.    *)
(* Nothing makes a process begin a call.                                   *)
(***************************************************************************)
Fairness ==
    \A p \in Procs :
        /\ WF_vars(p \in alive /\ Step(p))
        /\ SF_vars(p \in alive /\ (WlockedGrab1(p) \/ WlockedGrab0(p) \/ RlockedGrab0(p)))
        /\ WF_vars(p \in alive /\ \E l \in Locks : Runlock(p, l))

FairSpec == Spec /\ Fairness

-----------------------------------------------------------------------------
TypeOK ==
    /\ sem \in [Locks -> [{0, 1} -> Nat]]
    /\ iRnum \in [Procs -> Int]
    /\ pc \in [Procs -> PC]
    /\ cur \in [Procs -> Locks]
    /\ left \in [Procs -> Left]
    /\ reads \in [Procs -> [Locks -> Nat]]
    /\ alive \subseteq Procs

\* Two processes never write under the same lock at one time, whatever timed
\* out and whoever died: this is what the callers of vipc_sem_Wlocked rely on
\* when they rewrite a shared memory block.
WriterExclusion ==
    \A l \in Locks, p, q \in Procs : InWrite(p, l) /\ InWrite(q, l) => p = q

\* Semaphore 0 is conserved: it is 1 when nobody holds it and 0 while exactly
\* one process does, so no sequence of timeouts, deaths and unlocks of
\* ipcsem.c loses it or makes a second one.
Sem0Conserved ==
    \A l \in Locks :
        \/ sem[l][0] = 1 /\ \A p \in Procs : ~HasSem0(p, l)
        \/ sem[l][0] = 0 /\ \E p \in Procs : \A q \in Procs : HasSem0(q, l) <=> q = p

\* vipc_sem_Rlocked never returns success while another process writes under
\* the same lock: a read can only start when no write is going on.
NoReaderAdmittedDuringWrite ==
    [][\A p \in Procs, l \in Locks :
          reads'[p][l] > reads[p][l] => \A q \in Procs : ~InWrite(q, l)]_vars

\* vipc_sem_Runlock frees semaphore 1 even when its reader never took it, so
\* the value of the write semaphore drifts above 1; it never gets beyond the
\* number of processes.
Sem1Bounded == \A l \in Locks : sem[l][1] <= Cardinality(Procs)

\* A lock nobody is using can be written: as long as a process has one read
\* lock at a time and nobody gives up or dies, neither the readers that skip
\* semaphore 1 nor the counter shared by all locks lose its last unit.
IdleLockWritable ==
    \A l \in Locks :
        (\A p \in Procs : pc[p] = "idle" /\ ~InRead(p, l)) => sem[l][1] > 0

\* A writer that waits without a timeout gets the lock, though readers and
\* other writers come and go.
WriterServed ==
    \A p \in Procs : pc[p] = "w_grab1" ~> pc[p] = "w_locked"

\* A reader that waits without a timeout gets the lock.
ReaderServed ==
    \A p \in Procs : pc[p] = "r_grab0" ~> InRead(p, cur[p])

\* What shared memory blocks count on: the lock is the gate of RWGate, which
\* has one writer at a time and admits no reader meanwhile.
WritingPairs == {w \in Procs \X Locks : InWrite(w[1], w[2])}
ReadingPairs == {r \in Procs \X Locks : InRead(r[1], r[2])}
Gate == INSTANCE RWGate WITH writing <- WritingPairs, reading <- ReadingPairs
ImplementsGate == Gate!GateSpec

\* What every use of a lock rests on, whatever times out or dies: the semaphores are
\* in their range, one writer at a time, and nothing of semaphore 0 is lost.
LockSound == TypeOK /\ WriterExclusion /\ Sem0Conserved

\* Nobody who waits for a lock waits for ever, to write or to read.
EachServed == WriterServed /\ ReaderServed

=============================================================================
