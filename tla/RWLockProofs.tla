---------------------------- MODULE RWLockProofs ----------------------------
(***************************************************************************)
(* Proofs about RWLock for any number of processes, locks and nested       *)
(* reads, with timeouts and with processes that die.                       *)
(***************************************************************************)
EXTENDS RWLock, FiniteSetTheorems, TLAPS

\* Every variable keeps its type: no semaphore of ipcsem.c goes below zero and
\* reads stays a natural number because Runlock follows a matching Rlocked.
THEOREM TypeCorrect == Spec => []TypeOK
<1>1. Init => TypeOK
  BY RWLockAssumption DEF Init, TypeOK, PC, Left
<1>2. TypeOK /\ [Next]_vars => TypeOK'
  <2> SUFFICES ASSUME TypeOK, [Next]_vars PROVE TypeOK'
    OBVIOUS
  <2> USE DEF TypeOK, PC, Left, Goto, Take, Give, InRead, ReadsHeld, Elapse
  <2>1. ASSUME NEW p \in alive, NEW l \in Locks, NEW t \in Timed, WlockedCall(p, l, t)
        PROVE TypeOK'
    BY <2>1 DEF WlockedCall
  <2>2. ASSUME NEW p \in alive, NEW l \in Locks, NEW t \in Timed, RlockedTry1(p, l, t)
        PROVE TypeOK'
    BY <2>2 DEF RlockedTry1
  <2>3. ASSUME NEW p \in alive, WlockedGrab1(p) PROVE TypeOK'
    BY <2>3 DEF WlockedGrab1
  <2>4. ASSUME NEW p \in alive, WlockedGrab0(p) PROVE TypeOK'
    BY <2>4 DEF WlockedGrab0
  <2>5. ASSUME NEW p \in alive, GrabFails(p) PROVE TypeOK'
    BY <2>5 DEF GrabFails
  <2>6. ASSUME NEW p \in alive, WunlockFree0(p) PROVE TypeOK'
    BY <2>6 DEF WunlockFree0
  <2>7. ASSUME NEW p \in alive, WunlockFree1(p) PROVE TypeOK'
    BY <2>7 DEF WunlockFree1
  <2>8. ASSUME NEW p \in alive, RlockedGrab0(p) PROVE TypeOK'
    BY <2>8 DEF RlockedGrab0
  <2>9. ASSUME NEW p \in alive, RlockedFree0(p) PROVE TypeOK'
    BY <2>9 DEF RlockedFree0
  <2>10. ASSUME NEW p \in alive, NEW l \in Locks, Runlock(p, l) PROVE TypeOK'
    <3>1. reads' \in [Procs -> [Locks -> Nat]]
      BY <2>10 DEF Runlock
    <3>2. sem' \in [Locks -> [{0, 1} -> Nat]]
      <4>1. CASE iRnum[p] = 1 /\ Give(l, 1)
        BY <4>1
      <4>2. CASE UNCHANGED sem
        BY <4>2
      <4> QED
        BY <2>10, <4>1, <4>2 DEF Runlock
    <3> QED
      BY <2>10, <3>1, <3>2 DEF Runlock
  <2>11. ASSUME NEW p \in alive, Die(p) PROVE TypeOK'
    BY <2>11 DEF Die
  <2>12. CASE UNCHANGED vars
    BY <2>12 DEF vars
  <2> QED
    BY <2>1, <2>2, <2>3, <2>4, <2>5, <2>6, <2>7, <2>8, <2>9, <2>10, <2>11, <2>12
       DEF Next, Call, Step
<1> QED
  BY <1>1, <1>2, PTL DEF Spec

\* A step that leaves semaphore 0 of a lock alone, and its holders, conserves
\* it.
LEMMA Sem0Frame ==
  ASSUME Sem0Conserved,
         \A l \in Locks : sem'[l][0] = sem[l][0],
         \A l \in Locks, q \in Procs : HasSem0(q, l)' <=> HasSem0(q, l)
  PROVE  Sem0Conserved'
BY DEF Sem0Conserved

\* A process that takes semaphore 0 of its lock becomes its one holder.
LEMMA Sem0Taken ==
  ASSUME TypeOK, Sem0Conserved, NEW p \in Procs,
         Take(cur[p], 0), cur' = cur,
         ~HasSem0(p, cur[p]),
         HasSem0(p, cur[p])',
         \A q \in Procs \ {p} : pc'[q] = pc[q]
  PROVE  Sem0Conserved'
<1> SUFFICES ASSUME NEW l \in Locks
             PROVE \/ sem'[l][0] = 1 /\ \A q \in Procs : ~HasSem0(q, l)'
                   \/ sem'[l][0] = 0 /\ \E q \in Procs : \A r \in Procs : HasSem0(r, l)' <=> r = q
  BY DEF Sem0Conserved
<1>1. CASE l = cur[p]
  <2>1. sem[l][0] = 1 /\ \A q \in Procs : ~HasSem0(q, l)
    BY <1>1 DEF Sem0Conserved, Take, TypeOK
  <2>2. sem'[l][0] = 0
    BY <1>1, <2>1 DEF Take, TypeOK
  <2>3. \A r \in Procs : HasSem0(r, l)' <=> r = p
    BY <1>1, <2>1 DEF HasSem0
  <2> QED
    BY <2>2, <2>3
<1>2. CASE l # cur[p]
  <2>1. sem'[l][0] = sem[l][0]
    BY <1>2 DEF Take, TypeOK
  <2>2. \A q \in Procs : HasSem0(q, l)' <=> HasSem0(q, l)
    BY <1>2 DEF HasSem0
  <2> QED
    BY <2>1, <2>2 DEF Sem0Conserved
<1> QED
  BY <1>1, <1>2

\* A holder that gives semaphore 0 of its lock back leaves it without holder.
LEMMA Sem0Given ==
  ASSUME TypeOK, Sem0Conserved, NEW p \in Procs,
         Give(cur[p], 0), cur' = cur,
         HasSem0(p, cur[p]),
         ~HasSem0(p, cur[p])',
         \A q \in Procs \ {p} : pc'[q] = pc[q]
  PROVE  Sem0Conserved'
<1> SUFFICES ASSUME NEW l \in Locks
             PROVE \/ sem'[l][0] = 1 /\ \A q \in Procs : ~HasSem0(q, l)'
                   \/ sem'[l][0] = 0 /\ \E q \in Procs : \A r \in Procs : HasSem0(r, l)' <=> r = q
  BY DEF Sem0Conserved
<1>1. CASE l = cur[p]
  <2>1. sem[l][0] = 0 /\ \A q \in Procs : HasSem0(q, l) <=> q = p
    BY <1>1 DEF Sem0Conserved, TypeOK
  <2>2. sem'[l][0] = 1
    BY <1>1, <2>1 DEF Give, TypeOK
  <2>3. \A r \in Procs : ~HasSem0(r, l)'
    BY <1>1, <2>1 DEF HasSem0
  <2> QED
    BY <2>2, <2>3
<1>2. CASE l # cur[p]
  <2>1. sem'[l][0] = sem[l][0]
    BY <1>2 DEF Give, TypeOK
  <2>2. \A q \in Procs : HasSem0(q, l)' <=> HasSem0(q, l)
    BY <1>2 DEF HasSem0
  <2> QED
    BY <2>1, <2>2 DEF Sem0Conserved
<1> QED
  BY <1>1, <1>2

\* The two semaphore 0 of ipcsem.c are conserved by every operation; the
\* steps that matter are the grab and the free of semaphore 0, all others fall
\* under the frame lemma.
THEOREM Conservation == Spec => []Sem0Conserved
<1>1. Init => Sem0Conserved
  BY DEF Init, Sem0Conserved, HasSem0
<1>2. TypeOK /\ Sem0Conserved /\ [Next]_vars => Sem0Conserved'
  <2> SUFFICES ASSUME TypeOK, Sem0Conserved, [Next]_vars PROVE Sem0Conserved'
    OBVIOUS
  <2> USE DEF TypeOK, Goto, HasSem0
  <2>1. ASSUME NEW p \in alive, NEW l \in Locks, NEW t \in Timed, WlockedCall(p, l, t)
        PROVE Sem0Conserved'
    <3>1. \A k \in Locks : sem'[k][0] = sem[k][0]
      BY <2>1 DEF WlockedCall
    <3>2. \A k \in Locks, q \in Procs : HasSem0(q, k)' <=> HasSem0(q, k)
      BY <2>1 DEF WlockedCall
    <3> QED
      BY <3>1, <3>2, Sem0Frame
  <2>2. ASSUME NEW p \in alive, NEW l \in Locks, NEW t \in Timed, RlockedTry1(p, l, t)
        PROVE Sem0Conserved'
    <3>1. \A k \in Locks : sem'[k][0] = sem[k][0]
      BY <2>2 DEF RlockedTry1
    <3>2. \A k \in Locks, q \in Procs : HasSem0(q, k)' <=> HasSem0(q, k)
      BY <2>2 DEF RlockedTry1
    <3> QED
      BY <3>1, <3>2, Sem0Frame
  <2>3. ASSUME NEW p \in alive, WlockedGrab1(p) PROVE Sem0Conserved'
    <3>1. \A k \in Locks : sem'[k][0] = sem[k][0]
      BY <2>3 DEF WlockedGrab1, Take
    <3>2. \A k \in Locks, q \in Procs : HasSem0(q, k)' <=> HasSem0(q, k)
      BY <2>3 DEF WlockedGrab1
    <3> QED
      BY <3>1, <3>2, Sem0Frame
  <2>4. ASSUME NEW p \in alive, WlockedGrab0(p) PROVE Sem0Conserved'
    BY <2>4, Sem0Taken DEF WlockedGrab0
  <2>5. ASSUME NEW p \in alive, GrabFails(p) PROVE Sem0Conserved'
    <3>1. \A k \in Locks, q \in Procs : HasSem0(q, k)' <=> HasSem0(q, k)
      BY <2>5 DEF GrabFails
    <3> QED
      BY <2>5, <3>1, Sem0Frame DEF GrabFails
  <2>6. ASSUME NEW p \in alive, WunlockFree0(p) PROVE Sem0Conserved'
    BY <2>6, Sem0Given DEF WunlockFree0
  <2>7. ASSUME NEW p \in alive, WunlockFree1(p) PROVE Sem0Conserved'
    <3>1. \A k \in Locks : sem'[k][0] = sem[k][0]
      BY <2>7 DEF WunlockFree1, Give
    <3>2. \A k \in Locks, q \in Procs : HasSem0(q, k)' <=> HasSem0(q, k)
      BY <2>7 DEF WunlockFree1
    <3> QED
      BY <3>1, <3>2, Sem0Frame
  <2>8. ASSUME NEW p \in alive, RlockedGrab0(p) PROVE Sem0Conserved'
    BY <2>8, Sem0Taken DEF RlockedGrab0
  <2>9. ASSUME NEW p \in alive, RlockedFree0(p) PROVE Sem0Conserved'
    BY <2>9, Sem0Given DEF RlockedFree0
  <2>10. ASSUME NEW p \in alive, NEW l \in Locks, Runlock(p, l) PROVE Sem0Conserved'
    <3>1. \A k \in Locks : sem'[k][0] = sem[k][0]
      <4>1. CASE iRnum[p] = 1 /\ Give(l, 1)
        BY <4>1 DEF Give
      <4>2. CASE UNCHANGED sem
        BY <4>2
      <4> QED
        BY <2>10, <4>1, <4>2 DEF Runlock
    <3>2. \A k \in Locks, q \in Procs : HasSem0(q, k)' <=> HasSem0(q, k)
      BY <2>10 DEF Runlock
    <3> QED
      BY <3>1, <3>2, Sem0Frame
  <2>11. ASSUME NEW p \in alive, Die(p) PROVE Sem0Conserved'
    BY <2>11, Sem0Frame DEF Die
  <2>12. CASE UNCHANGED vars
    BY <2>12, Sem0Frame DEF vars
  <2> QED
    BY <2>1, <2>2, <2>3, <2>4, <2>5, <2>6, <2>7, <2>8, <2>9, <2>10, <2>11, <2>12
       DEF Next, Call, Step
<1> QED
  BY <1>1, <1>2, TypeCorrect, PTL DEF Spec

\* vipc_sem_Wlocked excludes writers from one another, for every number of
\* processes and whatever times out or dies: a writer is a holder of
\* semaphore 0, and there is one holder at most.
THEOREM WritersExcludeEachOther == Spec => []WriterExclusion
<1>1. Sem0Conserved => WriterExclusion
  BY DEF Sem0Conserved, WriterExclusion, InWrite, HasSem0
<1> QED
  BY <1>1, Conservation, PTL

\* What every use of a lock rests on holds for any number of processes, locks and
\* nested reads, whatever times out or dies (ipcsem.c:348-494).
THEOREM LockHolds == Spec => []LockSound
<1>1. TypeOK /\ WriterExclusion /\ Sem0Conserved => LockSound
  BY DEF LockSound
<1> QED
  BY <1>1, TypeCorrect, WritersExcludeEachOther, Conservation, PTL

\* vipc_sem_Rlocked never succeeds during a write: the only step that adds a
\* read lock is made by the holder of semaphore 0, which no writer then is.
THEOREM ReadsStartOutsideWrites == Spec => NoReaderAdmittedDuringWrite
<1> DEFINE Admits == \A p \in Procs, l \in Locks :
                        reads'[p][l] > reads[p][l] => \A q \in Procs : ~InWrite(q, l)
<1>1. TypeOK /\ Sem0Conserved /\ [Next]_vars => [Admits]_vars
  <2> SUFFICES ASSUME TypeOK, Sem0Conserved, [Next]_vars,
                      NEW p \in Procs, NEW l \in Locks, reads'[p][l] > reads[p][l],
                      NEW q \in Procs, InWrite(q, l)
               PROVE FALSE
    OBVIOUS
  <2>1. \A r \in alive, k \in Locks : ~Runlock(r, k)
    <3> SUFFICES ASSUME NEW r \in alive, NEW k \in Locks, Runlock(r, k) PROVE FALSE
      OBVIOUS
    <3>1. reads' = [reads EXCEPT ![r][k] = @ - 1]
      BY DEF Runlock
    <3>2. reads'[p][l] \in {reads[p][l], reads[p][l] - 1}
      BY <3>1 DEF TypeOK
    <3>3. reads[p][l] \in Nat
      BY DEF TypeOK
    <3> QED
      BY <3>2, <3>3
  <2>2. PICK r \in alive : RlockedFree0(r)
    BY <2>1 DEF Next, Call, Step, Die, WlockedCall, RlockedTry1, WlockedGrab1, WlockedGrab0,
                GrabFails, WunlockFree0, WunlockFree1, RlockedGrab0, vars, TypeOK
  <2>3. r = p /\ cur[p] = l
    BY <2>2 DEF RlockedFree0, TypeOK
  <2>4. HasSem0(p, l) /\ HasSem0(q, l) /\ p # q
    BY <2>2, <2>3 DEF RlockedFree0, HasSem0, InWrite
  <2> QED
    BY <2>4 DEF Sem0Conserved
<1> QED
  BY <1>1, TypeCorrect, Conservation, PTL DEF Spec, NoReaderAdmittedDuringWrite

-----------------------------------------------------------------------------
(***************************************************************************)
(* Semaphore 1.  Its units are counted together with the processes that use*)
(* the lock: those that have taken a unit or will give one back.           *)
(***************************************************************************)
UsingPC == {"w_grab0", "w_locked", "w_free1", "r_grab0", "r_free0"}

Uses(p, l) == InRead(p, l) \/ (cur[p] = l /\ pc[p] \in UsingPC)

Users(l) == {p \in Procs : Uses(p, l)}

Weight(p, l) == IF Uses(p, l) THEN 1 ELSE 0

\* The read locks of a process, one by one.
Tickets(p) == {t \in Locks \X (Nat \ {0}) : t[2] <= reads[p][t[1]]}

\* The static counter counts the read locks of its process on all locks.
ReadsCounted ==
    \A p \in Procs : IsFiniteSet(Tickets(p)) /\ iRnum[p] = Cardinality(Tickets(p))

\* A process that writes, or is about to, reads nothing.
WritersReadNothing ==
    \A p \in Procs : pc[p] \in {"w_grab1", "w_grab0", "w_locked", "w_free1"} => ReadsHeld(p) = {}

\* A unit is made only by a reader that found none, so units and users together
\* are never more than the processes.
UnitsLimited == \A l \in Locks : sem[l][1] + Cardinality(Users(l)) <= Cardinality(Procs)

CountInv == TypeOK /\ ReadsCounted /\ WritersReadNothing

\* Only one process changes: how the number of users changes.
LEMMA UsersStep ==
  ASSUME TypeOK, NEW p \in Procs, NEW l \in Locks,
         \A q \in Procs \ {p} : Uses(q, l)' <=> Uses(q, l)
  PROVE  /\ Cardinality(Users(l)) \in Nat /\ Cardinality(Users(l)') \in Nat
         /\ Cardinality(Users(l)') - Weight(p, l)' = Cardinality(Users(l)) - Weight(p, l)
         /\ Cardinality(Users(l)') <= Cardinality(Procs)
         /\ Cardinality(Procs) \in Nat
<1> DEFINE Others == Users(l) \ {p}
<1>1. IsFiniteSet(Procs)
  BY RWLockAssumption
<1>2. Users(l) \subseteq Procs /\ Users(l)' \subseteq Procs
  BY DEF Users
<1>3. IsFiniteSet(Users(l)) /\ IsFiniteSet(Users(l)') /\ IsFiniteSet(Others)
  BY <1>1, <1>2, FS_Subset
<1>4. Others = Users(l)' \ {p}
  BY DEF Users
<1>5. Cardinality(Others) = Cardinality(Users(l)) - Weight(p, l)
  <2>1. Cardinality(Others) = IF p \in Users(l) THEN Cardinality(Users(l)) - 1 ELSE Cardinality(Users(l))
    BY <1>3, FS_RemoveElement
  <2>2. Cardinality(Users(l)) \in Nat
    BY <1>3, FS_CardinalityType
  <2>3. p \in Users(l) <=> Uses(p, l)
    BY DEF Users
  <2> QED
    BY <2>1, <2>2, <2>3 DEF Weight
<1>6. Cardinality(Users(l)' \ {p}) = Cardinality(Users(l)') - Weight(p, l)'
  <2>1. Cardinality(Users(l)' \ {p}) =
          IF p \in Users(l)' THEN Cardinality(Users(l)') - 1 ELSE Cardinality(Users(l)')
    BY <1>3, FS_RemoveElement
  <2>2. Cardinality(Users(l)') \in Nat
    BY <1>3, FS_CardinalityType
  <2>3. p \in Users(l)' <=> Uses(p, l)'
    BY DEF Users
  <2> QED
    BY <2>1, <2>2, <2>3 DEF Weight
<1> QED
  BY <1>1, <1>2, <1>3, <1>4, <1>5, <1>6, FS_Subset, FS_CardinalityType

\* What a process has read-locked has a ticket; a first ticket is the only one.
LEMMA TicketsOfReads ==
  ASSUME TypeOK, ReadsCounted, NEW p \in Procs, NEW l \in Locks
  PROVE  /\ iRnum[p] \in Nat
         /\ iRnum[p] = 0 => reads[p][l] = 0
         /\ iRnum[p] = 1 => reads[p][l] <= 1
<1>1. reads[p][l] \in Nat /\ IsFiniteSet(Tickets(p)) /\ iRnum[p] = Cardinality(Tickets(p))
  BY DEF TypeOK, ReadsCounted
<1>2. iRnum[p] \in Nat
  BY <1>1, FS_CardinalityType
<1>3. ASSUME iRnum[p] = 0, reads[p][l] # 0 PROVE FALSE
  <2>1. <<l, 1>> \in Tickets(p)
    BY <1>1, <1>3 DEF Tickets
  <2> QED
    BY <1>1, <1>3, <2>1, FS_EmptySet
<1>4. ASSUME iRnum[p] = 1, ~(reads[p][l] <= 1) PROVE FALSE
  <2>1. <<l, 1>> \in Tickets(p) /\ <<l, 2>> \in Tickets(p) /\ <<l, 1>> # <<l, 2>>
    BY <1>1, <1>4 DEF Tickets
  <2>2. PICK t : Tickets(p) = {t}
    BY <1>1, <1>4, FS_Singleton
  <2> QED
    BY <2>1, <2>2
<1> QED
  BY <1>2, <1>3, <1>4

\* A read lock more, and the counter one up: one ticket more.
LEMMA TicketAdded ==
  ASSUME TypeOK, ReadsCounted, NEW p \in Procs, NEW l \in Locks,
         reads' = [reads EXCEPT ![p][l] = @ + 1], iRnum' = [iRnum EXCEPT ![p] = @ + 1]
  PROVE  ReadsCounted'
<1>1. ASSUME NEW q \in Procs
      PROVE IsFiniteSet(Tickets(q)') /\ iRnum'[q] = Cardinality(Tickets(q)')
  <2>1. CASE q # p
    <3>1. reads'[q] = reads[q] /\ iRnum'[q] = iRnum[q]
      BY <2>1 DEF TypeOK
    <3>2. Tickets(q)' = Tickets(q)
      BY <3>1 DEF Tickets
    <3> QED
      BY <3>1, <3>2 DEF ReadsCounted
  <2>2. CASE q = p
    <3> DEFINE t == <<l, reads[p][l] + 1>>
    <3>1. reads[p] \in [Locks -> Nat] /\ iRnum[p] \in Int /\ iRnum'[p] = iRnum[p] + 1
      BY DEF TypeOK
    <3>2. \A k \in Locks : reads'[p][k] = IF k = l THEN reads[p][l] + 1 ELSE reads[p][k]
      BY DEF TypeOK
    <3>3. ASSUME NEW k \in Locks, NEW n \in Nat \ {0}
          PROVE  n <= reads'[p][k] <=> n <= reads[p][k] \/ <<k, n>> = t
      BY <3>1, <3>2
    <3>4. t \in Locks \X (Nat \ {0}) /\ t \notin Tickets(p)
      BY <3>1 DEF Tickets
    <3>5. Tickets(p)' = Tickets(p) \cup {t}
      BY <3>3, <3>4 DEF Tickets
    <3>6. IsFiniteSet(Tickets(p)) /\ iRnum[p] = Cardinality(Tickets(p))
      BY DEF ReadsCounted
    <3>7. IsFiniteSet(Tickets(p)') /\ Cardinality(Tickets(p)') = Cardinality(Tickets(p)) + 1
      BY <3>4, <3>5, <3>6, FS_AddElement, SMTT(45)
    <3> QED
      BY <2>2, <3>1, <3>6, <3>7
  <2> QED
    BY <2>1, <2>2
<1> QED
  BY <1>1 DEF ReadsCounted

\* A read lock less, and the counter one down: one ticket less.
LEMMA TicketGiven ==
  ASSUME TypeOK, ReadsCounted, NEW p \in Procs, NEW l \in Locks, InRead(p, l),
         reads' = [reads EXCEPT ![p][l] = @ - 1], iRnum' = [iRnum EXCEPT ![p] = @ - 1]
  PROVE  ReadsCounted'
<1>1. ASSUME NEW q \in Procs
      PROVE IsFiniteSet(Tickets(q)') /\ iRnum'[q] = Cardinality(Tickets(q)')
  <2>1. CASE q # p
    <3>1. reads'[q] = reads[q] /\ iRnum'[q] = iRnum[q]
      BY <2>1 DEF TypeOK
    <3>2. Tickets(q)' = Tickets(q)
      BY <3>1 DEF Tickets
    <3> QED
      BY <3>1, <3>2 DEF ReadsCounted
  <2>2. CASE q = p
    <3> DEFINE t == <<l, reads[p][l]>>
    <3>1. reads[p] \in [Locks -> Nat] /\ iRnum[p] \in Int /\ iRnum'[p] = iRnum[p] - 1
      BY DEF TypeOK
    <3>2. \A k \in Locks : reads'[p][k] = IF k = l THEN reads[p][l] - 1 ELSE reads[p][k]
      BY DEF TypeOK
    <3>3. ASSUME NEW k \in Locks, NEW n \in Nat \ {0}
          PROVE  n <= reads'[p][k] <=> n <= reads[p][k] /\ <<k, n>> # t
      BY <3>1, <3>2
    <3>4. t \in Tickets(p)
      BY <3>1 DEF Tickets, InRead
    <3>5. Tickets(p)' = Tickets(p) \ {t}
      BY <3>3 DEF Tickets
    <3>6. IsFiniteSet(Tickets(p)) /\ iRnum[p] = Cardinality(Tickets(p))
      BY DEF ReadsCounted
    <3>7. IsFiniteSet(Tickets(p)') /\ Cardinality(Tickets(p)') = Cardinality(Tickets(p)) - 1
      <4>1. /\ IsFiniteSet(Tickets(p) \ {t})
            /\ Cardinality(Tickets(p) \ {t}) = Cardinality(Tickets(p)) - 1
        BY <3>4, <3>6, FS_RemoveElement
      <4> QED
        BY <3>5, <4>1
    <3> QED
      BY <2>2, <3>1, <3>6, <3>7
  <2> QED
    BY <2>1, <2>2
<1> QED
  BY <1>1 DEF ReadsCounted

\* What a reader of the counter relies on, inductively.
LEMMA CountInitially == Init => CountInv /\ UnitsLimited
<1> SUFFICES ASSUME Init PROVE CountInv /\ UnitsLimited
  OBVIOUS
<1>1. TypeOK
  BY RWLockAssumption DEF Init, TypeOK, PC, Left
<1>2. ReadsCounted
  <2>1. \A p \in Procs : Tickets(p) = {} /\ iRnum[p] = 0
    BY DEF Init, Tickets
  <2> QED
    BY <2>1, FS_EmptySet DEF ReadsCounted
<1>3. WritersReadNothing
  BY DEF Init, WritersReadNothing
<1>4. UnitsLimited
  <2>1. \A l \in Locks : Users(l) = {} /\ sem[l][1] = 1
    BY DEF Init, Users, Uses, InRead, UsingPC
  <2>2. Cardinality(Procs) \in Nat /\ Cardinality(Procs) # 0
    BY RWLockAssumption, FS_CardinalityType, FS_EmptySet
  <2> QED
    BY <2>1, <2>2, FS_EmptySet DEF UnitsLimited
<1> QED
  BY <1>1, <1>2, <1>3, <1>4 DEF CountInv

\* Every step keeps the tickets and leaves a writer without a read lock.
LEMMA CountInductive == CountInv /\ [Next]_vars => ReadsCounted' /\ WritersReadNothing'
<1> SUFFICES ASSUME CountInv, [Next]_vars PROVE ReadsCounted' /\ WritersReadNothing'
  OBVIOUS
<1> USE DEF CountInv
<1>1. ASSUME NEW p \in Procs, NEW l \in Locks, Runlock(p, l)
      PROVE ReadsCounted' /\ WritersReadNothing'
  <2>1. ReadsCounted'
    BY <1>1, TicketGiven DEF Runlock
  <2>2. \A q \in Procs : ReadsHeld(q)' \subseteq ReadsHeld(q)
    BY <1>1 DEF Runlock, ReadsHeld, InRead, TypeOK
  <2> QED
    BY <1>1, <2>1, <2>2 DEF Runlock, WritersReadNothing
<1>2. ASSUME NEW p \in Procs, RlockedFree0(p)
      PROVE ReadsCounted' /\ WritersReadNothing'
  <2>1. ReadsCounted'
    BY <1>2, TicketAdded DEF RlockedFree0, TypeOK
  <2>2. \A q \in Procs : q # p => ReadsHeld(q)' = ReadsHeld(q)
    BY <1>2 DEF RlockedFree0, ReadsHeld, InRead, TypeOK
  <2> QED
    BY <1>2, <2>1, <2>2 DEF RlockedFree0, Goto, WritersReadNothing, TypeOK
<1>3. ASSUME UNCHANGED <<iRnum, reads>>,
             \A q \in Procs : \/ pc'[q] = pc[q]
                              \/ pc'[q] = "w_grab1" /\ ReadsHeld(q) = {}
                              \/ pc'[q] \in {"w_grab0", "w_locked", "w_free1"}
                                   /\ pc[q] \in {"w_grab1", "w_grab0", "w_locked", "w_free1"}
                              \/ pc'[q] \in {"idle", "r_grab0", "r_free0"}
      PROVE ReadsCounted' /\ WritersReadNothing'
  <2>1. \A q \in Procs : Tickets(q)' = Tickets(q) /\ ReadsHeld(q)' = ReadsHeld(q)
    BY <1>3 DEF Tickets, ReadsHeld, InRead
  <2> QED
    BY <1>3, <2>1 DEF ReadsCounted, WritersReadNothing
<1> USE DEF Goto, TypeOK, PC
<1>4. ASSUME NEW p \in alive, Call(p) PROVE ReadsCounted' /\ WritersReadNothing'
  BY <1>4, <1>3 DEF Call, WlockedCall, RlockedTry1
<1>5. ASSUME NEW p \in alive, Step(p) PROVE ReadsCounted' /\ WritersReadNothing'
  BY <1>5, <1>2, <1>3 DEF Step, WlockedGrab1, WlockedGrab0, GrabFails, WunlockFree0,
                          WunlockFree1, RlockedGrab0
<1>6. ASSUME NEW p \in alive, Die(p) PROVE ReadsCounted' /\ WritersReadNothing'
  BY <1>6, <1>3 DEF Die
<1>7. CASE UNCHANGED vars
  BY <1>7, <1>3 DEF vars
<1> QED
  BY <1>1, <1>4, <1>5, <1>6, <1>7 DEF Next

\* The tickets of any number of locks and nested reads, in every behaviour.
LEMMA CountHolds == Spec => []CountInv
<1> QED
  BY CountInitially, CountInductive, TypeCorrect, PTL DEF Spec, CountInv

\* What one step does to units and users: the other processes use what they
\* used; the step never makes more of both together, except that a reader may
\* find no unit and go on.
Shift(p) ==
    \A l \in Locks :
        /\ \A q \in Procs \ {p} : Uses(q, l)' <=> Uses(q, l)
        /\ \/ sem'[l][1] + Weight(p, l)' <= sem[l][1] + Weight(p, l)
           \/ sem'[l][1] = 0

\* A step of that kind keeps the limit.
LEMMA ShiftKeepsLimit ==
  ASSUME TypeOK, TypeOK', UnitsLimited, NEW p \in Procs, Shift(p)
  PROVE  UnitsLimited'
<1> SUFFICES ASSUME NEW l \in Locks
             PROVE  sem'[l][1] + Cardinality(Users(l)') <= Cardinality(Procs)
  BY DEF UnitsLimited
<1>1. sem[l][1] \in Nat /\ sem'[l][1] \in Nat /\ Weight(p, l) \in Nat /\ Weight(p, l)' \in Nat
  BY DEF TypeOK, Weight
<1>2. sem[l][1] + Cardinality(Users(l)) <= Cardinality(Procs)
  BY DEF UnitsLimited
<1>3. /\ Cardinality(Users(l)) \in Nat /\ Cardinality(Users(l)') \in Nat
      /\ Cardinality(Users(l)') - Weight(p, l)' = Cardinality(Users(l)) - Weight(p, l)
      /\ Cardinality(Users(l)') <= Cardinality(Procs)
      /\ Cardinality(Procs) \in Nat
  BY UsersStep DEF Shift
<1>4. \/ sem'[l][1] + Weight(p, l)' <= sem[l][1] + Weight(p, l)
      \/ sem'[l][1] = 0
  BY DEF Shift
<1> QED
  BY <1>1, <1>2, <1>3, <1>4

\* Every step of the lock is of that kind.
LEMMA StepsShift ==
  ASSUME CountInv, NEW p \in Procs,
         Call(p) \/ Step(p) \/ (\E l \in Locks : Runlock(p, l)) \/ Die(p)
  PROVE  Shift(p)
<1> USE DEF CountInv
<1> DEFINE Moves == \A q \in Procs \ {p} : cur'[q] = cur[q] /\ pc'[q] = pc[q] /\ reads'[q] = reads[q]
<1>1. \A l \in Locks : sem[l][1] \in Nat /\ reads[p][l] \in Nat /\ cur[p] \in Locks
  BY DEF TypeOK
<1>2. ASSUME Moves,
             \A l \in Locks : \/ sem'[l][1] + Weight(p, l)' <= sem[l][1] + Weight(p, l)
                              \/ sem'[l][1] = 0
      PROVE Shift(p)
  BY <1>2 DEF Shift, Uses, InRead
<1> USE DEF Weight, Uses, InRead, UsingPC, Goto
<1>3. CASE Call(p)
  <2>1. ASSUME NEW l \in Locks, NEW t \in Timed, WlockedCall(p, l, t) PROVE Shift(p)
    BY <2>1, <1>1, <1>2 DEF WlockedCall, TypeOK
  <2>2. ASSUME NEW l \in Locks, NEW t \in Timed, RlockedTry1(p, l, t) PROVE Shift(p)
    <3>1. Moves
      BY <2>2 DEF RlockedTry1, TypeOK
    <3>2. ASSUME NEW k \in Locks
          PROVE \/ sem'[k][1] + Weight(p, k)' <= sem[k][1] + Weight(p, k)
                \/ sem'[k][1] = 0
      <4>1. CASE k = l
        BY <2>2, <1>1, <4>1 DEF RlockedTry1, TypeOK
      <4>2. CASE k # l
        <5>1. sem'[k][1] = sem[k][1]
          BY <2>2, <4>2 DEF RlockedTry1, TypeOK
        <5>2. Uses(p, k)' <=> Uses(p, k)
          <6>1. pc[p] = "idle" /\ cur'[p] = l /\ reads' = reads
            BY <2>2 DEF RlockedTry1, TypeOK
          <6> QED
            BY <4>2, <6>1
        <5> QED
          BY <1>1, <5>1, <5>2
      <4> QED
        BY <4>1, <4>2
    <3> QED
      BY <3>1, <3>2, <1>2
  <2> QED
    BY <1>3, <2>1, <2>2 DEF Call
<1>4. CASE Step(p)
  <2>1. CASE WlockedGrab1(p) \/ WunlockFree1(p)
    <3>1. ReadsHeld(p) = {}
      BY <2>1 DEF WlockedGrab1, WunlockFree1, WritersReadNothing
    <3>2. \A l \in Locks : ~InRead(p, l)
      BY <3>1 DEF ReadsHeld
    <3> QED
      BY <2>1, <3>2, <1>1, <1>2 DEF WlockedGrab1, WunlockFree1, Take, Give, TypeOK
  <2>2. CASE WlockedGrab0(p) \/ RlockedGrab0(p)
    BY <2>2, <1>1, <1>2 DEF WlockedGrab0, RlockedGrab0, Take, TypeOK
  <2>3. CASE WunlockFree0(p)
    BY <2>3, <1>1, <1>2 DEF WunlockFree0, Give, TypeOK
  <2>4. CASE GrabFails(p)
    BY <2>4, <1>1, <1>2 DEF GrabFails, TypeOK
  <2>5. CASE RlockedFree0(p)
    BY <2>5, <1>1, <1>2 DEF RlockedFree0, Give, TypeOK
  <2> QED
    BY <1>4, <2>1, <2>2, <2>3, <2>4, <2>5 DEF Step
<1>5. ASSUME NEW l \in Locks, Runlock(p, l) PROVE Shift(p)
  <2>1. Moves
    BY <1>5 DEF Runlock, TypeOK
  <2>2. iRnum[p] = 1 => reads[p][l] = 1
    BY <1>5, <1>1, TicketsOfReads DEF Runlock
  <2>3. ASSUME NEW k \in Locks
        PROVE \/ sem'[k][1] + Weight(p, k)' <= sem[k][1] + Weight(p, k)
              \/ sem'[k][1] = 0
    <3>1. CASE iRnum[p] = 1 /\ Give(l, 1)
      <4>1. CASE k = l
        <5>1. sem'[l][1] = sem[l][1] + 1
          BY <3>1 DEF Give, TypeOK
        <5>2. Uses(p, l) /\ ~Uses(p, l)'
          <6>1. pc[p] = "idle" /\ pc' = pc /\ reads[p][l] = 1 /\ reads'[p][l] = reads[p][l] - 1
            BY <1>5, <2>2, <3>1 DEF Runlock, TypeOK
          <6> QED
            BY <6>1
        <5> QED
          BY <1>1, <4>1, <5>1, <5>2
      <4>2. CASE k # l
        <5>1. sem'[k][1] = sem[k][1]
          BY <3>1, <4>2 DEF Give, TypeOK
        <5>2. Uses(p, k)' <=> Uses(p, k)
          BY <1>5, <4>2 DEF Runlock, TypeOK
        <5> QED
          BY <1>1, <5>1, <5>2
      <4> QED
        BY <4>1, <4>2
    <3>2. CASE UNCHANGED sem
      BY <1>5, <1>1, <3>2 DEF Runlock, TypeOK
    <3> QED
      BY <1>5, <3>1, <3>2 DEF Runlock
  <2> QED
    BY <2>1, <2>3, <1>2
<1>6. CASE Die(p)
  BY <1>6, <1>1, <1>2 DEF Die
<1> QED
  BY <1>3, <1>4, <1>5, <1>6

\* The value of the write semaphore never gets beyond the number of processes,
\* though Runlock frees what its reader did not take and whatever times out or
\* dies: a reader makes a unit only where it is the one that found none.
THEOREM WriteSemaphoreBounded == Spec => []Sem1Bounded
<1>1. CountInv /\ TypeOK' /\ UnitsLimited /\ [Next]_vars => UnitsLimited'
  <2> SUFFICES ASSUME CountInv, TypeOK', UnitsLimited, [Next]_vars PROVE UnitsLimited'
    OBVIOUS
  <2>1. CASE Next
    <3>1. PICK p \in alive : Call(p) \/ Step(p) \/ (\E l \in Locks : Runlock(p, l)) \/ Die(p)
      BY <2>1 DEF Next
    <3>2. p \in Procs
      BY DEF CountInv, TypeOK
    <3> QED
      BY <3>1, <3>2, StepsShift, ShiftKeepsLimit DEF CountInv
  <2>2. CASE UNCHANGED vars
    BY <2>2 DEF vars, UnitsLimited, Users, Uses, InRead
  <2> QED
    BY <2>1, <2>2
<1>2. CountInv /\ UnitsLimited => Sem1Bounded
  <2> SUFFICES ASSUME CountInv, UnitsLimited, NEW l \in Locks
               PROVE  sem[l][1] <= Cardinality(Procs)
    BY DEF Sem1Bounded
  <2>1. Cardinality(Users(l)) \in Nat /\ Cardinality(Procs) \in Nat
    BY RWLockAssumption, FS_Subset, FS_CardinalityType DEF Users
  <2> QED
    BY <2>1 DEF CountInv, TypeOK, UnitsLimited
<1> QED
  BY <1>1, <1>2, CountInitially, CountHolds, TypeCorrect, PTL DEF Spec

-----------------------------------------------------------------------------
\* One read lock at a time and no timeouts, under which no unit is lost.
OneAtATime == MaxReads <= 1 /\ TRUE \notin Timed

\* Nobody gives up, and whoever asks for a read lock has none.
OneRead ==
    \A p \in Procs :
        /\ left[p] = "forever"
        /\ iRnum[p] <= 1
        /\ pc[p] \in {"r_grab0", "r_free0"} => iRnum[p] = 0

UnitsLeft == \A l \in Locks : sem[l][1] + Cardinality(Users(l)) >= 1

\* What one step does then: units and users together are never fewer.
Keep(p) ==
    \A l \in Locks :
        /\ \A q \in Procs \ {p} : Uses(q, l)' <=> Uses(q, l)
        /\ sem'[l][1] + Weight(p, l)' >= sem[l][1] + Weight(p, l)

\* Every step keeps to one read lock.
LEMMA OneReadStep ==
  ASSUME OneAtATime, CountInv, OneRead, [Next]_vars
  PROVE  OneRead'
<1> USE DEF CountInv, TypeOK, Goto, Left, PC, OneAtATime
<1>1. \A p \in Procs : iRnum[p] \in Nat
  BY RWLockAssumption, TicketsOfReads
<1>2. ASSUME NEW p \in alive, Call(p) PROVE OneRead'
  <2>1. ASSUME NEW l \in Locks, NEW t \in Timed, WlockedCall(p, l, t) PROVE OneRead'
    BY <2>1 DEF OneRead, WlockedCall
  <2>2. ASSUME NEW l \in Locks, NEW t \in Timed, RlockedTry1(p, l, t) PROVE OneRead'
    <3>1. t = FALSE
      BY RWLockAssumption
    <3>2. left'[p] = "forever" /\ \A q \in Procs : q # p => left'[q] = left[q]
      BY <2>2, <3>1 DEF RlockedTry1
    <3>3. iRnum[p] = 0
      <4>1. iRnum[p] \in Nat /\ iRnum[p] < MaxReads
        BY <1>1, <2>2 DEF RlockedTry1
      <4>2. MaxReads \in Nat /\ MaxReads <= 1
        BY RWLockAssumption
      <4> HIDE DEF TypeOK, OneAtATime
      <4> QED
        BY <4>1, <4>2
    <3> QED
      BY <2>2, <3>2, <3>3 DEF OneRead, RlockedTry1
  <2> QED
    BY <1>2, <2>1, <2>2 DEF Call
<1>3. ASSUME NEW p \in alive, WlockedGrab1(p) PROVE OneRead'
  <2>1. left'[p] = "forever"
    BY <1>3 DEF OneRead, WlockedGrab1, Elapse
  <2>2. \A q \in Procs : q # p => left'[q] = left[q]
    BY <1>3 DEF WlockedGrab1, Elapse
  <2> QED
    BY <1>3, <2>1, <2>2 DEF OneRead, WlockedGrab1
<1>4. ASSUME NEW p \in alive, WlockedGrab0(p) \/ WunlockFree0(p) \/ WunlockFree1(p)
                              \/ GrabFails(p) \/ RlockedGrab0(p)
      PROVE OneRead'
  BY <1>4 DEF OneRead, WlockedGrab0, WunlockFree0, WunlockFree1, GrabFails, RlockedGrab0
<1>5. ASSUME NEW p \in alive, RlockedFree0(p) PROVE OneRead'
  BY <1>5 DEF OneRead, RlockedFree0
<1>6. ASSUME NEW p \in alive, NEW l \in Locks, Runlock(p, l) PROVE OneRead'
  BY <1>6 DEF OneRead, Runlock
<1>7. ASSUME NEW p \in alive, Die(p) PROVE OneRead'
  BY <1>7 DEF OneRead, Die
<1>8. CASE UNCHANGED vars
  BY <1>8 DEF OneRead, vars
<1> QED
  BY <1>2, <1>3, <1>4, <1>5, <1>6, <1>7, <1>8 DEF Next, Step

\* A step that keeps units and users keeps at least one.
LEMMA KeepLeavesOne ==
  ASSUME TypeOK, TypeOK', UnitsLeft, NEW p \in Procs, Keep(p)
  PROVE  UnitsLeft'
<1> SUFFICES ASSUME NEW l \in Locks
             PROVE  sem'[l][1] + Cardinality(Users(l)') >= 1
  BY DEF UnitsLeft
<1>1. sem[l][1] \in Nat /\ sem'[l][1] \in Nat /\ Weight(p, l) \in Nat /\ Weight(p, l)' \in Nat
  BY DEF TypeOK, Weight
<1>2. sem[l][1] + Cardinality(Users(l)) >= 1
  BY DEF UnitsLeft
<1>3. /\ Cardinality(Users(l)) \in Nat /\ Cardinality(Users(l)') \in Nat
      /\ Cardinality(Users(l)') - Weight(p, l)' = Cardinality(Users(l)) - Weight(p, l)
  BY UsersStep DEF Keep
<1>4. sem'[l][1] + Weight(p, l)' >= sem[l][1] + Weight(p, l)
  BY DEF Keep
<1> QED
  BY <1>1, <1>2, <1>3, <1>4

\* Every step is of that kind.
LEMMA StepsKeep ==
  ASSUME OneAtATime, CountInv, OneRead, NEW p \in alive,
         Call(p) \/ Step(p) \/ (\E l \in Locks : Runlock(p, l)) \/ Die(p)
  PROVE  Keep(p)
<1> USE DEF CountInv
<1>1. /\ p \in Procs
      /\ \A l \in Locks : sem[l][1] \in Nat /\ reads[p][l] \in Nat /\ cur[p] \in Locks
  BY DEF TypeOK
<1>2. ASSUME \A l \in Locks : sem'[l][1] + Weight(p, l)' >= sem[l][1] + Weight(p, l)
      PROVE Keep(p)
  BY <1>1, <1>2, StepsShift DEF Keep, Shift
<1>3. \A l \in Locks : iRnum[p] = 0 => ~InRead(p, l)
  BY <1>1, TicketsOfReads DEF InRead
<1> USE DEF Weight, Uses, InRead, UsingPC, Goto
<1>4. CASE Call(p)
  <2>1. ASSUME NEW l \in Locks, NEW t \in Timed, WlockedCall(p, l, t) PROVE Keep(p)
    BY <2>1, <1>1, <1>2 DEF WlockedCall, TypeOK
  <2>2. ASSUME NEW l \in Locks, NEW t \in Timed, RlockedTry1(p, l, t) PROVE Keep(p)
    <3>1. /\ pc[p] = "idle" /\ cur'[p] = l /\ reads' = reads /\ pc'[p] = "r_grab0"
          /\ iRnum' = iRnum
      BY <2>2 DEF RlockedTry1, TypeOK
    <3>2. iRnum[p] = 0
      <4>1. OneRead'
        BY <2>2, OneReadStep, <1>4 DEF Next
      <4> QED
        BY <1>1, <3>1, <4>1 DEF OneRead
    <3>3. ASSUME NEW k \in Locks
          PROVE  sem'[k][1] + Weight(p, k)' >= sem[k][1] + Weight(p, k)
      <4>1. ~Uses(p, k)
        BY <1>3, <3>1, <3>2
      <4>2. CASE k = l
        <5>1. Uses(p, k)'
          BY <3>1, <4>2
        <5>2. sem'[k][1] >= sem[k][1] - 1 /\ sem'[k][1] \in Int
          BY <2>2, <1>1, <4>2 DEF RlockedTry1, TypeOK
        <5> QED
          BY <1>1, <4>1, <5>1, <5>2
      <4>3. CASE k # l
        <5>1. sem'[k][1] = sem[k][1]
          BY <2>2, <4>3 DEF RlockedTry1, TypeOK
        <5> QED
          BY <1>1, <4>1, <5>1
      <4> QED
        BY <4>2, <4>3
    <3> QED
      BY <3>3, <1>2
  <2> QED
    BY <1>4, <2>1, <2>2 DEF Call
<1>5. CASE Step(p)
  <2>1. CASE WlockedGrab1(p) \/ WunlockFree1(p)
    <3>1. ReadsHeld(p) = {}
      BY <1>1, <2>1 DEF WlockedGrab1, WunlockFree1, WritersReadNothing
    <3>2. \A l \in Locks : ~InRead(p, l)
      BY <3>1 DEF ReadsHeld
    <3> QED
      BY <2>1, <3>2, <1>1, <1>2 DEF WlockedGrab1, WunlockFree1, Take, Give, TypeOK
  <2>2. CASE WlockedGrab0(p) \/ RlockedGrab0(p)
    BY <2>2, <1>1, <1>2 DEF WlockedGrab0, RlockedGrab0, Take, TypeOK
  <2>3. CASE WunlockFree0(p)
    BY <2>3, <1>1, <1>2 DEF WunlockFree0, Give, TypeOK
  <2>4. CASE GrabFails(p)
    BY <1>1, <2>4 DEF GrabFails, OneRead
  <2>5. CASE RlockedFree0(p)
    BY <2>5, <1>1, <1>2 DEF RlockedFree0, Give, TypeOK
  <2> QED
    BY <1>5, <2>1, <2>2, <2>3, <2>4, <2>5 DEF Step
<1>6. ASSUME NEW l \in Locks, Runlock(p, l) PROVE Keep(p)
  <2>1. iRnum[p] = 1 /\ Give(l, 1)
    <3>1. iRnum[p] \in Nat /\ iRnum[p] <= 1 /\ iRnum[p] # 0
      BY <1>1, <1>3, <1>6, TicketsOfReads DEF Runlock, OneRead
    <3> QED
      BY <1>6, <3>1 DEF Runlock
  <2>2. ASSUME NEW k \in Locks
        PROVE  sem'[k][1] + Weight(p, k)' >= sem[k][1] + Weight(p, k)
    <3>1. CASE k = l
      <4>1. sem'[l][1] = sem[l][1] + 1
        BY <2>1 DEF Give, TypeOK
      <4> QED
        BY <1>1, <3>1, <4>1
    <3>2. CASE k # l
      <4>1. sem'[k][1] = sem[k][1]
        BY <2>1, <3>2 DEF Give, TypeOK
      <4>2. Uses(p, k)' <=> Uses(p, k)
        BY <1>6, <3>2 DEF Runlock, TypeOK
      <4> QED
        BY <1>1, <4>1, <4>2
    <3> QED
      BY <3>1, <3>2
  <2> QED
    BY <1>2, <2>2
<1>7. CASE Die(p)
  BY <1>7, <1>1, <1>2 DEF Die
<1> QED
  BY <1>4, <1>5, <1>6, <1>7

\* A lock nobody is using can be written, for any number of processes and locks:
\* with one read lock at a time, and nobody who gives up, the reader that skips
\* semaphore 1 gives back at its unlock what a process after it will find.
THEOREM IdleLocksCanBeWritten == OneAtATime /\ Spec => []IdleLockWritable
<1>1. Init => OneRead /\ UnitsLeft
  <2> SUFFICES ASSUME Init PROVE OneRead /\ UnitsLeft
    OBVIOUS
  <2>1. OneRead
    BY DEF Init, OneRead
  <2>2. \A l \in Locks : Users(l) = {} /\ sem[l][1] = 1
    BY DEF Init, Users, Uses, InRead, UsingPC
  <2> QED
    BY <2>1, <2>2, FS_EmptySet DEF UnitsLeft
<1>2. OneAtATime /\ CountInv /\ TypeOK' /\ OneRead /\ UnitsLeft /\ [Next]_vars => OneRead' /\ UnitsLeft'
  <2> SUFFICES ASSUME OneAtATime, CountInv, TypeOK', OneRead, UnitsLeft, [Next]_vars
               PROVE  OneRead' /\ UnitsLeft'
    OBVIOUS
  <2>1. CASE Next
    <3>1. PICK p \in alive : Call(p) \/ Step(p) \/ (\E l \in Locks : Runlock(p, l)) \/ Die(p)
      BY <2>1 DEF Next
    <3>2. p \in Procs
      BY DEF CountInv, TypeOK
    <3>3. Keep(p)
      BY <3>1, <3>2, StepsKeep
    <3> QED
      BY <3>2, <3>3, OneReadStep, KeepLeavesOne DEF CountInv
  <2>2. CASE UNCHANGED vars
    BY <2>2, OneReadStep DEF vars, UnitsLeft, Users, Uses, InRead
  <2> QED
    BY <2>1, <2>2
<1>3. CountInv /\ UnitsLeft => IdleLockWritable
  <2> SUFFICES ASSUME CountInv, UnitsLeft, NEW l \in Locks,
                      \A p \in Procs : pc[p] = "idle" /\ ~InRead(p, l)
               PROVE  sem[l][1] > 0
    BY DEF IdleLockWritable
  <2>1. Users(l) = {}
    BY DEF Users, Uses, UsingPC
  <2>2. sem[l][1] \in Nat /\ sem[l][1] + Cardinality(Users(l)) >= 1
    BY DEF CountInv, TypeOK, UnitsLeft
  <2> QED
    BY <2>1, <2>2, FS_EmptySet
<1> SUFFICES ASSUME OneAtATime PROVE Spec => []IdleLockWritable
  OBVIOUS
<1>4. OneRead /\ UnitsLeft /\ CountInv /\ TypeOK' /\ [Next]_vars => OneRead' /\ UnitsLeft'
  BY <1>2
<1> QED
  BY <1>1, <1>3, <1>4, CountHolds, TypeCorrect, PTL DEF Spec

-----------------------------------------------------------------------------
\* A step that leaves who reads and who writes alone leaves the gate alone.
LEMMA GateFrame ==
    ASSUME \A p \in Procs, l \in Locks : InWrite(p, l)' <=> InWrite(p, l),
           \A p \in Procs, l \in Locks : InRead(p, l)' <=> InRead(p, l)
    PROVE  UNCHANGED Gate!gateVars
BY DEF Gate!gateVars, WritingPairs, ReadingPairs

\* The steps of vipc_sem_Wlocked, Wunlock, Rlocked and Runlock that matter to
\* the callers are those of the gate, for every number of processes and locks:
\* the holder of semaphore 0 is the only one who can pass it.
THEOREM LockIsGate == Spec => ImplementsGate
<1>1. Init => Gate!GateInit
  BY DEF Init, Gate!GateInit, WritingPairs, ReadingPairs, InWrite, InRead
<1>2. TypeOK /\ Sem0Conserved /\ [Next]_vars => [Gate!GateNext]_(Gate!gateVars)
  <2> SUFFICES ASSUME TypeOK, Sem0Conserved, [Next]_vars
               PROVE Gate!GateNext \/ UNCHANGED Gate!gateVars
    OBVIOUS
  <2>1. ASSUME NEW p \in alive, NEW l \in Locks, NEW t \in Timed,
               WlockedCall(p, l, t) \/ RlockedTry1(p, l, t)
        PROVE UNCHANGED Gate!gateVars
    BY <2>1, GateFrame DEF WlockedCall, RlockedTry1, Goto, InWrite, InRead, TypeOK
  <2>2. ASSUME NEW p \in alive,
               WlockedGrab1(p) \/ GrabFails(p) \/ WunlockFree1(p) \/ RlockedGrab0(p) \/ Die(p)
        PROVE UNCHANGED Gate!gateVars
    BY <2>2, GateFrame
       DEF WlockedGrab1, GrabFails, WunlockFree1, RlockedGrab0, Die, Goto, InWrite, InRead, TypeOK
  <2>3. ASSUME NEW p \in alive, WlockedGrab0(p) PROVE Gate!GateNext
    <3>1. p \in Procs /\ cur[p] \in Locks
      BY DEF TypeOK
    <3>2. Gate!Open(cur[p])
      <4>1. sem[cur[p]][0] > 0
        BY <2>3 DEF WlockedGrab0, Take
      <4>2. \A q \in Procs : ~HasSem0(q, cur[p])
        BY <3>1, <4>1 DEF Sem0Conserved
      <4> QED
        BY <4>2, <3>1 DEF Gate!Open, WritingPairs, InWrite, HasSem0
    <3>3. WritingPairs' = WritingPairs \cup {<<p, cur[p]>>}
      BY <2>3, <3>1 DEF WlockedGrab0, Goto, WritingPairs, InWrite, TypeOK
    <3>4. UNCHANGED ReadingPairs
      BY <2>3 DEF WlockedGrab0, ReadingPairs, InRead
    <3> QED
      BY <3>1, <3>2, <3>3, <3>4 DEF Gate!GateNext, Gate!Wlocked
  <2>4. ASSUME NEW p \in alive, WunlockFree0(p) PROVE Gate!GateNext
    <3>1. p \in Procs /\ cur[p] \in Locks
      BY DEF TypeOK
    <3>2. WritingPairs' = WritingPairs \ {<<p, cur[p]>>}
      BY <2>4, <3>1 DEF WunlockFree0, Goto, WritingPairs, InWrite, TypeOK
    <3>3. UNCHANGED ReadingPairs
      BY <2>4 DEF WunlockFree0, ReadingPairs, InRead
    <3> QED
      BY <3>1, <3>2, <3>3 DEF Gate!GateNext, Gate!Wunlock
  <2>5. ASSUME NEW p \in alive, RlockedFree0(p) PROVE Gate!GateNext
    <3>1. p \in Procs /\ cur[p] \in Locks
      BY DEF TypeOK
    <3>2. Gate!Open(cur[p])
      <4>1. HasSem0(p, cur[p]) /\ pc[p] = "r_free0"
        BY <2>5 DEF RlockedFree0, HasSem0
      <4>2. \A q \in Procs : HasSem0(q, cur[p]) => q = p
        BY <3>1, <4>1 DEF Sem0Conserved
      <4> QED
        BY <4>1, <4>2, <3>1 DEF Gate!Open, WritingPairs, InWrite, HasSem0
    <3>3. UNCHANGED WritingPairs
      BY <2>5 DEF RlockedFree0, Goto, WritingPairs, InWrite, TypeOK
    <3>4. ReadingPairs' = ReadingPairs \cup {<<p, cur[p]>>}
      BY <2>5, <3>1 DEF RlockedFree0, ReadingPairs, InRead, TypeOK
    <3> QED
      BY <3>1, <3>2, <3>3, <3>4 DEF Gate!GateNext, Gate!Rlocked
  <2>6. ASSUME NEW p \in alive, NEW l \in Locks, Runlock(p, l)
        PROVE Gate!GateNext \/ UNCHANGED Gate!gateVars
    <3>1. p \in Procs
      BY DEF TypeOK
    <3>2. UNCHANGED WritingPairs
      BY <2>6 DEF Runlock, WritingPairs, InWrite
    <3>3. CASE reads[p][l] = 1
      <4>1. ReadingPairs' = ReadingPairs \ {<<p, l>>}
        BY <2>6, <3>1, <3>3 DEF Runlock, ReadingPairs, InRead, TypeOK
      <4> QED
        BY <3>1, <3>2, <4>1 DEF Gate!GateNext, Gate!Runlock
    <3>4. CASE reads[p][l] # 1
      <4>1. UNCHANGED ReadingPairs
        BY <2>6, <3>1, <3>4 DEF Runlock, ReadingPairs, InRead, TypeOK
      <4> QED
        BY <3>2, <4>1 DEF Gate!gateVars
    <3> QED
      BY <3>3, <3>4
  <2>7. CASE UNCHANGED vars
    BY <2>7, GateFrame DEF vars, InWrite, InRead
  <2> QED
    BY <2>1, <2>2, <2>3, <2>4, <2>5, <2>6, <2>7 DEF Next, Call, Step
<1> QED
  BY <1>1, <1>2, TypeCorrect, Conservation, PTL DEF Spec, ImplementsGate, Gate!GateSpec

=============================================================================
