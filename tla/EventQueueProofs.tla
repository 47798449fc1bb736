-------------------------- MODULE EventQueueProofs --------------------------
(***************************************************************************)
(* The event queue of the thread pool, for any producers, workers,         *)
(* priorities and number of tasks: eventQ->lock excludes, the counter      *)
(* matches the list, the list is in the order of service and a worker let  *)
(* through finds a task.                                                   *)
(*                                                                         *)
(* CountMatches needs OwnerAlone (two owners would count twice),       *)
(* PopFindsTask needs CountMatches (num # 0 means a task is there), and    *)
(* Ordered needs to know that a task arrives after those in the list.      *)
(***************************************************************************)
EXTENDS EventQueue, FiniteSetTheorems, WellFoundedInduction, TLAPS

-----------------------------------------------------------------------------
\* What the operations of eventlist.c do, for every list and priority.

\* A non-empty set of naturals has a least element.
LEMMA NatMin ==
  ASSUME NEW T, T \subseteq Nat, T # {}
  PROVE  \E x \in T : \A y \in T : x <= y
<1> DEFINE R == OpToRel(<, Nat)
<1>1. \E x \in T : \A y \in T : ~ (<<y, x>> \in R)
  <2> HIDE DEF R
  <2>1. IsWellFoundedOn(R, Nat)
    BY NatLessThanWellFounded DEF R
  <2> QED
    BY <2>1, WFMin
<1>2. \A x, y \in Nat : <<y, x>> \in R <=> y < x
  BY DEF OpToRel
<1> HIDE DEF R
<1>3. PICK x \in T : \A y \in T : ~ (<<y, x>> \in R)
  BY <1>1
<1>4. \A y \in T : ~ (y < x)
  BY <1>2, <1>3
<1>5. \A y \in T : x <= y
  BY <1>4
<1> QED
  BY <1>5

\* A non-empty set of numbers up to n has a greatest element.
LEMMA MaxUpTo ==
  ASSUME NEW n \in Nat, NEW S, S \subseteq 0..n, S # {}
  PROVE  Max(S) \in S /\ \A x \in S : x <= Max(S)
<1> DEFINE T == {n - x : x \in S}
<1>1. PICK m \in T : \A y \in T : m <= y
  <2>1. \A x \in S : n - x \in Nat
    OBVIOUS
  <2>2. T \subseteq Nat /\ T # {}
    BY <2>1
  <2> HIDE DEF T
  <2> QED
    BY <2>2, NatMin
<1>2. PICK x \in S : m = n - x
  BY <1>1
<1>3. \A y \in S : x >= y
  <2> SUFFICES ASSUME NEW y \in S PROVE x >= y
    OBVIOUS
  <2>1. m <= n - y
    BY <1>1
  <2> QED
    BY <2>1, <1>2
<1>4. \E z \in S : \A y \in S : z >= y
  BY <1>3
<1>5. Max(S) \in S /\ \A y \in S : Max(S) >= y
  BY <1>4 DEF Max
<1> QED
  BY <1>5

\* Where the walk of EventListADD stops: behind a node whose priority is not
\* greater than the new one or before the head, with greater ones only after.
LEMMA StopOfWalkProps ==
  ASSUME NEW l \in Seq(Task), NEW k \in Int
  PROVE  /\ StopOfWalk(l, k) \in 0..Len(l)
         /\ StopOfWalk(l, k) = 0 \/ l[StopOfWalk(l, k)].prio <= k
         /\ \A j \in 1..Len(l) : j > StopOfWalk(l, k) => l[j].prio > k
<1> DEFINE S == {0} \cup {i \in 1..Len(l) : l[i].prio <= k}
<1>1. S \subseteq 0..Len(l) /\ S # {} /\ Len(l) \in Nat
  OBVIOUS
<1>2. Max(S) \in S /\ \A x \in S : x <= Max(S)
  BY <1>1, MaxUpTo
<1>3. Max(S) = StopOfWalk(l, k)
  BY DEF StopOfWalk
<1>4. ASSUME NEW j \in 1..Len(l) PROVE l[j].prio \in Int
  <2>1. l[j] \in Task
    OBVIOUS
  <2> QED
    BY <2>1, PrioritiesAssumption DEF Task
<1>5. ASSUME NEW j \in 1..Len(l), j > Max(S) PROVE l[j].prio > k
  <2>1. j \notin S
    BY <1>2, <1>1, <1>5
  <2> QED
    BY <2>1, <1>4
<1> QED
  BY <1>1, <1>2, <1>3, <1>5

\* EventListADD puts one node in and shifts those behind it.
LEMMA EventListADDProps ==
  ASSUME NEW l \in Seq(Task), NEW t \in Task
  PROVE  LET s == StopOfWalk(l, t.prio)
             r == EventListADD(l, t)
         IN  /\ r \in Seq(Task)
             /\ Len(r) = Len(l) + 1
             /\ \A i \in 1..s : r[i] = l[i]
             /\ r[s + 1] = t
             /\ \A i \in (s + 2)..(Len(l) + 1) : r[i] = l[i - 1]
<1> DEFINE s == StopOfWalk(l, t.prio)
           a == SubSeq(l, 1, s)
           b == SubSeq(l, s + 1, Len(l))
           r == EventListADD(l, t)
<1>0. t.prio \in Int
  BY PrioritiesAssumption DEF Task
<1>1. s \in 0..Len(l) /\ Len(l) \in Nat
  BY <1>0, StopOfWalkProps
<1> HIDE DEF s
<1>2. a \in Seq(Task) /\ Len(a) = s /\ \A i \in 1..s : a[i] = l[i]
  BY <1>1
<1>3. b \in Seq(Task) /\ Len(b) = Len(l) - s /\ \A i \in 1..(Len(l) - s) : b[i] = l[s + i]
  BY <1>1
<1>4. r = a \o <<t>> \o b
  <2>1. (s + 1) - 1 = s
    BY <1>1
  <2> QED
    BY <2>1 DEF EventListADD, InsertAt, s
<1> HIDE DEF a, b, r
<1>5. r \in Seq(Task) /\ Len(r) = Len(l) + 1
  BY <1>1, <1>2, <1>3, <1>4
<1>6. \A i \in 1..s : r[i] = l[i]
  BY <1>1, <1>2, <1>3, <1>4
<1>7. r[s + 1] = t
  BY <1>1, <1>2, <1>3, <1>4
<1>8. ASSUME NEW i \in (s + 2)..(Len(l) + 1) PROVE r[i] = l[i - 1]
  <2> DEFINE j == i - s - 1
  <2>1. j \in 1..(Len(l) - s) /\ i = (s + 1) + j /\ s + j = i - 1
    BY <1>1
  <2> HIDE DEF j
  <2>2. r[(s + 1) + j] = b[j]
    BY <1>1, <1>2, <1>3, <1>4, <2>1
  <2> QED
    BY <2>1, <2>2, <1>3
<1> QED
  BY <1>5, <1>6, <1>7, <1>8, Zenon DEF s, r

-----------------------------------------------------------------------------
\* EventListADD keeps a list in the order of service, when the new task is the
\* last to arrive.
LEMMA EventListADDKeepsOrder ==
  ASSUME NEW l \in Seq(Task), NEW t \in Task, InServiceOrder(l),
         \A i \in 1..Len(l) : l[i].no < t.no
  PROVE  InServiceOrder(EventListADD(l, t))
<1> DEFINE s == StopOfWalk(l, t.prio)
           r == EventListADD(l, t)
<1>1. t.prio \in Int /\ t.no \in Nat
  BY PrioritiesAssumption DEF Task
<1>2. \A i \in 1..Len(l) : l[i].prio \in Int /\ l[i].no \in Nat
  <2> SUFFICES ASSUME NEW i \in 1..Len(l) PROVE l[i].prio \in Int /\ l[i].no \in Nat
    OBVIOUS
  <2>1. l[i] \in Task
    OBVIOUS
  <2> QED
    BY <2>1, PrioritiesAssumption DEF Task
<1>3. /\ s \in 0..Len(l) /\ Len(l) \in Nat
      /\ s = 0 \/ l[s].prio <= t.prio
      /\ \A j \in 1..Len(l) : j > s => l[j].prio > t.prio
  <2>1. Len(l) \in Nat
    OBVIOUS
  <2> QED
    BY <1>1, <2>1, StopOfWalkProps, Zenon
<1>4. /\ Len(r) = Len(l) + 1
      /\ \A i \in 1..s : r[i] = l[i]
      /\ r[s + 1] = t
      /\ \A i \in (s + 2)..(Len(l) + 1) : r[i] = l[i - 1]
  BY EventListADDProps, Zenon
<1> HIDE DEF s, r
<1>5. ASSUME NEW i \in 1..Len(l), i <= s PROVE l[i].prio <= t.prio
  <2>1. CASE i = s
    BY <2>1, <1>3
  <2>2. CASE i < s
    <3>1. s \in 1..Len(l) /\ l[s].prio <= t.prio
      BY <2>2, <1>3
    <3>2. l[i].prio \in Int /\ l[s].prio \in Int
      BY <3>1, <1>2
    <3>3. l[i].prio <= l[s].prio
      BY <3>1, <3>2, <2>2 DEF InServiceOrder
    <3> QED
      BY <3>1, <3>2, <3>3, <1>1
  <2> QED
    BY <2>1, <2>2, <1>3, <1>5
<1>6. ASSUME NEW i \in 1..Len(r), NEW j \in 1..Len(r), i < j
      PROVE  \/ r[i].prio < r[j].prio
             \/ r[i].prio = r[j].prio /\ r[i].no < r[j].no
  <2>1. CASE j <= s
    <3>1. r[i] = l[i] /\ r[j] = l[j] /\ i \in 1..Len(l) /\ j \in 1..Len(l)
      BY <2>1, <1>3, <1>4, <1>6
    <3>2. \/ l[i].prio < l[j].prio
          \/ l[i].prio = l[j].prio /\ l[i].no < l[j].no
      BY <3>1, <1>6, Zenon DEF InServiceOrder
    <3> QED
      BY <3>1, <3>2, Zenon
  <2>2. CASE j = s + 1
    <3>1. r[i] = l[i] /\ r[j] = t /\ i \in 1..Len(l) /\ i <= s
      BY <2>2, <1>3, <1>4, <1>6
    <3>2. l[i].prio <= t.prio /\ l[i].no < t.no
      BY <3>1, <1>5
    <3> QED
      BY <3>1, <3>2, <1>1, <1>2
  <2>3. CASE j > s + 1 /\ i = s + 1
    <3>1. r[i] = t /\ r[j] = l[j - 1] /\ j - 1 \in 1..Len(l) /\ j - 1 > s
      BY <2>3, <1>3, <1>4, <1>6
    <3> QED
      BY <3>1, <1>3
  <2>4. CASE j > s + 1 /\ i <= s
    <3>1. r[i] = l[i] /\ r[j] = l[j - 1] /\ i \in 1..Len(l) /\ j - 1 \in 1..Len(l) /\ i < j - 1
      BY <2>4, <1>3, <1>4, <1>6
    <3>2. \/ l[i].prio < l[j - 1].prio
          \/ l[i].prio = l[j - 1].prio /\ l[i].no < l[j - 1].no
      BY <3>1, Zenon DEF InServiceOrder
    <3> QED
      BY <3>1, <3>2, Zenon
  <2>5. CASE j > s + 1 /\ i > s + 1
    <3>1. /\ r[i] = l[i - 1] /\ r[j] = l[j - 1]
          /\ i - 1 \in 1..Len(l) /\ j - 1 \in 1..Len(l) /\ i - 1 < j - 1
      BY <2>5, <1>3, <1>4, <1>6
    <3>2. \/ l[i - 1].prio < l[j - 1].prio
          \/ l[i - 1].prio = l[j - 1].prio /\ l[i - 1].no < l[j - 1].no
      BY <3>1, Zenon DEF InServiceOrder
    <3> QED
      BY <3>1, <3>2, Zenon
  <2> QED
    BY <2>1, <2>2, <2>3, <2>4, <2>5, <1>3, <1>4, <1>6
<1> QED
  BY <1>6 DEF InServiceOrder, r

\* EventListADD adds the task and nothing else.
LEMMA EventListADDAdds ==
  ASSUME NEW l \in Seq(Task), NEW t \in Task
  PROVE  {EventListADD(l, t)[i] : i \in 1..Len(EventListADD(l, t))}
           = {l[i] : i \in 1..Len(l)} \cup {t}
<1> DEFINE s == StopOfWalk(l, t.prio)
           r == EventListADD(l, t)
<1>1. t.prio \in Int
  BY PrioritiesAssumption DEF Task
<1>2. s \in 0..Len(l) /\ Len(l) \in Nat
  BY <1>1, StopOfWalkProps
<1>3. /\ Len(r) = Len(l) + 1
      /\ \A i \in 1..s : r[i] = l[i]
      /\ r[s + 1] = t
      /\ \A i \in (s + 2)..(Len(l) + 1) : r[i] = l[i - 1]
  BY EventListADDProps, Zenon
<1> HIDE DEF s, r
<1>4. ASSUME NEW i \in 1..Len(r) PROVE r[i] \in {l[j] : j \in 1..Len(l)} \cup {t}
  <2>1. CASE i <= s
    BY <2>1, <1>2, <1>3, <1>4
  <2>2. CASE i = s + 1
    BY <2>2, <1>3
  <2>3. CASE i > s + 1
    <3>1. r[i] = l[i - 1] /\ i - 1 \in 1..Len(l)
      BY <2>3, <1>2, <1>3, <1>4
    <3> QED
      BY <3>1
  <2> QED
    BY <2>1, <2>2, <2>3, <1>2, <1>3, <1>4
<1>5. \E i \in 1..Len(r) : r[i] = t
  BY <1>2, <1>3
<1>6. ASSUME NEW j \in 1..Len(l) PROVE \E i \in 1..Len(r) : r[i] = l[j]
  <2>1. CASE j <= s
    BY <2>1, <1>2, <1>3, <1>6
  <2>2. CASE j > s
    <3>1. j + 1 \in (s + 2)..(Len(l) + 1) /\ j + 1 \in 1..Len(r) /\ (j + 1) - 1 = j
      BY <2>2, <1>2, <1>3, <1>6
    <3>2. r[j + 1] = l[j]
      BY <3>1, <1>3
    <3> QED
      BY <3>1, <3>2
  <2> QED
    BY <2>1, <2>2, <1>2, <1>6
<1>7. {r[i] : i \in 1..Len(r)} = {l[i] : i \in 1..Len(l)} \cup {t}
  BY <1>4, <1>5, <1>6
<1> QED
  BY <1>7 DEF r

\* EventListPop keeps the order and takes the first task in it.
LEMMA EventListPopProps ==
  ASSUME NEW l \in Seq(Task), l # <<>>, InServiceOrder(l)
  PROVE  /\ EventListPop(l) \in Seq(Task)
         /\ Len(EventListPop(l)) = Len(l) - 1
         /\ \A i \in 1..Len(EventListPop(l)) : EventListPop(l)[i] = l[i + 1]
         /\ InServiceOrder(EventListPop(l))
         /\ Head(l) = l[1] /\ Head(l) \in Task /\ Len(l) \in Nat \ {0}
<1>1. Head(l) = l[1] /\ Head(l) \in Task /\ Len(l) \in Nat \ {0}
  OBVIOUS
<1>2. /\ EventListPop(l) \in Seq(Task)
      /\ Len(EventListPop(l)) = Len(l) - 1
      /\ \A i \in 1..Len(EventListPop(l)) : EventListPop(l)[i] = l[i + 1]
  BY DEF EventListPop
<1>3. InServiceOrder(EventListPop(l))
  <2> SUFFICES ASSUME NEW i \in 1..(Len(l) - 1), NEW j \in 1..(Len(l) - 1), i < j
               PROVE  \/ l[i + 1].prio < l[j + 1].prio
                      \/ l[i + 1].prio = l[j + 1].prio /\ l[i + 1].no < l[j + 1].no
    BY <1>2 DEF InServiceOrder
  <2>1. i + 1 \in 1..Len(l) /\ j + 1 \in 1..Len(l) /\ i + 1 < j + 1
    BY <1>1
  <2> QED
    BY <2>1 DEF InServiceOrder
<1> QED
  BY <1>1, <1>2, <1>3

-----------------------------------------------------------------------------
\* The queue around the list.

\* Every task in the list arrived before the next one will.
Arrivals == \A i \in 1..Len(elist) : elist[i].no < arrived

\* The inductive invariant.
IInv == TypeOK /\ QueueExclusion /\ OwnerAlone /\ CountMatches /\ PopFindsTask /\ Ordered /\ Arrivals

LEMMA InitIInv ==
  Init => IInv
<1> SUFFICES ASSUME Init PROVE IInv
  OBVIOUS
<1>0. <<>> \in Seq(Task) /\ 0 \in Nat /\ 0 \in Int
  OBVIOUS
<1>1. TypeOK
  BY <1>0, EventQueueAssumption, Zenon DEF Init, TypeOK, Threads, ProducerPC, ConsumerPC
<1>2. OwnerAlone
  BY EventQueueAssumption DEF Init, OwnerAlone, Inside, Threads
<1>4. QueueExclusion
  <2>1. {t \in Threads : Inside(t) /\ lock # t} = {}
    BY EventQueueAssumption DEF Init, Inside, Threads
  <2> QED
    BY <2>1, FS_EmptySet DEF Init, QueueExclusion
<1>3. CountMatches /\ PopFindsTask /\ Ordered /\ Arrivals
  BY EventQueueAssumption
  DEF Init, CountMatches, PopFindsTask, Ordered, InServiceOrder, Arrivals, Threads
<1> QED
  BY <1>1, <1>2, <1>3, <1>4 DEF IInv


\* A step keeps the types.
LEMMA TypeKept ==
  ASSUME IInv, [Next]_vars
  PROVE  TypeOK'
<1> USE EventQueueAssumption DEF Threads, TypeOK, ProducerPC, ConsumerPC, IInv
<1>1. ASSUME NEW p \in Producers, AddCheck(p) PROVE TypeOK'
  BY <1>1 DEF AddCheck, Goto
<1>2. ASSUME NEW p \in Producers, AddLock(p) PROVE TypeOK'
  BY <1>2 DEF AddLock, Lock, Goto
<1>3. ASSUME NEW p \in Producers, NEW k \in Priorities, AddInsert(p, k) PROVE TypeOK'
  <2>1. [prio |-> k, no |-> arrived] \in Task
    BY DEF Task
  <2>2. elist' \in Seq(Task)
    BY <1>3, <2>1, EventListADDProps, Zenon DEF AddInsert
  <2> QED
    BY <1>3, <2>2 DEF AddInsert, Goto
<1>4. ASSUME NEW p \in Producers, AddCount(p) PROVE TypeOK'
  BY <1>4 DEF AddCount, Signal, Goto
<1>5. ASSUME NEW p \in Producers, AddUnlock(p) PROVE TypeOK'
  BY <1>5 DEF AddUnlock, Unlock, Goto
<1>6. ASSUME NEW c \in Consumers, PopCheck(c) PROVE TypeOK'
  BY <1>6 DEF PopCheck, Goto
<1>7. ASSUME NEW c \in Consumers, PopLock(c) PROVE TypeOK'
  BY <1>7 DEF PopLock, Lock, Goto
<1>8. ASSUME NEW c \in Consumers, PopTest(c) PROVE TypeOK'
  BY <1>8 DEF PopTest, Unlock, Goto
<1>9. ASSUME NEW c \in Consumers, PopHead(c) PROVE TypeOK'
  <2>1. CASE elist = <<>>
    BY <1>9, <2>1 DEF PopHead, Goto
  <2>2. CASE elist # <<>>
    <3>1. Tail(elist) \in Seq(Task) /\ Head(elist) \in Task
      BY <2>2
    <3> QED
      BY <1>9, <2>2, <3>1, ZenonT(60) DEF PopHead, EventListPop, Goto
  <2> QED
    BY <2>1, <2>2
<1>10. ASSUME NEW c \in Consumers, PopCount(c) PROVE TypeOK'
  BY <1>10 DEF PopCount, Goto
<1>11. ASSUME NEW c \in Consumers, PopUnlock(c) PROVE TypeOK'
  BY <1>11 DEF PopUnlock, Unlock, Goto
<1>12. ASSUME NEW c \in Consumers, PopSpurious(c) PROVE TypeOK'
  BY <1>12 DEF PopSpurious, Goto
<1>13. ASSUME NEW c \in Consumers, CancelWaiting(c) PROVE TypeOK'
  BY <1>13 DEF CancelWaiting, Goto
<1>14. ASSUME NEW c \in Consumers, CancelRelock(c) PROVE TypeOK'
  BY <1>14 DEF CancelRelock, Lock, Goto
<1>15. ASSUME NEW c \in Consumers, CancelUnlock(c) PROVE TypeOK'
  BY <1>15 DEF CancelUnlock, Tpool_threadclean, Unlock, Goto
<1>16. ASSUME NEW t \in Threads, Late(t) PROVE TypeOK'
  BY <1>16 DEF Late, Goto
<1>17. CASE ClearStatus
  BY <1>17 DEF ClearStatus
<1>18. CASE ClearList
  BY <1>18 DEF ClearList
<1>19. CASE UNCHANGED vars
  BY <1>19 DEF vars
<1>20. ASSUME NEW c \in Consumers, LeaveOutside(c) PROVE TypeOK'
  BY <1>20 DEF LeaveOutside, Tpool_threadclean, Unlock, Goto
<1>21. ASSUME NEW t \in Threads, Torn(t) PROVE TypeOK'
  BY <1>21 DEF Torn, Goto
<1> HIDE EventQueueAssumption DEF Threads, TypeOK, ProducerPC, ConsumerPC
<1> QED
  BY <1>1, <1>2, <1>3, <1>4, <1>5, <1>6, <1>7, <1>8, <1>9, <1>10,
     <1>11, <1>12, <1>13, <1>14, <1>15, <1>16, <1>17, <1>18, <1>19, <1>20, <1>21 DEF Next, Producer, Consumer

\* A step keeps the exclusion: whoever comes inside takes the lock, a wait and a
\* cancelled wait give it back.
LEMMA ExclusionKept ==
  ASSUME TypeOK, OwnerAlone, [Next]_vars
  PROVE  OwnerAlone'
<1> USE EventQueueAssumption DEF Threads, TypeOK, ProducerPC, ConsumerPC, OwnerAlone, Inside
<1>1. ASSUME NEW p \in Producers, AddCheck(p) PROVE OwnerAlone'
  BY <1>1 DEF AddCheck, Goto
<1>2. ASSUME NEW p \in Producers, AddLock(p) PROVE OwnerAlone'
  BY <1>2 DEF AddLock, Lock, Goto
<1>3. ASSUME NEW p \in Producers, NEW k \in Priorities, AddInsert(p, k) PROVE OwnerAlone'
  BY <1>3 DEF AddInsert, Goto
<1>4. ASSUME NEW p \in Producers, AddCount(p) PROVE OwnerAlone'
  BY <1>4 DEF AddCount, Signal, Goto
<1>5. ASSUME NEW p \in Producers, AddUnlock(p) PROVE OwnerAlone'
  BY <1>5 DEF AddUnlock, Unlock, Goto
<1>6. ASSUME NEW c \in Consumers, PopCheck(c) PROVE OwnerAlone'
  BY <1>6 DEF PopCheck, Goto
<1>7. ASSUME NEW c \in Consumers, PopLock(c) PROVE OwnerAlone'
  BY <1>7 DEF PopLock, Lock, Goto
<1>8. ASSUME NEW c \in Consumers, PopTest(c) PROVE OwnerAlone'
  BY <1>8 DEF PopTest, Unlock, Goto
<1>9. ASSUME NEW c \in Consumers, PopHead(c) PROVE OwnerAlone'
  BY <1>9 DEF PopHead, Goto
<1>10. ASSUME NEW c \in Consumers, PopCount(c) PROVE OwnerAlone'
  BY <1>10 DEF PopCount, Goto
<1>11. ASSUME NEW c \in Consumers, PopUnlock(c) PROVE OwnerAlone'
  BY <1>11 DEF PopUnlock, Unlock, Goto
<1>12. ASSUME NEW c \in Consumers, PopSpurious(c) PROVE OwnerAlone'
  BY <1>12 DEF PopSpurious, Goto
<1>13. ASSUME NEW c \in Consumers, CancelWaiting(c) PROVE OwnerAlone'
  BY <1>13 DEF CancelWaiting, Goto
<1>14. ASSUME NEW c \in Consumers, CancelRelock(c) PROVE OwnerAlone'
  BY <1>14 DEF CancelRelock, Lock, Goto
<1>15. ASSUME NEW c \in Consumers, CancelUnlock(c) PROVE OwnerAlone'
  BY <1>15 DEF CancelUnlock, Tpool_threadclean, Unlock, Goto
<1>16. ASSUME NEW t \in Threads, Late(t) PROVE OwnerAlone'
  BY <1>16 DEF Late, Goto
<1>17. CASE ClearStatus
  BY <1>17 DEF ClearStatus
<1>18. CASE ClearList
  BY <1>18 DEF ClearList
<1>19. CASE UNCHANGED vars
  BY <1>19 DEF vars
<1>20. ASSUME NEW c \in Consumers, LeaveOutside(c) PROVE OwnerAlone'
  BY <1>20 DEF LeaveOutside, Tpool_threadclean, Unlock, Goto
<1>21. ASSUME NEW t \in Threads, Torn(t) PROVE OwnerAlone'
  BY <1>21 DEF Torn, Goto
<1> HIDE EventQueueAssumption DEF Threads, TypeOK, ProducerPC, ConsumerPC, OwnerAlone, Inside
<1> QED
  BY <1>1, <1>2, <1>3, <1>4, <1>5, <1>6, <1>7, <1>8, <1>9, <1>10,
     <1>11, <1>12, <1>13, <1>14, <1>15, <1>16, <1>17, <1>18, <1>19, <1>20, <1>21 DEF Next, Producer, Consumer

\* The insertion makes the list longer by one.
LEMMA AddLonger ==
  ASSUME elist \in Seq(Task), arrived \in Nat, NEW p \in Producers, NEW k \in Priorities, AddInsert(p, k)
  PROVE  Len(elist') = Len(elist) + 1 /\ Len(elist) \in Nat
<1>1. PICK t : t = [prio |-> k, no |-> arrived]
  OBVIOUS
<1>2. t \in Task
  BY <1>1 DEF Task
<1>3. elist' = EventListADD(elist, t)
  BY <1>1 DEF AddInsert
<1>4. Len(EventListADD(elist, t)) = Len(elist) + 1
  BY <1>2, EventListADDProps
<1> QED
  BY <1>3, <1>4

\* A step keeps the counter in step with the list.
LEMMA CountKept ==
  ASSUME TypeOK, OwnerAlone, CountMatches, PopFindsTask, [Next]_vars
  PROVE  CountMatches'
<1> USE EventQueueAssumption DEF Threads, TypeOK, ProducerPC, ConsumerPC, OwnerAlone, Inside, CountMatches, PopFindsTask
<1>1. ASSUME NEW p \in Producers, AddCheck(p) PROVE CountMatches'
  BY <1>1 DEF AddCheck, Goto
<1>2. ASSUME NEW p \in Producers, AddLock(p) PROVE CountMatches'
  BY <1>2 DEF AddLock, Lock, Goto
<1>3. ASSUME NEW p \in Producers, NEW k \in Priorities, AddInsert(p, k) PROVE CountMatches'
  <2>1. elist \in Seq(Task) /\ arrived \in Nat
    OBVIOUS
  <2>2. Len(elist') = Len(elist) + 1 /\ Len(elist) \in Nat
    BY <1>3, <2>1, AddLonger
  <2> QED
    BY <1>3, <2>2 DEF AddInsert, Goto
<1>4. ASSUME NEW p \in Producers, AddCount(p) PROVE CountMatches'
  BY <1>4 DEF AddCount, Signal, Goto
<1>5. ASSUME NEW p \in Producers, AddUnlock(p) PROVE CountMatches'
  BY <1>5 DEF AddUnlock, Unlock, Goto
<1>6. ASSUME NEW c \in Consumers, PopCheck(c) PROVE CountMatches'
  BY <1>6 DEF PopCheck, Goto
<1>7. ASSUME NEW c \in Consumers, PopLock(c) PROVE CountMatches'
  BY <1>7 DEF PopLock, Lock, Goto
<1>8. ASSUME NEW c \in Consumers, PopTest(c) PROVE CountMatches'
  BY <1>8 DEF PopTest, Unlock, Goto
<1>9. ASSUME NEW c \in Consumers, PopHead(c) PROVE CountMatches'
  <2>1. freed = 0 => elist # <<>>
    BY <1>9 DEF PopHead
  <2>2. elist # <<>> => Len(elist') = Len(elist) - 1
    BY <1>9 DEF PopHead, EventListPop
  <2> QED
    BY <1>9, <2>1, <2>2 DEF PopHead, Goto
<1>10. ASSUME NEW c \in Consumers, PopCount(c) PROVE CountMatches'
  BY <1>10 DEF PopCount, Goto
<1>11. ASSUME NEW c \in Consumers, PopUnlock(c) PROVE CountMatches'
  BY <1>11 DEF PopUnlock, Unlock, Goto
<1>12. ASSUME NEW c \in Consumers, PopSpurious(c) PROVE CountMatches'
  BY <1>12 DEF PopSpurious, Goto
<1>13. ASSUME NEW c \in Consumers, CancelWaiting(c) PROVE CountMatches'
  BY <1>13 DEF CancelWaiting, Goto
<1>14. ASSUME NEW c \in Consumers, CancelRelock(c) PROVE CountMatches'
  BY <1>14 DEF CancelRelock, Lock, Goto
<1>15. ASSUME NEW c \in Consumers, CancelUnlock(c) PROVE CountMatches'
  BY <1>15 DEF CancelUnlock, Tpool_threadclean, Unlock, Goto
<1>16. ASSUME NEW t \in Threads, Late(t) PROVE CountMatches'
  BY <1>16 DEF Late, Goto
<1>17. CASE ClearStatus
  BY <1>17 DEF ClearStatus
<1>18. CASE ClearList
  BY <1>18 DEF ClearList
<1>19. CASE UNCHANGED vars
  BY <1>19 DEF vars
<1>20. ASSUME NEW c \in Consumers, LeaveOutside(c) PROVE CountMatches'
  BY <1>20 DEF LeaveOutside, Tpool_threadclean, Unlock, Goto
<1>21. ASSUME NEW t \in Threads, Torn(t) PROVE CountMatches'
  BY <1>21 DEF Torn, Goto
<1> HIDE EventQueueAssumption DEF Threads, TypeOK, ProducerPC, ConsumerPC, OwnerAlone, Inside, CountMatches, PopFindsTask
<1> QED
  BY <1>1, <1>2, <1>3, <1>4, <1>5, <1>6, <1>7, <1>8, <1>9, <1>10,
     <1>11, <1>12, <1>13, <1>14, <1>15, <1>16, <1>17, <1>18, <1>19, <1>20, <1>21 DEF Next, Producer, Consumer

\* A step leaves a worker that is past the test a task to find: only the owner
\* of the lock takes tasks.
LEMMA PopFindsKept ==
  ASSUME TypeOK, OwnerAlone, CountMatches, PopFindsTask, [Next]_vars
  PROVE  PopFindsTask'
<1> USE EventQueueAssumption DEF Threads, TypeOK, ProducerPC, ConsumerPC, OwnerAlone, Inside, CountMatches, PopFindsTask
<1>1. ASSUME NEW p \in Producers, AddCheck(p) PROVE PopFindsTask'
  BY <1>1 DEF AddCheck, Goto
<1>2. ASSUME NEW p \in Producers, AddLock(p) PROVE PopFindsTask'
  BY <1>2 DEF AddLock, Lock, Goto
<1>3. ASSUME NEW p \in Producers, NEW k \in Priorities, AddInsert(p, k) PROVE PopFindsTask'
  <2>1. elist \in Seq(Task) /\ arrived \in Nat
    OBVIOUS
  <2>2. Len(elist') = Len(elist) + 1 /\ Len(elist) \in Nat
    BY <1>3, <2>1, AddLonger
  <2>3. elist' # <<>>
    BY <2>2
  <2> QED
    BY <1>3, <2>3 DEF AddInsert, Goto
<1>4. ASSUME NEW p \in Producers, AddCount(p) PROVE PopFindsTask'
  BY <1>4 DEF AddCount, Signal, Goto
<1>5. ASSUME NEW p \in Producers, AddUnlock(p) PROVE PopFindsTask'
  BY <1>5 DEF AddUnlock, Unlock, Goto
<1>6. ASSUME NEW c \in Consumers, PopCheck(c) PROVE PopFindsTask'
  BY <1>6 DEF PopCheck, Goto
<1>7. ASSUME NEW c \in Consumers, PopLock(c) PROVE PopFindsTask'
  BY <1>7 DEF PopLock, Lock, Goto
<1>8. ASSUME NEW c \in Consumers, PopTest(c) PROVE PopFindsTask'
  BY <1>8 DEF PopTest, Unlock, Goto
<1>9. ASSUME NEW c \in Consumers, PopHead(c) PROVE PopFindsTask'
  <2>1. freed = 0 => elist # <<>> /\ Head(elist) \in Task
    BY <1>9 DEF PopHead
  <2>2. freed = 0 => \A d \in Consumers : d # c => pc[d] # "p_pop"
    BY <1>9 DEF PopHead
  <2> QED
    BY <1>9, <2>1, <2>2 DEF PopHead, Goto
<1>10. ASSUME NEW c \in Consumers, PopCount(c) PROVE PopFindsTask'
  BY <1>10 DEF PopCount, Goto
<1>11. ASSUME NEW c \in Consumers, PopUnlock(c) PROVE PopFindsTask'
  BY <1>11 DEF PopUnlock, Unlock, Goto
<1>12. ASSUME NEW c \in Consumers, PopSpurious(c) PROVE PopFindsTask'
  BY <1>12 DEF PopSpurious, Goto
<1>13. ASSUME NEW c \in Consumers, CancelWaiting(c) PROVE PopFindsTask'
  BY <1>13 DEF CancelWaiting, Goto
<1>14. ASSUME NEW c \in Consumers, CancelRelock(c) PROVE PopFindsTask'
  BY <1>14 DEF CancelRelock, Lock, Goto
<1>15. ASSUME NEW c \in Consumers, CancelUnlock(c) PROVE PopFindsTask'
  BY <1>15 DEF CancelUnlock, Tpool_threadclean, Unlock, Goto
<1>16. ASSUME NEW t \in Threads, Late(t) PROVE PopFindsTask'
  BY <1>16 DEF Late, Goto
<1>17. CASE ClearStatus
  BY <1>17 DEF ClearStatus
<1>18. CASE ClearList
  BY <1>18 DEF ClearList
<1>19. CASE UNCHANGED vars
  BY <1>19 DEF vars
<1>20. ASSUME NEW c \in Consumers, LeaveOutside(c) PROVE PopFindsTask'
  BY <1>20 DEF LeaveOutside, Tpool_threadclean, Unlock, Goto
<1>21. ASSUME NEW t \in Threads, Torn(t) PROVE PopFindsTask'
  BY <1>21 DEF Torn, Goto
<1> HIDE EventQueueAssumption DEF Threads, TypeOK, ProducerPC, ConsumerPC, OwnerAlone, Inside, CountMatches, PopFindsTask
<1> QED
  BY <1>1, <1>2, <1>3, <1>4, <1>5, <1>6, <1>7, <1>8, <1>9, <1>10,
     <1>11, <1>12, <1>13, <1>14, <1>15, <1>16, <1>17, <1>18, <1>19, <1>20, <1>21 DEF Next, Producer, Consumer

\* A step keeps the list in the order of service: the list changes only where a
\* task is put in or the head is taken.
LEMMA OrderKept ==
  ASSUME TypeOK, Ordered, Arrivals, [Next]_vars
  PROVE  Ordered' /\ Arrivals'
<1>1. ASSUME NEW p \in Producers, NEW k \in Priorities, AddInsert(p, k)
      PROVE  Ordered' /\ Arrivals'
  <2> DEFINE t == [prio |-> k, no |-> arrived]
  <2>1. t \in Task /\ t.no = arrived /\ elist \in Seq(Task) /\ arrived \in Nat
    BY DEF TypeOK, Task
  <2>2. elist' = EventListADD(elist, t) /\ arrived' = arrived + 1
    BY <1>1 DEF AddInsert
  <2> HIDE DEF t
  <2>3. Ordered'
    <3>1. \A i \in 1..Len(elist) : elist[i].no < t.no
      BY <2>1 DEF Arrivals
    <3>2. InServiceOrder(elist) => InServiceOrder(EventListADD(elist, t))
      BY <2>1, <3>1, EventListADDKeepsOrder, Zenon
    <3>3. freed' = freed
      BY <1>1 DEF AddInsert
    <3> QED
      BY <2>2, <3>2, <3>3, Zenon DEF Ordered
  <2>4. ASSUME NEW i \in 1..Len(elist') PROVE elist'[i].no < arrived + 1
    <3>1. elist'[i] \in {elist[j] : j \in 1..Len(elist)} \cup {t}
      <4> DEFINE r == EventListADD(elist, t)
      <4>1. {r[j] : j \in 1..Len(r)} = {elist[j] : j \in 1..Len(elist)} \cup {t}
        BY <2>1, EventListADDAdds, Zenon
      <4>2. elist' = r
        BY <2>2
      <4> HIDE DEF r
      <4> QED
        BY <4>1, <4>2
    <3>2. CASE elist'[i] = t
      BY <2>1, <3>2
    <3>3. CASE \E j \in 1..Len(elist) : elist'[i] = elist[j]
      <4>1. PICK j \in 1..Len(elist) : elist'[i] = elist[j]
        BY <3>3
      <4>2. elist[j].no < arrived /\ elist[j] \in Task
        BY <2>1 DEF Arrivals
      <4>3. elist[j].no \in Nat
        BY <4>2 DEF Task
      <4> QED
        BY <2>1, <4>1, <4>2, <4>3
    <3> QED
      BY <3>1, <3>2, <3>3
  <2> QED
    BY <2>2, <2>3, <2>4 DEF Arrivals
<1>2. ASSUME NEW c \in Consumers, PopHead(c)
      PROVE  Ordered' /\ Arrivals'
  <2>1. CASE elist' = elist
    BY <1>2, <2>1 DEF PopHead, Ordered, Arrivals
  <2>2. CASE elist # <<>> /\ elist' = EventListPop(elist)
    <3>1. elist \in Seq(Task) /\ arrived' = arrived /\ freed' = freed
      BY <1>2 DEF PopHead, TypeOK
    <3>2. /\ Len(elist') = Len(elist) - 1 /\ Len(elist) \in Nat
          /\ \A i \in 1..Len(elist') : elist'[i] = elist[i + 1]
      BY <2>2, <3>1 DEF EventListPop
    <3>3. InServiceOrder(elist) => InServiceOrder(elist')
      BY <2>2, <3>1, EventListPopProps
    <3> QED
      BY <3>1, <3>2, <3>3 DEF Ordered, Arrivals
  <2> QED
    BY <1>2, <2>1, <2>2 DEF PopHead
<1>3. CASE UNCHANGED <<elist, arrived>> /\ (freed' = 0 => freed = 0)
  BY <1>3 DEF Ordered, Arrivals
<1>4. ASSUME NEW c \in Consumers, Tpool_threadclean(c)
      PROVE  freed' = 0 => freed = 0
  BY <1>4 DEF Tpool_threadclean, TypeOK
<1> QED
  BY <1>1, <1>2, <1>3, <1>4
  DEF Next, Producer, Consumer, vars, AddCheck, AddLock, AddCount, AddUnlock, PopCheck,
      PopLock, PopTest, PopCount, PopUnlock, PopSpurious, CancelWaiting, CancelRelock,
      CancelUnlock, LeaveOutside, Late, Torn, ClearStatus, ClearList

\* The threads that are inside without owning the lock.
Excess == {t \in Threads : Inside(t) /\ lock # t}

\* An element more makes a finite set larger by one at most.
LEMMA OneMore ==
  ASSUME NEW S, IsFiniteSet(S), NEW u
  PROVE  /\ IsFiniteSet(S \cup {u})
         /\ Cardinality(S \cup {u}) <= Cardinality(S) + 1
<1>1. Cardinality(S) \in Nat
  BY FS_CardinalityType
<1>2. IsFiniteSet(S \cup {u}) /\ Cardinality(S \cup {u}) \in {Cardinality(S), Cardinality(S) + 1}
  <2>1. CASE u \in S
    <3>1. S \cup {u} = S
      BY <2>1
    <3> QED
      BY <3>1
  <2>2. CASE u \notin S
    BY <2>2, FS_AddElement
  <2> QED
    BY <2>1, <2>2
<1> QED
  BY <1>1, <1>2

\* One thread more is inside without owning the lock after a step that puts one
\* thread into the set, and not one more when another leaves it.
LEMMA ExcessGrows ==
  ASSUME NEW S, IsFiniteSet(S), NEW T, NEW u, T \subseteq S \cup {u}
  PROVE  /\ Cardinality(T) \in Nat /\ Cardinality(S) \in Nat
         /\ Cardinality(T) <= Cardinality(S) + 1
         /\ \A t \in S : t \notin T => Cardinality(T) <= Cardinality(S)
         /\ T \subseteq S => Cardinality(T) <= Cardinality(S)
<1>1. IsFiniteSet(S \cup {u}) /\ Cardinality(S \cup {u}) <= Cardinality(S) + 1
  BY OneMore
<1>2. IsFiniteSet(T) /\ Cardinality(T) <= Cardinality(S \cup {u})
  BY <1>1, FS_Subset
<1>3. Cardinality(T) \in Nat /\ Cardinality(S) \in Nat /\ Cardinality(S \cup {u}) \in Nat
  BY <1>1, <1>2, FS_CardinalityType
<1>4. ASSUME NEW t \in S, t \notin T PROVE Cardinality(T) <= Cardinality(S)
  <2> DEFINE R == S \ {t}
  <2>1. IsFiniteSet(R) /\ Cardinality(R) = Cardinality(S) - 1
    BY <1>4, FS_RemoveElement
  <2>2. IsFiniteSet(R \cup {u}) /\ Cardinality(R \cup {u}) <= Cardinality(R) + 1
    BY <2>1, OneMore
  <2>3. T \subseteq R \cup {u}
    BY <1>4
  <2>4. Cardinality(T) <= Cardinality(R \cup {u})
    BY <2>2, <2>3, FS_Subset
  <2>5. Cardinality(R \cup {u}) \in Nat /\ Cardinality(R) \in Nat
    BY <2>1, <2>2, FS_CardinalityType
  <2> QED
    BY <2>1, <2>2, <2>4, <2>5, <1>3
<1>5. T \subseteq S => Cardinality(T) <= Cardinality(S)
  BY FS_Subset
<1> QED
  BY <1>1, <1>2, <1>3, <1>4, <1>5

\* A thread that is inside releases the lock: another owner may be left without
\* it, but the thread itself is outside.
LEMMA ReleaseKeeps ==
  ASSUME TypeOK, QueueExclusion, NEW t \in Threads, Inside(t), Unlock(t),
         NEW s, s \notin {"a_insert", "a_count", "a_unlock",
                          "p_test", "p_pop", "p_count", "p_unlock", "c_unlock"},
         Goto(t, s), freed' \in Nat, freed <= freed', cleared' = cleared
  PROVE  QueueExclusion'
<1>1. Excess' \subseteq Excess \cup {lock} /\ t \notin Excess'
  BY EventQueueAssumption DEF Excess, Inside, Unlock, Goto, TypeOK
<1>2. IsFiniteSet(Excess)
  BY EventQueueAssumption, FS_Subset DEF Excess
<1>3. Cardinality(Excess) <= freed /\ freed \in Nat
  BY DEF Unlock, QueueExclusion, Excess, TypeOK
<1>4. Cardinality(Excess') <= Cardinality(Excess)
  <2>1. CASE t \in Excess
    BY <1>1, <1>2, <2>1, ExcessGrows
  <2>2. CASE t \notin Excess
    <3>1. lock = t
      BY <2>2 DEF Excess
    <3>2. Excess' \subseteq Excess
      BY <1>1, <3>1
    <3> QED
      BY <1>1, <1>2, <3>2, ExcessGrows
  <2> QED
    BY <2>1, <2>2
<1>5. Cardinality(Excess') \in Nat /\ Cardinality(Excess) \in Nat
  BY <1>1, <1>2, ExcessGrows
<1>6. Cardinality(Excess') <= freed'
  BY <1>3, <1>4, <1>5
<1> QED
  BY <1>6 DEF QueueExclusion, Excess

\* A step keeps the bound of the threads inside: only a worker that leaves from
\* outside adds to them, and it is counted.
LEMMA DebtKept ==
  ASSUME TypeOK, QueueExclusion, [Next]_vars
  PROVE  QueueExclusion'
<1> DEFINE In == {"a_insert", "a_count", "a_unlock",
                  "p_test", "p_pop", "p_count", "p_unlock", "c_unlock"}
<1>0. IsFiniteSet(Excess) /\ freed \in Nat
  BY EventQueueAssumption, FS_Subset DEF Excess, TypeOK
<1>1. ASSUME freed' = freed, cleared' = cleared \/ cleared', Excess' \subseteq Excess
      PROVE  QueueExclusion'
  <2>1. /\ Cardinality(Excess') <= Cardinality(Excess)
        /\ Cardinality(Excess') \in Nat /\ Cardinality(Excess) \in Nat
    BY <1>0, <1>1, ExcessGrows
  <2> QED
    BY <1>0, <1>1, <2>1 DEF QueueExclusion, Excess
<1>2. ASSUME NEW t \in Threads, NEW s, Goto(t, s), UNCHANGED <<lock, freed, cleared>>,
             Inside(t) \/ s \notin In
      PROVE  QueueExclusion'
  <2>1. Excess' \subseteq Excess
    BY <1>2 DEF Excess, Inside, Goto, TypeOK
  <2> QED
    BY <1>1, <1>2, <2>1
<1>3. ASSUME NEW t \in Threads, NEW s, Goto(t, s), Lock(t), UNCHANGED <<freed, cleared>>
      PROVE  QueueExclusion'
  <2>1. Excess' \subseteq Excess
    BY <1>3, EventQueueAssumption DEF Excess, Inside, Goto, TypeOK, Lock
  <2> QED
    BY <1>1, <1>3, <2>1
<1>4. ASSUME NEW p \in Producers, AddCount(p) PROVE QueueExclusion'
  <2>1. Excess' \subseteq Excess
    BY <1>4, EventQueueAssumption DEF AddCount, Signal, Goto, Excess, Inside, TypeOK, Threads
  <2> QED
    BY <1>1, <1>4, <2>1 DEF AddCount
<1>5. ASSUME NEW c \in Consumers, LeaveOutside(c) PROVE QueueExclusion'
  <2>1. Excess' \subseteq Excess \cup {lock}
    BY <1>5, EventQueueAssumption
    DEF LeaveOutside, Tpool_threadclean, Unlock, Goto, Excess, Inside, TypeOK
  <2>2. /\ Cardinality(Excess') <= Cardinality(Excess) + 1
        /\ Cardinality(Excess') \in Nat /\ Cardinality(Excess) \in Nat
        /\ Excess' \subseteq Excess => Cardinality(Excess') <= Cardinality(Excess)
    BY <1>0, <2>1, ExcessGrows
  <2>3. CASE lock \in {c, Nobody}
    <3>1. Excess' \subseteq Excess /\ freed' = freed
      BY <1>5, <2>3, EventQueueAssumption
      DEF LeaveOutside, Tpool_threadclean, Unlock, Goto, Excess, Inside, TypeOK, Threads
    <3> QED
      BY <1>0, <1>5, <2>2, <3>1 DEF QueueExclusion, Excess, LeaveOutside
  <2>4. CASE lock \notin {c, Nobody}
    <3>1. freed' = freed + 1
      BY <1>5, <2>4 DEF LeaveOutside, Tpool_threadclean
    <3> QED
      BY <1>0, <1>5, <2>2, <3>1 DEF QueueExclusion, Excess, LeaveOutside
  <2> QED
    BY <2>3, <2>4
<1>6. ASSUME NEW p \in Producers, AddUnlock(p) PROVE QueueExclusion'
  BY <1>0, <1>6, ReleaseKeeps, SMT DEF AddUnlock, Inside, Threads
<1>7. ASSUME NEW c \in Consumers, PopTest(c) PROVE QueueExclusion'
  <2>1. CASE num = 0 /\ Unlock(c) /\ Goto(c, "p_wait")
    BY <1>0, <1>7, <2>1, ReleaseKeeps, SMT DEF PopTest, Inside, Threads
  <2>2. CASE num # 0 /\ Goto(c, "p_pop") /\ UNCHANGED lock
    BY <1>2, <1>7, <2>2, SMT DEF PopTest, Inside, Threads
  <2> QED
    BY <1>7, <2>1, <2>2 DEF PopTest
<1>8. ASSUME NEW c \in Consumers, PopUnlock(c) PROVE QueueExclusion'
  <2>1. (IF task[c] = NoTask THEN "gone" ELSE "run") \in {"gone", "run"}
    OBVIOUS
  <2> QED
    BY <1>0, <1>8, <2>1, ReleaseKeeps, SMT DEF PopUnlock, Inside, Threads
<1>9. ASSUME NEW c \in Consumers, CancelUnlock(c) PROVE QueueExclusion'
  <2>1. freed' \in Nat /\ freed <= freed'
    BY <1>0, <1>9 DEF CancelUnlock, Tpool_threadclean
  <2> QED
    BY <1>9, <2>1, ReleaseKeeps, SMT DEF CancelUnlock, Tpool_threadclean, Inside, Threads
<1>10. ASSUME NEW t \in Threads, \/ AddCheck(t) \/ \E k \in Priorities : AddInsert(t, k)
                                 \/ PopHead(t) \/ PopCount(t) \/ PopSpurious(t) \/ CancelWaiting(t)
                                 \/ Late(t) \/ Torn(t)
       PROVE  QueueExclusion'
  <2>1. UNCHANGED <<lock, freed, cleared>>
    BY <1>10 DEF AddCheck, AddInsert, PopHead, PopCount, PopSpurious, CancelWaiting, Late, Torn
  <2>2. \/ Goto(t, "a_lock") \/ Goto(t, "p_lock") \/ Goto(t, "c_lock") \/ Goto(t, "wild")
        \/ Inside(t) /\ \/ Goto(t, "a_count")
                        \/ Goto(t, "p_count")
                        \/ Goto(t, "p_unlock")
    <3>1. CASE AddCheck(t)
      BY <3>1, Zenon DEF AddCheck
    <3>2. CASE \E k \in Priorities : AddInsert(t, k)
      <4>1. pc[t] = "a_insert" /\ Goto(t, "a_count")
        BY <3>2 DEF AddInsert
      <4>2. Inside(t)
        BY <4>1 DEF Inside
      <4> QED
        BY <4>1, <4>2, Zenon
    <3>3. CASE PopHead(t)
      <4>1. pc[t] = "p_pop" /\ Goto(t, "p_count")
        BY <3>3 DEF PopHead
      <4>2. Inside(t)
        BY <4>1 DEF Inside
      <4> QED
        BY <4>1, <4>2, Zenon
    <3>4. CASE PopCount(t)
      BY <3>4 DEF PopCount, Inside
    <3>5. CASE PopSpurious(t) \/ CancelWaiting(t)
      BY <3>5 DEF PopSpurious, CancelWaiting
    <3>6. CASE Late(t) \/ Torn(t)
      BY <3>6 DEF Late, Torn
    <3> QED
      BY <1>10, <3>1, <3>2, <3>3, <3>4, <3>5, <3>6
  <2>3. {"a_lock", "p_lock", "c_lock", "wild"} \cap In = {}
    OBVIOUS
  <2> HIDE DEF In
  <2> QED
    BY <1>2, <2>1, <2>2, <2>3
<1>13. ASSUME NEW c \in Consumers, PopCheck(c) PROVE QueueExclusion'
  <2>1. (IF status = "ready" THEN "p_lock" ELSE "gone") \notin In
    OBVIOUS
  <2> HIDE DEF In
  <2> QED
    BY <1>2, <1>13, <2>1 DEF PopCheck, Threads
<1>11. ASSUME NEW t \in Threads, \/ t \in Producers /\ AddLock(t)
                                 \/ t \in Consumers /\ (PopLock(t) \/ CancelRelock(t))
       PROVE  QueueExclusion'
  BY <1>3, <1>11 DEF AddLock, PopLock, CancelRelock
<1>12. CASE ClearStatus \/ ClearList \/ UNCHANGED vars
  <2>1. Excess' = Excess /\ freed' = freed /\ (cleared' = cleared \/ cleared')
    BY <1>12 DEF ClearStatus, ClearList, vars, Excess, Inside
  <2> QED
    BY <1>1, <2>1
<1> QED
  BY <1>4, <1>5, <1>6, <1>7, <1>8, <1>9, <1>10, <1>11, <1>12, <1>13
  DEF Next, Producer, Consumer, Threads

\* The invariant of the queue.
THEOREM Invariance ==
  Spec => []IInv
<1>1. ASSUME IInv, [Next]_vars PROVE IInv'
  <2>1. TypeOK'
    BY <1>1, TypeKept
  <2>2. OwnerAlone' /\ CountMatches' /\ PopFindsTask'
    BY <1>1, ExclusionKept, CountKept, PopFindsKept DEF IInv
  <2>3. Ordered' /\ Arrivals'
    BY <1>1, OrderKept DEF IInv
  <2>4. QueueExclusion'
    BY <1>1, DebtKept DEF IInv
  <2> QED
    BY <2>1, <2>2, <2>3, <2>4 DEF IInv
<1> QED
  BY <1>1, InitIInv, PTL DEF Spec

\* The variables of the queue have their types in every reachable state.
THEOREM TypeCorrect ==
  Spec => []TypeOK
BY Invariance, PTL DEF IInv

\* How far eventQ->lock excludes until the queue is cleared: a cancelled wait costs
\* nothing, each worker that leaves from elsewhere and releases the lock of another
\* (Tpool_threadclean) lets at most one thread more in, and before the first of them
\* the owner is alone.
THEOREM LockExcludes ==
  Spec => [](QueueExclusion /\ OwnerAlone)
BY Invariance, PTL DEF IInv

\* eventQ->num is the length of the list whenever the lock is free, until a leaving
\* worker has released the lock of another.
THEOREM CountIsExact ==
  Spec => []CountMatches
BY Invariance, PTL DEF IInv

\* A worker that num # 0 let through finds a task to take, until a leaving worker has
\* released the lock of another.
THEOREM WorkersFindTasks ==
  Spec => []PopFindsTask
BY Invariance, PTL DEF IInv

\* The list is in the order of service, until a leaving worker has released the lock
\* of another.
THEOREM ListIsOrdered ==
  Spec => []Ordered
BY Invariance, PTL DEF IInv

\* List, counter and lock agree as far as the workers that leave allow, for any
\* callers, workers, tasks and priorities.
THEOREM QueueHolds ==
  Spec => []QueueSound
<1>1. IInv => QueueSound
  BY DEF IInv, QueueSound
<1> QED
  BY <1>1, Invariance, PTL

-----------------------------------------------------------------------------
\* Popping takes the first task in order of service out of the set of tasks.
LEMMA EventListPopTakesFirst ==
  ASSUME NEW l \in Seq(Task), l # <<>>, InServiceOrder(l)
  PROVE  LET S == {l[i] : i \in 1..Len(l)}
             r == EventListPop(l)
         IN  /\ Head(l) \in S
             /\ {r[i] : i \in 1..Len(r)} = S \ {Head(l)}
             /\ \A f \in S \ {Head(l)} : Abstract!Before(Head(l), f)
<1> DEFINE S == {l[i] : i \in 1..Len(l)}
           r == EventListPop(l)
<1>1. /\ Len(r) = Len(l) - 1
      /\ \A i \in 1..Len(r) : r[i] = l[i + 1]
      /\ Head(l) = l[1] /\ Head(l) \in Task /\ Len(l) \in Nat \ {0}
  BY EventListPopProps, Zenon
<1>2. \A i \in 2..Len(l) : \/ l[1].prio < l[i].prio
                           \/ l[1].prio = l[i].prio /\ l[1].no < l[i].no
  <2> SUFFICES ASSUME NEW i \in 2..Len(l)
               PROVE  \/ l[1].prio < l[i].prio
                      \/ l[1].prio = l[i].prio /\ l[1].no < l[i].no
    OBVIOUS
  <2>1. 1 \in 1..Len(l) /\ i \in 1..Len(l) /\ 1 < i
    BY <1>1
  <2> QED
    BY <2>1, Zenon DEF InServiceOrder
<1> HIDE DEF r
<1>3. \A i \in 2..Len(l) : l[i] # l[1]
  <2> SUFFICES ASSUME NEW i \in 2..Len(l) PROVE l[i] # l[1]
    OBVIOUS
  <2>1. l[1] \in Task
    BY <1>1
  <2>2. l[1].prio \in Int /\ l[1].no \in Nat
    BY <2>1, PrioritiesAssumption DEF Task
  <2> QED
    BY <2>2, <1>2
<1>4. {r[i] : i \in 1..Len(r)} = S \ {l[1]}
  <2>1. ASSUME NEW i \in 1..Len(r) PROVE r[i] \in S \ {l[1]}
    <3>1. i + 1 \in 2..Len(l) /\ i + 1 \in 1..Len(l) /\ r[i] = l[i + 1]
      BY <1>1
    <3> QED
      BY <3>1, <1>3
  <2>2. ASSUME NEW j \in 1..Len(l), l[j] # l[1] PROVE \E i \in 1..Len(r) : r[i] = l[j]
    <3>1. j # 1
      BY <2>2
    <3>2. j - 1 \in 1..Len(r) /\ (j - 1) + 1 = j
      BY <3>1, <1>1
    <3>3. r[j - 1] = l[j]
      BY <3>2, <1>1
    <3> QED
      BY <3>2, <3>3
  <2> QED
    BY <2>1, <2>2
<1>5. ASSUME NEW f \in S \ {l[1]} PROVE Abstract!Before(l[1], f)
  <2>1. PICK j \in 1..Len(l) : f = l[j]
    BY <1>5
  <2>2. j \in 2..Len(l)
    BY <2>1, <1>1
  <2> QED
    BY <2>1, <2>2, <1>2 DEF Abstract!Before
<1>6. Head(l) \in S
  BY <1>1
<1> QED
  BY <1>1, <1>4, <1>5, <1>6, Zenon DEF r

\* The set of tasks of the abstract queue.
queuedBar == IF cleared THEN {} ELSE {elist[i] : i \in 1..Len(elist)}

\* Each step of the queue is a step of the abstract one or changes nothing it
\* sees: the insertion puts, unlinking the head gets.
LEMMA StepImplements ==
  ASSUME IInv, [Next]_vars
  PROVE  [Abstract!Next]_(Abstract!vars)
<1> DEFINE Q == {elist[i] : i \in 1..Len(elist)}
<1>1. ASSUME NEW p \in Producers, NEW k \in Priorities, AddInsert(p, k)
      PROVE  Abstract!Put(k)
  <2> DEFINE t == [prio |-> k, no |-> arrived]
             r == EventListADD(elist, t)
  <2>1. t \in Task /\ elist \in Seq(Task)
    BY DEF IInv, TypeOK, Task
  <2>2. elist' = r /\ ~cleared /\ ~cleared' /\ arrived' = arrived + 1 /\ UNCHANGED task
    BY <1>1 DEF AddInsert
  <2>3. {r[i] : i \in 1..Len(r)} = Q \cup {t}
    BY <2>1, EventListADDAdds, Zenon
  <2> HIDE DEF r
  <2>4. queuedBar = Q /\ queuedBar' = Q \cup {t}
    BY <2>2, <2>3 DEF queuedBar
  <2>5. (freed' = 0) = (freed = 0)
    BY <1>1 DEF AddInsert
  <2> QED
    BY <2>2, <2>4, <2>5 DEF Abstract!Put, queuedBar
<1>2. ASSUME NEW c \in Consumers, PopHead(c), freed = 0
      PROVE  Abstract!Get(c)
  <2> DEFINE r == EventListPop(elist)
  <2>1. elist # <<>> /\ elist \in Seq(Task) /\ InServiceOrder(elist)
    BY <1>2 DEF PopHead, IInv, PopFindsTask, TypeOK, Ordered
  <2>2. /\ elist' = r /\ ~cleared /\ ~cleared' /\ UNCHANGED arrived
        /\ task' = [task EXCEPT ![c] = Head(elist)]
    BY <1>2, <2>1 DEF PopHead
  <2>3. /\ Head(elist) \in Q
        /\ {r[i] : i \in 1..Len(r)} = Q \ {Head(elist)}
        /\ \A f \in Q \ {Head(elist)} : Abstract!Before(Head(elist), f)
    BY <2>1, EventListPopTakesFirst, Zenon
  <2> HIDE DEF r
  <2>4. queuedBar = Q /\ queuedBar' = Q \ {Head(elist)}
    BY <2>2, <2>3 DEF queuedBar
  <2>5. (freed' = 0) = (freed = 0)
    BY <1>2 DEF PopHead
  <2> HIDE DEF Q
  <2> QED
    BY <2>2, <2>3, <2>4, <2>5 DEF Abstract!Get, queuedBar
<1>3. ASSUME NEW c \in Consumers, PopCheck(c)
      PROVE  Abstract!Forget(c)
  BY <1>3 DEF PopCheck, Abstract!Forget
<1>4. ASSUME ClearList PROVE Abstract!Drop
  BY <1>4 DEF ClearList, Abstract!Drop
<1>5. CASE UNCHANGED <<elist, cleared, freed, arrived, task>>
  BY <1>5 DEF Abstract!vars
<1>6. CASE freed' # 0
  BY <1>6 DEF Abstract!Break, Abstract!Next
<1>7. ASSUME NEW c \in Consumers, LeaveOutside(c) \/ CancelUnlock(c), freed' = 0
      PROVE  UNCHANGED <<elist, cleared, freed, arrived, task>>
  <2>1. freed \in Nat
    BY DEF IInv, TypeOK
  <2> QED
    BY <1>7, <2>1 DEF LeaveOutside, CancelUnlock, Tpool_threadclean
<1>8. ASSUME NEW c \in Consumers, PopHead(c), freed' = 0
      PROVE  freed = 0
  BY <1>8 DEF PopHead
<1>9. \/ \E p \in Producers, k \in Priorities : AddInsert(p, k)
      \/ \E c \in Consumers : PopHead(c) \/ PopCheck(c) \/ LeaveOutside(c) \/ CancelUnlock(c)
      \/ ClearList
      \/ UNCHANGED <<elist, cleared, freed, arrived, task>>
  BY DEF Next, Producer, Consumer, vars, AddCheck, AddLock, AddCount, AddUnlock,
         PopLock, PopTest, PopCount, PopUnlock, PopSpurious, CancelWaiting,
         CancelRelock, Late, Torn, ClearStatus
<1> QED
  BY <1>1, <1>2, <1>3, <1>4, <1>5, <1>6, <1>7, <1>8, <1>9 DEF Abstract!Next

\* The queue implements the abstract one: whatever the threads do between the
\* steps under the lock, tasks are put whole, and the one taken is the first in
\* order of service and is taken by one worker, until a worker that leaves while
\* another is inside breaks it.
THEOREM ImplementsTaskQueue ==
  Spec => TaskQueueSpec
<1>1. Init => Abstract!Init
  BY DEF Init, Abstract!Init
<1>2. IInv /\ [Next]_vars => [Abstract!Next]_(Abstract!vars)
  BY StepImplements
<1> QED
  BY <1>1, <1>2, Invariance, PTL DEF Spec, TaskQueueSpec, Abstract!Spec

=============================================================================
