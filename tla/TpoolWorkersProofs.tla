------------------------- MODULE TpoolWorkersProofs -------------------------
(***************************************************************************)
(* Proofs about the workers of the thread pool and their monitor, for any  *)
(* number of workers, any sizes and any commands, as long as no wait times *)
(* out: a timeout frees what a thread still uses.                          *)
(***************************************************************************)
EXTENDS TpoolWorkers, FiniteSetTheorems, SequenceTheorems, TLAPS

\* The pool is created with a size within its maximum, and the waits of the
\* monitor are answered.
Hypotheses == Defsize <= Maxsize /\ ~MayTimeout

-----------------------------------------------------------------------------
(***************************************************************************)
(* What holds at every step.                                               *)
(***************************************************************************)
Creating == mpc \in {"spawn", "insert", "await", "count"}
Cancelling == mpc \in {"c_own", "c_pool", "c_error", "c_cancel", "c_wait", "c_next"}
ServingPC == {"wait", "t_pool", "t_own", "task", "f_pool", "f_own"}
FreePC == {"wait", "t_pool", "t_own"}

\* What the monitor does belongs to its job.
MonitorTrue ==
    /\ Creating => job \in {"init", "expand"} /\ left >= 1
    /\ Cancelling => job \in {"shrink", "destroy"}
    /\ mpc = "scan" => job = "shrink"
    /\ mpc \in {"d_status", "d_list", "exit"} => job = "destroy"
    /\ job = "destroy" => mpc \in {"d_status", "d_list", "exit"} \/ Cancelling
    /\ mpc = "failed" => job = "init"
    /\ pstatus = "init" <=> (Creating /\ job = "init")

\* A worker is in the list once, and the one that the monitor is about is
\* there but for the time between its creation and its insertion.
ListTrue ==
    /\ IsFiniteSet(Listed)
    /\ \A i, j \in 1..Len(list) : list[i] = list[j] => i = j
    /\ mpc \in {"insert", "await", "count"} \/ Cancelling => cur \in Workers
    /\ mpc = "insert" => cur \notin Listed
    /\ mpc \in {"await", "count"} \/ Cancelling => cur \in Listed
    /\ mpc = "scan" => cur \in Listed \cup {Nobody}

\* Which threads run, and which are in the list.
ThreadsTrue ==
    \A w \in Workers :
        /\ w \in Listed \/ w \in cancelled \/ w \in freed => pc[w] # "none"
        /\ pc[w] = "lookup" => mpc \in {"insert", "await"} /\ w = cur
        /\ pc[w] = "register" => mpc = "await" /\ w = cur
        /\ pc[w] \in ServingPC => w \in Listed \/ mpc = "failed"
        /\ status[w] = "DEAD" => pc[w] = "gone"

\* The worker that is being created has a status that tells how far it is.
NewTrue ==
    mpc \in {"insert", "await"} =>
        /\ cur \notin cancelled
        /\ \/ pc[cur] \in {"lookup", "register", "clean", "dead"} /\ status[cur] = "INIT"
           \/ pc[cur] \in FreePC /\ status[cur] = "READY"
           \/ pc[cur] \in {"task", "f_pool", "f_own"} /\ status[cur] = "BUSY"
           \/ pc[cur] = "gone" /\ status[cur] \in {"INIT", "DEAD"}

\* Before the pool is ready its workers wait, and so they do when it could
\* not be created.
StartTrue ==
    /\ pstatus = "init" =>
          /\ cancelled = {}
          /\ \A w \in Workers :
                \/ pc[w] \in {"none", "wait"}
                \/ /\ mpc \in {"insert", "await"} /\ w = cur
                   /\ pc[w] \in {"lookup", "register", "clean", "dead", "gone"}
    /\ mpc = "failed" => cancelled = {} /\ \A w \in Workers : pc[w] \in {"none", "wait", "gone"}

\* A worker that was cancelled is gone by the time the monitor turns to
\* another one of a shrink, or to the end of the destruction.
CancelTrue ==
    /\ \A w \in cancelled :
          pc[w] = "gone" \/ job = "destroy" \/ (w = cur /\ mpc = "c_wait" /\ job = "shrink")
    /\ mpc = "c_next" => status[cur] = "DEAD"
    /\ job = "destroy" /\ Cancelling =>
          \A i, j \in 1..Len(list) : list[j] = cur /\ i < j => pc[list[i]] = "gone"
    /\ mpc = "d_list" => \A w \in Listed : pc[w] = "gone"

Safe == TypeOK /\ MonitorTrue /\ ListTrue /\ ThreadsTrue /\ NewTrue /\ StartTrue /\ CancelTrue
        /\ FreedIsUnused

-----------------------------------------------------------------------------
(***************************************************************************)
(* What holds as long as workers and monitor take turns.                   *)
(***************************************************************************)

\* The listed workers that can serve, and those of them that are free; the
\* worker that is not counted yet, or no more.
Active == {w \in Listed : pc[w] \in ServingPC}
Free == {w \in Listed : pc[w] \in FreePC}
Uncounted == IF mpc \in {"await", "count", "c_error", "c_cancel", "c_wait", "c_next"}
             THEN {cur} ELSE {}

\* Threads that are still to be counted.
Pending == IF Creating THEN left
           ELSE IF mpc \in {"c_error", "c_cancel", "c_wait"} THEN 1 ELSE 0

\* Nobody takes a task while the monitor is at work, so a worker that is ready
\* has nothing to do, and the one that is created or cancelled neither.
Apart ==
    /\ \A w \in Workers : pc[w] \in {"t_pool", "t_own"} => mpc = "idle"
    /\ job # "destroy" => \A w \in Workers : status[w] = "READY" => pc[w] \in FreePC
    /\ mpc \in {"insert", "await"} => pc[cur] \notin {"task", "f_pool", "f_own"}
    /\ mpc = "count" => pc[cur] = "wait"
    /\ Cancelling /\ job = "shrink" =>
          /\ pc[cur] \in {"wait", "clean", "dead", "gone"}
          /\ mpc \in {"c_own", "c_pool"} => pc[cur] = "wait" /\ status[cur] = "BEFREE"
          /\ mpc \in {"c_error", "c_cancel"} => pc[cur] = "wait"
          /\ mpc \in {"c_cancel", "c_wait"} => status[cur] \in {"ERROR", "DEAD"}

\* The counters are those of the list.
Counted ==
    job # "destroy" /\ mpc # "failed" =>
        /\ cursize = Cardinality(Active \ Uncounted)
        /\ available = Cardinality(Free \ Uncounted)

Within ==
    /\ job # "destroy" => cursize + Pending <= Maxsize
    /\ job = "destroy" \/ mpc = "failed" => Cardinality(Active) <= Maxsize

InTurn == ~crossed => Apart /\ Counted /\ Within

IInv == Safe /\ InTurn

-----------------------------------------------------------------------------
(***************************************************************************)
(* The list, and the steps of Next one by one.                             *)
(***************************************************************************)

\* A node at the end of a list without duplicates.
LEMMA AppendNode ==
    ASSUME NEW S, NEW l \in Seq(S), NEW x \in S
    PROVE  /\ Append(l, x) \in Seq(S)
           /\ Range(Append(l, x)) = Range(l) \cup {x}
           /\ Len(Append(l, x)) = Len(l) + 1
           /\ \A i \in 1..Len(l) : Append(l, x)[i] = l[i]
           /\ Append(l, x)[Len(l) + 1] = x
  BY DEF Range

\* A list without the node at place p.
LEMMA RemoveNode ==
    ASSUME NEW S, NEW l \in Seq(S), NEW p \in 1..Len(l),
           \A i, j \in 1..Len(l) : l[i] = l[j] => i = j
    PROVE  /\ RemoveAt(l, p) \in Seq(S)
           /\ Range(RemoveAt(l, p)) = Range(l) \ {l[p]}
           /\ \A i, j \in 1..Len(RemoveAt(l, p)) : RemoveAt(l, p)[i] = RemoveAt(l, p)[j] => i = j
<1> DEFINE m == RemoveAt(l, p)
           a == SubSeq(l, 1, p - 1)
           b == SubSeq(l, p + 1, Len(l))
<1>1. a \in Seq(S) /\ Len(a) = p - 1 /\ \A i \in 1..(p - 1) : a[i] = l[i]
  OBVIOUS
<1>2. b \in Seq(S) /\ Len(b) = Len(l) - p /\ \A i \in 1..(Len(l) - p) : b[i] = l[p + i]
  OBVIOUS
<1>3. m = a \o b
  BY DEF RemoveAt
<1> HIDE DEF a, b, m
<1>4. m \in Seq(S) /\ Len(m) = Len(l) - 1
  <2>1. p - 1 \in Nat /\ Len(l) - p \in Nat /\ (p - 1) + (Len(l) - p) = Len(l) - 1
    OBVIOUS
  <2>2. m \in Seq(S) /\ Len(m) = Len(a) + Len(b)
    BY <1>1, <1>2, <1>3, ConcatProperties, ZenonT(60)
  <2> QED BY <2>1, <2>2, <1>1, <1>2
<1>5. \A i \in 1..(Len(l) - 1) : m[i] = IF i < p THEN l[i] ELSE l[i + 1]
  <2>1. ASSUME NEW i \in 1..(Len(l) - 1), i < p PROVE m[i] = l[i]
    BY <2>1, <1>1, <1>2, <1>3
  <2>2. ASSUME NEW i \in 1..(Len(l) - 1), i >= p PROVE m[i] = l[i + 1]
    <3> DEFINE k == i - (p - 1)
    <3>1. k \in 1..(Len(l) - p) /\ i = (p - 1) + k /\ p + k = i + 1
      BY <2>2
    <3> HIDE DEF k
    <3>2. m[(p - 1) + k] = b[k]
      BY <3>1, <1>1, <1>2, <1>3
    <3> QED BY <3>1, <3>2, <1>2
  <2> QED BY <2>1, <2>2
<1>6. \A i, j \in 1..Len(m) : m[i] = m[j] => i = j
  BY <1>4, <1>5
<1>7. Range(m) \subseteq Range(l) \ {l[p]}
  BY <1>4, <1>5 DEF Range
<1>8. ASSUME NEW j \in 1..Len(l), j # p PROVE l[j] \in Range(m)
  <2>1. CASE j < p
    BY <2>1, <1>4, <1>5 DEF Range
  <2>2. CASE j > p
    <3>1. m[j - 1] = l[j] /\ j - 1 \in 1..Len(m)
      BY <2>2, <1>4, <1>5
    <3> QED BY <3>1, <1>4 DEF Range
  <2> QED BY <1>8, <2>1, <2>2
<1>9. Range(l) \ {l[p]} \subseteq Range(m)
  BY <1>8 DEF Range
<1> QED BY <1>4, <1>6, <1>7, <1>9 DEF m

\* The place of a listed worker, and the worker behind it.
LEMMA Places ==
    ASSUME list \in Seq(Workers), ListTrue, NEW w \in Listed
    PROVE  /\ PlaceOf(w) \in 1..Len(list) /\ list[PlaceOf(w)] = w
           /\ NextOf(w) \in (Listed \ {w}) \cup {Nobody}
           /\ NextOf(w) # Nobody =>
                 PlaceOf(w) + 1 \in 1..Len(list) /\ list[PlaceOf(w) + 1] = NextOf(w)
           /\ NextOf(w) = Nobody => PlaceOf(w) = Len(list)
           /\ w \in Workers
<1>1. \E j \in 1..Len(list) : list[j] = w
  BY DEF Listed, Range
<1>2. PlaceOf(w) \in 1..Len(list) /\ list[PlaceOf(w)] = w
  BY <1>1 DEF PlaceOf
<1>3. \A i \in 1..Len(list) : list[i] \in Workers /\ list[i] \in Listed
  BY DEF Listed, Range
<1> QED BY <1>2, <1>3, TpoolAssumption DEF NextOf, ListTrue

\* The first worker of the list.
LEMMA FirstPlace ==
    ASSUME list \in Seq(Workers)
    PROVE  /\ FirstOf \in Listed \cup {Nobody}
           /\ FirstOf = Nobody => Listed = {}
           /\ FirstOf # Nobody => Len(list) >= 1 /\ list[1] = FirstOf
  BY TpoolAssumption DEF FirstOf, Listed, Range

\* The list is one of workers.
LEMMA ListedAreWorkers == TypeOK => Listed \subseteq Workers
  BY DEF TypeOK, Listed, Range

\* Every step keeps the types: the list a sequence of workers, the counts numbers.
LEMMA TypeStep == Safe /\ [Next]_vars => TypeOK'
<1> SUFFICES ASSUME Safe, [Next]_vars PROVE TypeOK'
  OBVIOUS
<1> USE TpoolAssumption, ListedAreWorkers
        DEF Safe, TypeOK, Goto, MGoto, Statuses, WorkerPC, MonitorPC, vars, workerVars, monitorVars, poolVars
<1>1. ASSUME NEW w \in Workers, Lookup(w) PROVE TypeOK'
  BY <1>1 DEF Lookup
<1>2. ASSUME NEW w \in Workers, Register(w) PROVE TypeOK'
  BY <1>2 DEF Register
<1>3. ASSUME NEW w \in Workers, TakePool(w) PROVE TypeOK'
  BY <1>3 DEF TakePool
<1>4. ASSUME NEW w \in Workers, Busy(w) PROVE TypeOK'
  BY <1>4 DEF Busy
<1>5. ASSUME NEW w \in Workers, Ready(w) PROVE TypeOK'
  BY <1>5 DEF Ready
<1>6. ASSUME NEW w \in Workers, Clean(w) PROVE TypeOK'
  BY <1>6 DEF Clean
<1>7. ASSUME NEW w \in Workers, Dead(w) PROVE TypeOK'
  BY <1>7 DEF Dead
<1>8. ASSUME NEW w \in Workers, GetEvent(w) PROVE TypeOK'
  BY <1>8 DEF GetEvent
<1>9. ASSUME NEW w \in Workers, Finish(w) PROVE TypeOK'
  BY <1>9 DEF Finish
<1>10. ASSUME NEW w \in Workers, ActOnCancel(w) PROVE TypeOK'
  BY <1>10 DEF ActOnCancel
<1>11. ASSUME NEW w \in Workers, Wild(w) PROVE TypeOK'
  BY <1>11 DEF Wild
<1>12. ASSUME NEW w \in Workers, Spawn(w) PROVE TypeOK'
  BY <1>12 DEF Spawn
<1>13. CASE SpawnFails
  BY <1>13 DEF SpawnFails, Return
<1>14. CASE Insert
  <2>1. cur \in Workers
    BY <1>14 DEF Insert, ListTrue
  <2> QED BY <1>14, <2>1, AppendNode DEF Insert
<1>15. CASE Await
  BY <1>15 DEF Await, Return
<1>16. CASE AwaitTimeout
  BY <1>16 DEF AwaitTimeout, Return
<1>17. CASE Count
  BY <1>17 DEF Count, Return
<1>18. ASSUME NEW size \in Sizes, Sizectl(size) PROVE TypeOK'
  BY <1>18, FirstPlace DEF Sizectl, MStart
<1>19. CASE Scan
  BY <1>19, Places DEF Scan, ListTrue
<1>20. CASE ScanEnds
  BY <1>20 DEF ScanEnds, Return
<1>21. CASE CancelTakeOwn
  BY <1>21 DEF CancelTakeOwn
<1>22. CASE CancelCount
  BY <1>22 DEF CancelCount
<1>23. CASE CancelError
  BY <1>23 DEF CancelError
<1>24. CASE CancelThread
  BY <1>24 DEF CancelThread, ListTrue, Cancelling
<1>25. CASE CancelWait
  BY <1>25 DEF CancelWait
<1>26. CASE ShrinkNext
  <2>1. cur \in Listed
    BY <1>26 DEF ShrinkNext, ListTrue, Cancelling
  <2>2. list' \in Seq(Workers)
    BY <1>26, <2>1, Places, RemoveNode DEF ShrinkNext, ListTrue
  <2> QED BY <1>26, <2>1, <2>2, Places DEF ShrinkNext, Return
<1>27. CASE Destroy
  BY <1>27 DEF Destroy, MStart
<1>28. CASE DestroyStatus
  BY <1>28, FirstPlace DEF DestroyStatus
<1>29. CASE DestroyNext
  <2>1. cur \in Listed
    BY <1>29 DEF DestroyNext, ListTrue, Cancelling
  <2> QED BY <1>29, <2>1, Places DEF DestroyNext
<1>30. CASE DestroyList
  BY <1>30 DEF DestroyList
<1>31. CASE CreateFails
  BY <1>31 DEF CreateFails
<1>32. CASE UNCHANGED vars
  BY <1>32
<1> QED
  BY <1>1, <1>2, <1>3, <1>4, <1>5, <1>6, <1>7, <1>8, <1>9, <1>10, <1>11, <1>12, <1>13, <1>14,
     <1>15, <1>16, <1>17, <1>18, <1>19, <1>20, <1>21, <1>22, <1>23, <1>24, <1>25, <1>26, <1>27,
     <1>28, <1>29, <1>30, <1>31, <1>32 DEF Next, WorkerStep, MonitorStep

-----------------------------------------------------------------------------
(***************************************************************************)
(* The workers' steps, as far as the safety of the structures goes.        *)
(***************************************************************************)
Moves(w, from, to, st) ==
    /\ pc[w] \in from
    /\ pc' = [pc EXCEPT ![w] = to] /\ status' = [status EXCEPT ![w] = st]

WorkerMoves(w) ==
    \/ Moves(w, {"lookup"}, "register", status[w]) /\ w \in Listed
    \/ Moves(w, {"lookup"}, "clean", status[w]) /\ w \notin Listed
    \/ Moves(w, {"register"}, "wait", "READY")
    \/ Moves(w, {"wait"}, "t_pool", status[w]) /\ pstatus # "init" /\ mpc \notin {"exit", "failed"}
    \/ Moves(w, {"t_pool"}, "t_own", status[w])
    \/ Moves(w, {"t_own"}, "task", "BUSY")
    \/ Moves(w, {"task"}, "f_pool", status[w])
    \/ Moves(w, {"f_pool"}, "f_own", status[w])
    \/ Moves(w, {"f_own"}, "wait", "READY")
    \/ Moves(w, {"wait", "t_pool", "task"}, "clean", status[w]) /\ w \in cancelled
    \/ Moves(w, {"clean"}, "dead", status[w]) /\ w \in Listed
    \/ Moves(w, {"clean"}, "gone", status[w]) /\ w \notin Listed
    \/ Moves(w, {"dead"}, "gone", "DEAD")

Kept == UNCHANGED <<list, freed, cancelled, mpc, job, left, cur, pstatus, cursize>>

WorkerActs(w) == WorkerStep(w) \/ GetEvent(w) \/ Finish(w) \/ ActOnCancel(w) \/ Wild(w)

\* Wild is no step of a worker whose structure is there.
LEMMA WorkerEffect ==
    ASSUME Safe, NEW w \in Workers, WorkerActs(w)
    PROVE  WorkerMoves(w) /\ Kept
<1> USE DEF Safe, TypeOK, Goto, Kept, monitorVars, poolVars, Moves
<1>1. CASE Lookup(w)
  BY <1>1 DEF Lookup, WorkerMoves
<1>2. CASE Register(w)
  BY <1>2 DEF Register, WorkerMoves
<1>3. CASE TakePool(w)
  BY <1>3 DEF TakePool, WorkerMoves
<1>4. CASE Busy(w)
  BY <1>4 DEF Busy, WorkerMoves
<1>5. CASE Ready(w)
  BY <1>5 DEF Ready, WorkerMoves
<1>6. CASE Clean(w)
  BY <1>6 DEF Clean, WorkerMoves
<1>7. CASE Dead(w)
  BY <1>7 DEF Dead, WorkerMoves
<1>8. CASE GetEvent(w)
  BY <1>8 DEF GetEvent, WorkerMoves
<1>9. CASE Finish(w)
  BY <1>9 DEF Finish, WorkerMoves
<1>10. CASE ActOnCancel(w)
  BY <1>10 DEF ActOnCancel, WorkerMoves
<1>11. CASE Wild(w)
  BY <1>11 DEF Wild, FreedIsUnused
<1> QED
  BY <1>1, <1>2, <1>3, <1>4, <1>5, <1>6, <1>7, <1>8, <1>9, <1>10, <1>11 DEF WorkerActs, WorkerStep

\* Every step keeps what the monitor does within its job.
LEMMA MonitorTrueStep == Hypotheses /\ Safe /\ [Next]_vars => MonitorTrue'
<1> SUFFICES ASSUME Hypotheses, Safe, [Next]_vars PROVE MonitorTrue'
  OBVIOUS
<1> USE DEF Safe, TypeOK, MonitorTrue, MGoto, Creating, Cancelling, vars, workerVars, monitorVars, poolVars
<1>1. ASSUME NEW w \in Workers, WorkerActs(w) PROVE MonitorTrue'
  BY <1>1, WorkerEffect DEF WorkerMoves, Moves, Kept
<1>2. ASSUME NEW w \in Workers, Spawn(w) PROVE MonitorTrue'
  BY <1>2 DEF Spawn
<1>3. CASE SpawnFails
  BY <1>3 DEF SpawnFails, Return
<1>4. CASE Insert
  BY <1>4 DEF Insert
<1>5. CASE Await
  BY <1>5 DEF Await, Return
<1>6. CASE Count
  BY <1>6 DEF Count, Return
<1>7. ASSUME NEW size \in Sizes, Sizectl(size) PROVE MonitorTrue'
  BY <1>7, TpoolAssumption DEF Sizectl, MStart
<1>8. CASE Scan
  BY <1>8 DEF Scan
<1>9. CASE ScanEnds
  BY <1>9 DEF ScanEnds, Return
<1>10. CASE CancelTakeOwn
  BY <1>10 DEF CancelTakeOwn
<1>11. CASE CancelCount
  BY <1>11 DEF CancelCount
<1>12. CASE CancelError
  BY <1>12 DEF CancelError
<1>13. CASE CancelThread
  BY <1>13 DEF CancelThread
<1>14. CASE CancelWait
  BY <1>14 DEF CancelWait
<1>15. CASE ShrinkNext
  BY <1>15 DEF ShrinkNext, Return
<1>16. CASE Destroy
  BY <1>16 DEF Destroy, MStart
<1>17. CASE DestroyStatus
  BY <1>17 DEF DestroyStatus
<1>18. CASE DestroyNext
  BY <1>18 DEF DestroyNext
<1>19. CASE DestroyList
  BY <1>19 DEF DestroyList
<1>20. CASE CreateFails
  BY <1>20 DEF CreateFails
<1>21. CASE UNCHANGED vars
  BY <1>21
<1> QED
  BY <1>1, <1>2, <1>3, <1>4, <1>5, <1>6, <1>7, <1>8, <1>9, <1>10, <1>11, <1>12, <1>13,
     <1>14, <1>15, <1>16, <1>17, <1>18, <1>19, <1>20, <1>21 DEF Next, MonitorStep, WorkerActs, AwaitTimeout, Hypotheses

\* A worker enters the list once, at its creation, and leaves it with the shrink
\* or with all the others.
LEMMA ListStep == Hypotheses /\ Safe /\ [Next]_vars => ListTrue'
<1> SUFFICES ASSUME Hypotheses, Safe, [Next]_vars PROVE ListTrue'
  OBVIOUS
<1> USE DEF Safe, TypeOK, Listed, ListTrue, MGoto, Cancelling, vars, workerVars, monitorVars, poolVars
<1>1. ASSUME NEW w \in Workers, WorkerActs(w) PROVE ListTrue'
  BY <1>1, WorkerEffect DEF WorkerMoves, Moves, Kept
<1>2. ASSUME NEW w \in Workers, Spawn(w) PROVE ListTrue'
  <2>1. w \notin Listed
    BY <1>2 DEF Spawn, ThreadsTrue
  <2> QED BY <1>2, <2>1 DEF Spawn
<1>3. CASE SpawnFails
  BY <1>3 DEF SpawnFails, Return
<1>4. CASE Insert
  <2>1. mpc = "insert" /\ mpc' = "await" /\ cur' = cur /\ list' = Append(list, cur)
    BY <1>4 DEF Insert
  <2>2. cur \in Workers /\ cur \notin Listed /\ \A i \in 1..Len(list) : list[i] # cur
    BY <2>1 DEF Range
  <2>3. Listed' = Listed \cup {cur}
    BY <2>1, <2>2, AppendNode
  <2>4. IsFiniteSet(Listed')
    BY <2>3, FS_AddElement
  <2>5. \A i, j \in 1..Len(list') : list'[i] = list'[j] => i = j
    BY <2>1, <2>2, AppendNode
  <2> HIDE DEF Listed
  <2> QED BY <2>1, <2>2, <2>3, <2>4, <2>5
<1>5. CASE Await
  BY <1>5 DEF Await, Return
<1>6. CASE Count
  BY <1>6 DEF Count, Return
<1>7. ASSUME NEW size \in Sizes, Sizectl(size) PROVE ListTrue'
  <2> HIDE DEF Listed
  <2>1. FirstOf \in Listed \cup {Nobody} /\ mpc = "idle" /\ list' = list
    BY <1>7, FirstPlace DEF Sizectl, MStart
  <2>2. Listed' = Listed
    BY <2>1 DEF Listed
  <2> QED BY <1>7, <2>1, <2>2 DEF Sizectl
<1>8. CASE Scan
  <2> HIDE DEF Listed
  <2>1. cur \in Listed /\ list' = list
    BY <1>8 DEF Scan
  <2>2. Listed' = Listed
    BY <2>1 DEF Listed
  <2>3. NextOf(cur) \in Listed \cup {Nobody} /\ cur \in Workers
    BY <2>1, Places
  <2> QED BY <1>8, <2>1, <2>2, <2>3 DEF Scan
<1>9. CASE ScanEnds
  BY <1>9 DEF ScanEnds, Return
<1>10. CASE CancelTakeOwn
  BY <1>10 DEF CancelTakeOwn
<1>11. CASE CancelCount
  BY <1>11 DEF CancelCount
<1>12. CASE CancelError
  BY <1>12 DEF CancelError
<1>13. CASE CancelThread
  BY <1>13 DEF CancelThread
<1>14. CASE CancelWait
  BY <1>14 DEF CancelWait
<1>15. CASE ShrinkNext
  <2> HIDE DEF Listed
  <2>1. cur \in Listed
    BY <1>15 DEF ShrinkNext
  <2>2. /\ list' = RemoveAt(list, PlaceOf(cur)) /\ list[PlaceOf(cur)] = cur
        /\ PlaceOf(cur) \in 1..Len(list) /\ NextOf(cur) \in (Listed \ {cur}) \cup {Nobody}
    BY <1>15, <2>1, Places DEF ShrinkNext
  <2>3. Listed' = Listed \ {cur}
    BY <2>2, RemoveNode DEF Listed
  <2>4. IsFiniteSet(Listed')
    BY <2>3, FS_RemoveElement
  <2>5. \A i, j \in 1..Len(list') : list'[i] = list'[j] => i = j
    BY <2>2, RemoveNode
  <2> QED BY <1>15, <2>2, <2>3, <2>4, <2>5 DEF ShrinkNext, Return
<1>16. CASE Destroy
  BY <1>16 DEF Destroy, MStart
<1>17. CASE DestroyStatus
  <2> HIDE DEF Listed
  <2>1. Listed' = Listed
    BY <1>17 DEF DestroyStatus, Listed
  <2> QED BY <1>17, <2>1, FirstPlace, ListedAreWorkers DEF DestroyStatus
<1>18. CASE DestroyNext
  <2> HIDE DEF Listed
  <2>1. Listed' = Listed /\ cur \in Listed
    BY <1>18 DEF DestroyNext, Listed
  <2> QED BY <1>18, <2>1, Places, ListedAreWorkers DEF DestroyNext
<1>19. CASE DestroyList
  BY <1>19 DEF DestroyList
<1>20. CASE CreateFails
  <2>1. Listed' = {} /\ Len(list') = 0
    BY <1>20 DEF CreateFails, Range
  <2> HIDE DEF Listed
  <2> QED BY <1>20, <2>1, FS_EmptySet DEF CreateFails
<1>21. CASE UNCHANGED vars
  BY <1>21
<1> QED
  BY <1>1, <1>2, <1>3, <1>4, <1>5, <1>6, <1>7, <1>8, <1>9, <1>10, <1>11, <1>12, <1>13,
     <1>14, <1>15, <1>16, <1>17, <1>18, <1>19, <1>20, <1>21 DEF Next, MonitorStep, WorkerActs, AwaitTimeout, Hypotheses

\* Who runs is listed, and who is dead is gone.
LEMMA ThreadsStep == Hypotheses /\ Safe /\ [Next]_vars => ThreadsTrue'
<1> SUFFICES ASSUME Hypotheses, Safe, [Next]_vars PROVE ThreadsTrue'
  OBVIOUS
<1> USE DEF Safe, TypeOK, Listed, ThreadsTrue, ListTrue, MGoto, Goto, ServingPC, vars, workerVars, monitorVars, poolVars
<1>1. ASSUME NEW w \in Workers, WorkerActs(w) PROVE ThreadsTrue'
  BY <1>1, WorkerEffect DEF WorkerMoves, Moves, Kept
<1>2. ASSUME NEW w \in Workers, Spawn(w) PROVE ThreadsTrue'
  BY <1>2 DEF Spawn
<1>3. CASE SpawnFails
  BY <1>3 DEF SpawnFails, Return
<1>4. CASE Insert
  <2>1. Listed' = Listed \cup {cur} /\ cur \in Workers
    BY <1>4, AppendNode DEF Insert
  <2>2. pc[cur] # "none"
    BY <1>4 DEF Insert, NewTrue, FreePC
  <2> HIDE DEF Listed
  <2> QED BY <1>4, <2>1, <2>2 DEF Insert
<1>5. CASE Await
  <2>1. pc[cur] \notin {"lookup", "register"} /\ mpc = "await" /\ cur \in Workers
    BY <1>5 DEF Await, NewTrue, FreePC
  <2>2. pc' = pc /\ list' = list /\ cancelled' = cancelled /\ freed' = freed
        /\ \A w \in Workers : status'[w] = "DEAD" => status[w] = "DEAD"
    BY <1>5, <2>1 DEF Await
  <2> QED BY <2>1, <2>2
<1>6. CASE Count
  BY <1>6 DEF Count, Return
<1>7. ASSUME NEW size \in Sizes, Sizectl(size) PROVE ThreadsTrue'
  BY <1>7 DEF Sizectl, MStart
<1>8. CASE Scan
  BY <1>8 DEF Scan
<1>9. CASE ScanEnds
  BY <1>9 DEF ScanEnds, Return
<1>10. CASE CancelTakeOwn
  BY <1>10 DEF CancelTakeOwn
<1>11. CASE CancelCount
  BY <1>11 DEF CancelCount
<1>12. CASE CancelError
  BY <1>12 DEF CancelError
<1>13. CASE CancelThread
  <2>1. cur \in Listed
    BY <1>13 DEF CancelThread, Cancelling
  <2> QED BY <1>13, <2>1 DEF CancelThread
<1>14. CASE CancelWait
  BY <1>14 DEF CancelWait
<1>15. CASE ShrinkNext
  <2> HIDE DEF Listed
  <2>1. cur \in Listed /\ status[cur] = "DEAD" /\ mpc = "c_next"
    BY <1>15 DEF ShrinkNext, Cancelling, CancelTrue
  <2>2. Listed' = Listed \ {cur}
    BY <1>15, <2>1, Places, RemoveNode DEF ShrinkNext, Listed
  <2>3. pc' = pc /\ status' = status /\ cancelled' = cancelled /\ freed' = freed \cup {cur}
        /\ mpc' \in {"scan", "idle"}
    BY <1>15, MonitorTrue DEF ShrinkNext, Return, MonitorTrue
  <2> QED BY <2>1, <2>2, <2>3
<1>16. CASE Destroy
  BY <1>16 DEF Destroy, MStart
<1>17. CASE DestroyStatus
  BY <1>17 DEF DestroyStatus
<1>18. CASE DestroyNext
  BY <1>18 DEF DestroyNext
<1>19. CASE DestroyList
  BY <1>19 DEF DestroyList
<1>20. CASE CreateFails
  <2>1. Listed' = {}
    BY <1>20 DEF CreateFails, Range
  <2> HIDE DEF Listed
  <2> QED BY <1>20, <2>1 DEF CreateFails
<1>21. CASE UNCHANGED vars
  BY <1>21
<1> QED
  BY <1>1, <1>2, <1>3, <1>4, <1>5, <1>6, <1>7, <1>8, <1>9, <1>10, <1>11, <1>12, <1>13,
     <1>14, <1>15, <1>16, <1>17, <1>18, <1>19, <1>20, <1>21 DEF Next, MonitorStep, WorkerActs, AwaitTimeout, Hypotheses

\* The worker that is being created goes through its first statuses in order.
LEMMA NewStep == Hypotheses /\ Safe /\ [Next]_vars => NewTrue'
<1> SUFFICES ASSUME Hypotheses, Safe, [Next]_vars PROVE NewTrue'
  OBVIOUS
<1> USE DEF Safe, TypeOK, NewTrue, ListTrue, ThreadsTrue, FreePC, MGoto, Goto, vars, workerVars, monitorVars, poolVars
<1>1. ASSUME NEW w \in Workers, WorkerActs(w) PROVE NewTrue'
  BY <1>1, WorkerEffect DEF WorkerMoves, Moves, Kept
<1>2. ASSUME NEW w \in Workers, Spawn(w) PROVE NewTrue'
  BY <1>2 DEF Spawn
<1>3. CASE SpawnFails
  BY <1>3 DEF SpawnFails, Return
<1>4. CASE Insert
  BY <1>4 DEF Insert
<1>5. CASE Await
  BY <1>5 DEF Await, Return
<1>6. CASE Count
  BY <1>6 DEF Count, Return
<1>7. ASSUME NEW size \in Sizes, Sizectl(size) PROVE NewTrue'
  BY <1>7 DEF Sizectl, MStart
<1>8. CASE Scan
  BY <1>8 DEF Scan
<1>9. CASE ScanEnds
  BY <1>9 DEF ScanEnds, Return
<1>10. CASE CancelTakeOwn
  BY <1>10 DEF CancelTakeOwn
<1>11. CASE CancelCount
  BY <1>11 DEF CancelCount
<1>12. CASE CancelError
  BY <1>12 DEF CancelError
<1>13. CASE CancelThread
  BY <1>13 DEF CancelThread
<1>14. CASE CancelWait
  BY <1>14 DEF CancelWait
<1>15. CASE ShrinkNext
  BY <1>15 DEF ShrinkNext, Return
<1>16. CASE Destroy
  BY <1>16 DEF Destroy, MStart
<1>17. CASE DestroyStatus
  BY <1>17 DEF DestroyStatus
<1>18. CASE DestroyNext
  BY <1>18 DEF DestroyNext
<1>19. CASE DestroyList
  BY <1>19 DEF DestroyList
<1>20. CASE CreateFails
  BY <1>20 DEF CreateFails
<1>21. CASE UNCHANGED vars
  BY <1>21
<1> QED
  BY <1>1, <1>2, <1>3, <1>4, <1>5, <1>6, <1>7, <1>8, <1>9, <1>10, <1>11, <1>12, <1>13,
     <1>14, <1>15, <1>16, <1>17, <1>18, <1>19, <1>20, <1>21 DEF Next, MonitorStep, WorkerActs, AwaitTimeout, Hypotheses

\* Nobody takes a task before the pool is ready, nor after it failed to be.
LEMMA StartStep == Hypotheses /\ Safe /\ [Next]_vars => StartTrue'
<1> SUFFICES ASSUME Hypotheses, Safe, [Next]_vars PROVE StartTrue'
  OBVIOUS
<1> USE DEF Safe, TypeOK, StartTrue, NewTrue, MonitorTrue, ThreadsTrue, Creating, MGoto, Goto, vars, workerVars, monitorVars, poolVars
<1>1. ASSUME NEW w \in Workers, WorkerActs(w) PROVE StartTrue'
  BY <1>1, WorkerEffect DEF WorkerMoves, Moves, Kept
<1>2. ASSUME NEW w \in Workers, Spawn(w) PROVE StartTrue'
  BY <1>2 DEF Spawn
<1>3. CASE SpawnFails
  BY <1>3 DEF SpawnFails, Return
<1>4. CASE Insert
  BY <1>4 DEF Insert
<1>5. CASE Await
  <2>1. mpc = "await" /\ status[cur] # "INIT" /\ pc' = pc /\ cancelled' = cancelled /\ cur \in Workers
    BY <1>5 DEF Await, ListTrue
  <2>2. pstatus = "init" => pc[cur] \in {"wait", "gone"}
    BY <2>1 DEF FreePC
  <2>3. CASE status[cur] = "READY"
    <3>1. mpc' = "count" /\ cur' = cur /\ pstatus' = pstatus
      BY <1>5, <2>3 DEF Await
    <3>2. pc[cur] # "gone"
      BY <2>1, <2>3 DEF FreePC
    <3> QED BY <2>1, <2>2, <3>1, <3>2
  <2>4. CASE status[cur] # "READY"
    <3>1. pstatus' # "init" /\ (mpc' = "failed" => pstatus = "init")
      BY <1>5, <2>1, <2>4 DEF Await, Return
    <3> QED BY <2>1, <2>2, <3>1
  <2> QED BY <2>3, <2>4
<1>6. CASE Count
  BY <1>6 DEF Count, Return
<1>7. ASSUME NEW size \in Sizes, Sizectl(size) PROVE StartTrue'
  BY <1>7 DEF Sizectl, MStart
<1>8. CASE Scan
  BY <1>8 DEF Scan
<1>9. CASE ScanEnds
  BY <1>9 DEF ScanEnds, Return
<1>10. CASE CancelTakeOwn
  BY <1>10 DEF CancelTakeOwn
<1>11. CASE CancelCount
  BY <1>11 DEF CancelCount
<1>12. CASE CancelError
  BY <1>12 DEF CancelError
<1>13. CASE CancelThread
  BY <1>13 DEF CancelThread
<1>14. CASE CancelWait
  BY <1>14 DEF CancelWait
<1>15. CASE ShrinkNext
  BY <1>15 DEF ShrinkNext, Return
<1>16. CASE Destroy
  BY <1>16 DEF Destroy, MStart
<1>17. CASE DestroyStatus
  BY <1>17 DEF DestroyStatus
<1>18. CASE DestroyNext
  BY <1>18 DEF DestroyNext
<1>19. CASE DestroyList
  BY <1>19 DEF DestroyList
<1>20. CASE CreateFails
  BY <1>20 DEF CreateFails
<1>21. CASE UNCHANGED vars
  BY <1>21
<1> QED
  BY <1>1, <1>2, <1>3, <1>4, <1>5, <1>6, <1>7, <1>8, <1>9, <1>10, <1>11, <1>12, <1>13,
     <1>14, <1>15, <1>16, <1>17, <1>18, <1>19, <1>20, <1>21 DEF Next, MonitorStep, WorkerActs, AwaitTimeout, Hypotheses

\* The monitor leaves a worker that it cancelled only when that one is dead, and the
\* destruction leaves dead workers behind it in the list.
LEMMA CancelStep == Hypotheses /\ Safe /\ [Next]_vars => CancelTrue'
<1> SUFFICES ASSUME Hypotheses, Safe, [Next]_vars PROVE CancelTrue'
  OBVIOUS
<1> USE DEF Safe, TypeOK, Listed, CancelTrue, ListTrue, MonitorTrue, ThreadsTrue, Cancelling, MGoto, Goto, vars, workerVars, monitorVars, poolVars
<1>1. ASSUME NEW w \in Workers, WorkerActs(w) PROVE CancelTrue'
  <2>1. \A i \in 1..Len(list) : list[i] \in Workers
    OBVIOUS
  <2>2. Kept /\ Listed' = Listed /\ pc' \in [Workers -> WorkerPC] /\ status' \in [Workers -> Statuses]
    BY <1>1, WorkerEffect, TypeStep DEF Kept
  <2>3. \A u \in Workers : pc[u] = "gone" => pc'[u] = "gone"
    BY <1>1, WorkerEffect DEF WorkerMoves, Moves
  <2>4. \A u \in Workers : status[u] = "DEAD" => status'[u] = "DEAD"
    BY <1>1, WorkerEffect DEF WorkerMoves, Moves
  <2> HIDE DEF Listed
  <2> QED BY <2>1, <2>2, <2>3, <2>4, ListedAreWorkers DEF Kept
<1>2. ASSUME NEW w \in Workers, Spawn(w) PROVE CancelTrue'
  BY <1>2 DEF Spawn
<1>3. CASE SpawnFails
  BY <1>3 DEF SpawnFails, Return
<1>4. CASE Insert
  BY <1>4 DEF Insert
<1>5. CASE Await
  BY <1>5 DEF Await, Return
<1>6. CASE Count
  BY <1>6 DEF Count, Return
<1>7. ASSUME NEW size \in Sizes, Sizectl(size) PROVE CancelTrue'
  BY <1>7 DEF Sizectl, MStart
<1>8. CASE Scan
  BY <1>8 DEF Scan
<1>9. CASE ScanEnds
  BY <1>9 DEF ScanEnds, Return
<1>10. CASE CancelTakeOwn
  BY <1>10 DEF CancelTakeOwn
<1>11. CASE CancelCount
  BY <1>11 DEF CancelCount
<1>12. CASE CancelError
  BY <1>12 DEF CancelError
<1>13. CASE CancelThread
  BY <1>13 DEF CancelThread
<1>14. CASE CancelWait
  <2>1. status[cur] = "DEAD" /\ cur \in Workers
    BY <1>14 DEF CancelWait, Hypotheses
  <2>2. pc[cur] = "gone"
    BY <2>1
  <2> QED BY <1>14, <2>1, <2>2 DEF CancelWait
<1>15. CASE ShrinkNext
  BY <1>15 DEF ShrinkNext, Return
<1>16. CASE Destroy
  BY <1>16 DEF Destroy, MStart
<1>17. CASE DestroyStatus
  <2>1. FirstOf = Nobody => Listed = {}
    BY FirstPlace
  <2>2. FirstOf # Nobody => Len(list) >= 1 /\ list[1] = FirstOf
    BY FirstPlace
  <2> HIDE DEF Listed
  <2>3. Listed' = Listed
    BY <1>17 DEF DestroyStatus, Listed
  <2> QED BY <1>17, <2>1, <2>2, <2>3 DEF DestroyStatus
<1>18. CASE DestroyNext
  <2> HIDE DEF Listed
  <2>1. cur \in Listed /\ job = "destroy" /\ Listed' = Listed /\ list' = list /\ pc' = pc
        /\ cur' = NextOf(cur) /\ job' = job /\ status' = status /\ cancelled' = cancelled
    BY <1>18 DEF DestroyNext, Listed
  <2>2. pc[cur] = "gone"
    BY <1>18, <2>1, Places DEF DestroyNext
  <2>3. \A i \in 1..PlaceOf(cur) : pc[list[i]] = "gone"
    BY <1>18, <2>1, <2>2, Places DEF DestroyNext
  <2>4. CASE NextOf(cur) = Nobody
    <3>1. \A w \in Listed : pc[w] = "gone"
      BY <2>1, <2>3, <2>4, Places DEF Listed, Range
    <3> QED BY <1>18, <2>1, <2>4, <3>1 DEF DestroyNext
  <2>5. CASE NextOf(cur) # Nobody
    <3>1. /\ PlaceOf(cur) \in 1..Len(list)
          /\ PlaceOf(cur) + 1 \in 1..Len(list) /\ list[PlaceOf(cur) + 1] = NextOf(cur)
      BY <2>1, <2>5, Places
    <3>2. \A i, j \in 1..Len(list) : list[j] = NextOf(cur) /\ i < j => pc[list[i]] = "gone"
      BY <2>3, <3>1
    <3> QED BY <1>18, <2>1, <2>5, <3>2 DEF DestroyNext
  <2> QED BY <2>4, <2>5
<1>19. CASE DestroyList
  BY <1>19 DEF DestroyList
<1>20. CASE CreateFails
  BY <1>20 DEF CreateFails
<1>21. CASE UNCHANGED vars
  BY <1>21
<1> QED
  BY <1>1, <1>2, <1>3, <1>4, <1>5, <1>6, <1>7, <1>8, <1>9, <1>10, <1>11, <1>12, <1>13,
     <1>14, <1>15, <1>16, <1>17, <1>18, <1>19, <1>20, <1>21 DEF Next, MonitorStep, WorkerActs, AwaitTimeout, Hypotheses

\* What is freed was left by its thread.
LEMMA FreedStep == Hypotheses /\ Safe /\ [Next]_vars => FreedIsUnused'
<1> SUFFICES ASSUME Hypotheses, Safe, [Next]_vars PROVE FreedIsUnused'
  OBVIOUS
<1> USE DEF Safe, TypeOK, FreedIsUnused, StartTrue, CancelTrue, ThreadsTrue, MonitorTrue, Cancelling, MGoto, Goto, vars, workerVars, monitorVars, poolVars
<1>1. ASSUME NEW w \in Workers, WorkerActs(w) PROVE FreedIsUnused'
  BY <1>1, WorkerEffect DEF WorkerMoves, Moves, Kept
<1>2. ASSUME NEW w \in Workers, Spawn(w) PROVE FreedIsUnused'
  BY <1>2 DEF Spawn
<1>3. CASE SpawnFails
  BY <1>3 DEF SpawnFails, Return
<1>4. CASE Insert
  BY <1>4 DEF Insert
<1>5. CASE Await
  BY <1>5 DEF Await, Return
<1>6. CASE Count
  BY <1>6 DEF Count, Return
<1>7. ASSUME NEW size \in Sizes, Sizectl(size) PROVE FreedIsUnused'
  BY <1>7 DEF Sizectl, MStart
<1>8. CASE Scan
  BY <1>8 DEF Scan
<1>9. CASE ScanEnds
  BY <1>9 DEF ScanEnds, Return
<1>10. CASE CancelTakeOwn
  BY <1>10 DEF CancelTakeOwn
<1>11. CASE CancelCount
  BY <1>11 DEF CancelCount
<1>12. CASE CancelError
  BY <1>12 DEF CancelError
<1>13. CASE CancelThread
  BY <1>13 DEF CancelThread
<1>14. CASE CancelWait
  BY <1>14 DEF CancelWait
<1>15. CASE ShrinkNext
  <2>1. cur \in Workers /\ status[cur] = "DEAD" /\ pc' = pc /\ freed' = freed \cup {cur}
        /\ mpc # "failed"
    BY <1>15 DEF ShrinkNext, ListTrue
  <2> QED BY <2>1
<1>16. CASE Destroy
  BY <1>16 DEF Destroy, MStart
<1>17. CASE DestroyStatus
  BY <1>17 DEF DestroyStatus
<1>18. CASE DestroyNext
  BY <1>18 DEF DestroyNext
<1>19. CASE DestroyList
  BY <1>19 DEF DestroyList
<1>20. CASE CreateFails
  <2>1. freed' = freed \cup Listed /\ mpc = "failed" /\ mpc' = mpc /\ pc' = pc
    BY <1>20 DEF CreateFails
  <2>2. \A w \in Listed : w \in Workers /\ pc[w] # "none"
    BY ListedAreWorkers
  <2> QED BY <2>1, <2>2
<1>21. CASE UNCHANGED vars
  BY <1>21
<1> QED
  BY <1>1, <1>2, <1>3, <1>4, <1>5, <1>6, <1>7, <1>8, <1>9, <1>10, <1>11, <1>12, <1>13,
     <1>14, <1>15, <1>16, <1>17, <1>18, <1>19, <1>20, <1>21 DEF Next, MonitorStep, WorkerActs, AwaitTimeout, Hypotheses

\* All of it.
LEMMA SafeStep == Hypotheses /\ Safe /\ [Next]_vars => Safe'
  BY TypeStep, MonitorTrueStep, ListStep, ThreadsStep, NewStep, StartStep, CancelStep, FreedStep DEF Safe

-----------------------------------------------------------------------------
(***************************************************************************)
(* The counters, as long as workers and monitor take turns.                *)
(***************************************************************************)

\* Once they have crossed they have.
LEMMA CrossedStays == TypeOK /\ [Next]_vars /\ ~crossed' => ~crossed
  BY DEF TypeOK, Next, WorkerStep, MonitorStep, Lookup, Register, TakePool, Busy, Ready, Clean, Dead,
         ActOnCancel, GetEvent, Finish, Wild, Spawn, SpawnFails, Insert, Await, AwaitTimeout, Count,
         Scan, ScanEnds, CancelTakeOwn, CancelCount, CancelError, CancelThread, CancelWait,
         ShrinkNext, DestroyStatus, DestroyNext, DestroyList, Sizectl, Destroy, MStart, CreateFails,
         vars, workerVars

\* A worker gets a task when the monitor is idle.
LEMMA GetsWhenIdle ==
    ASSUME Safe, NEW w \in Workers, WorkerActs(w), ~crossed', pc'[w] = "t_pool"
    PROVE  mpc = "idle"
<1> USE DEF Safe, TypeOK, Goto
<1>1. CASE GetEvent(w)
  BY <1>1 DEF GetEvent
<1>2. CASE ~GetEvent(w)
  BY <1>2 DEF WorkerActs, WorkerStep, Lookup, Register, TakePool, Busy, Ready, Clean, Dead,
         ActOnCancel, Finish, Wild
<1> QED BY <1>1, <1>2

\* Workers and monitor stay apart: nobody takes a task while the monitor is at work.
LEMMA ApartStep == Hypotheses /\ IInv /\ [Next]_vars /\ ~crossed' => Apart'
<1> SUFFICES ASSUME Hypotheses, IInv, [Next]_vars, ~crossed' PROVE Apart'
  OBVIOUS
<1>0. ~crossed /\ Apart /\ Counted /\ Within
  BY CrossedStays DEF IInv, InTurn, Safe
<1> USE <1>0 DEF IInv, Safe, TypeOK, Apart, ListTrue, ThreadsTrue, MonitorTrue, CancelTrue, Cancelling, FreePC, MGoto, Goto, vars, workerVars, monitorVars, poolVars
<1>1. ASSUME NEW w \in Workers, WorkerActs(w) PROVE Apart'
  <2>1. Kept /\ WorkerMoves(w) /\ (pc'[w] = "t_pool" => mpc = "idle")
    BY <1>1, WorkerEffect, GetsWhenIdle
  <2>2. \A u \in Workers : pc'[u] \in {"t_pool", "t_own"} => mpc' = "idle"
    BY <2>1 DEF Kept, WorkerMoves, Moves
  <2>3. job # "destroy" => \A u \in Workers : status'[u] = "READY" => pc'[u] \in FreePC
    BY <2>1 DEF Kept, WorkerMoves, Moves
  <2>4. mpc \in {"insert", "await"} => pc'[cur] \notin {"task", "f_pool", "f_own"}
    BY <2>1 DEF Kept, WorkerMoves, Moves
  <2>5. mpc = "count" => pc'[cur] = "wait"
    BY <2>1 DEF Kept, WorkerMoves, Moves
  <2>6. Cancelling /\ job = "shrink" =>
          /\ pc'[cur] \in {"wait", "clean", "dead", "gone"}
          /\ mpc \in {"c_own", "c_pool"} => pc'[cur] = "wait" /\ status'[cur] = "BEFREE"
          /\ mpc \in {"c_error", "c_cancel"} => pc'[cur] = "wait"
          /\ mpc \in {"c_cancel", "c_wait"} => status'[cur] \in {"ERROR", "DEAD"}
    BY <2>1 DEF Kept, WorkerMoves, Moves
  <2> QED BY <2>1, <2>2, <2>3, <2>4, <2>5, <2>6 DEF Kept
<1>2. ASSUME NEW w \in Workers, Spawn(w) PROVE Apart'
  <2>1. pc'[w] = "lookup" /\ status'[w] = "INIT" /\ mpc' = "insert" /\ cur' = w
        /\ \A u \in Workers \ {w} : pc'[u] = pc[u] /\ status'[u] = status[u]
    BY <1>2 DEF Spawn
  <2> QED BY <1>2, <2>1 DEF Spawn
<1>3. CASE SpawnFails
  BY <1>3 DEF SpawnFails, Return
<1>4. CASE Insert
  BY <1>4 DEF Insert
<1>5. CASE Await
  <2>1. cur \in Workers /\ mpc = "await" /\ status[cur] # "INIT" /\ pc' = pc
    BY <1>5 DEF Await
  <2>2. status[cur] = "READY" => pc[cur] = "wait"
    BY <2>1 DEF NewTrue
  <2>3. \A w \in Workers : pc[w] \notin {"t_pool", "t_own"}
    BY <2>1
  <2> QED BY <1>5, <2>1, <2>2, <2>3 DEF Await, Return
<1>6. CASE Count
  BY <1>6 DEF Count, Return
<1>7. ASSUME NEW size \in Sizes, Sizectl(size) PROVE Apart'
  BY <1>7 DEF Sizectl, MStart
<1>8. CASE Scan
  BY <1>8 DEF Scan
<1>9. CASE ScanEnds
  BY <1>9 DEF ScanEnds, Return
<1>10. CASE CancelTakeOwn
  BY <1>10 DEF CancelTakeOwn
<1>11. CASE CancelCount
  BY <1>11 DEF CancelCount
<1>12. CASE CancelError
  BY <1>12 DEF CancelError
<1>13. CASE CancelThread
  BY <1>13 DEF CancelThread
<1>14. CASE CancelWait
  BY <1>14 DEF CancelWait
<1>15. CASE ShrinkNext
  BY <1>15 DEF ShrinkNext, Return
<1>16. CASE Destroy
  BY <1>16 DEF Destroy, MStart
<1>17. CASE DestroyStatus
  BY <1>17 DEF DestroyStatus
<1>18. CASE DestroyNext
  BY <1>18 DEF DestroyNext
<1>19. CASE DestroyList
  BY <1>19 DEF DestroyList
<1>20. CASE CreateFails
  BY <1>20 DEF CreateFails
<1>21. CASE UNCHANGED vars
  BY <1>21
<1> QED
  BY <1>1, <1>2, <1>3, <1>4, <1>5, <1>6, <1>7, <1>8, <1>9, <1>10, <1>11, <1>12, <1>13,
     <1>14, <1>15, <1>16, <1>17, <1>18, <1>19, <1>20, <1>21 DEF Next, MonitorStep, WorkerActs, AwaitTimeout, Hypotheses

\* The sets that are counted, when neither the list nor a thread changes.
LEMMA SameSets ==
    ASSUME list' = list, pc' = pc
    PROVE  Active' = Active /\ Free' = Free
  BY DEF Active, Free, Listed

\* What is counted is finite.
LEMMA FiniteSets ==
    ASSUME ListTrue
    PROVE  /\ IsFiniteSet(Active) /\ IsFiniteSet(Free)
           /\ Cardinality(Active) \in Nat /\ Cardinality(Free) \in Nat
<1>1. Active \in SUBSET Listed /\ Free \in SUBSET Listed
  BY DEF Active, Free
<1>2. IsFiniteSet(Active) /\ IsFiniteSet(Free)
  BY <1>1, FS_Subset DEF ListTrue
<1> QED BY <1>2, FS_CardinalityType

\* Each step changes the counters by what it changes in the list and its threads.
LEMMA CountedStep == Hypotheses /\ IInv /\ [Next]_vars /\ ~crossed' => Counted'
<1> SUFFICES ASSUME Hypotheses, IInv, [Next]_vars, ~crossed' PROVE Counted'
  OBVIOUS
<1>0. ~crossed /\ Apart /\ Counted /\ Within
  BY CrossedStays DEF IInv, InTurn, Safe
<1> USE <1>0 DEF IInv, Safe, TypeOK, Apart, Counted, MonitorTrue, ListTrue, Cancelling, Creating, Uncounted, MGoto, Goto, vars, workerVars, monitorVars, poolVars
<1>1. ASSUME NEW w \in Workers, WorkerActs(w) PROVE Counted'
  <2>1. Kept /\ WorkerMoves(w) /\ Listed' = Listed /\ (pc'[w] = "t_pool" => mpc = "idle")
    BY <1>1, WorkerEffect, GetsWhenIdle DEF Kept, Listed
  <2>2. SUFFICES ASSUME job # "destroy", mpc # "failed" PROVE Counted'
    BY <2>1 DEF Kept
  <2>3. \A u \in Listed \ {w} : pc'[u] = pc[u]
    BY <2>1, ListedAreWorkers DEF WorkerMoves, Moves
  <2>4. Uncounted' = Uncounted
    BY <2>1 DEF Kept
  <2>5. w \notin Uncounted => (pc[w] \in ServingPC <=> pc'[w] \in ServingPC)
    BY <2>1, <2>2 DEF WorkerMoves, Moves, ServingPC, ThreadsTrue, CancelTrue
  <2>6. Active' \ Uncounted' = Active \ Uncounted
    BY <2>1, <2>3, <2>4, <2>5 DEF Active
  <2>7. CASE Busy(w)
    <3>1. available' = available - 1 /\ pc[w] = "t_own" /\ pc'[w] = "task"
      BY <1>1, <2>7 DEF Busy
    <3>2. w \in Free \ Uncounted
      BY <3>1, <2>2 DEF Free, FreePC, ServingPC, ThreadsTrue
    <3>3. Free' \ Uncounted' = (Free \ Uncounted) \ {w}
      BY <3>1, <2>1, <2>3, <2>4 DEF Free, FreePC
    <3>4. IsFiniteSet(Free \ Uncounted)
      BY FiniteSets, FS_Difference
    <3> QED BY <3>1, <3>2, <3>3, <3>4, <2>1, <2>6, FS_RemoveElement, ZenonT(60) DEF Kept
  <2>8. CASE Ready(w)
    <3>1. available' = available + 1 /\ pc[w] = "f_own" /\ pc'[w] = "wait"
      BY <1>1, <2>8 DEF Ready
    <3>2. w \in Listed /\ w \notin Free /\ w \notin Uncounted
      BY <3>1, <2>2 DEF Free, FreePC, ServingPC, ThreadsTrue
    <3>3. Free' \ Uncounted' = (Free \ Uncounted) \cup {w}
      BY <3>1, <3>2, <2>1, <2>3, <2>4 DEF Free, FreePC
    <3>4. IsFiniteSet(Free \ Uncounted)
      BY FiniteSets, FS_Difference
    <3>5. w \notin Free \ Uncounted
      BY <3>2
    <3>6. Cardinality((Free \ Uncounted) \cup {w}) = Cardinality(Free \ Uncounted) + 1
      BY <3>4, <3>5, FS_AddElement
    <3> QED BY <3>1, <3>3, <3>6, <2>1, <2>2, <2>6 DEF Kept
  <2>9. CASE ~Busy(w) /\ ~Ready(w)
    <3>1. available' = available
      BY <1>1, <2>9 DEF WorkerActs, WorkerStep, Lookup, Register, TakePool, Clean, Dead, GetEvent, Finish, ActOnCancel, Wild
    <3>2. ~(pc[w] = "t_own" /\ pc'[w] = "task") /\ ~(pc[w] = "f_own" /\ pc'[w] = "wait")
      BY <1>1, <2>9 DEF WorkerActs, WorkerStep, Lookup, Register, TakePool, Clean, Dead, GetEvent, Finish, ActOnCancel, Wild
    <3>3. w \notin Uncounted => (pc[w] \in FreePC <=> pc'[w] \in FreePC)
      BY <3>2, <2>1, <2>2 DEF WorkerMoves, Moves, FreePC, ThreadsTrue, CancelTrue
    <3>4. Free' \ Uncounted' = Free \ Uncounted
      BY <3>3, <2>1, <2>3, <2>4 DEF Free
    <3> QED BY <3>1, <3>4, <2>1, <2>6 DEF Kept
  <2> QED BY <2>7, <2>8, <2>9
<1>2. ASSUME NEW w \in Workers, Spawn(w) PROVE Counted'
  <2>1. w \notin Listed /\ Listed' = Listed
    BY <1>2 DEF Spawn, ThreadsTrue, Listed
  <2>2. \A u \in Listed : pc'[u] = pc[u]
    BY <1>2, <2>1, ListedAreWorkers DEF Spawn
  <2>3. Active' = Active /\ Free' = Free
    BY <2>1, <2>2 DEF Active, Free
  <2> QED BY <1>2, <2>3 DEF Spawn
<1>3. CASE SpawnFails
  BY <1>3, SameSets DEF SpawnFails, Return
<1>4. CASE Insert
  <2>1. mpc = "insert" /\ mpc' = "await" /\ cur' = cur /\ pc' = pc /\ list' = Append(list, cur)
        /\ job' = job /\ cursize' = cursize /\ available' = available
    BY <1>4 DEF Insert
  <2>2. Listed' = Listed \cup {cur} /\ cur \notin Listed
    BY <2>1, AppendNode DEF Listed
  <2>3. Active' \ {cur} = Active /\ Free' \ {cur} = Free
    BY <2>1, <2>2 DEF Active, Free
  <2>4. Active \ {} = Active /\ Free \ {} = Free
    OBVIOUS
  <2> QED BY <2>1, <2>3, <2>4
<1>5. CASE Await
  <2>1. Active' = Active /\ Free' = Free
    BY <1>5, SameSets DEF Await
  <2>2. CASE mpc' = "count"
    BY <1>5, <2>1, <2>2 DEF Await, Return
  <2>3. CASE mpc' # "count"
    <3>1. pc[cur] = "gone"
      BY <1>5, <2>3 DEF Await, NewTrue, FreePC
    <3>2. Active \ {cur} = Active \ {} /\ Free \ {cur} = Free \ {}
      BY <3>1 DEF Active, Free, ServingPC, FreePC
    <3> QED BY <1>5, <2>1, <2>3, <3>2 DEF Await, Return
  <2> QED BY <2>2, <2>3
<1>6. CASE Count
  <2>1. mpc = "count" /\ mpc' \in {"spawn", "idle", "failed"} /\ cursize' = cursize + 1
        /\ available' = available + 1 /\ job' = job /\ Active' = Active /\ Free' = Free
    BY <1>6, SameSets DEF Count, Return
  <2>2. cur \in Active /\ cur \in Free
    BY <2>1 DEF Active, Free, ServingPC, FreePC
  <2>3. /\ Cardinality(Active \ {cur}) = Cardinality(Active) - 1
        /\ Cardinality(Free \ {cur}) = Cardinality(Free) - 1
    BY <2>2, FiniteSets, FS_RemoveElement
  <2>4. Active \ {} = Active /\ Free \ {} = Free
    OBVIOUS
  <2>5. Uncounted = {cur} /\ Uncounted' = {}
    BY <2>1
  <2>6. cursize = Cardinality(Active) - 1 /\ available = Cardinality(Free) - 1
    BY <2>1, <2>3, <2>5
  <2>7. cursize' = Cardinality(Active') /\ available' = Cardinality(Free')
    BY <2>1, <2>6, FiniteSets
  <2> QED BY <2>4, <2>5, <2>7, <2>1
<1>7. ASSUME NEW size \in Sizes, Sizectl(size) PROVE Counted'
  BY <1>7, SameSets DEF Sizectl, MStart
<1>8. CASE Scan
  BY <1>8, SameSets DEF Scan
<1>9. CASE ScanEnds
  BY <1>9, SameSets DEF ScanEnds, Return
<1>10. CASE CancelTakeOwn
  BY <1>10, SameSets DEF CancelTakeOwn
<1>11. CASE CancelCount
  <2>1. mpc = "c_pool" /\ cur' = cur /\ job' = job /\ Active' = Active /\ Free' = Free
    BY <1>11, SameSets DEF CancelCount
  <2>2. SUFFICES ASSUME job = "shrink" PROVE Counted'
    BY <2>1
  <2>3. pc[cur] = "wait" /\ status[cur] = "BEFREE"
    BY <2>1, <2>2
  <2>4. mpc' = "c_error" /\ cursize' = cursize - 1 /\ available' = available - 1
    BY <1>11, <2>3 DEF CancelCount
  <2>5. cur \in Active /\ cur \in Free
    BY <2>1, <2>3 DEF Active, Free, ServingPC, FreePC
  <2>6. /\ Cardinality(Active \ {cur}) = Cardinality(Active) - 1
        /\ Cardinality(Free \ {cur}) = Cardinality(Free) - 1
    BY <2>5, FiniteSets, FS_RemoveElement
  <2>7. Active \ {} = Active /\ Free \ {} = Free
    OBVIOUS
  <2> QED BY <2>1, <2>4, <2>6, <2>7
<1>12. CASE CancelError
  BY <1>12, SameSets DEF CancelError
<1>13. CASE CancelThread
  BY <1>13, SameSets DEF CancelThread
<1>14. CASE CancelWait
  BY <1>14, SameSets DEF CancelWait
<1>15. CASE ShrinkNext
  <2>1. mpc = "c_next" /\ cur \in Listed /\ job = "shrink" /\ job' = job /\ pc' = pc
        /\ mpc' \in {"scan", "idle"} /\ cursize' = cursize /\ available' = available
        /\ list' = RemoveAt(list, PlaceOf(cur))
    BY <1>15 DEF ShrinkNext, Return
  <2>2. Listed' = Listed \ {cur}
    BY <2>1, Places, RemoveNode DEF Listed
  <2>3. Active' \ {} = Active \ {cur} /\ Free' \ {} = Free \ {cur}
    BY <2>1, <2>2 DEF Active, Free
  <2> QED BY <2>1, <2>3
<1>16. CASE Destroy
  BY <1>16, SameSets DEF Destroy, MStart
<1>17. CASE DestroyStatus
  BY <1>17, SameSets DEF DestroyStatus
<1>18. CASE DestroyNext
  BY <1>18, SameSets DEF DestroyNext
<1>19. CASE DestroyList
  BY <1>19, SameSets DEF DestroyList
<1>20. CASE CreateFails
  BY <1>20 DEF CreateFails
<1>21. CASE UNCHANGED vars
  BY <1>21, SameSets

<1> QED
  BY <1>1, <1>2, <1>3, <1>4, <1>5, <1>6, <1>7, <1>8, <1>9, <1>10, <1>11, <1>12, <1>13,
     <1>14, <1>15, <1>16, <1>17, <1>18, <1>19, <1>20, <1>21 DEF Next, MonitorStep, WorkerActs, AwaitTimeout, Hypotheses

\* The threads that serve, and those still to be counted, fit the maximum.
LEMMA WithinStep == Hypotheses /\ IInv /\ [Next]_vars /\ ~crossed' => Within'
<1> SUFFICES ASSUME Hypotheses, IInv, [Next]_vars, ~crossed' PROVE Within'
  OBVIOUS
<1>0. ~crossed /\ Apart /\ Counted /\ Within
  BY CrossedStays DEF IInv, InTurn, Safe
<1> USE <1>0 DEF IInv, Safe, TypeOK, Apart, Within, MonitorTrue, ListTrue, Cancelling, Creating, Pending, MGoto, Goto, vars, workerVars, monitorVars, poolVars
<1>1. ASSUME NEW w \in Workers, WorkerActs(w) PROVE Within'
  <2>1. Kept /\ WorkerMoves(w) /\ Listed' = Listed
    BY <1>1, WorkerEffect DEF Kept, Listed
  <2>2. CASE mpc = "failed" \/ job = "destroy"
    <3>1. \A u \in Listed : pc'[u] \in ServingPC => pc[u] \in ServingPC
      BY <2>1, <2>2, ListedAreWorkers DEF WorkerMoves, Moves, ServingPC, ThreadsTrue
    <3>2. Active' \in SUBSET Active
      BY <2>1, <3>1 DEF Active
    <3>3. Cardinality(Active') <= Cardinality(Active) /\ Cardinality(Active') \in Nat
      BY <3>2, FiniteSets, FS_Subset, FS_CardinalityType
    <3> QED BY <2>1, <2>2, <3>3, FiniteSets, TpoolAssumption DEF Kept
  <2>3. CASE mpc # "failed" /\ job # "destroy"
    BY <2>1, <2>3 DEF Kept
  <2> QED BY <2>2, <2>3
<1>2. ASSUME NEW w \in Workers, Spawn(w) PROVE Within'
  BY <1>2 DEF Spawn
<1>3. CASE SpawnFails
  <2>1. Active' = Active /\ Active \ {} = Active
    BY <1>3, SameSets DEF SpawnFails
  <2>2. Cardinality(Active) = cursize /\ cursize <= Maxsize
    BY <1>3, <2>1, TpoolAssumption DEF SpawnFails, Counted, Uncounted
  <2> QED BY <1>3, <2>1, <2>2 DEF SpawnFails, Return
<1>4. CASE Insert
  BY <1>4 DEF Insert
<1>5. CASE Await
  <2>1. Active' = Active
    BY <1>5, SameSets DEF Await
  <2>2. mpc' = "failed" => cur \notin Active
    BY <1>5 DEF Await, Return, NewTrue, FreePC, Active, ServingPC
  <2>3. mpc' = "failed" => Active \ {cur} = Active
    BY <2>2
  <2>4. Cardinality(Active \ {cur}) = cursize /\ cursize <= Maxsize
    BY <1>5, TpoolAssumption DEF Await, Counted, Uncounted
  <2>5. mpc = "await" /\ job' = job /\ cursize' = cursize /\ mpc' \in {"count", "idle", "failed"}
        /\ (mpc' = "count" => left' = left)
    BY <1>5 DEF Await, Return
  <2>6. mpc' = "failed" => Cardinality(Active') <= Maxsize
    BY <2>1, <2>3, <2>4
  <2>7. job # "destroy" /\ cursize + left <= Maxsize
    BY <2>5
  <2> QED BY <2>4, <2>5, <2>6, <2>7
<1>6. CASE Count
  BY <1>6, TpoolAssumption DEF Count, Return
<1>7. ASSUME NEW size \in Sizes, Sizectl(size) PROVE Within'
  BY <1>7, TpoolAssumption DEF Sizectl, MStart
<1>8. CASE Scan
  BY <1>8, SameSets DEF Scan
<1>9. CASE ScanEnds
  BY <1>9, SameSets DEF ScanEnds, Return
<1>10. CASE CancelTakeOwn
  BY <1>10, SameSets DEF CancelTakeOwn
<1>11. CASE CancelCount
  <2>1. Active' = Active
    BY <1>11, SameSets DEF CancelCount
  <2>2. job = "shrink" => status[cur] # "DEAD"
    BY <1>11 DEF CancelCount
  <2> QED BY <1>11, <2>1, <2>2, TpoolAssumption DEF CancelCount
<1>12. CASE CancelError
  BY <1>12, SameSets DEF CancelError
<1>13. CASE CancelThread
  BY <1>13, SameSets DEF CancelThread
<1>14. CASE CancelWait
  BY <1>14, SameSets, TpoolAssumption DEF CancelWait
<1>15. CASE ShrinkNext
  BY <1>15 DEF ShrinkNext, Return
<1>16. CASE Destroy
  <2>1. Active' = Active /\ Active \ {} = Active
    BY <1>16, SameSets DEF Destroy, MStart
  <2>2. Cardinality(Active) = cursize /\ cursize <= Maxsize
    BY <1>16, <2>1 DEF Destroy, MStart, Counted, Uncounted
  <2> QED BY <1>16, <2>1, <2>2 DEF Destroy, MStart
<1>17. CASE DestroyStatus
  BY <1>17, SameSets DEF DestroyStatus
<1>18. CASE DestroyNext
  BY <1>18, SameSets DEF DestroyNext
<1>19. CASE DestroyList
  BY <1>19, SameSets DEF DestroyList
<1>20. CASE CreateFails
  <2>1. Active' = {}
    BY <1>20 DEF CreateFails, Active, Listed, Range
  <2>2. Cardinality(Active') = 0
    BY <2>1, FS_EmptySet
  <2> QED BY <1>20, <2>2, TpoolAssumption DEF CreateFails
<1>21. CASE UNCHANGED vars
  BY <1>21, SameSets

<1> QED
  BY <1>1, <1>2, <1>3, <1>4, <1>5, <1>6, <1>7, <1>8, <1>9, <1>10, <1>11, <1>12, <1>13,
     <1>14, <1>15, <1>16, <1>17, <1>18, <1>19, <1>20, <1>21 DEF Next, MonitorStep, WorkerActs, AwaitTimeout, Hypotheses

\* Init satisfies all of it.
LEMMA InitIInv == Hypotheses /\ Init => IInv
<1> SUFFICES ASSUME Hypotheses, Init PROVE IInv
  OBVIOUS
<1> USE TpoolAssumption DEF Init
<1>1. Listed = {} /\ Len(list) = 0 /\ list \in Seq(Workers)
  BY DEF Listed, Range
<1>2. TypeOK
  <2>1. Defsize \in Nat
    OBVIOUS
  <2>2. status \in [Workers -> Statuses] /\ pc \in [Workers -> WorkerPC] /\ mpc \in MonitorPC
    BY DEF Statuses, WorkerPC, MonitorPC
  <2>3. wrw \in [Workers -> {Monitor, Nobody}] /\ freed \subseteq Workers /\ cancelled \subseteq Workers
    OBVIOUS
  <2>4. /\ pstatus \in {"init", "ready", "unavailable"} /\ cursize \in Int /\ available \in Int
        /\ prw \in Workers \cup {Nobody} /\ cur \in Workers \cup {Nobody}
        /\ job \in {"init", "expand", "shrink", "destroy"} /\ left \in Nat
    BY <2>1
  <2>5. list \in Seq(Workers)
    BY <1>1
  <2>6. crossed \in BOOLEAN
    BY Zenon
  <2> HIDE DEF Init
  <2> QED BY <2>2, <2>3, <2>4, <2>5, <2>6, Zenon DEF TypeOK
<1>3. MonitorTrue
  BY DEF MonitorTrue, Creating, Cancelling
<1>4. ListTrue
  BY <1>1, FS_EmptySet DEF ListTrue, Cancelling
<1>5. ThreadsTrue
  BY <1>1 DEF ThreadsTrue, ServingPC
<1>6. NewTrue /\ StartTrue /\ FreedIsUnused
  BY DEF NewTrue, StartTrue, FreedIsUnused
<1>7. CancelTrue
  BY DEF CancelTrue, Cancelling
<1>8. Active \ Uncounted = {} /\ Free \ Uncounted = {}
  BY <1>1 DEF Active, Free
<1>9. Apart
  BY DEF Apart, FreePC, Cancelling
<1>10. Counted
  BY <1>8, FS_EmptySet DEF Counted
<1>11. Within
  BY DEF Within, Hypotheses, Pending, Creating
<1> QED BY <1>2, <1>3, <1>4, <1>5, <1>6, <1>7, <1>9, <1>10, <1>11 DEF IInv, Safe, InTurn

\* The invariant is inductive.
LEMMA NextIInv == Hypotheses /\ IInv /\ [Next]_vars => IInv'
  BY SafeStep, ApartStep, CountedStep, WithinStep DEF IInv, InTurn

\* The workers that serve are within the maximum, counted or not.
LEMMA ActiveBound == IInv /\ ~crossed => Cardinality(Active) <= Maxsize
<1> SUFFICES ASSUME IInv, ~crossed, job # "destroy", mpc # "failed" PROVE Cardinality(Active) <= Maxsize
  BY DEF IInv, InTurn, Within
<1> USE DEF IInv, InTurn, Safe, MonitorTrue
<1>1. Cardinality(Active \ Uncounted) = cursize /\ cursize + Pending <= Maxsize
      /\ IsFiniteSet(Active) /\ Cardinality(Active) \in Nat /\ cursize \in Int /\ left \in Nat
  BY FiniteSets DEF Counted, Within, TypeOK
<1>2. CASE cur \notin Active \/ Uncounted = {}
  <2>1. Active \ Uncounted = Active
    BY <1>2 DEF Uncounted
  <2> QED BY <1>1, <2>1, TpoolAssumption DEF Pending, Creating
<1>3. CASE cur \in Active /\ Uncounted = {cur}
  <2>1. Cardinality(Active \ Uncounted) = Cardinality(Active) - 1
    BY <1>1, <1>3, FS_RemoveElement
  <2>2. mpc # "c_next"
    BY <1>3 DEF Active, ServingPC, CancelTrue, ThreadsTrue, TypeOK, ListTrue, Cancelling
  <2>3. Pending >= 1
    BY <1>1, <1>3, <2>2, FS_EmptySet DEF Uncounted, Pending, Creating
  <2> QED BY <1>1, <2>1, <2>3, TpoolAssumption DEF Pending
<1> QED BY <1>2, <1>3 DEF Uncounted

-----------------------------------------------------------------------------
\* As long as no wait times out, a structure is freed when its thread has ended,
\* and the counters and the maximum are kept while size and tasks take turns.
THEOREM WorkersHold == Hypotheses /\ Spec => []WorkersSound
<1> SUFFICES ASSUME Hypotheses PROVE Spec => []WorkersSound
  OBVIOUS
<1>1. IInv => WorkersSound
  <2> SUFFICES ASSUME IInv PROVE ExactInTurn /\ WithinMaximum
    BY DEF WorkersSound, IInv, Safe
  <2> SUFFICES ASSUME ~crossed PROVE CountersExact /\ Cardinality({w \in Workers : Serving(w)}) <= Maxsize
    BY DEF ExactInTurn, WithinMaximum
  <2>1. Listed \subseteq Workers
    BY ListedAreWorkers DEF IInv, Safe
  <2>2. IsFiniteSet(Active) /\ Cardinality(Active) \in Nat
    BY FiniteSets DEF IInv, Safe
  <2>3. {w \in Workers : Serving(w)} \in SUBSET Active
    BY DEF Serving, Active, ServingPC
  <2>4. Cardinality({w \in Workers : Serving(w)}) <= Cardinality(Active)
        /\ Cardinality({w \in Workers : Serving(w)}) \in Nat
    BY <2>2, <2>3, FS_Subset, FS_CardinalityType
  <2>5. Cardinality({w \in Workers : Serving(w)}) <= Maxsize
    BY <2>2, <2>4, ActiveBound, TpoolAssumption
  <2>6. ASSUME Quiet PROVE cursize = Cardinality({w \in Workers : Serving(w)})
                           /\ available = Cardinality({w \in Workers : Serving(w) /\ pc[w] = "wait"})
    <3>1. mpc = "idle" /\ job # "destroy" /\ Uncounted = {}
      BY <2>6 DEF Quiet, IInv, Safe, MonitorTrue, Uncounted, Cancelling
    <3>2. Active \ Uncounted = {w \in Workers : Serving(w)}
      BY <2>1, <2>6, <3>1 DEF Active, ServingPC, Serving, Quiet
    <3>3. Free \ Uncounted = {w \in Workers : Serving(w) /\ pc[w] = "wait"}
      BY <2>1, <2>6, <3>1 DEF Free, FreePC, Serving, Quiet
    <3> QED BY <3>1, <3>2, <3>3 DEF IInv, InTurn, Counted
  <2> QED BY <2>5, <2>6 DEF CountersExact
<1>2. (Init => IInv) /\ (IInv /\ [Next]_vars => IInv')
  BY InitIInv, NextIInv
<1> QED BY <1>1, <1>2, PTL DEF Spec

\* A worker in its task does not look ready, whatever crosses.
TaskTrue == \A w \in Workers : pc[w] \in {"task", "f_pool", "f_own"} => status[w] # "READY"

LEMMA TaskStep == TypeOK /\ TaskTrue /\ [Next]_vars => TaskTrue'
<1> SUFFICES ASSUME TypeOK, TaskTrue, [Next]_vars PROVE TaskTrue'
  OBVIOUS
<1> USE DEF TypeOK, TaskTrue
<1>1. ASSUME NEW w \in Workers, WorkerActs(w) PROVE TaskTrue'
  <2> USE DEF Goto
  <2>1. CASE Lookup(w) \/ Wild(w) \/ GetEvent(w) \/ TakePool(w) \/ ActOnCancel(w) \/ Clean(w) \/ Finish(w)
    BY <2>1 DEF Lookup, Wild, GetEvent, TakePool, ActOnCancel, Clean, Finish
  <2>2. CASE Register(w) \/ Ready(w) \/ Dead(w) \/ Busy(w)
    BY <2>2 DEF Register, Ready, Dead, Busy
  <2> QED BY <1>1, <2>1, <2>2 DEF WorkerActs, WorkerStep
<1>2. ASSUME NEW w \in Workers, Spawn(w) PROVE TaskTrue'
  BY <1>2 DEF Spawn, Goto
<1>3. ASSUME MonitorStep, ~(\E w \in Workers : Spawn(w)) PROVE TaskTrue'
  BY <1>3 DEF MonitorStep, SpawnFails, Insert, Await, AwaitTimeout, Count, Scan, ScanEnds,
         CancelTakeOwn, CancelCount, CancelError, CancelThread, CancelWait, ShrinkNext,
         DestroyStatus, DestroyNext, DestroyList, workerVars
<1>4. ASSUME NEW size \in Sizes, Sizectl(size) PROVE TaskTrue'
  BY <1>4 DEF Sizectl, MStart
<1>5. CASE Destroy \/ CreateFails \/ UNCHANGED vars
  BY <1>5 DEF Destroy, MStart, CreateFails, vars, workerVars
<1> QED BY <1>1, <1>2, <1>3, <1>4, <1>5 DEF Next, WorkerActs

\* A shrink never chooses a worker that is in its task, whatever crosses, nor ends one
\* that has a task until a worker first takes one while the monitor changes the size
\* or destroys (Tpoolcore.c:352-359).  From then on a worker can take a task after it
\* was chosen, and lose it.
THEOREM ShrinkSpares == Hypotheses /\ Spec => ShrinkSparesTasks
<1> SUFFICES ASSUME Hypotheses PROVE Spec => ShrinkSparesTasks
  OBVIOUS
<1>1. ASSUME IInv, [Next]_vars
      PROVE  [\A w \in Workers :
                 ~crossed' /\ pc[w] \in {"t_pool", "task"} /\ pc'[w] = "clean" => job = "destroy"]_vars
  <2> SUFFICES ASSUME NEW w \in Workers, ~crossed', pc[w] \in {"t_pool", "task"}, pc'[w] = "clean"
               PROVE  job = "destroy"
    OBVIOUS
  <2>1. ~crossed /\ Apart /\ Safe
    BY <1>1, CrossedStays DEF IInv, InTurn, Safe
  <2>2. w \in cancelled
    <3> USE DEF Goto, Safe, TypeOK
    <3>1. ASSUME NEW u \in Workers, WorkerActs(u) PROVE w \in cancelled
      BY <2>1, <3>1, WorkerEffect DEF WorkerMoves, Moves
    <3>2. ASSUME NEW u \in Workers, Spawn(u) PROVE FALSE
      BY <2>1, <3>2 DEF Spawn
    <3>3. ASSUME MonitorStep, ~(\E u \in Workers : Spawn(u)) PROVE pc' = pc
      BY <3>3 DEF MonitorStep, SpawnFails, Insert, Await, AwaitTimeout, Count, Scan, ScanEnds,
             CancelTakeOwn, CancelCount, CancelError, CancelThread, CancelWait, ShrinkNext,
             DestroyStatus, DestroyNext, DestroyList, workerVars
    <3>4. ASSUME NEW size \in Sizes, Sizectl(size) PROVE pc' = pc
      BY <3>4 DEF Sizectl, MStart
    <3>5. CASE Destroy \/ CreateFails \/ UNCHANGED vars
      BY <3>5 DEF Destroy, MStart, CreateFails, vars, workerVars
    <3> QED BY <1>1, <3>1, <3>2, <3>3, <3>4, <3>5 DEF Next, WorkerActs
  <2>3. job # "destroy" => w = cur /\ mpc = "c_wait" /\ job = "shrink"
    BY <2>1, <2>2 DEF Safe, CancelTrue
  <2> QED BY <2>1, <2>3 DEF Apart, Cancelling
<1>2. ASSUME IInv, TaskTrue, [Next]_vars
      PROVE  [\A w \in Workers :
                 mpc = "scan" /\ mpc' = "c_own" /\ cur = w => pc[w] \notin {"task", "f_pool"}]_vars
  <2> SUFFICES ASSUME NEW w \in Workers, mpc = "scan", mpc' = "c_own", cur = w
               PROVE  pc[w] \notin {"task", "f_pool"}
    OBVIOUS
  <2>1. ASSUME NEW u \in Workers, WorkerActs(u) PROVE mpc' = mpc
    BY <2>1 DEF WorkerActs, WorkerStep, Lookup, Wild, Register, GetEvent, TakePool, Busy, Finish,
           Ready, ActOnCancel, Clean, Dead, monitorVars
  <2>2. ASSUME MonitorStep PROVE status[cur] = "READY"
    BY <2>2 DEF MonitorStep, Spawn, SpawnFails, Insert, Await, AwaitTimeout, Count, Scan, ScanEnds,
           CancelTakeOwn, CancelCount, CancelError, CancelThread, CancelWait, ShrinkNext, MGoto,
           DestroyStatus, DestroyNext, DestroyList, Return
  <2>3. ASSUME NEW size \in Sizes, Sizectl(size) PROVE FALSE
    BY <2>3 DEF Sizectl, MStart
  <2>4. ~(Destroy \/ CreateFails \/ UNCHANGED vars)
    BY DEF Destroy, MStart, CreateFails, vars, monitorVars
  <2>5. status[w] = "READY"
    BY <1>2, <2>1, <2>2, <2>3, <2>4 DEF Next, WorkerActs
  <2> QED BY <1>2, <2>5 DEF TaskTrue
<1>3. Init => IInv /\ TaskTrue
  BY InitIInv DEF Init, TaskTrue
<1>4. IInv /\ TaskTrue /\ [Next]_vars => (IInv /\ TaskTrue)'
  BY NextIInv, TaskStep DEF IInv, Safe
<1>5. ASSUME IInv, TaskTrue, [Next]_vars
      PROVE  [\A w \in Workers :
          /\ mpc = "scan" /\ mpc' = "c_own" /\ cur = w => pc[w] \notin {"task", "f_pool"}
          /\ ~crossed' /\ pc[w] \in {"t_pool", "task"} /\ pc'[w] = "clean" => job = "destroy"]_vars
  BY <1>1, <1>2, <1>5
<1> QED BY <1>3, <1>4, <1>5, PTL DEF Spec, ShrinkSparesTasks

=============================================================================
