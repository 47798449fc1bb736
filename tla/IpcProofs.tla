------------------------------ MODULE IpcProofs ------------------------------
(***************************************************************************)
(* Proofs about System V and POSIX communication.  First VipcSem, for any  *)
(* number of processes, units and sets, with timeouts, signals, removal,   *)
(* and processes that die; then VipcMsg, for any number of clients, calls  *)
(* and queues, with alarms, removal, and errors in every system call; then *)
(* PipcMsg, for any number of threads, descriptors, messages and room, and *)
(* any sharing of the descriptors.                                         *)
(***************************************************************************)
EXTENDS VipcSem, VipcMsg, PipcMsg, FiniteSetTheorems, NaturalsInduction, WellFoundedInduction,
        SequenceTheorems, TLAPS

\* A set on which SETALL is not done has nothing to grab: nobody holds a unit of
\* it and no semop has completed on it.
BareSet == set # 0 /\ ~inited => val = 0 /\ ~otime /\ Holders = {}

\* Whoever has still to do SETALL made the identifier it works with, alone, and
\* the set is bare until then.
Maker ==
    \A p \in Procs : pc[p] = "setall" =>
        /\ id[p] = set => ~inited
        /\ \A q \in Procs : pc[q] = "setall" /\ id[q] = id[p] => q = p

\* An identifier comes before what is done with it, and a process that has a
\* unit does not ask for another.
Working ==
    \A p \in Procs :
        /\ pc[p] \in {"setall", "grab"} \/ held[p] = 1 => id[p] # 0
        /\ pc[p] = "grab" => held[p] = 0

SemInv == TypeOK /\ BareSet /\ Maker /\ Working /\ UnitsConserved

LEMMA HoldersFinite ==
  ASSUME TypeOK
  PROVE  /\ Holders \in SUBSET Procs /\ IsFiniteSet(Holders)
         /\ Cardinality(Holders) \in Nat
         /\ \A p \in Holders : Cardinality(Holders) > 0
<1>1. Holders \in SUBSET Procs
  BY DEF Holders
<1>2. IsFiniteSet(Holders)
  BY <1>1, FS_Subset, VipcSemAssumption
<1>3. Cardinality(Holders) \in Nat
  BY <1>2, FS_CardinalityType
<1>4. ASSUME NEW p \in Holders PROVE Cardinality(Holders) > 0
  BY <1>2, <1>3, FS_EmptySet
<1> QED
  BY <1>1, <1>2, <1>3, <1>4

\* vipc_sem_grab and vipc_sem_grab_nowait: a unit changes hands, and there is one
\* only when SETALL was done.
LEMMA UnitTaken ==
  ASSUME SemInv, NEW p \in Procs, TakeUnit(p), id[p] # 0, held[p] = 0,
         UNCHANGED <<set, last, inited, id, timed, alive>>,
         pc' = [pc EXCEPT ![p] = "idle"]
  PROVE  SemInv'
<1> USE DEF SemInv
<1>1. inited
  BY VipcSemAssumption DEF TakeUnit, BareSet, TypeOK
<1>2. Holders' = Holders \cup {p} /\ p \notin Holders
  BY DEF TakeUnit, Holders, TypeOK
<1>3. Cardinality(Holders') = Cardinality(Holders) + 1
  BY <1>2, HoldersFinite, FS_AddElement
<1>4. UnitsConserved'
  BY <1>1, <1>3, HoldersFinite, VipcSemAssumption DEF UnitsConserved, TakeUnit, TypeOK
<1>5. TypeOK'
  BY VipcSemAssumption DEF TakeUnit, TypeOK, PC
<1>6. BareSet' /\ Maker' /\ Working'
  BY <1>1 DEF BareSet, Maker, Working, TakeUnit, TypeOK, PC
<1> QED
  BY <1>4, <1>5, <1>6

\* vipc_sem_free: the unit of a set that is still there goes back, and there was
\* room for it.
LEMMA UnitFreed ==
  ASSUME SemInv, NEW p \in Procs, Free(p)
  PROVE  SemInv'
<1> USE DEF SemInv
<1>1. held[p] = 1 /\ held' = [held EXCEPT ![p] = 0]
  <2>1. held[p] \in 0..1 /\ held[p] > 0
    BY DEF Free, TypeOK
  <2>2. held[p] = 1 /\ held[p] - 1 = 0
    BY <2>1
  <2> QED
    BY <2>2 DEF Free
<1>2. CASE set = id[p]
  <2>1. p \in Holders /\ set # 0
    BY <1>1, <1>2 DEF Holders, Working
  <2>2. inited
    BY <2>1 DEF BareSet
  <2>3. Holders' = Holders \ {p}
    BY <1>1 DEF Free, Holders, TypeOK
  <2>4. Cardinality(Holders') = Cardinality(Holders) - 1
    BY <2>1, <2>3, HoldersFinite, FS_RemoveElement
  <2>5. val + Cardinality(Holders) = Num /\ Cardinality(Holders) > 0
    BY <2>1, <2>2, HoldersFinite DEF UnitsConserved
  <2>6. val' = val + 1 /\ val' \in 0..Num
    BY <1>2, <2>5, HoldersFinite, VipcSemAssumption DEF Free, TypeOK
  <2>7. TypeOK'
    BY <1>1, <1>2, <2>6 DEF Free, TypeOK, PC
  <2>8. UnitsConserved'
    BY <2>4, <2>5, <2>6, HoldersFinite, VipcSemAssumption DEF UnitsConserved, TypeOK
  <2>9. BareSet' /\ Maker' /\ Working'
    BY <1>1, <2>2 DEF BareSet, Maker, Working, Free, TypeOK
  <2> QED
    BY <2>7, <2>8, <2>9
<1>3. CASE set # id[p]
  <2>1. Holders' = Holders
    BY <1>1, <1>3 DEF Free, Holders, TypeOK
  <2>2. TypeOK' /\ BareSet' /\ UnitsConserved'
    BY <1>1, <1>3, <2>1 DEF Free, TypeOK, PC, BareSet, UnitsConserved
  <2>3. Maker' /\ Working'
    BY <1>1, <1>3 DEF Maker, Working, Free, TypeOK
  <2> QED
    BY <2>2, <2>3
<1> QED
  BY <1>2, <1>3

\* Looking the identifier up gives nobody a unit: who works with another set than
\* before has none, and who works with the same set has what it had.
LEMMA IdLookedUp ==
  ASSUME SemInv, NEW p \in Procs, set # 0, pc[p] = "idle", UseId(p, set),
         UNCHANGED <<kernel, pc, timed, alive>>
  PROVE  SemInv'
<1> USE DEF SemInv, kernel, UseId
<1>1. Holders' = Holders
  BY DEF Holders, TypeOK
<1>2. TypeOK'
  BY DEF TypeOK, PC
<1>3. BareSet' /\ UnitsConserved'
  BY <1>1 DEF BareSet, UnitsConserved
<1>4. Maker' /\ Working'
  BY DEF Maker, Working, TypeOK
<1> QED
  BY <1>2, <1>3, <1>4

\* A step that changes no more than where a process is, within its call or out of
\* it, and whether it is alive.
LEMMA OnlyMoves ==
  ASSUME SemInv, NEW p \in Procs, NEW s \in {"idle", "recheck", "grab"},
         pc' = [pc EXCEPT ![p] = s], s = "grab" => id[p] # 0 /\ held[p] = 0,
         timed' \in [Procs -> BOOLEAN], alive' \subseteq Procs,
         UNCHANGED <<kernel, id, held>>
  PROVE  SemInv'
<1> USE DEF SemInv, kernel
<1>1. Holders' = Holders
  BY DEF Holders
<1>2. TypeOK'
  BY DEF TypeOK, PC
<1>3. BareSet' /\ UnitsConserved'
  BY <1>1 DEF BareSet, UnitsConserved
<1>4. Maker' /\ Working'
  BY DEF Maker, Working, TypeOK
<1> QED
  BY <1>2, <1>3, <1>4

\* SETALL: the set that its maker made is given its units, once, while nobody can
\* have one of them.
LEMMA UnitsSet ==
  ASSUME SemInv, NEW p \in Procs, CreateSetAll(p)
  PROVE  SemInv'
<1> USE DEF SemInv, CreateSetAll, GoesOn
<1>1. Holders' = Holders
  BY DEF Holders
<1>2. TypeOK'
  <2>1. pc' \in [Procs -> PC]
    BY DEF TypeOK, PC
  <2>2. val' \in 0..Num /\ inited' \in BOOLEAN
    <3>1. Num \in 0..Num
      BY VipcSemAssumption
    <3>2. CASE set = id[p]
      BY <3>1, <3>2
    <3>3. CASE set # id[p]
      BY <3>3 DEF TypeOK
    <3> QED
      BY <3>2, <3>3
  <2> QED
    BY <2>1, <2>2 DEF TypeOK
<1>3. CASE set = id[p]
  <2>1. set # 0 /\ ~inited
    BY <1>3 DEF Maker, Working
  <2>2. Holders = {} /\ Cardinality(Holders) = 0
    BY <2>1, FS_EmptySet DEF BareSet
  <2>3. UnitsConserved' /\ BareSet'
    BY <1>1, <1>3, <2>2, VipcSemAssumption DEF UnitsConserved, BareSet
  <2>4. Maker' /\ Working'
    BY <1>3 DEF Maker, Working, TypeOK
  <2> QED
    BY <1>2, <2>3, <2>4
<1>4. CASE set # id[p]
  <2>1. UnitsConserved' /\ BareSet'
    BY <1>1, <1>4 DEF UnitsConserved, BareSet
  <2>2. Maker' /\ Working'
    BY <1>4 DEF Maker, Working, TypeOK
  <2> QED
    BY <1>2, <2>1, <2>2
<1> QED
  BY <1>3, <1>4

\* semget: the identifier is a new one, so nobody has a unit under it, and nobody
\* else is on the way to SETALL with it.
LEMMA SetMade ==
  ASSUME SemInv, NEW p \in Procs, CreateGet(p)
  PROVE  SemInv'
<1> USE DEF SemInv, CreateGet, UseId, GoesOn
<1>1. \A q \in Procs : id[q] # last + 1
  BY VipcSemAssumption DEF TypeOK
<1>2. TypeOK'
  <2>1. last' \in 0..MaxSets /\ set' \in 0..last' /\ val' \in 0..Num
    BY VipcSemAssumption DEF TypeOK
  <2>2. pc' \in [Procs -> PC]
    BY DEF TypeOK, PC
  <2>3. id' \in [Procs -> 0..last']
    <3>1. last + 1 \in 0..last' /\ 0..last \subseteq 0..last'
      BY VipcSemAssumption DEF TypeOK
    <3> QED
      BY <3>1 DEF TypeOK
  <2>4. held' \in [Procs -> 0..1]
    <3>1. 0 \in 0..1
      OBVIOUS
    <3> QED
      BY <3>1 DEF TypeOK
  <2> QED
    BY <2>1, <2>2, <2>3, <2>4 DEF TypeOK
<1>3. Holders' = {}
  BY <1>1 DEF Holders, TypeOK
<1>4. BareSet' /\ UnitsConserved'
  BY <1>3 DEF BareSet, UnitsConserved
<1>5. Maker' /\ Working'
  BY <1>1, VipcSemAssumption DEF Maker, Working, TypeOK
<1> QED
  BY <1>2, <1>4, <1>5

\* The three facts together are inductive: units are counted from SETALL on, and
\* that count is right because SETALL happens once for each set, on a bare one.
LEMMA Inductive == SemInv /\ [Next]_vars => SemInv'
<1> SUFFICES ASSUME SemInv, [Next]_vars PROVE SemInv'
  OBVIOUS
<1>1. ASSUME NEW p \in alive, SemStep(p) \/ SemCall(p) \/ GrabInterrupted(p) \/ Die(p)
      PROVE  SemInv'
  <2> p \in Procs
    BY DEF SemInv, TypeOK
  <2> TypeOK /\ Working
    BY DEF SemInv
  <2>1. CASE CreateSetAll(p)
    BY <2>1, UnitsSet
  <2>2. CASE GetIdSafeRecheck(p)
    BY <2>2, OnlyMoves DEF GetIdSafeRecheck, GoesOn, TypeOK
  <2>3. CASE Grab(p)
    BY <2>3, UnitTaken DEF Grab, GoesOn, Working
  <2>4. CASE GrabFails(p)
    BY <2>4, OnlyMoves DEF GrabFails, GoesOn, TypeOK
  <2>5. CASE Free(p)
    BY <2>5, UnitFreed
  <2>6. CASE CreateGet(p)
    BY <2>6, SetMade
  <2>7. CASE GetId(p)
    BY <2>7, IdLookedUp DEF GetId
  <2>8. CASE GetIdSafe(p)
    <3>1. CASE otime
      BY <2>8, <3>1, IdLookedUp DEF GetIdSafe
    <3>2. CASE ~otime
      BY <2>8, <3>2, OnlyMoves DEF GetIdSafe, GoesOn, TypeOK
    <3> QED
      BY <3>1, <3>2
  <2>9. CASE GrabNowait(p)
    <3>1. pc' = [pc EXCEPT ![p] = "idle"]
      BY <2>9 DEF GrabNowait, TypeOK
    <3> QED
      BY <2>9, <3>1, UnitTaken DEF GrabNowait
  <2>10. CASE Destory(p)
    <3>1. set' \in 0..last /\ val' \in 0..Num
      BY <2>10, VipcSemAssumption DEF Destory, TypeOK
    <3>2. TypeOK'
      BY <2>10, <3>1 DEF Destory, TypeOK, PC
    <3>3. BareSet' /\ UnitsConserved'
      BY <2>10 DEF Destory, BareSet, UnitsConserved
    <3>4. Maker' /\ Working'
      BY <2>10 DEF Destory, SemInv, Maker, Working, TypeOK
    <3> QED
      BY <3>2, <3>3, <3>4 DEF SemInv
  <2>11. ASSUME NEW t \in Timed, GrabCall(p, t) PROVE SemInv'
    BY <2>11, OnlyMoves, VipcSemAssumption DEF GrabCall, GoesOn, TypeOK
  <2>12. CASE GrabInterrupted(p)
    BY <2>12, OnlyMoves DEF GrabInterrupted, GoesOn, TypeOK
  <2>13. CASE Die(p)
    <3>1. Holders' = Holders
      BY <2>13 DEF Die, Holders, kernel
    <3> QED
      BY <2>13, <3>1 DEF Die, kernel, SemInv, TypeOK, BareSet, Maker, Working, UnitsConserved
  <2> QED
    BY <1>1, <2>1, <2>2, <2>3, <2>4, <2>5, <2>6, <2>7, <2>8, <2>9, <2>10, <2>11, <2>12,
       <2>13 DEF SemStep, SemCall
<1>2. CASE UNCHANGED vars
  <2>1. Holders' = Holders
    BY <1>2 DEF vars, Holders
  <2> QED
    BY <1>2, <2>1 DEF vars, SemInv, TypeOK, BareSet, Maker, Working, UnitsConserved
<1> QED
  BY <1>1, <1>2 DEF Next

\* Before anything is called there is no set, and nobody is in a call.
LEMMA InitOK == Init => SemInv
<1> SUFFICES ASSUME Init PROVE SemInv
  OBVIOUS
<1>1. 0 \in 0..MaxSets /\ 0 \in 0..Num /\ 0 \in 0..last /\ 0 \in 0..1
  BY VipcSemAssumption DEF Init
<1>2. TypeOK
  BY <1>1 DEF Init, TypeOK, PC
<1>3. BareSet /\ UnitsConserved
  BY DEF Init, BareSet, UnitsConserved
<1>4. Maker /\ Working
  BY DEF Init, Maker, Working
<1> QED
  BY <1>2, <1>3, <1>4 DEF SemInv

\* No semaphore operation of ipcsem.c takes a variable out of its range: what is free is
\* between none and the initial value, through timeouts, signals, removal and deaths.
\* And free and grabbed units add up to that value from SETALL on.
THEOREM UnitsHold == Spec => []UnitsSound
<1>1. SemInv => UnitsSound
  BY DEF SemInv, UnitsSound
<1> QED
  BY <1>1, InitOK, Inductive, PTL DEF Spec

\* vipc_sem_getid_safe gives a set only when some semop has completed on it
\* (sem_otime), and none completes before SETALL.
THEOREM SafeGetidHolds == Spec => SafeGetidInitialised
<1> DEFINE A == \A p \in alive : pc[p] = "idle" /\ GetIdSafe(p) /\ pc'[p] = "idle" => inited
<1>1. SemInv => A
  <2> SUFFICES ASSUME SemInv, NEW p \in alive, GetIdSafe(p), pc'[p] = "idle" PROVE inited
    OBVIOUS
  <2>1. otime
    BY DEF GetIdSafe, GoesOn, SemInv, TypeOK
  <2> QED
    BY <2>1 DEF GetIdSafe, SemInv, BareSet
<1>2. SemInv /\ [Next]_vars => [A]_vars
  BY <1>1
<1> QED
  BY <1>2, InitOK, Inductive, PTL DEF Spec, SafeGetidInitialised

-----------------------------------------------------------------------------
(***************************************************************************)
(* Message queues.  The messages of a client that are under way are in the *)
(* order of its calls, from the request it sent last back to the answer it *)
(* got last; so it can only fall behind, by one call for each it gave up.  *)
(***************************************************************************)
Message == [type : Clients \cup {"request"}, from : Clients, of : Nat]
MayBe(S) == S \cup {NoMessage}
CallRecord == [pc : {"idle", "clean", "send", "alarm", "enter", "wait", "test"},
               id : Nat, of : Nat, msg : MayBe(Message)]
EndRecord == [from : Clients, of : Nat, how : {"answer", "overtime", "error"},
              answer : MayBe(Message)]

\* What there is: a message is a request or goes to the client it answers, and
\* a server works on requests.
MsgTyped ==
    /\ qid \in Nat /\ queues \in Nat /\ calls \in Nat
    /\ queue \in Seq(Message)
    /\ \A i \in 1..Len(queue) : queue[i].type \in {"request", queue[i].from}
    /\ request \in MayBe(Message)
    /\ request # NoMessage => request.type = "request"
    /\ call \in [Clients -> CallRecord]
    /\ overtime \in [Clients -> BOOLEAN]
    /\ ended \subseteq EndRecord

\* A call has a number of its own, and a message only at the end, where without
\* one the alarm has gone off.
InCall(c) == call[c].pc \notin {"idle", "clean"}
CallTrue ==
    \A c \in Clients :
        /\ call[c].of <= calls
        /\ IF InCall(c) THEN call[c].of > 0 /\ call[c].id # 0 ELSE call[c].of = 0
        /\ call[c].msg # NoMessage => call[c].pc = "test" /\ call[c].msg.from = c
        /\ call[c].pc = "test" => call[c].msg # NoMessage \/ overtime[c]

\* The numbers of the messages of c that are under way: in the queue, with the
\* server, or taken by c.
UnderWay(c, n) ==
    \/ \E i \in 1..Len(queue) : queue[i].from = c /\ queue[i].of = n
    \/ request # NoMessage /\ request.from = c /\ request.of = n
Pending(c, n) == UnderWay(c, n) \/ (call[c].msg # NoMessage /\ call[c].msg.of = n)

\* No message of c is of a later call than this one.
Sent(c) == IF ~InCall(c) THEN calls ELSE IF call[c].pc = "send" THEN call[c].of - 1 ELSE call[c].of
NoneAhead == \A c \in Clients, n \in Nat : Pending(c, n) => n <= Sent(c)

\* From the answer a client got last to its youngest request its messages are
\* in the order of its calls: those it got, the one it has taken, the answers in
\* the queue, the one the server works on, the requests in the queue.
QueueInOrder ==
    \A i, j \in 1..Len(queue) :
        queue[i].from = queue[j].from =>
            /\ i < j /\ queue[i].type = queue[j].type => queue[i].of < queue[j].of
            /\ queue[i].type # "request" /\ queue[j].type = "request" => queue[i].of < queue[j].of

RequestInOrder ==
    request # NoMessage => \A i \in 1..Len(queue) :
        queue[i].from = request.from =>
            /\ queue[i].type = "request" => request.of < queue[i].of
            /\ queue[i].type # "request" => queue[i].of < request.of

TakenInOrder ==
    \A c \in Clients : call[c].msg # NoMessage =>
        \A n \in Nat : UnderWay(c, n) => call[c].msg.of < n

EndedInOrder ==
    \A e \in ended : e.answer # NoMessage =>
        \A n \in Nat : Pending(e.from, n) => e.answer.of < n

\* A call ends once, in the order of the calls, with an answer to its client.
EndedTrue ==
    /\ \A e \in ended :
          /\ e.of <= calls
          /\ InCall(e.from) => e.of < call[e.from].of
          /\ e.how = "answer" => e.answer # NoMessage
          /\ e.answer # NoMessage => e.answer.from = e.from /\ e.answer.of <= e.of
    /\ \A e, f \in ended : e.from = f.from /\ e.of = f.of => e = f

\* A message under way is of the call its client is in, unless the client has
\* given up that call or one before it.
GivenUp(c, n) == \E f \in ended : f.from = c /\ f.how # "answer" /\ f.of <= n
Explained ==
    \A c \in Clients, n \in Nat :
        Pending(c, n) => (InCall(c) /\ n = call[c].of) \/ GivenUp(c, n)

Lines == QueueInOrder /\ RequestInOrder /\ TakenInOrder
Past == NoneAhead /\ EndedInOrder /\ EndedTrue /\ Explained
MsgInv == MsgTyped /\ CallTrue /\ Lines /\ Past /\ AnswersRight

\* A non-empty set of numbers has a least element.
LEMMA NatMin ==
  ASSUME NEW T, T \subseteq Nat, T # {}
  PROVE  \E x \in T : \A y \in T : x <= y
<1> DEFINE R == OpToRel(<, Nat)
<1>1. \E x \in T : \A y \in T : ~ (<<y, x>> \in R)
  <2> HIDE DEF R
  <2>1. IsWellFoundedOn(R, Nat)
    BY NatLessThanWellFounded DEF R
  <2> QED
    BY <2>1, WFMin
<1>2. \A x, y \in Nat : <<y, x>> \in R <=> y < x
  BY DEF OpToRel
<1> HIDE DEF R
<1>3. PICK x \in T : \A y \in T : ~ (<<y, x>> \in R)
  BY <1>1
<1>4. \A y \in T : ~ (y < x)
  BY <1>2, <1>3
<1>5. \A y \in T : x <= y
  BY <1>4
<1> QED
  BY <1>5

\* msgrcv takes the first message of the type.
LEMMA FirstOfType ==
  ASSUME MsgTyped, NEW t, OfType(t) # {}
  PROVE  /\ First(t) \in 1..Len(queue) /\ queue[First(t)].type = t
         /\ \A j \in 1..Len(queue) : queue[j].type = t => First(t) <= j
<1>1. OfType(t) \subseteq Nat /\ \A j : j \in OfType(t) <=> j \in 1..Len(queue) /\ queue[j].type = t
  BY DEF OfType, MsgTyped
<1>2. \E i \in OfType(t) : \A j \in OfType(t) : i <= j
  BY <1>1, NatMin
<1>3. First(t) \in OfType(t) /\ \A j \in OfType(t) : First(t) <= j
  BY <1>2 DEF First
<1> QED
  BY <1>1, <1>3

\* A message taken out leaves the others in their places.
LEMMA TakenOut ==
  ASSUME NEW S, NEW l \in Seq(S), NEW p \in 1..Len(l)
  PROVE  LET r == RemoveAt(l, p)
         IN  /\ r \in Seq(S) /\ Len(r) = Len(l) - 1
             /\ \A i \in 1..(Len(l) - 1) : r[i] = IF i < p THEN l[i] ELSE l[i + 1]
<1> DEFINE r == RemoveAt(l, p)
           a == SubSeq(l, 1, p - 1)
           b == SubSeq(l, p + 1, Len(l))
<1>1. a \in Seq(S) /\ Len(a) = p - 1 /\ \A i \in 1..(p - 1) : a[i] = l[i]
  OBVIOUS
<1>2. b \in Seq(S) /\ Len(b) = Len(l) - p /\ \A i \in 1..(Len(l) - p) : b[i] = l[p + i]
  OBVIOUS
<1>3. r = a \o b
  BY DEF RemoveAt
<1> HIDE DEF a, b, r
<1>4. r \in Seq(S) /\ Len(r) = Len(l) - 1
  <2>1. p - 1 \in Nat /\ Len(l) - p \in Nat /\ (p - 1) + (Len(l) - p) = Len(l) - 1
    OBVIOUS
  <2>2. r \in Seq(S) /\ Len(r) = Len(a) + Len(b)
    BY <1>1, <1>2, <1>3, ConcatProperties, Zenon
  <2> QED BY <2>1, <2>2, <1>1, <1>2
<1>5. ASSUME NEW i \in 1..(Len(l) - 1), i < p PROVE r[i] = l[i]
  <2>1. i \in 1..(p - 1) /\ i \in 1..Len(a)
    BY <1>5, <1>1
  <2>2. r[i] = a[i]
    BY <2>1, <1>1, <1>2, <1>3
  <2> QED BY <2>1, <2>2, <1>1
<1>6. ASSUME NEW i \in 1..(Len(l) - 1), i >= p PROVE r[i] = l[i + 1]
  <2> DEFINE k == i - (p - 1)
  <2>1. k \in 1..(Len(l) - p) /\ i = (p - 1) + k /\ p + k = i + 1
    BY <1>6
  <2> HIDE DEF k
  <2>2. r[(p - 1) + k] = b[k]
    BY <2>1, <1>1, <1>2, <1>3
  <2> QED BY <2>1, <2>2, <1>2
<1>7. \A i \in 1..(Len(l) - 1) : r[i] = IF i < p THEN l[i] ELSE l[i + 1]
  BY <1>5, <1>6
<1> QED
  BY <1>4, <1>7 DEF r

\* What the type invariant says of a message, a call and an end of one.
LEMMA MsgFacts ==
  ASSUME MsgTyped
  PROVE  /\ Len(queue) \in Nat
         /\ \A i \in 1..Len(queue) : /\ queue[i] \in Message /\ queue[i].from \in Clients
                                     /\ queue[i].of \in Nat
         /\ request # NoMessage => request.from \in Clients /\ request.of \in Nat
         /\ \A c \in Clients : /\ call[c].of \in Nat /\ Sent(c) \in Int
                               /\ call[c].msg # NoMessage => call[c].msg.of \in Nat
         /\ \A e \in ended : /\ e.from \in Clients /\ e.of \in Nat
                             /\ e.answer # NoMessage => e.answer.of \in Nat
<1>1. Len(queue) \in Nat /\ \A i \in 1..Len(queue) : queue[i] \in Message
  BY DEF MsgTyped
<1>2. \A m \in Message : m.from \in Clients /\ m.of \in Nat
  BY DEF Message
<1>3. ASSUME NEW c \in Clients
      PROVE  /\ call[c].of \in Nat /\ Sent(c) \in Int
             /\ call[c].msg # NoMessage => call[c].msg.of \in Nat
  <2>1. call[c] \in CallRecord
    BY DEF MsgTyped
  <2> QED BY <2>1, <1>2 DEF CallRecord, MayBe, Sent, MsgTyped
<1>4. ASSUME NEW e \in ended
      PROVE  /\ e.from \in Clients /\ e.of \in Nat
             /\ e.answer # NoMessage => e.answer.of \in Nat
  <2>1. e \in EndRecord
    BY DEF MsgTyped
  <2> QED BY <2>1, <1>2 DEF EndRecord, MayBe
<1>5. request # NoMessage => request.from \in Clients /\ request.of \in Nat
  BY <1>2 DEF MsgTyped, MayBe
<1> QED BY <1>1, <1>2, <1>3, <1>4, <1>5

\* A step that brings no new message and neither begins nor ends a call.
LEMMA Moved ==
  ASSUME MsgTyped, Past, UNCHANGED <<ended, calls>>,
         \A d \in Clients : Sent(d)' = Sent(d) /\ (InCall(d)' <=> InCall(d)) /\ call'[d].of = call[d].of,
         \A d \in Clients, n \in Nat : Pending(d, n)' => Pending(d, n)
  PROVE  Past'
<1> USE DEF Past
<1>1. NoneAhead'
  BY DEF NoneAhead
<1>2. EndedInOrder'
  BY MsgFacts DEF EndedInOrder
<1>3. EndedTrue'
  BY MsgFacts DEF EndedTrue
<1>4. \A d \in Clients, n \in Nat : GivenUp(d, n)' <=> GivenUp(d, n)
  BY DEF GivenUp
<1>5. Explained'
  BY <1>4 DEF Explained
<1> QED BY <1>1, <1>2, <1>3, <1>5

\* A message that is taken out of the queue.
LEMMA Removed ==
  ASSUME MsgTyped, NEW p \in 1..Len(queue), queue' = RemoveAt(queue, p)
  PROVE  /\ queue' \in Seq(Message) /\ Len(queue') = Len(queue) - 1
         /\ \A i \in 1..Len(queue') : queue'[i].type \in {"request", queue'[i].from}
         /\ \A i \in 1..Len(queue') : \E k \in 1..Len(queue) : k # p /\ queue'[i] = queue[k]
         /\ QueueInOrder => QueueInOrder'
<1> DEFINE h(j) == IF j < p THEN j ELSE j + 1
<1>1. Len(queue) \in Nat /\ queue \in Seq(Message)
  BY DEF MsgTyped
<1>2. /\ queue' \in Seq(Message) /\ Len(queue') = Len(queue) - 1
      /\ \A i \in 1..(Len(queue) - 1) : queue'[i] = IF i < p THEN queue[i] ELSE queue[i + 1]
  BY <1>1, TakenOut
<1>3. \A j \in 1..Len(queue') : h(j) \in 1..Len(queue) /\ queue'[j] = queue[h(j)] /\ h(j) # p
  BY <1>1, <1>2
<1>4. \A i, j \in 1..Len(queue') : i < j => h(i) < h(j)
  BY <1>1, <1>2
<1> HIDE DEF h
<1>5. ASSUME QueueInOrder PROVE QueueInOrder'
  <2> SUFFICES ASSUME NEW i \in 1..Len(queue'), NEW j \in 1..Len(queue'),
                      queue'[i].from = queue'[j].from
               PROVE  /\ i < j /\ queue'[i].type = queue'[j].type => queue'[i].of < queue'[j].of
                      /\ queue'[i].type # "request" /\ queue'[j].type = "request"
                            => queue'[i].of < queue'[j].of
    BY DEF QueueInOrder
  <2>1. /\ h(i) \in 1..Len(queue) /\ h(j) \in 1..Len(queue)
        /\ queue'[i] = queue[h(i)] /\ queue'[j] = queue[h(j)] /\ (i < j => h(i) < h(j))
    BY <1>3, <1>4
  <2> QED BY <1>5, <2>1 DEF QueueInOrder
<1>6. \A i \in 1..Len(queue') : queue'[i].type \in {"request", queue'[i].from}
  BY <1>3 DEF MsgTyped
<1> QED BY <1>2, <1>3, <1>5, <1>6

\* A message that is sent.
LEMMA Added ==
  ASSUME MsgTyped, NEW m \in Message, queue' = Append(queue, m), m.type \in {"request", m.from},
         QueueInOrder,
         \A i \in 1..Len(queue) : queue[i].from = m.from =>
             IF queue[i].type = "request" /\ m.type # "request" THEN m.of < queue[i].of
             ELSE queue[i].of < m.of
  PROVE  /\ queue' \in Seq(Message) /\ Len(queue') = Len(queue) + 1
         /\ \A i \in 1..Len(queue') : queue'[i].type \in {"request", queue'[i].from}
         /\ \A i \in 1..Len(queue') : (i \in 1..Len(queue) /\ queue'[i] = queue[i]) \/ queue'[i] = m
         /\ QueueInOrder'
<1>1. Len(queue) \in Nat /\ queue \in Seq(Message)
  BY DEF MsgTyped
<1>2. /\ queue' \in Seq(Message) /\ Len(queue') = Len(queue) + 1 /\ queue'[Len(queue) + 1] = m
      /\ \A i \in 1..Len(queue) : queue'[i] = queue[i]
  BY <1>1
<1>3. \A i \in 1..Len(queue') : (i \in 1..Len(queue) /\ queue'[i] = queue[i])
                                 \/ (i = Len(queue) + 1 /\ queue'[i] = m)
  BY <1>1, <1>2
<1>4. \A i \in 1..Len(queue') : queue'[i].type \in {"request", queue'[i].from}
  BY <1>3 DEF MsgTyped
<1>5. QueueInOrder'
  <2> SUFFICES ASSUME NEW i \in 1..Len(queue'), NEW j \in 1..Len(queue'),
                      queue'[i].from = queue'[j].from
               PROVE  /\ i < j /\ queue'[i].type = queue'[j].type => queue'[i].of < queue'[j].of
                      /\ queue'[i].type # "request" /\ queue'[j].type = "request"
                            => queue'[i].of < queue'[j].of
    BY DEF QueueInOrder
  <2>1. CASE i \in 1..Len(queue) /\ j \in 1..Len(queue)
    BY <1>2, <2>1 DEF QueueInOrder
  <2>2. CASE i \in 1..Len(queue) /\ j = Len(queue) + 1
    BY <1>1, <1>2, <2>2
  <2>3. CASE i = Len(queue) + 1 /\ j \in 1..Len(queue)
    BY <1>1, <1>2, <2>3
  <2>4. CASE i = Len(queue) + 1 /\ j = Len(queue) + 1
    BY <1>1, <1>2, <2>4
  <2> QED BY <1>3, <2>1, <2>2, <2>3, <2>4
<1> QED BY <1>2, <1>3, <1>4, <1>5

\* A call that ends with what its client has taken, if anything.
LEMMA Ends ==
  ASSUME MsgInv, NEW c \in Clients, InCall(c), NEW how \in {"answer", "overtime", "error"},
         EndCall(c, how, call[c].msg), how = "answer" => call[c].msg # NoMessage,
         UNCHANGED <<queue, request, calls, qid, queues>>,
         overtime' \in [Clients -> BOOLEAN], \A d \in Clients : overtime[d] => overtime'[d]
  PROVE  MsgInv'
<1> DEFINE e == [from |-> c, of |-> call[c].of, how |-> how, answer |-> call[c].msg]
<1> USE DEF MsgInv
<1>1. ended' = ended \cup {e} /\ call' = [call EXCEPT ![c] = AtRest]
  BY DEF EndCall
<1>2. e \in EndRecord /\ e.from = c /\ e.of = call[c].of /\ e.how = how /\ e.answer = call[c].msg
  BY DEF EndRecord, MsgTyped, CallRecord
<1> HIDE DEF e
<1>3. AtRest \in CallRecord /\ AtRest.msg = NoMessage /\ AtRest.of = 0 /\ AtRest.pc = "idle"
  BY DEF AtRest, CallRecord, MayBe
<1>4. /\ call'[c] = AtRest /\ \A d \in Clients : d # c => call'[d] = call[d]
      /\ call' \in [Clients -> CallRecord]
  BY <1>1, <1>3 DEF MsgTyped
<1>5. MsgTyped'
  BY <1>1, <1>2, <1>4 DEF MsgTyped
<1>6. CallTrue'
  <2>1. ASSUME NEW d \in Clients, d # c
        PROVE  /\ call'[d].of <= calls'
               /\ IF InCall(d)' THEN call'[d].of > 0 /\ call'[d].id # 0 ELSE call'[d].of = 0
               /\ call'[d].msg # NoMessage => call'[d].pc = "test" /\ call'[d].msg.from = d
               /\ call'[d].pc = "test" => call'[d].msg # NoMessage \/ overtime'[d]
    BY <1>4, <2>1 DEF CallTrue, InCall
  <2>2. /\ call'[c].of <= calls' /\ ~InCall(c)' /\ call'[c].of = 0
        /\ call'[c].msg = NoMessage /\ call'[c].pc # "test"
    BY <1>3, <1>4 DEF MsgTyped, InCall
  <2> QED BY <2>1, <2>2 DEF CallTrue
<1>7. /\ \A d \in Clients, n \in Nat : UnderWay(d, n)' <=> UnderWay(d, n)
      /\ \A d \in Clients, n \in Nat : Pending(d, n)' => Pending(d, n)
      /\ \A n \in Nat : Pending(c, n)' => UnderWay(c, n)
  BY <1>3, <1>4 DEF UnderWay, Pending
<1>8. /\ \A d \in Clients : d # c => Sent(d)' = Sent(d) /\ (InCall(d)' <=> InCall(d))
      /\ Sent(c)' = calls /\ ~InCall(c)' /\ Sent(c) <= calls
  BY <1>3, <1>4, MsgFacts DEF Sent, InCall, CallTrue, MsgTyped
<1>9. Lines'
  <2>1. QueueInOrder' /\ RequestInOrder'
    BY DEF Lines, QueueInOrder, RequestInOrder
  <2>2. TakenInOrder'
    BY <1>3, <1>4, <1>7 DEF Lines, TakenInOrder
  <2> QED BY <2>1, <2>2 DEF Lines
<1>10. NoneAhead'
  <2> SUFFICES ASSUME NEW d \in Clients, NEW n \in Nat, Pending(d, n)' PROVE n <= Sent(d)'
    BY DEF NoneAhead
  <2>1. n <= Sent(d)
    BY <1>7 DEF Past, NoneAhead
  <2>2. CASE d = c
    <3>1. Sent(c) \in Int /\ calls \in Nat
      BY MsgFacts DEF MsgTyped
    <3> QED BY <1>8, <2>1, <2>2, <3>1
  <2>3. CASE d # c
    BY <1>8, <2>1, <2>3
  <2> QED BY <2>2, <2>3
<1>11. \A n \in Nat : call[c].msg # NoMessage /\ UnderWay(c, n) => call[c].msg.of < n
  BY DEF Lines, TakenInOrder
<1>12. \A d \in ended : d.from = c => d.of < call[c].of
  BY DEF Past, EndedTrue
<1>13. EndedInOrder'
  BY <1>1, <1>2, <1>7, <1>11, MsgFacts DEF EndedInOrder, Past
<1>14. EndedTrue'
  <2>1. /\ e.of <= calls /\ (how = "answer" => e.answer # NoMessage)
        /\ e.answer # NoMessage => e.answer.from = c /\ e.answer.of <= e.of
    <3>1. ASSUME call[c].msg # NoMessage PROVE call[c].msg.of <= call[c].of
      <4>1. Pending(c, call[c].msg.of) /\ call[c].msg.of \in Nat
        BY <3>1, MsgFacts DEF Pending
      <4>2. Sent(c) = call[c].of
        BY <3>1 DEF Sent, CallTrue
      <4> QED BY <4>1, <4>2 DEF Past, NoneAhead
    <3> QED BY <1>2, <3>1 DEF CallTrue
  <2>2. ASSUME NEW d \in ended'
        PROVE  /\ d.of <= calls /\ (InCall(d.from)' => d.of < call'[d.from].of)
               /\ d.how = "answer" => d.answer # NoMessage
               /\ d.answer # NoMessage => d.answer.from = d.from /\ d.answer.of <= d.of
    BY <1>1, <1>2, <1>4, <1>8, <2>1, MsgFacts DEF EndedTrue, Past
  <2>3. \A d, f \in ended' : d.from = f.from /\ d.of = f.of => d = f
    BY <1>1, <1>2, <1>12, MsgFacts DEF EndedTrue, Past
  <2> QED BY <2>2, <2>3 DEF EndedTrue
<1>15. \A n \in Nat : Pending(c, n) => n = call[c].of \/ GivenUp(c, n)
  BY DEF Past, Explained
<1>16. Explained'
  <2>1. \A d \in Clients, n \in Nat : GivenUp(d, n) => GivenUp(d, n)'
    BY <1>1 DEF GivenUp
  <2>2. ASSUME NEW n \in Nat, Pending(c, n)' PROVE GivenUp(c, n)'
    <3>1. Pending(c, n) /\ UnderWay(c, n)
      BY <1>7, <2>2
    <3>2. CASE GivenUp(c, n)
      BY <2>1, <3>2
    <3>3. CASE n = call[c].of /\ how # "answer"
      BY <1>1, <1>2, <3>3 DEF GivenUp
    <3>4. CASE n = call[c].of /\ how = "answer"
      <4>1. call[c].msg # NoMessage /\ call[c].msg.of < n /\ call[c].msg.of \in Nat
        BY <1>11, <3>1, <3>4, MsgFacts
      <4>2. Pending(c, call[c].msg.of)
        BY <4>1 DEF Pending
      <4>3. GivenUp(c, call[c].msg.of)
        BY <1>15, <4>1, <4>2, <3>4
      <4>4. GivenUp(c, n)
        BY <4>1, <4>3, MsgFacts DEF GivenUp
      <4> QED BY <2>1, <4>4
    <3> QED BY <1>15, <3>1, <3>2, <3>3, <3>4
  <2>3. ASSUME NEW d \in Clients, d # c, NEW n \in Nat, Pending(d, n)'
        PROVE  (InCall(d)' /\ n = call'[d].of) \/ GivenUp(d, n)'
    BY <1>4, <1>7, <1>8, <2>1, <2>3 DEF Past, Explained
  <2> QED BY <2>2, <2>3 DEF Explained
<1>17. AnswersInOrder'
  <2>1. ASSUME NEW d \in ended, d.from = c, d.answer # NoMessage, call[c].msg # NoMessage
        PROVE  d.answer.of < call[c].msg.of
    <3>1. Pending(c, call[c].msg.of) /\ call[c].msg.of \in Nat
      BY <2>1, MsgFacts DEF Pending
    <3> QED BY <2>1, <3>1 DEF Past, EndedInOrder
  <2> QED BY <1>1, <1>2, <1>12, <2>1, MsgFacts DEF AnswersRight, AnswersInOrder
<1>18. AnswersNotMixed'
  <2> SUFFICES ASSUME NEW d \in ended', d.how = "answer"
               PROVE  /\ d.answer.from = d.from
                      /\ d.answer.of = d.of \/ \E f \in ended' : f.from = d.from /\ f.of < d.of /\ f.how # "answer"
                      /\ \A f \in ended' : f.answer = d.answer => f = d
    BY DEF AnswersNotMixed
  <2>1. d.answer # NoMessage /\ d.answer.from = d.from
    BY <1>14 DEF EndedTrue
  <2>2. ASSUME NEW f \in ended', f.answer = d.answer PROVE f = d
    <3>1. f.from = d.from
      BY <1>14, <2>1, <2>2 DEF EndedTrue
    <3>2. f.of \in Nat /\ d.of \in Nat /\ d.answer.of \in Nat
      BY <1>1, <1>2, <2>1, MsgFacts
    <3>3. ~(f.of < d.of) /\ ~(d.of < f.of)
      BY <1>17, <2>1, <2>2, <3>1, <3>2 DEF AnswersInOrder
    <3> QED BY <1>14, <3>1, <3>2, <3>3 DEF EndedTrue
  <2>3. CASE d \in ended
    BY <1>1, <2>1, <2>2, <2>3 DEF AnswersRight, AnswersNotMixed
  <2>4. CASE d = e
    <3>1. call[c].msg # NoMessage /\ call[c].msg.of \in Nat
      BY <1>2, <2>1, <2>4, MsgFacts
    <3>2. call[c].msg.of = call[c].of \/ GivenUp(c, call[c].msg.of)
      BY <1>15, <3>1 DEF Pending
    <3>3. CASE GivenUp(c, call[c].msg.of)
      BY <1>1, <1>2, <1>12, <2>1, <2>2, <2>4, <3>3 DEF GivenUp
    <3> QED BY <1>2, <2>1, <2>2, <2>4, <3>2, <3>3
  <2> QED BY <1>1, <2>3, <2>4
<1>19. VipcTypeOK'
  BY <1>3, <1>4 DEF AnswersRight, VipcTypeOK
<1> QED BY <1>5, <1>6, <1>9, <1>10, <1>13, <1>14, <1>16, <1>17, <1>18, <1>19 DEF Past, AnswersRight

\* A call that goes on, as the invariant sees it.
LEMMA CallGoesOn ==
  ASSUME MsgTyped, NEW c \in Clients, NEW x \in {"idle", "clean", "send", "alarm", "enter", "wait", "test"}, NEW m \in MayBe(Message),
         NEW n \in Nat, NEW k \in Nat,
         call' = [call EXCEPT ![c] = [pc |-> x, id |-> k, of |-> n, msg |-> m]]
  PROVE  /\ call' \in [Clients -> CallRecord]
         /\ \A d \in Clients : d # c => call'[d] = call[d]
         /\ call'[c].pc = x /\ call'[c].id = k /\ call'[c].of = n /\ call'[c].msg = m
<1> DEFINE r == [pc |-> x, id |-> k, of |-> n, msg |-> m]
<1>1. r \in CallRecord /\ r.pc = x /\ r.id = k /\ r.of = n /\ r.msg = m
  BY DEF CallRecord
<1> HIDE DEF r
<1>2. call' = [call EXCEPT ![c] = r]
  BY DEF r
<1> QED BY <1>1, <1>2 DEF MsgTyped

\* A step of a call to its next point.
LEMMA SetGoesOn ==
  ASSUME MsgTyped, NEW c \in Clients, NEW x \in {"idle", "clean", "send", "alarm", "enter", "wait", "test"}, Set(c, x)
  PROVE  /\ call' \in [Clients -> CallRecord]
         /\ \A d \in Clients : d # c => call'[d] = call[d]
         /\ call'[c].pc = x /\ call'[c].id = call[c].id /\ call'[c].of = call[c].of /\ call'[c].msg = call[c].msg
<1>1. call[c] \in CallRecord
  BY DEF MsgTyped
<1>2. call[c] = [pc |-> call[c].pc, id |-> call[c].id, of |-> call[c].of, msg |-> call[c].msg]
  BY <1>1 DEF CallRecord
<1> DEFINE r == [pc |-> x, id |-> call[c].id, of |-> call[c].of, msg |-> call[c].msg]
<1>3. call' = [call EXCEPT ![c] = r]
  <2>1. [call[c] EXCEPT !.pc = x] = r
    BY <1>1 DEF CallRecord
  <2> HIDE DEF r
  <2>2. call' = [call EXCEPT ![c] = [call[c] EXCEPT !.pc = x]]
    BY DEF Set
  <2> QED BY <2>1, <2>2
<1>4. call[c].id \in Nat /\ call[c].of \in Nat /\ call[c].msg \in MayBe(Message)
  BY <1>1 DEF CallRecord
<1>5. r \in CallRecord /\ r.pc = x /\ r.id = call[c].id /\ r.of = call[c].of /\ r.msg = call[c].msg
  BY <1>4 DEF CallRecord
<1> HIDE DEF r
<1> QED BY <1>3, <1>5 DEF MsgTyped

\* A step that leaves the messages where they are and neither begins nor ends a
\* call.
LEMMA Quiet ==
  ASSUME MsgInv, UNCHANGED <<queue, request, ended, calls>>,
         MsgTyped', CallTrue', VipcTypeOK', \A d \in Clients : Sent(d)' = Sent(d) /\ (InCall(d)' <=> InCall(d)) /\ call'[d].of = call[d].of,
         \A d \in Clients : call'[d].msg = call[d].msg
  PROVE  MsgInv'
<1> USE DEF MsgInv
<1>1. \A d \in Clients, n \in Nat : (UnderWay(d, n)' <=> UnderWay(d, n)) /\ (Pending(d, n)' <=> Pending(d, n))
  BY DEF UnderWay, Pending
<1>2. Past'
  BY <1>1, Moved
<1>3. QueueInOrder' /\ RequestInOrder'
  BY DEF Lines, QueueInOrder, RequestInOrder
<1>4. TakenInOrder'
  BY <1>1 DEF Lines, TakenInOrder
<1>5. AnswersRight'
  BY DEF AnswersRight, AnswersNotMixed, AnswersInOrder
<1> QED BY <1>2, <1>3, <1>4, <1>5 DEF Lines

\* A call that goes on without a message of it moving.
LEMMA SetIsQuiet ==
  ASSUME MsgInv, NEW c \in Clients, InCall(c), NEW x \in {"enter", "wait", "test"},
         call[c].pc # "send", call[c].pc # "test", x = "test" => overtime'[c],
         Set(c, x), UNCHANGED <<queue, request, ended, calls, qid, queues>>,
         overtime' \in [Clients -> BOOLEAN], \A d \in Clients : overtime[d] => overtime'[d]
  PROVE  MsgInv'
<1> USE DEF MsgInv
<1>1. /\ call' \in [Clients -> CallRecord]
      /\ \A d \in Clients : d # c => call'[d] = call[d]
      /\ call'[c].pc = x /\ call'[c].id = call[c].id /\ call'[c].of = call[c].of /\ call'[c].msg = call[c].msg
  BY SetGoesOn
<1>2. MsgTyped'
  BY <1>1 DEF MsgTyped
<1>3. CallTrue'
  BY <1>1, MsgFacts DEF CallTrue, InCall
<1>4. VipcTypeOK'
  BY <1>1 DEF AnswersRight, VipcTypeOK
<1>5. \A d \in Clients : Sent(d)' = Sent(d) /\ (InCall(d)' <=> InCall(d)) /\ call'[d].of = call[d].of
  BY <1>1 DEF Sent, InCall
<1>6. \A d \in Clients : call'[d].msg = call[d].msg
  BY <1>1
<1> QED BY <1>2, <1>3, <1>4, <1>5, <1>6, Quiet

\* A message that leaves the queue for good.
LEMMA CleanNextKeeps ==
  ASSUME MsgInv, NEW c \in Clients, VipcCleanNext(c)
  PROVE  MsgInv'
<1> DEFINE p == First(c)
<1> USE DEF MsgInv
<1>1. p \in 1..Len(queue) /\ queue' = RemoveAt(queue, p)
  BY FirstOfType DEF VipcCleanNext
<1>2. UNCHANGED <<qid, queues, calls, call, overtime, request, ended>>
  BY DEF VipcCleanNext, alarmVars
<1> HIDE DEF p
<1>3. /\ queue' \in Seq(Message) /\ Len(queue') = Len(queue) - 1
      /\ \A i \in 1..Len(queue') : queue'[i].type \in {"request", queue'[i].from}
      /\ \A i \in 1..Len(queue') : \E k \in 1..Len(queue) : k # p /\ queue'[i] = queue[k]
      /\ QueueInOrder'
  BY <1>1, Removed DEF Lines
<1>4. \A d \in Clients, n \in Nat : (UnderWay(d, n)' => UnderWay(d, n)) /\ (Pending(d, n)' => Pending(d, n))
  BY <1>2, <1>3 DEF UnderWay, Pending
<1>5. \A d \in Clients : Sent(d)' = Sent(d) /\ (InCall(d)' <=> InCall(d)) /\ call'[d].of = call[d].of
  BY <1>2 DEF Sent, InCall
<1>6. MsgTyped' /\ CallTrue'
  BY <1>2, <1>3 DEF MsgTyped, CallTrue, InCall
<1>7. Past'
  BY <1>2, <1>4, <1>5, Moved
<1>8. RequestInOrder'
  BY <1>2, <1>3 DEF Lines, RequestInOrder
<1>9. TakenInOrder'
  BY <1>2, <1>4 DEF Lines, TakenInOrder
<1>10. AnswersRight'
  BY <1>1, <1>2, <1>3, MsgFacts, VipcAssumption DEF AnswersRight, AnswersNotMixed, AnswersInOrder, VipcTypeOK
<1> QED BY <1>3, <1>6, <1>7, <1>8, <1>9, <1>10 DEF Lines

\* The server takes a request: it is the oldest of its client in the queue.
LEMMA ServerReceives ==
  ASSUME MsgInv, vipc_msg_recv
  PROVE  MsgInv'
<1> DEFINE p == First("request")
<1> USE DEF MsgInv
<1>1. /\ p \in 1..Len(queue) /\ queue' = RemoveAt(queue, p) /\ queue[p].type = "request"
      /\ \A j \in 1..Len(queue) : queue[j].type = "request" => p <= j
      /\ request' = queue[p]
  BY FirstOfType DEF vipc_msg_recv
<1>2. UNCHANGED <<qid, queues, calls, call, overtime, ended>> /\ request = NoMessage
  BY DEF vipc_msg_recv, alarmVars
<1> HIDE DEF p
<1>3. /\ queue' \in Seq(Message) /\ Len(queue') = Len(queue) - 1
      /\ \A i \in 1..Len(queue') : queue'[i].type \in {"request", queue'[i].from}
      /\ \A i \in 1..Len(queue') : \E k \in 1..Len(queue) : k # p /\ queue'[i] = queue[k]
      /\ QueueInOrder'
  BY <1>1, Removed DEF Lines
<1>4. \A d \in Clients, n \in Nat : (UnderWay(d, n)' => UnderWay(d, n)) /\ (Pending(d, n)' => Pending(d, n))
  BY <1>1, <1>2, <1>3 DEF UnderWay, Pending
<1>5. \A d \in Clients : Sent(d)' = Sent(d) /\ (InCall(d)' <=> InCall(d)) /\ call'[d].of = call[d].of
  BY <1>2 DEF Sent, InCall
<1>6. MsgTyped' /\ CallTrue'
  BY <1>1, <1>2, <1>3, MsgFacts DEF MsgTyped, CallTrue, InCall, MayBe
<1>7. Past'
  BY <1>2, <1>4, <1>5, Moved
<1>8. RequestInOrder'
  <2> SUFFICES ASSUME NEW i \in 1..Len(queue'), queue'[i].from = request'.from
               PROVE  /\ queue'[i].type = "request" => request'.of < queue'[i].of
                      /\ queue'[i].type # "request" => queue'[i].of < request'.of
    BY DEF RequestInOrder
  <2>1. PICK k \in 1..Len(queue) : k # p /\ queue'[i] = queue[k]
    BY <1>3
  <2>2. queue[k].type = "request" => p < k
    BY <1>1, <2>1, MsgFacts
  <2> QED BY <1>1, <2>1, <2>2 DEF Lines, QueueInOrder
<1>9. TakenInOrder'
  BY <1>2, <1>4 DEF Lines, TakenInOrder
<1>10. AnswersRight'
  BY <1>1, <1>2, <1>3, MsgFacts, VipcAssumption DEF AnswersRight, AnswersNotMixed, AnswersInOrder, VipcTypeOK
<1> QED BY <1>3, <1>6, <1>7, <1>8, <1>9, <1>10 DEF Lines

\* A client takes the oldest of its answers.
LEMMA ReceiveKeeps ==
  ASSUME MsgInv, NEW c \in Clients, Receive(c)
  PROVE  MsgInv'
<1> DEFINE p == First(c)
<1> USE DEF MsgInv
<1>1. /\ p \in 1..Len(queue) /\ queue' = RemoveAt(queue, p) /\ queue[p].type = c
      /\ \A j \in 1..Len(queue) : queue[j].type = c => p <= j
  BY FirstOfType DEF Receive
<1>2. UNCHANGED <<qid, queues, calls, overtime, request, ended>> /\ call[c].pc = "wait"
  BY DEF Receive, alarmVars
<1>3. /\ call' \in [Clients -> CallRecord]
      /\ \A d \in Clients : d # c => call'[d] = call[d]
      /\ call'[c].pc = "test" /\ call'[c].id = call[c].id /\ call'[c].of = call[c].of /\ call'[c].msg = queue[p]
  <2>1. call[c] \in CallRecord
    BY DEF MsgTyped
  <2>2. call[c] = [pc |-> call[c].pc, id |-> call[c].id, of |-> call[c].of, msg |-> call[c].msg]
    BY <2>1 DEF CallRecord
  <2> DEFINE r == [pc |-> "test", id |-> call[c].id, of |-> call[c].of, msg |-> queue[p]]
  <2>3. call' = [call EXCEPT ![c] = r]
    <3>1. [[call[c] EXCEPT !.pc = "test"] EXCEPT !.msg = queue[p]] = r
      <4>1. \A m : [[call[c] EXCEPT !.pc = "test"] EXCEPT !.msg = m]
                   = [pc |-> "test", id |-> call[c].id, of |-> call[c].of, msg |-> m]
        <5> DEFINE t == [call[c] EXCEPT !.pc = "test"]
        <5>1. t = [pc |-> "test", id |-> call[c].id, of |-> call[c].of, msg |-> call[c].msg]
          BY <2>1 DEF CallRecord
        <5> HIDE DEF t
        <5>2. \A m : [t EXCEPT !.msg = m]
                     = [pc |-> "test", id |-> call[c].id, of |-> call[c].of, msg |-> m]
          BY <5>1
        <5> QED BY <5>2 DEF t
      <4> QED BY <4>1
    <3> HIDE DEF r
    <3>2. call' = [call EXCEPT ![c] = [[call[c] EXCEPT !.pc = "test"] EXCEPT !.msg = queue[p]]]
      BY DEF Receive
    <3> QED BY <3>1, <3>2
  <2>4. call[c].id \in Nat /\ call[c].of \in Nat /\ queue[p] \in MayBe(Message)
    BY <1>1, <2>1, MsgFacts DEF CallRecord, MayBe
  <2> HIDE DEF p
  <2> QED BY <2>3, <2>4, CallGoesOn
<1> HIDE DEF p
<1>4. /\ queue' \in Seq(Message) /\ Len(queue') = Len(queue) - 1
      /\ \A i \in 1..Len(queue') : queue'[i].type \in {"request", queue'[i].from}
      /\ \A i \in 1..Len(queue') : \E k \in 1..Len(queue) : k # p /\ queue'[i] = queue[k]
      /\ QueueInOrder'
  BY <1>1, Removed DEF Lines
<1>5. queue[p].from = c /\ queue[p] # NoMessage /\ queue[p] \in Message
  BY <1>1, MsgFacts, VipcAssumption DEF MsgTyped, NoMessage
<1>6. call[c].msg = NoMessage
  BY <1>2 DEF CallTrue
<1>7. \A d \in Clients, n \in Nat : (UnderWay(d, n)' => UnderWay(d, n)) /\ (Pending(d, n)' => Pending(d, n))
  <2>1. ASSUME NEW d \in Clients, NEW n \in Nat, UnderWay(d, n)' PROVE UnderWay(d, n)
    BY <1>2, <1>4, <2>1 DEF UnderWay
  <2>2. queue[p].of = queue[p].of /\ UnderWay(c, queue[p].of)
    BY <1>1, <1>5 DEF UnderWay
  <2>3. ASSUME NEW d \in Clients, NEW n \in Nat, Pending(d, n)' PROVE Pending(d, n)
    <3>1. CASE d = c
      BY <1>3, <2>1, <2>2, <2>3, <3>1 DEF Pending
    <3>2. CASE d # c
      BY <1>3, <2>1, <2>3, <3>2 DEF Pending
    <3> QED BY <3>1, <3>2
  <2> QED BY <2>1, <2>3
<1>8. \A d \in Clients : Sent(d)' = Sent(d) /\ (InCall(d)' <=> InCall(d)) /\ call'[d].of = call[d].of
  BY <1>2, <1>3 DEF Sent, InCall
<1>9. MsgTyped' /\ CallTrue'
  <2>1. MsgTyped'
    BY <1>2, <1>3, <1>4 DEF MsgTyped
  <2>2. CallTrue'
    BY <1>2, <1>3, <1>5, MsgFacts DEF CallTrue, InCall
  <2> QED BY <2>1, <2>2
<1>10. Past'
  BY <1>2, <1>7, <1>8, Moved
<1>11. RequestInOrder'
  BY <1>2, <1>4 DEF Lines, RequestInOrder
<1>12. TakenInOrder'
  <2>1. ASSUME NEW n \in Nat, UnderWay(c, n)' PROVE queue[p].of < n
    <3>1. CASE request # NoMessage /\ request.from = c /\ request.of = n
      BY <1>1, <1>5, <3>1, VipcAssumption DEF Lines, RequestInOrder
    <3>2. CASE \E i \in 1..Len(queue') : queue'[i].from = c /\ queue'[i].of = n
      <4>1. PICK k \in 1..Len(queue) : k # p /\ queue[k].from = c /\ queue[k].of = n
        BY <1>4, <3>2
      <4>2. queue[k].type = c => p < k
        BY <1>1, <4>1, MsgFacts
      <4>3. queue[k].type \in {"request", c} /\ c # "request"
        BY <4>1, VipcAssumption DEF MsgTyped
      <4> QED BY <1>1, <1>5, <4>1, <4>2, <4>3 DEF Lines, QueueInOrder
    <3> QED BY <1>2, <2>1, <3>1, <3>2 DEF UnderWay
  <2>2. ASSUME NEW d \in Clients, d # c, call'[d].msg # NoMessage, NEW n \in Nat, UnderWay(d, n)'
        PROVE  call'[d].msg.of < n
    BY <1>3, <1>7, <2>2 DEF Lines, TakenInOrder
  <2> QED BY <1>3, <2>1, <2>2 DEF TakenInOrder
<1>13. AnswersRight'
  <2>1. VipcTypeOK'
    <3>1. Len(queue) <= MsgCap /\ Len(queue') <= MsgCap /\ queue # <<>>
      BY <1>1, <1>4, MsgFacts, VipcAssumption DEF AnswersRight, VipcTypeOK
    <3>2. \A d \in Clients : call'[d].pc \in {"idle", "clean", "send", "alarm", "enter", "wait", "test"}
      BY <1>3 DEF AnswersRight, VipcTypeOK
    <3> QED BY <1>2, <3>1, <3>2 DEF AnswersRight, VipcTypeOK
  <2>2. AnswersNotMixed' /\ AnswersInOrder'
    BY <1>2 DEF AnswersRight, AnswersNotMixed, AnswersInOrder
  <2> QED BY <2>1, <2>2 DEF AnswersRight
<1> QED BY <1>4, <1>9, <1>10, <1>11, <1>12, <1>13 DEF Lines

\* A client begins to remove its answers, or ends that.
LEMMA VipcCleanKeeps ==
  ASSUME MsgInv, NEW c \in Clients, VipcClean(c) \/ VipcCleanEnds(c)
  PROVE  MsgInv'
<1> USE DEF MsgInv
<1>1. UNCHANGED <<queue, request, ended, calls, qid, queues, overtime>>
  BY DEF VipcClean, VipcCleanEnds, queueVars, alarmVars
<1>2. ~InCall(c) /\ call[c].of = 0 /\ call[c].msg = NoMessage /\ call[c].pc # "send"
  BY DEF VipcClean, VipcCleanEnds, AtRest, CallTrue, InCall
<1>3. /\ call' \in [Clients -> CallRecord]
      /\ \A d \in Clients : d # c => call'[d] = call[d]
      /\ call'[c].pc \in {"idle", "clean"} /\ call'[c].of = 0 /\ call'[c].msg = NoMessage
  <2>1. CASE VipcClean(c)
    <3> DEFINE r == [pc |-> "clean", id |-> qid, of |-> 0, msg |-> NoMessage]
    <3> DEFINE s == [call[c] EXCEPT !.pc = "clean"]
    <3>1. s = [pc |-> "clean", id |-> 0, of |-> 0, msg |-> NoMessage]
      BY <2>1 DEF AtRest, VipcClean
    <3> HIDE DEF s
    <3>2. [s EXCEPT !.id = qid] = r
      BY <3>1
    <3> HIDE DEF r
    <3>3. call' = [call EXCEPT ![c] = [s EXCEPT !.id = qid]]
      BY <2>1 DEF VipcClean, s
    <3>4. call' = [call EXCEPT ![c] = r]
      BY <3>2, <3>3
    <3> QED BY <3>4, CallGoesOn DEF r, MsgTyped, MayBe
  <2>2. CASE VipcCleanEnds(c)
    <3>1. call' = [call EXCEPT ![c] = [pc |-> "idle", id |-> 0, of |-> 0, msg |-> NoMessage]]
      BY <2>2 DEF VipcCleanEnds, AtRest
    <3> QED BY <3>1, CallGoesOn DEF MayBe
  <2> QED BY <2>1, <2>2
<1>4. MsgTyped'
  BY <1>1, <1>3 DEF MsgTyped
<1>5. CallTrue'
  BY <1>1, <1>3, MsgFacts DEF CallTrue, InCall, MsgTyped
<1>6. VipcTypeOK'
  BY <1>1, <1>3 DEF AnswersRight, VipcTypeOK
<1>7. \A d \in Clients : Sent(d)' = Sent(d) /\ (InCall(d)' <=> InCall(d)) /\ call'[d].of = call[d].of
  BY <1>1, <1>2, <1>3 DEF Sent, InCall
<1>8. \A d \in Clients : call'[d].msg = call[d].msg
  BY <1>2, <1>3
<1> QED BY <1>1, <1>4, <1>5, <1>6, <1>7, <1>8, Quiet

\* A call begins: its number is greater than that of any message.
LEMMA BeginKeeps ==
  ASSUME MsgInv, NEW c \in Clients, Begin(c)
  PROVE  MsgInv'
<1> USE DEF MsgInv
<1>1. /\ UNCHANGED <<queue, request, ended, qid, queues>> /\ calls' = calls + 1 /\ calls \in Nat
      /\ overtime' = [overtime EXCEPT ![c] = FALSE] /\ call[c] = AtRest /\ calls < MaxCalls /\ qid # 0
  BY DEF Begin, queueVars, MsgTyped
<1>2. ~InCall(c) /\ call[c].of = 0 /\ call[c].msg = NoMessage
  BY <1>1 DEF AtRest, InCall
<1>3. /\ call' \in [Clients -> CallRecord]
      /\ \A d \in Clients : d # c => call'[d] = call[d]
      /\ call'[c].pc = "send" /\ call'[c].id = qid /\ call'[c].of = calls + 1 /\ call'[c].msg = NoMessage
  <2> DEFINE r == [pc |-> "send", id |-> qid, of |-> calls + 1, msg |-> NoMessage]
  <2>1. [AtRest EXCEPT !.pc = "send", !.id = qid, !.of = calls + 1] = r
    <3> DEFINE s == [AtRest EXCEPT !.pc = "send"]
               t == [s EXCEPT !.id = qid]
    <3>1. s = [pc |-> "send", id |-> 0, of |-> 0, msg |-> NoMessage]
      BY DEF AtRest
    <3> HIDE DEF s
    <3>2. t = [pc |-> "send", id |-> qid, of |-> 0, msg |-> NoMessage]
      BY <3>1
    <3> HIDE DEF t
    <3>3. [t EXCEPT !.of = calls + 1] = r
      BY <3>2
    <3> QED BY <3>3 DEF s, t
  <2> HIDE DEF r
  <2>2. call' = [call EXCEPT ![c] = r]
    BY <2>1 DEF Begin
  <2>3. calls + 1 \in Nat /\ qid \in Nat /\ NoMessage \in MayBe(Message)
    BY DEF MsgTyped, MayBe
  <2> QED BY <2>2, <2>3, CallGoesOn DEF r
<1>4. MsgTyped'
  <2>1. calls' \in Nat /\ overtime' \in [Clients -> BOOLEAN]
    BY <1>1 DEF MsgTyped
  <2> QED BY <1>1, <1>3, <2>1 DEF MsgTyped
<1>5. CallTrue'
  BY <1>1, <1>3, MsgFacts DEF CallTrue, InCall, MsgTyped
<1>6. \A d \in Clients, n \in Nat : (UnderWay(d, n)' <=> UnderWay(d, n)) /\ (Pending(d, n)' <=> Pending(d, n))
  BY <1>1, <1>2, <1>3 DEF UnderWay, Pending
<1>7. /\ \A d \in Clients : d # c => (InCall(d)' <=> InCall(d)) /\ call'[d].of = call[d].of
      /\ InCall(c)' /\ Sent(c)' = calls /\ Sent(c) = calls
  <2>1. \A d \in Clients : d # c => (InCall(d)' <=> InCall(d)) /\ call'[d].of = call[d].of
    BY <1>3 DEF InCall
  <2>2. InCall(c)' /\ Sent(c)' = (calls + 1) - 1 /\ Sent(c) = calls
    BY <1>2, <1>3 DEF Sent, InCall
  <2> QED BY <1>1, <2>1, <2>2
<1>8. QueueInOrder' /\ RequestInOrder'
  BY <1>1 DEF Lines, QueueInOrder, RequestInOrder
<1>9. TakenInOrder'
  BY <1>2, <1>3, <1>6 DEF Lines, TakenInOrder
<1>10. NoneAhead'
  <2> SUFFICES ASSUME NEW d \in Clients, NEW n \in Nat, Pending(d, n)' PROVE n <= Sent(d)'
    BY DEF NoneAhead
  <2>1. n <= Sent(d)
    BY <1>6 DEF Past, NoneAhead
  <2>2. CASE d = c
    BY <1>7, <2>1, <2>2
  <2>3. CASE d # c
    <3>1. call'[d] = call[d] /\ call[d].of \in Nat
      BY <1>3, <2>3, MsgFacts
    <3> QED BY <1>1, <2>1, <3>1 DEF Sent, InCall
  <2> QED BY <2>2, <2>3
<1>11. EndedInOrder'
  BY <1>1, <1>6, MsgFacts DEF Past, EndedInOrder
<1>12. EndedTrue'
  <2>1. ASSUME NEW e \in ended
        PROVE  /\ e.of <= calls' /\ (InCall(e.from)' => e.of < call'[e.from].of)
               /\ e.how = "answer" => e.answer # NoMessage
               /\ e.answer # NoMessage => e.answer.from = e.from /\ e.answer.of <= e.of
    <3>1. e.from \in Clients /\ e.of \in Nat /\ e.of <= calls
      BY MsgFacts DEF Past, EndedTrue
    <3>2. CASE e.from = c
      BY <1>1, <1>3, <3>1, <3>2 DEF Past, EndedTrue
    <3>3. CASE e.from # c
      BY <1>1, <1>7, <3>1, <3>3 DEF Past, EndedTrue
    <3> QED BY <3>2, <3>3
  <2> QED BY <1>1, <2>1 DEF Past, EndedTrue
<1>13. Explained'
  <2>1. \A d \in Clients, n \in Nat : GivenUp(d, n)' <=> GivenUp(d, n)
    BY <1>1 DEF GivenUp
  <2> QED BY <1>2, <1>6, <1>7, <2>1 DEF Past, Explained
<1>14. VipcTypeOK'
  BY <1>1, <1>3, VipcAssumption DEF AnswersRight, VipcTypeOK
<1>15. AnswersNotMixed' /\ AnswersInOrder'
  BY <1>1 DEF AnswersRight, AnswersNotMixed, AnswersInOrder
<1> QED BY <1>4, <1>5, <1>8, <1>9, <1>10, <1>11, <1>12, <1>13, <1>14, <1>15 DEF Lines, Past, AnswersRight

\* A request is sent: it is the youngest of its client.
LEMMA SendRequestKeeps ==
  ASSUME MsgInv, NEW c \in Clients, SendRequest(c)
  PROVE  MsgInv'
<1> DEFINE m == [type |-> "request", from |-> c, of |-> call[c].of]
<1> USE DEF MsgInv
<1>1. /\ queue' = Append(queue, m) /\ call[c].pc = "send" /\ Set(c, "alarm") /\ Room(call[c].id)
      /\ UNCHANGED <<qid, queues, calls, overtime, request, ended>>
  BY DEF SendRequest, alarmVars
<1>2. m \in Message /\ m.type = "request" /\ m.from = c /\ m.of = call[c].of
  BY MsgFacts DEF Message
<1> HIDE DEF m
<1>3. /\ call' \in [Clients -> CallRecord]
      /\ \A d \in Clients : d # c => call'[d] = call[d]
      /\ call'[c].pc = "alarm" /\ call'[c].id = call[c].id /\ call'[c].of = call[c].of /\ call'[c].msg = call[c].msg
  BY <1>1, SetGoesOn
<1>4. InCall(c) /\ call[c].msg = NoMessage /\ Sent(c) = call[c].of - 1 /\ call[c].of \in Nat /\ call[c].of <= calls
  BY <1>1, MsgFacts DEF InCall, Sent, CallTrue
<1>5. \A n \in Nat : UnderWay(c, n) => n < call[c].of
  BY <1>4 DEF Past, NoneAhead, Pending
<1>6. \A i \in 1..Len(queue) : queue[i].from = m.from => queue[i].of < m.of
  BY <1>2, <1>5, MsgFacts DEF UnderWay
<1>7. /\ queue' \in Seq(Message) /\ Len(queue') = Len(queue) + 1
      /\ \A i \in 1..Len(queue') : queue'[i].type \in {"request", queue'[i].from}
      /\ \A i \in 1..Len(queue') : (i \in 1..Len(queue) /\ queue'[i] = queue[i]) \/ queue'[i] = m
      /\ QueueInOrder'
  BY <1>1, <1>2, <1>6, Added DEF Lines
<1>8. /\ \A d \in Clients, n \in Nat : UnderWay(d, n)' => UnderWay(d, n) \/ (d = c /\ n = call[c].of)
      /\ \A d \in Clients, n \in Nat : Pending(d, n)' => Pending(d, n) \/ (d = c /\ n = call[c].of)
  BY <1>1, <1>2, <1>3, <1>7 DEF UnderWay, Pending
<1>9. /\ \A d \in Clients : d # c => Sent(d)' = Sent(d)
      /\ \A d \in Clients : (InCall(d)' <=> InCall(d)) /\ call'[d].of = call[d].of /\ call'[d].msg = call[d].msg
      /\ Sent(c)' = call[c].of
  BY <1>1, <1>3, <1>4 DEF Sent, InCall
<1>10. MsgTyped'
  BY <1>1, <1>3, <1>7 DEF MsgTyped
<1>11. CallTrue'
  BY <1>1, <1>3, <1>4, MsgFacts DEF CallTrue, InCall
<1>12. RequestInOrder'
  <2>1. request # NoMessage /\ request.from = c => request.of < m.of
    BY <1>2, <1>5, MsgFacts DEF UnderWay
  <2> QED BY <1>1, <1>2, <1>7, <2>1 DEF Lines, RequestInOrder
<1>13. TakenInOrder'
  BY <1>4, <1>8, <1>9 DEF Lines, TakenInOrder
<1>14. NoneAhead'
  BY <1>4, <1>8, <1>9, MsgFacts DEF Past, NoneAhead
<1>15. EndedInOrder'
  <2> SUFFICES ASSUME NEW e \in ended, e.answer # NoMessage, NEW n \in Nat, Pending(e.from, n)'
               PROVE  e.answer.of < n
    BY <1>1 DEF EndedInOrder
  <2>1. CASE Pending(e.from, n)
    BY <2>1 DEF Past, EndedInOrder
  <2>2. CASE e.from = c /\ n = call[c].of
    <3>1. e.answer.of <= e.of /\ e.of < call[c].of
      BY <1>4, <2>2 DEF Past, EndedTrue
    <3> QED BY <1>4, <2>2, <3>1, MsgFacts
  <2> QED BY <1>8, <2>1, <2>2, MsgFacts
<1>16. EndedTrue'
  BY <1>1, <1>9, MsgFacts DEF Past, EndedTrue
<1>17. Explained'
  <2>1. \A d \in Clients, n \in Nat : GivenUp(d, n)' <=> GivenUp(d, n)
    BY <1>1 DEF GivenUp
  <2> QED BY <1>4, <1>8, <1>9, <2>1 DEF Past, Explained
<1>18. VipcTypeOK'
  <2>1. Len(queue') <= MsgCap
    BY <1>1, <1>7, MsgFacts, VipcAssumption DEF Room
  <2>2. qid # 0 \/ queue = <<>>
    BY DEF AnswersRight, VipcTypeOK
  <2>3. qid = call[c].id /\ call[c].id # 0
    BY <1>1, <1>4 DEF Room, CallTrue
  <2>4. \A d \in Clients : call'[d].pc \in {"idle", "clean", "send", "alarm", "enter", "wait", "test"}
    BY <1>3 DEF AnswersRight, VipcTypeOK
  <2> QED BY <1>1, <2>1, <2>3, <2>4 DEF AnswersRight, VipcTypeOK
<1>19. AnswersNotMixed' /\ AnswersInOrder'
  BY <1>1 DEF AnswersRight, AnswersNotMixed, AnswersInOrder
<1> QED BY <1>7, <1>10, <1>11, <1>12, <1>13, <1>14, <1>15, <1>16, <1>17, <1>18, <1>19 DEF Lines, Past, AnswersRight


\* The server answers: the request was older than any still in the queue.
LEMMA ServerAnswers ==
  ASSUME MsgInv, vipc_msg_send_masksig
  PROVE  MsgInv'
<1> DEFINE m == [request EXCEPT !.type = request.from]
<1> USE DEF MsgInv
<1>1. /\ queue' = Append(queue, m) /\ request # NoMessage /\ request' = NoMessage
      /\ qid # 0 /\ Room(qid)
      /\ UNCHANGED <<qid, queues, calls, call, overtime, ended>>
  BY DEF vipc_msg_send_masksig, alarmVars
<1>2. m \in Message /\ m.type = request.from /\ m.from = request.from /\ m.of = request.of
  BY <1>1 DEF MsgTyped, MayBe, Message
<1>3. request.from \in Clients /\ request.of \in Nat
  BY <1>1, MsgFacts
<1> HIDE DEF m
<1>4. m.type # "request"
  BY <1>2, <1>3, VipcAssumption
<1>5. \A i \in 1..Len(queue) : queue[i].from = m.from =>
          IF queue[i].type = "request" /\ m.type # "request" THEN m.of < queue[i].of
          ELSE queue[i].of < m.of
  BY <1>1, <1>2, <1>4 DEF Lines, RequestInOrder
<1>6. m.type \in {"request", m.from}
  BY <1>2
<1>7. /\ queue' \in Seq(Message) /\ Len(queue') = Len(queue) + 1
      /\ \A i \in 1..Len(queue') : queue'[i].type \in {"request", queue'[i].from}
      /\ \A i \in 1..Len(queue') : (i \in 1..Len(queue) /\ queue'[i] = queue[i]) \/ queue'[i] = m
      /\ QueueInOrder'
  BY <1>1, <1>2, <1>5, <1>6, Added DEF Lines
<1>8. \A d \in Clients, n \in Nat : (UnderWay(d, n)' => UnderWay(d, n)) /\ (Pending(d, n)' => Pending(d, n))
  BY <1>1, <1>2, <1>7 DEF UnderWay, Pending
<1>9. \A d \in Clients : Sent(d)' = Sent(d) /\ (InCall(d)' <=> InCall(d)) /\ call'[d].of = call[d].of
  BY <1>1 DEF Sent, InCall
<1>10. MsgTyped'
  BY <1>1, <1>7 DEF MsgTyped, MayBe
<1>11. CallTrue'
  BY <1>1 DEF CallTrue, InCall
<1>12. Past'
  BY <1>1, <1>8, <1>9, Moved
<1>13. RequestInOrder'
  BY <1>1 DEF RequestInOrder
<1>14. TakenInOrder'
  BY <1>1, <1>8 DEF Lines, TakenInOrder
<1>15. VipcTypeOK'
  <2>1. Len(queue') <= MsgCap
    BY <1>1, <1>7, MsgFacts, VipcAssumption DEF Room
  <2> QED BY <1>1, <2>1 DEF AnswersRight, VipcTypeOK
<1>16. AnswersNotMixed' /\ AnswersInOrder'
  BY <1>1 DEF AnswersRight, AnswersNotMixed, AnswersInOrder
<1> QED BY <1>7, <1>10, <1>11, <1>12, <1>13, <1>14, <1>15, <1>16 DEF Lines, AnswersRight

\* Messages that are given up: with the queue, or by the server.
LEMMA Dropped ==
  ASSUME MsgInv, UNCHANGED <<queues, calls, call, overtime, ended>>,
         \/ qid' = 0 /\ queue' = <<>> /\ UNCHANGED request
         \/ request' = NoMessage /\ UNCHANGED <<qid, queue>>
  PROVE  MsgInv'
<1> USE DEF MsgInv
<1>1. \A d \in Clients, n \in Nat : (UnderWay(d, n)' => UnderWay(d, n)) /\ (Pending(d, n)' => Pending(d, n))
  BY DEF UnderWay, Pending
<1>2. \A d \in Clients : Sent(d)' = Sent(d) /\ (InCall(d)' <=> InCall(d)) /\ call'[d].of = call[d].of
  BY DEF Sent, InCall
<1>3. MsgTyped'
  <2>1. CASE qid' = 0 /\ queue' = <<>> /\ UNCHANGED request
    <3>1. queue' \in Seq(Message) /\ Len(queue') = 0
      BY <2>1
    <3> QED BY <2>1, <3>1 DEF MsgTyped
  <2>2. CASE request' = NoMessage /\ UNCHANGED <<qid, queue>>
    BY <2>2 DEF MsgTyped, MayBe
  <2> QED BY <2>1, <2>2
<1>4. CallTrue'
  BY DEF CallTrue, InCall
<1>5. Past'
  BY <1>1, <1>2, Moved
<1>6. QueueInOrder' /\ RequestInOrder'
  BY DEF Lines, QueueInOrder, RequestInOrder
<1>7. TakenInOrder'
  BY <1>1 DEF Lines, TakenInOrder
<1>8. VipcTypeOK'
  BY VipcAssumption DEF AnswersRight, VipcTypeOK, MsgTyped
<1>9. AnswersNotMixed' /\ AnswersInOrder'
  BY DEF AnswersRight, AnswersNotMixed, AnswersInOrder
<1> QED BY <1>3, <1>4, <1>5, <1>6, <1>7, <1>8, <1>9 DEF Lines, AnswersRight

\* A queue is made when there is none, so there is no message to lose.
LEMMA CreateKeeps ==
  ASSUME MsgInv, vipc_msg_create
  PROVE  MsgInv'
<1> USE DEF MsgInv
<1>1. /\ UNCHANGED <<queue, request, ended, calls, call, overtime>>
      /\ qid' = queues + 1 /\ queues' = queues + 1
  BY DEF vipc_msg_create, alarmVars, AnswersRight, VipcTypeOK
<1>2. MsgTyped' /\ CallTrue'
  BY <1>1 DEF MsgTyped, CallTrue, InCall
<1>3. VipcTypeOK'
  BY <1>1 DEF AnswersRight, VipcTypeOK, MsgTyped
<1>4. \A d \in Clients : Sent(d)' = Sent(d) /\ (InCall(d)' <=> InCall(d)) /\ call'[d].of = call[d].of
  BY <1>1 DEF Sent, InCall
<1> QED BY <1>1, <1>2, <1>3, <1>4, Quiet

\* The alarm goes off, somewhere in a call or outside of one.
LEMMA AlarmKeeps ==
  ASSUME MsgInv, NEW c \in Clients, AlarmRings(c)
  PROVE  MsgInv'
<1> USE DEF MsgInv
<1>1. /\ UNCHANGED <<queue, request, calls, qid, queues>>
      /\ overtime' = [overtime EXCEPT ![c] = TRUE]
  BY DEF AlarmRings, queueVars
<1>2. overtime' \in [Clients -> BOOLEAN] /\ overtime'[c] /\ \A d \in Clients : overtime[d] => overtime'[d]
  BY <1>1, Zenon DEF MsgTyped
<1>3. CASE call[c].pc = "wait" /\ Set(c, "test") /\ UNCHANGED ended
  BY <1>1, <1>2, <1>3, SetIsQuiet DEF InCall
<1>4. CASE UNCHANGED <<call, ended>>
  <2>1. MsgTyped' /\ VipcTypeOK'
    BY <1>1, <1>2, <1>4 DEF MsgTyped, AnswersRight, VipcTypeOK
  <2>2. CallTrue'
    BY <1>1, <1>2, <1>4 DEF CallTrue, InCall
  <2>3. \A d \in Clients : Sent(d)' = Sent(d) /\ (InCall(d)' <=> InCall(d)) /\ call'[d].of = call[d].of
    BY <1>1, <1>4 DEF Sent, InCall
  <2> QED BY <1>1, <1>4, <2>1, <2>2, <2>3, Quiet
<1>5. CASE call[c].pc = "send" /\ EndCall(c, "error", NoMessage)
  <2>1. InCall(c) /\ call[c].msg = NoMessage
    BY <1>5 DEF InCall, CallTrue
  <2>2. EndCall(c, "error", call[c].msg)
    BY <1>5, <2>1
  <2> QED BY <1>1, <1>2, <2>1, <2>2, Ends
<1> QED BY <1>3, <1>4, <1>5 DEF AlarmRings

\* The steps of a call that end it, with or without an answer.
LEMMA EndKeeps ==
  ASSUME MsgInv, NEW c \in Clients, SendFails(c) \/ NoMemory(c) \/ ReceiveFails(c) \/ Test(c)
  PROVE  MsgInv'
<1> USE DEF MsgInv
<1>1. UNCHANGED <<queue, request, calls, qid, queues, overtime>>
  BY DEF SendFails, NoMemory, ReceiveFails, Test, queueVars, alarmVars
<1>2. overtime' \in [Clients -> BOOLEAN] /\ \A d \in Clients : overtime[d] => overtime'[d]
  BY <1>1, Zenon DEF MsgTyped
<1>3. CASE SendFails(c) \/ NoMemory(c) \/ ReceiveFails(c)
  <2>1. InCall(c) /\ call[c].msg = NoMessage
    BY <1>3 DEF SendFails, NoMemory, ReceiveFails, InCall, CallTrue
  <2>2. EndCall(c, "error", call[c].msg)
    BY <1>3, <2>1 DEF SendFails, NoMemory, ReceiveFails
  <2> QED BY <1>1, <1>2, <2>1, <2>2, Ends
<1>4. CASE Test(c)
  <2>1. InCall(c)
    BY <1>4 DEF Test, InCall
  <2>2. CASE EndCall(c, "overtime", call[c].msg)
    BY <1>1, <1>2, <2>1, <2>2, Ends
  <2>3. CASE ~overtime[c] /\ EndCall(c, "answer", call[c].msg)
    <3>1. call[c].msg # NoMessage
      BY <1>4, <2>3 DEF Test, CallTrue
    <3> QED BY <1>1, <1>2, <2>1, <2>3, <3>1, Ends
  <2> QED BY <1>4, <2>2, <2>3 DEF Test
<1> QED BY <1>3, <1>4

\* The steps in between.
LEMMA WaitKeeps ==
  ASSUME MsgInv, NEW c \in Clients, SetAlarm(c) \/ Enter(c)
  PROVE  MsgInv'
<1>1. UNCHANGED <<queue, request, ended, calls, qid, queues, overtime>>
  BY DEF SetAlarm, Enter, queueVars, alarmVars
<1>2. overtime' \in [Clients -> BOOLEAN] /\ \A d \in Clients : overtime[d] => overtime'[d]
  BY <1>1, Zenon DEF MsgInv, MsgTyped
<1>3. CASE SetAlarm(c)
  BY <1>1, <1>2, <1>3, SetIsQuiet DEF SetAlarm, InCall
<1>4. CASE Enter(c)
  BY <1>1, <1>2, <1>4, SetIsQuiet DEF Enter, InCall
<1> QED BY <1>3, <1>4

\* Nothing is under way, and nothing has happened.
LEMMA MsgInitially ==
  ASSUME NEW budget \in {0, MaxCalls}, VipcInit(budget)
  PROVE  MsgInv
<1> USE VipcAssumption
<1>1. /\ qid = 1 /\ queues \in Nat \ {0} /\ queue = <<>> /\ calls \in 0..MaxCalls
      /\ request = NoMessage /\ ended = {}
      /\ call = [c \in Clients |-> AtRest] /\ overtime = [c \in Clients |-> FALSE]
  BY DEF VipcInit
<1>2. AtRest \in CallRecord /\ AtRest.msg = NoMessage /\ AtRest.of = 0 /\ AtRest.pc = "idle"
  BY DEF AtRest, CallRecord, MayBe
<1>3. MsgTyped
  BY <1>1, <1>2 DEF MsgTyped, MayBe
<1>4. CallTrue
  BY <1>1, <1>2 DEF CallTrue, InCall
<1>5. \A c \in Clients, n \in Nat : ~Pending(c, n)
  BY <1>1, <1>2 DEF Pending, UnderWay
<1>6. Past
  BY <1>1, <1>5 DEF Past, NoneAhead, EndedInOrder, EndedTrue, Explained
<1>7. Lines
  BY <1>1, <1>2 DEF Lines, QueueInOrder, RequestInOrder, TakenInOrder
<1>8. AnswersRight
  BY <1>1, <1>2 DEF AnswersRight, VipcTypeOK, AnswersNotMixed, AnswersInOrder
<1> QED BY <1>3, <1>4, <1>6, <1>7, <1>8 DEF MsgInv

\* Every step keeps the invariant.
LEMMA MsgInductive == MsgInv /\ [VipcNext]_vipcVars => MsgInv'
<1> SUFFICES ASSUME MsgInv, [VipcNext]_vipcVars PROVE MsgInv'
  OBVIOUS
<1>1. CASE vipc_msg_create
  BY <1>1, CreateKeeps
<1>2. CASE vipc_msg_destory
  BY <1>2, Dropped DEF vipc_msg_destory, alarmVars
<1>3. CASE vipc_msg_recv
  BY <1>3, ServerReceives
<1>4. CASE vipc_msg_send_masksig
  BY <1>4, ServerAnswers
<1>5. CASE vipc_msg_send_nowait
  BY <1>5, Dropped DEF vipc_msg_send_nowait, alarmVars, queueVars
<1>6. ASSUME NEW c \in Clients, Begin(c) \/ VipcClean(c) \/ CallStep(c) \/ AlarmRings(c)
      PROVE  MsgInv'
  BY <1>6, BeginKeeps, VipcCleanKeeps, AlarmKeeps, SendRequestKeeps, WaitKeeps, EndKeeps, ReceiveKeeps,
     CleanNextKeeps DEF CallStep
<1>7. CASE UNCHANGED vipcVars
  <2>1. UNCHANGED <<queue, request, ended, calls, call, overtime, qid, queues>>
    BY <1>7 DEF vipcVars
  <2>2. MsgTyped' /\ CallTrue' /\ VipcTypeOK'
    BY <2>1 DEF MsgInv, MsgTyped, CallTrue, InCall, AnswersRight, VipcTypeOK
  <2>3. \A d \in Clients : Sent(d)' = Sent(d) /\ (InCall(d)' <=> InCall(d)) /\ call'[d].of = call[d].of
    BY <2>1 DEF Sent, InCall
  <2> QED BY <2>1, <2>2, <2>3, Quiet
<1> QED BY <1>1, <1>2, <1>3, <1>4, <1>5, <1>6, <1>7 DEF VipcNext

\* A client of vipc_msg_send_recv never gets the answer to a call of another,
\* nor its own answers out of order or twice, and gets a late one only after it
\* gave up a call: for any number of clients, calls and queues.
THEOREM AnswersHold == VipcSpec => []AnswersRight
<1>1. (\E budget \in {0, MaxCalls} : VipcInit(budget)) => MsgInv
  BY MsgInitially
<1>2. MsgInv => AnswersRight
  BY DEF MsgInv
<1> QED BY <1>1, <1>2, MsgInductive, PTL DEF VipcSpec

-----------------------------------------------------------------------------
(***************************************************************************)
(* POSIX message queues: first that who is alone with a descriptor works   *)
(* in its own mode, then that the end of a queue reaches every receiver.   *)
(***************************************************************************)

(***************************************************************************)
(* What is left of a function of PipcMsg after some of its steps.          *)
(***************************************************************************)
Receive3 == <<"receive", "restore", "deliver">>
Wait3 == <<"wait", "restore", "deliver">>
Receive2 == <<"restore", "deliver">>
Receive1 == <<"deliver">>
Send2 == <<"send", "restore">>
Last1 == <<"restore">>
End5 == <<"clean", "restore", "poison", "close", "unlink">>
End4 == <<"restore", "poison", "close", "unlink">>
End3 == <<"poison", "close", "unlink">>
End2 == <<"close", "unlink">>
End1 == <<"unlink">>
Notice3 == <<"set", "take", "restore">>
Notice2 == <<"take", "restore">>
NoticeWait == <<"wait", "take", "restore">>

Receiving == {Receive3, Wait3, Receive2, Receive1}
RecvPlaces == {pipc_msg_recv} \cup Receiving
NowaitPlaces == {pipc_msg_recv_nowait} \cup Receiving
SendPlaces == {pipc_msg_send, Send2, Last1}
EndPlaces == {pipc_msg_destory, End5, End4, End3, End2, End1}
NoticePlaces == {pipc_msg_thread_func, Notice3, Notice2, NoticeWait, Last1}
Places == {<<>>} \cup RecvPlaces \cup NowaitPlaces \cup SendPlaces \cup EndPlaces \cup NoticePlaces

\* A sequence with one element more in front.
LEMMA InFront ==
  ASSUME NEW S, NEW x \in S, NEW s \in Seq(S)
  PROVE  /\ <<x>> \o s \in Seq(S) /\ Len(<<x>> \o s) = Len(s) + 1 /\ (<<x>> \o s)[1] = x
         /\ \A n \in 1 .. Len(s) : (<<x>> \o s)[n + 1] = s[n]
<1>1. <<x>> \in Seq(S) /\ Len(<<x>>) = 1 /\ <<x>>[1] = x
  OBVIOUS
<1>2. Len(s) \in Nat
  OBVIOUS
<1> DEFINE first == <<x>>
<1> DEFINE whole == first \o s
<1>3. /\ whole \in Seq(S) /\ Len(whole) = 1 + Len(s)
      /\ \A n \in 1 .. 1 + Len(s) : whole[n] = IF n <= 1 THEN first[n] ELSE s[n - 1]
  <2> HIDE DEF first
  <2> QED BY <1>1, ConcatProperties DEF first
<1>4. first[1] = x
  BY <1>1
<1> HIDE DEF first, whole
<1>5. whole[1] = x
  BY <1>2, <1>3, <1>4
<1>6. \A n \in 1 .. Len(s) : whole[n + 1] = s[n]
  BY <1>2, <1>3
<1>7. whole \in Seq(S) /\ Len(whole) = Len(s) + 1
  BY <1>2, <1>3
<1> QED BY <1>5, <1>6, <1>7 DEF first, whole

\* How each of them begins and goes on.
LEMMA Programs ==
  /\ pipc_msg_recv # <<>> /\ Head(pipc_msg_recv) = "clear" /\ Tail(pipc_msg_recv) = Receive3
  /\ pipc_msg_recv_nowait # <<>> /\ Head(pipc_msg_recv_nowait) = "set" /\ Tail(pipc_msg_recv_nowait) = Receive3
  /\ Receive3 # <<>> /\ Head(Receive3) = "receive" /\ Tail(Receive3) = Receive2
  /\ Wait3 # <<>> /\ Head(Wait3) = "wait" /\ Tail(Wait3) = Receive2
  /\ Receive2 # <<>> /\ Head(Receive2) = "restore" /\ Tail(Receive2) = Receive1
  /\ Receive1 # <<>> /\ Head(Receive1) = "deliver" /\ Tail(Receive1) = <<>>
  /\ pipc_msg_send # <<>> /\ Head(pipc_msg_send) = "set" /\ Tail(pipc_msg_send) = Send2
  /\ Send2 # <<>> /\ Head(Send2) = "send" /\ Tail(Send2) = Last1
  /\ Last1 # <<>> /\ Head(Last1) = "restore" /\ Tail(Last1) = <<>>
  /\ pipc_msg_destory # <<>> /\ Head(pipc_msg_destory) = "set" /\ Tail(pipc_msg_destory) = End5
  /\ End5 # <<>> /\ Head(End5) = "clean" /\ Tail(End5) = End4
  /\ End4 # <<>> /\ Head(End4) = "restore" /\ Tail(End4) = End3
  /\ End3 # <<>> /\ Head(End3) = "poison" /\ Tail(End3) = End2
  /\ End2 # <<>> /\ Head(End2) = "close" /\ Tail(End2) = End1
  /\ End1 # <<>> /\ Head(End1) = "unlink" /\ Tail(End1) = <<>>
  /\ pipc_msg_thread_func # <<>> /\ Head(pipc_msg_thread_func) = "rearm" /\ Tail(pipc_msg_thread_func) = Notice3
  /\ Notice3 # <<>> /\ Head(Notice3) = "set" /\ Tail(Notice3) = Notice2
  /\ Notice2 # <<>> /\ Head(Notice2) = "take" /\ Tail(Notice2) = Last1
  /\ NoticeWait # <<>> /\ Head(NoticeWait) = "wait" /\ Tail(NoticeWait) = Notice2
  /\ <<"wait">> \o Receive2 = Wait3 /\ <<"wait">> \o Notice2 = NoticeWait
<1>1. pipc_msg_recv # <<>> /\ Head(pipc_msg_recv) = "clear" /\ Tail(pipc_msg_recv) = Receive3
  BY DEF Receive3, pipc_msg_recv
<1>2. pipc_msg_recv_nowait # <<>> /\ Head(pipc_msg_recv_nowait) = "set" /\ Tail(pipc_msg_recv_nowait) = Receive3
  BY DEF Receive3, pipc_msg_recv_nowait
<1>3. Receive3 # <<>> /\ Head(Receive3) = "receive" /\ Tail(Receive3) = Receive2
  BY DEF Receive3, Receive2
<1>4. Wait3 # <<>> /\ Head(Wait3) = "wait" /\ Tail(Wait3) = Receive2
  BY DEF Wait3, Receive2
<1>5. Receive2 # <<>> /\ Head(Receive2) = "restore" /\ Tail(Receive2) = Receive1
  BY DEF Receive2, Receive1
<1>6. Receive1 # <<>> /\ Head(Receive1) = "deliver" /\ Tail(Receive1) = <<>>
  BY DEF Receive1
<1>7. pipc_msg_send # <<>> /\ Head(pipc_msg_send) = "set" /\ Tail(pipc_msg_send) = Send2
  BY DEF Send2, pipc_msg_send
<1>8. Send2 # <<>> /\ Head(Send2) = "send" /\ Tail(Send2) = Last1
  BY DEF Send2, Last1
<1>9. Last1 # <<>> /\ Head(Last1) = "restore" /\ Tail(Last1) = <<>>
  BY DEF Last1
<1>10. pipc_msg_destory # <<>> /\ Head(pipc_msg_destory) = "set" /\ Tail(pipc_msg_destory) = End5
  BY DEF End5, pipc_msg_destory
<1>11. End5 # <<>> /\ Head(End5) = "clean" /\ Tail(End5) = End4
  BY DEF End5, End4
<1>12. End4 # <<>> /\ Head(End4) = "restore" /\ Tail(End4) = End3
  BY DEF End4, End3
<1>13. End3 # <<>> /\ Head(End3) = "poison" /\ Tail(End3) = End2
  BY DEF End3, End2
<1>14. End2 # <<>> /\ Head(End2) = "close" /\ Tail(End2) = End1
  BY DEF End2, End1
<1>15. End1 # <<>> /\ Head(End1) = "unlink" /\ Tail(End1) = <<>>
  BY DEF End1
<1>16. pipc_msg_thread_func # <<>> /\ Head(pipc_msg_thread_func) = "rearm" /\ Tail(pipc_msg_thread_func) = Notice3
  BY DEF Notice3, pipc_msg_thread_func
<1>17. Notice3 # <<>> /\ Head(Notice3) = "set" /\ Tail(Notice3) = Notice2
  BY DEF Notice3, Notice2
<1>18. Notice2 # <<>> /\ Head(Notice2) = "take" /\ Tail(Notice2) = Last1
  BY DEF Last1, Notice2
<1>19. NoticeWait # <<>> /\ Head(NoticeWait) = "wait" /\ Tail(NoticeWait) = Notice2
  BY DEF Notice2, NoticeWait
<1>20. <<"wait">> \o Receive2 = Wait3
  <2> DEFINE S == {"wait", "restore", "deliver", "take"}
  <2>1. Receive2 \in Seq(S) /\ Wait3 \in Seq(S) /\ "wait" \in S
    BY DEF Receive2, Wait3
  <2>2. Len(Receive2) = 2 /\ Len(Wait3) = 3 /\ Wait3[1] = "wait" /\ Wait3[2] = Receive2[1] /\ Wait3[3] = Receive2[2]
    BY DEF Receive2, Wait3
  <2> HIDE DEF S
  <2>3. \A w : /\ w \in Seq(S) /\ Len(w) = Len(Receive2) + 1 /\ w[1] = "wait"
               /\ \A n \in 1 .. Len(Receive2) : w[n + 1] = Receive2[n]
               => w = Wait3
    BY <2>1, <2>2, SeqEqual
  <2>4. /\ <<"wait">> \o Receive2 \in Seq(S) /\ Len(<<"wait">> \o Receive2) = Len(Receive2) + 1
        /\ (<<"wait">> \o Receive2)[1] = "wait"
        /\ \A n \in 1 .. Len(Receive2) : (<<"wait">> \o Receive2)[n + 1] = Receive2[n]
    BY <2>1, InFront
  <2> QED BY ONLY <2>3, <2>4, Zenon
<1>21. <<"wait">> \o Notice2 = NoticeWait
  <2> DEFINE S == {"wait", "restore", "deliver", "take"}
  <2>1. Notice2 \in Seq(S) /\ NoticeWait \in Seq(S) /\ "wait" \in S
    BY DEF Notice2, NoticeWait
  <2>2. /\ Len(Notice2) = 2 /\ Len(NoticeWait) = 3
        /\ NoticeWait[1] = "wait" /\ NoticeWait[2] = Notice2[1] /\ NoticeWait[3] = Notice2[2]
    BY DEF Notice2, NoticeWait
  <2> HIDE DEF S
  <2>3. \A w : /\ w \in Seq(S) /\ Len(w) = Len(Notice2) + 1 /\ w[1] = "wait"
               /\ \A n \in 1 .. Len(Notice2) : w[n + 1] = Notice2[n]
               => w = NoticeWait
    BY <2>1, <2>2, SeqEqual
  <2>4. /\ <<"wait">> \o Notice2 \in Seq(S) /\ Len(<<"wait">> \o Notice2) = Len(Notice2) + 1
        /\ (<<"wait">> \o Notice2)[1] = "wait"
        /\ \A n \in 1 .. Len(Notice2) : (<<"wait">> \o Notice2)[n + 1] = Notice2[n]
    BY <2>1, InFront
  <2> QED BY ONLY <2>3, <2>4, Zenon
<1> QED
  BY ONLY <1>1, <1>2, <1>3, <1>4, <1>5, <1>6, <1>7, <1>8, <1>9, <1>10, <1>11,
     <1>12, <1>13, <1>14, <1>15, <1>16, <1>17, <1>18, <1>19, <1>20, <1>21

\* No two of them are the same.
LEMMA Different ==
  /\ pipc_msg_recv \notin {<<>>, pipc_msg_recv_nowait, pipc_msg_send, pipc_msg_destory,
          pipc_msg_thread_func, Receive3, Wait3, Receive2, Receive1, Send2, Last1, End5, End4,
          End3, End2, End1, Notice3, Notice2, NoticeWait}
  /\ pipc_msg_recv_nowait \notin {<<>>, pipc_msg_send, pipc_msg_destory, pipc_msg_thread_func,
          Receive3, Wait3, Receive2, Receive1, Send2, Last1, End5, End4, End3, End2, End1, Notice3,
          Notice2, NoticeWait}
  /\ pipc_msg_send \notin {<<>>, pipc_msg_destory, pipc_msg_thread_func, Receive3, Wait3, Receive2,
          Receive1, Send2, Last1, End5, End4, End3, End2, End1, Notice3, Notice2, NoticeWait}
  /\ pipc_msg_destory \notin {<<>>, pipc_msg_thread_func, Receive3, Wait3, Receive2, Receive1,
          Send2, Last1, End5, End4, End3, End2, End1, Notice3, Notice2, NoticeWait}
  /\ pipc_msg_thread_func \notin {<<>>, Receive3, Wait3, Receive2, Receive1, Send2, Last1, End5,
          End4, End3, End2, End1, Notice3, Notice2, NoticeWait}
  /\ Receive3 \notin {<<>>, Wait3, Receive2, Receive1, Send2, Last1, End5, End4, End3, End2, End1,
          Notice3, Notice2, NoticeWait}
  /\ Wait3 \notin {<<>>, Receive2, Receive1, Send2, Last1, End5, End4, End3, End2, End1, Notice3,
          Notice2, NoticeWait}
  /\ Receive2 \notin {<<>>, Receive1, Send2, Last1, End5, End4, End3, End2, End1, Notice3, Notice2,
          NoticeWait}
  /\ Receive1 \notin {<<>>, Send2, Last1, End5, End4, End3, End2, End1, Notice3, Notice2,
          NoticeWait}
  /\ Send2 \notin {<<>>, Last1, End5, End4, End3, End2, End1, Notice3, Notice2, NoticeWait}
  /\ Last1 \notin {<<>>, End5, End4, End3, End2, End1, Notice3, Notice2, NoticeWait}
  /\ End5 \notin {<<>>, End4, End3, End2, End1, Notice3, Notice2, NoticeWait}
  /\ End4 \notin {<<>>, End3, End2, End1, Notice3, Notice2, NoticeWait}
  /\ End3 \notin {<<>>, End2, End1, Notice3, Notice2, NoticeWait}
  /\ End2 \notin {<<>>, End1, Notice3, Notice2, NoticeWait}
  /\ End1 \notin {<<>>, Notice3, Notice2, NoticeWait}
  /\ Notice3 \notin {<<>>, Notice2, NoticeWait}
  /\ Notice2 \notin {<<>>, NoticeWait}
  /\ NoticeWait # <<>>
<1>1. pipc_msg_recv \notin {<<>>, pipc_msg_recv_nowait, pipc_msg_send, pipc_msg_destory,
          pipc_msg_thread_func, Receive3, Wait3, Receive2, Receive1, Send2, Last1, End5, End4,
          End3, End2, End1, Notice3, Notice2, NoticeWait}
  BY Programs
<1>2. pipc_msg_recv_nowait \notin {<<>>, pipc_msg_send, pipc_msg_destory, pipc_msg_thread_func,
          Receive3, Wait3, Receive2, Receive1, Send2, Last1, End5, End4, End3, End2, End1, Notice3,
          Notice2, NoticeWait}
  BY Programs, ZenonT(60)
<1>3. pipc_msg_send \notin {<<>>, pipc_msg_destory, pipc_msg_thread_func, Receive3, Wait3,
          Receive2, Receive1, Send2, Last1, End5, End4, End3, End2, End1, Notice3, Notice2,
          NoticeWait}
  BY Programs
<1>4. pipc_msg_destory \notin {<<>>, pipc_msg_thread_func, Receive3, Wait3, Receive2, Receive1,
          Send2, Last1, End5, End4, End3, End2, End1, Notice3, Notice2, NoticeWait}
  BY Programs
<1>5. pipc_msg_thread_func \notin {<<>>, Receive3, Wait3, Receive2, Receive1, Send2, Last1, End5,
          End4, End3, End2, End1, Notice3, Notice2, NoticeWait}
  BY Programs
<1>6. Receive3 \notin {<<>>, Wait3, Receive2, Receive1, Send2, Last1, End5, End4, End3, End2, End1,
          Notice3, Notice2, NoticeWait}
  BY Programs
<1>7. Wait3 \notin {<<>>, Receive2, Receive1, Send2, Last1, End5, End4, End3, End2, End1, Notice3,
          Notice2, NoticeWait}
  BY Programs
<1>8. Receive2 \notin {<<>>, Receive1, Send2, Last1, End5, End4, End3, End2, End1, Notice3,
          Notice2, NoticeWait}
  BY Programs
<1>9. Receive1 \notin {<<>>, Send2, Last1, End5, End4, End3, End2, End1, Notice3, Notice2,
          NoticeWait}
  BY Programs
<1>10. Send2 \notin {<<>>, Last1, End5, End4, End3, End2, End1, Notice3, Notice2, NoticeWait}
  BY Programs
<1>11. Last1 \notin {<<>>, End5, End4, End3, End2, End1, Notice3, Notice2, NoticeWait}
  BY Programs
<1>12. End5 \notin {<<>>, End4, End3, End2, End1, Notice3, Notice2, NoticeWait}
  BY Programs
<1>13. End4 \notin {<<>>, End3, End2, End1, Notice3, Notice2, NoticeWait}
  BY Programs
<1>14. End3 \notin {<<>>, End2, End1, Notice3, Notice2, NoticeWait}
  BY Programs
<1>15. End2 \notin {<<>>, End1, Notice3, Notice2, NoticeWait}
  BY Programs
<1>16. End1 \notin {<<>>, Notice3, Notice2, NoticeWait}
  BY Programs
<1>17. Notice3 \notin {<<>>, Notice2, NoticeWait}
  BY Programs
<1>18. Notice2 \notin {<<>>, NoticeWait}
  BY Programs
<1>19. NoticeWait # <<>>
  BY Programs
<1> QED BY ONLY <1>1, <1>2, <1>3, <1>4, <1>5, <1>6, <1>7, <1>8, <1>9, <1>10, <1>11,
        <1>12, <1>13, <1>14, <1>15, <1>16, <1>17, <1>18, <1>19

\* Which of them begin with a step.
LEMMA PlaceOf ==
  ASSUME NEW p \in Places, p # <<>>
  PROVE  /\ Head(p) = "set" <=> p \in {pipc_msg_recv_nowait, pipc_msg_send, pipc_msg_destory, Notice3}
         /\ Head(p) = "clear" <=> p = pipc_msg_recv
         /\ Head(p) = "restore" <=> p \in {Receive2, Last1, End4}
         /\ Head(p) = "receive" <=> p = Receive3
         /\ Head(p) = "wait" <=> p \in {Wait3, NoticeWait}
         /\ Head(p) = "deliver" <=> p = Receive1
         /\ Head(p) = "send" <=> p = Send2
         /\ Head(p) = "clean" <=> p = End5
         /\ Head(p) = "poison" <=> p = End3
         /\ Head(p) = "close" <=> p = End2
         /\ Head(p) = "unlink" <=> p = End1
         /\ Head(p) = "rearm" <=> p = pipc_msg_thread_func
         /\ Head(p) = "take" <=> p = Notice2
<1>1. p \in {pipc_msg_recv, pipc_msg_recv_nowait, pipc_msg_send, pipc_msg_destory, pipc_msg_thread_func,
             Receive3, Wait3, Receive2, Receive1, Send2, Last1, End5, End4, End3, End2, End1, Notice3,
             Notice2, NoticeWait}
  BY DEF Places, RecvPlaces, NowaitPlaces, SendPlaces, EndPlaces, NoticePlaces, Receiving
<1>2. /\ Head(pipc_msg_recv) = "clear" /\ Head(pipc_msg_recv_nowait) = "set" /\ Head(pipc_msg_send) = "set"
      /\ Head(pipc_msg_destory) = "set" /\ Head(pipc_msg_thread_func) = "rearm"
      /\ Head(Receive3) = "receive" /\ Head(Wait3) = "wait" /\ Head(Receive2) = "restore"
      /\ Head(Receive1) = "deliver" /\ Head(Send2) = "send" /\ Head(Last1) = "restore"
      /\ Head(End5) = "clean" /\ Head(End4) = "restore" /\ Head(End3) = "poison"
      /\ Head(End2) = "close" /\ Head(End1) = "unlink"
      /\ Head(Notice3) = "set" /\ Head(Notice2) = "take" /\ Head(NoticeWait) = "wait"
  BY Programs
<1>3. Head(p) = "set" <=> p \in {pipc_msg_recv_nowait, pipc_msg_send, pipc_msg_destory, Notice3}
  BY ONLY <1>1, <1>2
<1>4. Head(p) = "clear" <=> p = pipc_msg_recv
  BY ONLY <1>1, <1>2
<1>5. Head(p) = "restore" <=> p \in {Receive2, Last1, End4}
  BY ONLY <1>1, <1>2
<1>6. Head(p) = "receive" <=> p = Receive3
  BY ONLY <1>1, <1>2
<1>7. Head(p) = "wait" <=> p \in {Wait3, NoticeWait}
  BY ONLY <1>1, <1>2
<1>8. Head(p) = "deliver" <=> p = Receive1
  BY ONLY <1>1, <1>2
<1>9. Head(p) = "send" <=> p = Send2
  BY ONLY <1>1, <1>2
<1>10. Head(p) = "clean" <=> p = End5
  BY ONLY <1>1, <1>2
<1>11. Head(p) = "poison" <=> p = End3
  BY ONLY <1>1, <1>2
<1>12. Head(p) = "close" <=> p = End2
  BY ONLY <1>1, <1>2
<1>13. Head(p) = "unlink" <=> p = End1
  BY ONLY <1>1, <1>2
<1>14. Head(p) = "rearm" <=> p = pipc_msg_thread_func
  BY ONLY <1>1, <1>2
<1>15. Head(p) = "take" <=> p = Notice2
  BY ONLY <1>1, <1>2
<1> QED BY ONLY <1>3, <1>4, <1>5, <1>6, <1>7, <1>8, <1>9, <1>10, <1>11, <1>12, <1>13, <1>14, <1>15

Jobs == [pc : Places, fn : {"none", "recv", "recv_nowait", "send", "destory"}, old : BOOLEAN,
         msg : {<<>>} \cup {<<m>> : m \in Nat}, left : Nat]

\* The variables have their types, messages are numbered as they are sent, and
\* where notifications are used nobody is told of an end.
Queue ==
    /\ use \in {"receive", "notify"} /\ sent \in 0..MaxMsgs /\ registered \in BOOLEAN
    /\ nonblock \in [{Shared} \cup {DescOf[t] : t \in Threads} -> BOOLEAN]
    /\ pqueue \in Seq(Nat) /\ Len(pqueue) <= PCap
    /\ \A n \in 1 .. Len(pqueue) : pqueue[n] <= sent /\ (use = "notify" => pqueue[n] # Poison)
    /\ use = "receive" => ~registered
    /\ got \subseteq 1..sent /\ alone \subseteq All

\* A thread is somewhere in the function that it called and that is for it.
Placed(t) ==
    \/ job[t] = NoJob
    \/ job[t].fn = "recv" /\ job[t].pc \in RecvPlaces /\ t \in Receivers /\ use = "receive"
    \/ job[t].fn = "recv_nowait" /\ job[t].pc \in NowaitPlaces /\ t \in Receivers /\ use = "receive"
    \/ job[t].fn = "send" /\ job[t].pc \in SendPlaces /\ t \in Threads /\ (use = "notify" \/ t \notin Receivers)
    \/ /\ job[t].fn = "destory" /\ job[t].pc \in EndPlaces /\ t \in Enders /\ use = "receive"
       /\ job[t].pc \in {pipc_msg_destory, End5, End4} => job[t].left = Cardinality(Opened)
       /\ job[t].pc = End3 => job[t].left > 0
    \/ job[t].fn = "none" /\ job[t].pc \in NoticePlaces /\ t \in Handlers /\ use = "notify"

\* What it has received was sent, and a receiver is told of the end only once it is.
Carries(t) ==
    /\ \A m \in Nat : job[t].msg = <<m>> => m <= sent
    /\ job[t].msg = <<Poison>> => t \in Receivers /\ job[t].pc \in {Receive2, Receive1}

\* A thread that is alone works in the mode it has set, and does not wait in the other.
InMode(t) ==
    t \in alone =>
        /\ job[t].pc = Receive3 => Flag(t) = (job[t].fn # "recv")
        /\ job[t].pc = Wait3 => job[t].fn = "recv"
        /\ job[t].pc \in {Send2, Notice2} => Flag(t)
        /\ job[t].pc # NoticeWait

\* Who waits finds the queue empty: what is sent is handed over.
Waits(t) == job[t].pc \in {Wait3, NoticeWait} => pqueue = <<>>

Right(t) == Placed(t) /\ Carries(t) /\ InMode(t) /\ Waits(t)

AloneOnes == \A t \in alone : Busy(t) => \A u \in All \ {t} : Busy(u) => Desc(u) # Desc(t)

PosixInv == Queue /\ job \in [All -> Jobs] /\ (\A t \in All : Right(t)) /\ AloneOnes

\* A thread that does nothing has no steps, no message and no function.
LEMMA Idle ==
  /\ NoJob \in Jobs /\ NoJob.pc = <<>> /\ NoJob.msg = <<>> /\ NoJob.fn = "none"
  /\ \A m \in Nat : <<m>> # <<>>
  /\ \A m, n \in Nat : <<m>> = <<n>> => m = n
  /\ <<>> \notin RecvPlaces \cup NowaitPlaces \cup SendPlaces \cup EndPlaces \cup NoticePlaces
<1>1. <<>> \in Places /\ <<>> \notin RecvPlaces \cup NowaitPlaces \cup SendPlaces \cup EndPlaces \cup NoticePlaces
  BY Programs DEF Places, RecvPlaces, NowaitPlaces, SendPlaces, EndPlaces, NoticePlaces, Receiving
<1>2. NoJob \in Jobs /\ NoJob.pc = <<>> /\ NoJob.msg = <<>> /\ NoJob.fn = "none"
  BY <1>1 DEF NoJob, Jobs
<1> QED BY <1>1, <1>2

\* Who is busy has steps to do.
LEMMA BusyHere ==
  ASSUME NEW t \in All, job \in [All -> Jobs], Placed(t)
  PROVE  /\ Busy(t) <=> job[t].pc # <<>>
         /\ job[t].pc \in Places
BY Idle DEF Placed, Busy, Jobs

\* Threads that go on, whatever they do with the flags of their descriptors, leave
\* the others as they are.
LEMMA Moves ==
  ASSUME PosixInv, NEW T \in SUBSET All, \A t \in T : Busy(t) /\ Right(t)',
         job' \in [All -> Jobs], \A u \in All \ T : job'[u] = job[u],
         Queue', UNCHANGED <<use, alone>>, sent' >= sent,
         \A u \in All \ T : job[u].pc \in {Wait3, NoticeWait} => pqueue' = <<>>,
         \A u \in All \ T : (\A t \in T : Desc(u) # Desc(t)) => Flag(u)' = Flag(u)
  PROVE  PosixInv'
<1>1. ASSUME NEW u \in All \ T PROVE Right(u)'
  <2>1. Right(u) /\ job'[u] = job[u] /\ job[u] \in Jobs
    BY DEF PosixInv
  <2>2. Placed(u)'
    BY <2>1 DEF Right, Placed
  <2>3. Carries(u)'
    <3>1. sent \in Nat /\ sent' \in Nat
      BY PipcAssumption DEF PosixInv, Queue
    <3> QED BY <2>1, <3>1 DEF Right, Carries
  <2>4. Waits(u)'
    BY <2>1 DEF Waits
  <2>5. InMode(u)'
    <3>1. CASE Busy(u) /\ u \in alone
      <4>1. \A t \in T : Desc(u) # Desc(t)
        BY <3>1 DEF PosixInv, AloneOnes
      <4> QED BY <2>1, <4>1 DEF Right, InMode
    <3>2. CASE ~Busy(u)
      <4>1. job'[u].pc = <<>>
        BY <2>1, <3>2, Idle DEF Busy
      <4> QED BY ONLY <4>1, Different DEF InMode
    <3> QED BY <3>1, <3>2 DEF InMode
  <2> QED BY <2>2, <2>3, <2>4, <2>5 DEF Right
<1>2. AloneOnes'
  <2>1. \A u \in All : Busy(u)' => Busy(u)
    BY DEF Busy
  <2>2. alone' = alone /\ alone \subseteq All
    BY DEF PosixInv, Queue
  <2> QED BY <2>1, <2>2 DEF PosixInv, AloneOnes
<1> QED BY <1>1, <1>2 DEF PosixInv

\* The same for one thread.
LEMMA OneMoves ==
  ASSUME PosixInv, NEW t \in All, Busy(t), Right(t)',
         job' \in [All -> Jobs], \A u \in All \ {t} : job'[u] = job[u],
         Queue', UNCHANGED <<use, alone>>, sent' >= sent,
         \A u \in All \ {t} : job[u].pc \in {Wait3, NoticeWait} => pqueue' = <<>>,
         \A u \in All \ {t} : Desc(u) # Desc(t) => Flag(u)' = Flag(u)
  PROVE  PosixInv'
<1> DEFINE T == {t}
<1>1. T \in SUBSET All /\ \A u \in T : Busy(u) /\ Right(u)'
  OBVIOUS
<1>2. \A u \in All \ T : (\A x \in T : Desc(u) # Desc(x)) => Flag(u)' = Flag(u)
  OBVIOUS
<1>3. \A u \in All \ T : job'[u] = job[u] /\ (job[u].pc \in {Wait3, NoticeWait} => pqueue' = <<>>)
  OBVIOUS
<1> HIDE DEF T
<1> QED BY <1>1, <1>2, <1>3, Moves

\* A thread that begins makes those with its descriptor, and itself, if there are
\* some, no longer alone.
LEMMA Begins ==
  ASSUME PosixInv, NEW b \in All, ~Busy(b), NEW T \in SUBSET All, b \notin T,
         \A t \in T : Busy(t) /\ Right(t)', Right(b)',
         job' \in [All -> Jobs], \A u \in All \ (T \cup {b}) : job'[u] = job[u],
         Queue', alone' = AloneAfter(b), UNCHANGED <<use, nonblock>>, sent' >= sent,
         \A u \in All \ T : job[u].pc \in {Wait3, NoticeWait} => pqueue' = <<>>
  PROVE  PosixInv'
<1>1. alone' \subseteq alone \cup {b}
  BY DEF AloneAfter
<1>2. ASSUME NEW u \in All \ (T \cup {b}) PROVE Right(u)'
  <2>1. Right(u) /\ job'[u] = job[u] /\ job[u] \in Jobs
    BY <1>2 DEF PosixInv
  <2>2. Placed(u)'
    BY <2>1 DEF Right, Placed
  <2>3. Carries(u)'
    <3>1. sent \in Nat /\ sent' \in Nat
      BY PipcAssumption DEF PosixInv, Queue
    <3> QED BY <2>1, <3>1 DEF Right, Carries
  <2>4. Waits(u)'
    BY <2>1, <1>2 DEF Waits
  <2>5. InMode(u)'
    BY <2>1, <1>1, <1>2 DEF Right, InMode, Flag
  <2> QED BY <2>2, <2>3, <2>4, <2>5 DEF Right
<1>3. AloneOnes'
  <2>1. \A u \in All : Busy(u)' => Busy(u) \/ u = b
    BY DEF Busy
  <2> SUFFICES ASSUME NEW t \in alone', Busy(t)', NEW u \in All \ {t}, Busy(u)'
               PROVE  Desc(u) # Desc(t)
    BY DEF AloneOnes
  <2>2. CASE Company(b) = {}
    <3>1. \A x \in All \ {b} : Busy(x) => Desc(x) # Desc(b)
      BY <2>2 DEF Company
    <3>2. t = b \/ u = b \/ (Busy(t) /\ Busy(u) /\ t \in alone)
      BY <1>1, <2>1 DEF PosixInv, Queue
    <3>3. t \in All
      BY <1>1 DEF PosixInv, Queue
    <3> QED BY <2>1, <3>1, <3>2, <3>3 DEF PosixInv, AloneOnes
  <2>3. CASE Company(b) # {}
    <3>1. t \in alone /\ t \notin Company(b) /\ t # b
      BY <2>3 DEF AloneAfter
    <3>2. t \in All /\ Busy(t)
      BY <2>1, <3>1 DEF PosixInv, Queue
    <3>3. Desc(t) # Desc(b)
      BY <3>1, <3>2 DEF Company
    <3> QED BY <2>1, <3>1, <3>2, <3>3 DEF PosixInv, AloneOnes
  <2> QED BY <2>2, <2>3
<1> QED BY <1>2, <1>3 DEF PosixInv

\* The functions have no step in common but those of the two that receive, and the
\* last one of sending and of notifications.
LEMMA Apart ==
  /\ \A p \in RecvPlaces \cup NowaitPlaces : p \notin SendPlaces /\ p \notin EndPlaces /\ p \notin NoticePlaces
  /\ \A p \in SendPlaces : p \notin EndPlaces /\ (p # Last1 => p \notin NoticePlaces)
  /\ \A p \in EndPlaces : p \notin NoticePlaces
  /\ pipc_msg_recv \in RecvPlaces /\ pipc_msg_recv \notin NowaitPlaces
  /\ pipc_msg_recv_nowait \in NowaitPlaces /\ pipc_msg_recv_nowait \notin RecvPlaces
  /\ Receiving \subseteq RecvPlaces /\ Receiving \subseteq NowaitPlaces
  /\ pipc_msg_send \in SendPlaces /\ Send2 \in SendPlaces /\ Last1 \in SendPlaces
  /\ pipc_msg_send # Last1 /\ Send2 # Last1
  /\ \A p \in {pipc_msg_destory, End5, End4, End3} : p \in EndPlaces
<1> USE DEF RecvPlaces, NowaitPlaces, SendPlaces, EndPlaces, NoticePlaces, Receiving
<1>a. \A p \in RecvPlaces \cup NowaitPlaces :
        \/ Head(p) \in {"clear", "receive", "deliver"}
        \/ Head(p) = "set" /\ Tail(p) = Receive3
        \/ Head(p) = "wait" /\ Tail(p) = Receive2
        \/ Head(p) = "restore" /\ Tail(p) = Receive1
  BY Programs, ZenonT(60)
<1>b. \A p \in SendPlaces :
        \/ Head(p) = "send"
        \/ Head(p) = "set" /\ Tail(p) = Send2
        \/ Head(p) = "restore" /\ Tail(p) = <<>> /\ p = Last1
  BY Programs
<1>c. \A p \in EndPlaces :
        \/ Head(p) \in {"clean", "poison", "close", "unlink"}
        \/ Head(p) = "set" /\ Tail(p) = End5
        \/ Head(p) = "restore" /\ Tail(p) = End3
  BY Programs, ZenonT(60)
<1>d. \A p \in NoticePlaces :
        \/ Head(p) \in {"rearm", "take"}
        \/ Head(p) = "set" /\ Tail(p) = Notice2
        \/ Head(p) = "wait" /\ Tail(p) = Notice2
        \/ Head(p) = "restore" /\ Tail(p) = <<>>
  BY Programs, ZenonT(60)
<1>e. /\ Receive3 # Send2 /\ Receive3 # End5 /\ Receive3 # Notice2
      /\ Send2 # End5 /\ Send2 # Notice2 /\ End5 # Notice2 /\ Receive2 # Notice2
      /\ Receive1 # <<>> /\ End3 # <<>> /\ Receive1 # End3
  BY Programs
<1>1. /\ \A p \in RecvPlaces \cup NowaitPlaces : p \notin SendPlaces /\ p \notin EndPlaces /\ p \notin NoticePlaces
      /\ \A p \in SendPlaces : p \notin EndPlaces /\ (p # Last1 => p \notin NoticePlaces)
      /\ \A p \in EndPlaces : p \notin NoticePlaces
  <2> HIDE DEF RecvPlaces, NowaitPlaces, SendPlaces, EndPlaces, NoticePlaces, Receiving
  <2> QED BY ONLY <1>a, <1>b, <1>c, <1>d, <1>e
<1>7. pipc_msg_recv \in RecvPlaces /\ pipc_msg_recv \notin NowaitPlaces
  BY Programs
<1>8. pipc_msg_recv_nowait \in NowaitPlaces /\ pipc_msg_recv_nowait \notin RecvPlaces
  BY Programs
<1>9. /\ Receiving \subseteq RecvPlaces /\ Receiving \subseteq NowaitPlaces
      /\ pipc_msg_send \in SendPlaces /\ Send2 \in SendPlaces /\ Last1 \in SendPlaces
      /\ \A p \in {pipc_msg_destory, End5, End4, End3} : p \in EndPlaces
  OBVIOUS
<1>10. pipc_msg_send # Last1 /\ Send2 # Last1
  BY Programs
<1> QED BY ONLY <1>1, <1>7, <1>8, <1>9, <1>10

\* Which function has which steps, and for whom.
LEMMA FunctionOf ==
  ASSUME NEW t \in All, job \in [All -> Jobs], Placed(t), job[t].pc # <<>>
  PROVE  /\ job[t].pc = pipc_msg_recv => job[t].fn = "recv" /\ t \in Receivers /\ use = "receive"
         /\ job[t].pc = pipc_msg_recv_nowait => job[t].fn = "recv_nowait" /\ t \in Receivers /\ use = "receive"
         /\ job[t].pc \in Receiving =>
              job[t].fn \in {"recv", "recv_nowait"} /\ t \in Receivers /\ use = "receive"
         /\ job[t].pc \in {pipc_msg_send, Send2} =>
              job[t].fn = "send" /\ t \in Threads /\ (use = "notify" \/ t \notin Receivers)
         /\ job[t].pc \in EndPlaces =>
              /\ job[t].fn = "destory" /\ t \in Enders /\ use = "receive"
              /\ job[t].pc \in {pipc_msg_destory, End5, End4} => job[t].left = Cardinality(Opened)
              /\ job[t].pc = End3 => job[t].left > 0
         /\ job[t].pc \in NoticePlaces \ {Last1} => job[t].fn = "none" /\ t \in Handlers /\ use = "notify"
         /\ job[t].pc = Last1 =>
              \/ job[t].fn = "send" /\ t \in Threads /\ (use = "notify" \/ t \notin Receivers)
              \/ job[t].fn = "none" /\ t \in Handlers /\ use = "notify"
<1> DEFINE r == job[t]
<1>1. r # NoJob /\ r.pc \notin {<<>>}
  BY Idle
<1>2. CASE r.fn = "recv" /\ r.pc \in RecvPlaces /\ t \in Receivers /\ use = "receive"
  BY <1>2, Apart
<1>3. CASE r.fn = "recv_nowait" /\ r.pc \in NowaitPlaces /\ t \in Receivers /\ use = "receive"
  BY <1>3, Apart
<1>4. CASE r.fn = "send" /\ r.pc \in SendPlaces /\ t \in Threads /\ (use = "notify" \/ t \notin Receivers)
  BY <1>4, Apart
<1>5. CASE /\ r.fn = "destory" /\ r.pc \in EndPlaces /\ t \in Enders /\ use = "receive"
           /\ r.pc \in {pipc_msg_destory, End5, End4} => r.left = Cardinality(Opened)
           /\ r.pc = End3 => r.left > 0
  BY <1>5, Apart
<1>6. CASE r.fn = "none" /\ r.pc \in NoticePlaces /\ t \in Handlers /\ use = "notify"
  BY <1>6, Apart
<1> QED BY <1>1, <1>2, <1>3, <1>4, <1>5, <1>6 DEF Placed

\* A thread that goes on keeps the rest of what it has, or has nothing left to do.
LEMMA Going ==
  ASSUME NEW r \in Jobs, NEW p \in Places
  PROVE  /\ After(r, p) \in Jobs
         /\ p = <<>> => After(r, p) = NoJob
         /\ p # <<>> => /\ After(r, p).pc = p /\ After(r, p).fn = r.fn /\ After(r, p).old = r.old
                        /\ After(r, p).msg = r.msg /\ After(r, p).left = r.left
BY Idle DEF After, Jobs

\* A thread that notes something keeps the rest.
LEMMA Changed ==
  ASSUME NEW r \in Jobs
  PROVE  /\ \A x \in BOOLEAN : LET c == [r EXCEPT !.old = x]
               IN  c \in Jobs /\ c.pc = r.pc /\ c.fn = r.fn /\ c.old = x /\ c.msg = r.msg /\ c.left = r.left
         /\ \A x \in {<<>>} \cup {<<m>> : m \in Nat} : LET c == [r EXCEPT !.msg = x]
               IN  c \in Jobs /\ c.pc = r.pc /\ c.fn = r.fn /\ c.old = r.old /\ c.msg = x /\ c.left = r.left
         /\ \A x \in Nat : LET c == [r EXCEPT !.left = x]
               IN  c \in Jobs /\ c.pc = r.pc /\ c.fn = r.fn /\ c.old = r.old /\ c.msg = r.msg /\ c.left = x
BY DEF Jobs

\* The place after one that is not the last.
LEMMA NextPlace ==
  ASSUME NEW p \in Places, p # <<>>
  PROVE  Tail(p) \in Places
<1> USE DEF RecvPlaces, NowaitPlaces, SendPlaces, EndPlaces, NoticePlaces, Receiving
<1>1. p \in {pipc_msg_recv, pipc_msg_recv_nowait, pipc_msg_send, pipc_msg_destory, pipc_msg_thread_func,
             Receive3, Wait3, Receive2, Receive1, Send2, Last1, End5, End4, End3, End2, End1, Notice3,
             Notice2, NoticeWait}
  BY DEF Places
<1>2. Tail(p) \in {<<>>, Receive3, Receive2, Receive1, Send2, Last1, End5, End4, End3, End2, End1,
                   Notice3, Notice2}
  <2>1. /\ Tail(pipc_msg_recv) = Receive3 /\ Tail(pipc_msg_recv_nowait) = Receive3
        /\ Tail(pipc_msg_send) = Send2 /\ Tail(pipc_msg_destory) = End5 /\ Tail(pipc_msg_thread_func) = Notice3
        /\ Tail(Receive3) = Receive2 /\ Tail(Wait3) = Receive2 /\ Tail(Receive2) = Receive1
        /\ Tail(Receive1) = <<>> /\ Tail(Send2) = Last1 /\ Tail(Last1) = <<>>
        /\ Tail(End5) = End4 /\ Tail(End4) = End3 /\ Tail(End3) = End2 /\ Tail(End2) = End1
        /\ Tail(End1) = <<>> /\ Tail(Notice3) = Notice2 /\ Tail(Notice2) = Last1 /\ Tail(NoticeWait) = Notice2
    BY Programs
  <2> QED BY ONLY <1>1, <2>1
<1> QED BY <1>2 DEF Places

\* The rest of a function is of the function.
LEMMA RestOf ==
  /\ \A p \in RecvPlaces : Tail(p) = <<>> \/ Tail(p) \in RecvPlaces
  /\ \A p \in NowaitPlaces : Tail(p) = <<>> \/ Tail(p) \in NowaitPlaces
  /\ \A p \in SendPlaces : Tail(p) = <<>> \/ Tail(p) \in SendPlaces
  /\ \A p \in EndPlaces : Tail(p) = <<>> \/ Tail(p) \in EndPlaces
  /\ \A p \in NoticePlaces : Tail(p) = <<>> \/ Tail(p) \in NoticePlaces
  /\ \A p \in EndPlaces : /\ Tail(p) \notin {pipc_msg_destory} /\ (Tail(p) = End5 => p = pipc_msg_destory)
                          /\ Tail(p) = End4 => p = End5
                          /\ Tail(p) = End3 => p = End4
<1> USE DEF RecvPlaces, NowaitPlaces, SendPlaces, EndPlaces, NoticePlaces, Receiving
<1>1. \A p \in RecvPlaces : Tail(p) = <<>> \/ Tail(p) \in RecvPlaces
  BY Programs, ZenonT(60)
<1>2. \A p \in NowaitPlaces : Tail(p) = <<>> \/ Tail(p) \in NowaitPlaces
  BY Programs
<1>3. \A p \in SendPlaces : Tail(p) = <<>> \/ Tail(p) \in SendPlaces
  BY Programs
<1>4. \A p \in EndPlaces : Tail(p) = <<>> \/ Tail(p) \in EndPlaces
  BY Programs
<1>5. \A p \in NoticePlaces : Tail(p) = <<>> \/ Tail(p) \in NoticePlaces
  BY Programs
<1>6. /\ End5 # <<>> /\ End4 # <<>> /\ End3 # <<>>
      /\ End5 \notin {End4, End3, End2, End1} /\ End4 \notin {End3, End2, End1} /\ End3 \notin {End2, End1}
      /\ pipc_msg_destory \notin {<<>>, End5, End4, End3, End2, End1}
  BY Programs
<1>7. \A p \in EndPlaces : /\ Tail(p) \notin {pipc_msg_destory} /\ (Tail(p) = End5 => p = pipc_msg_destory)
                           /\ Tail(p) = End4 => p = End5
                           /\ Tail(p) = End3 => p = End4
  <2>1. \A p \in EndPlaces :
          \/ p = pipc_msg_destory /\ Tail(p) = End5
          \/ p = End5 /\ Tail(p) = End4
          \/ p = End4 /\ Tail(p) = End3
          \/ Tail(p) \in {<<>>, End2, End1}
    BY Programs
  <2> HIDE DEF EndPlaces
  <2> QED BY ONLY <1>6, <2>1
<1> QED BY ONLY <1>1, <1>2, <1>3, <1>4, <1>5, <1>7

\* What holds of a thread that is in a function.
LEMMA Here ==
  ASSUME PosixInv, NEW t \in All, job[t].pc # <<>>
  PROVE  /\ job[t] \in Jobs /\ job[t].pc \in Places /\ Tail(job[t].pc) \in Places
         /\ job[t].old \in BOOLEAN /\ job[t].left \in Nat /\ Busy(t)
         /\ Placed(t) /\ Carries(t) /\ InMode(t) /\ Waits(t)
<1>1. job[t] \in Jobs /\ Placed(t) /\ Carries(t) /\ InMode(t) /\ Waits(t)
  BY DEF PosixInv, Right
<1>2. job[t].pc \in Places /\ job[t].old \in BOOLEAN /\ job[t].left \in Nat
  BY <1>1 DEF Jobs
<1> QED BY <1>1, <1>2, NextPlace, Idle DEF Busy

\* There is a descriptor to tell, and there are no more of them than receivers.
LEMMA Descriptors ==
  /\ Cardinality(Opened) \in Nat /\ Cardinality(Receivers) \in Nat
  /\ Cardinality(Opened) > 0 /\ Cardinality(Opened) <= Cardinality(Receivers)
<1> DEFINE f == [r \in Receivers |-> DescOf[r]]
<1>1. f \in Surjection(Receivers, Opened)
  BY DEF Surjection, Opened
<1>2. IsFiniteSet(Opened) /\ Cardinality(Opened) <= Cardinality(Receivers)
  BY <1>1, PipcAssumption, FS_Surjection
<1>3. Opened # {}
  BY PipcAssumption DEF Opened
<1>4. Cardinality(Opened) \in Nat /\ Cardinality(Opened) # 0 /\ Cardinality(Receivers) \in Nat
  BY <1>2, <1>3, PipcAssumption, FS_CardinalityType, FS_EmptySet
<1> QED BY <1>2, <1>4

\* A thread that goes on with its function, or returns, is where it should be.
LEMMA GoesOnWith ==
  ASSUME NEW t \in All, job[t] \in Jobs, Placed(t), job[t].pc # <<>>, use' = use,
         \/ job'[t] = NoJob
         \/ /\ job'[t].pc = Tail(job[t].pc) /\ job'[t].pc # <<>>
            /\ job'[t].fn = job[t].fn /\ job'[t].left = job[t].left
  PROVE  Placed(t)'
<1>1. CASE job'[t] = NoJob
  BY <1>1 DEF Placed
<1>2. CASE /\ job'[t].pc = Tail(job[t].pc) /\ job'[t].pc # <<>>
           /\ job'[t].fn = job[t].fn /\ job'[t].left = job[t].left
  <2>1. job[t] # NoJob
    BY Idle
  <2>2. Cardinality(Opened) > 0
    BY Descriptors
  <2>3. CASE job[t].fn = "destory" /\ job[t].pc \in EndPlaces
    <3>1. job'[t].pc \in EndPlaces
      BY <1>2, <2>3, RestOf
    <3>2. /\ job'[t].pc \in {pipc_msg_destory, End5, End4} => job'[t].left = Cardinality(Opened)
          /\ job'[t].pc = End3 => job'[t].left > 0
      BY <1>2, <2>1, <2>2, <2>3, RestOf DEF Placed
    <3> QED BY <1>2, <2>1, <2>3, <3>1, <3>2 DEF Placed
  <2>4. CASE ~(job[t].fn = "destory" /\ job[t].pc \in EndPlaces)
    BY <1>2, <2>1, <2>4, RestOf DEF Placed
  <2> QED BY <2>3, <2>4
<1> QED BY <1>1, <1>2

\* The first step of a function sets the mode that the function needs.
LEMMA SetAttrKeeps ==
  ASSUME PosixInv, NEW t \in All, SetAttr(t)
  PROVE  PosixInv'
<1> DEFINE p == job[t].pc
<1>1. /\ p \in {pipc_msg_recv, pipc_msg_recv_nowait, pipc_msg_send, pipc_msg_destory, Notice3, Receive2, Last1, End4}
      /\ p # <<>>
  <2>1. p \in Places
    BY DEF PosixInv, Jobs
  <2> QED BY <2>1, PlaceOf DEF SetAttr, Does
<1>2. /\ job[t] \in Jobs /\ p \in Places /\ Tail(p) \in Places /\ job[t].old \in BOOLEAN /\ Busy(t)
      /\ Placed(t) /\ Carries(t) /\ InMode(t) /\ Waits(t)
  BY <1>1, Here
<1>3. Desc(t) \in DOMAIN nonblock /\ Flag(t) \in BOOLEAN
  BY PipcAssumption DEF PosixInv, Queue, Desc, Flag, All
<1>4. /\ job \in [All -> Jobs] /\ UNCHANGED <<use, pqueue, registered, sent, got, alone>> /\ Queue
  BY DEF SetAttr, PosixInv
<1>5. ASSUME job'[t] \in Jobs, \A u \in All \ {t} : job'[u] = job[u], job' \in [All -> Jobs],
             nonblock' \in [{Shared} \cup {DescOf[u] : u \in Threads} -> BOOLEAN],
             \A d \in DOMAIN nonblock : d # Desc(t) => nonblock'[d] = nonblock[d],
             Right(t)'
      PROVE  PosixInv'
  <2>1. Queue'
    BY <1>4, <1>5 DEF Queue
  <2>2. \A u \in All : Desc(u) \in DOMAIN nonblock
    BY <1>4 DEF Queue, Desc, All
  <2>3. \A u \in All \ {t} : Desc(u) # Desc(t) => Flag(u)' = Flag(u)
    BY <1>5, <2>2 DEF Flag
  <2>4. sent' >= sent
    BY <1>4, PipcAssumption DEF Queue
  <2>5. \A u \in All \ {t} : job[u].pc \in {Wait3, NoticeWait} => pqueue' = <<>>
    BY <1>4 DEF PosixInv, Right, Waits
  <2> QED BY <1>2, <1>4, <1>5, <2>1, <2>3, <2>4, <2>5, OneMoves
<1>6. CASE /\ nonblock' = [nonblock EXCEPT ![Desc(t)] =
                CASE Does(t, "set") -> TRUE [] Does(t, "clear") -> FALSE [] OTHER -> job[t].old]
           /\ Go(t, [job[t] EXCEPT !.old = Flag(t)])
  <2> DEFINE r == [job[t] EXCEPT !.old = Flag(t)]
  <2> DEFINE q == After(r, Tail(p))
  <2>1. r \in Jobs /\ r.pc = p /\ r.fn = job[t].fn /\ r.msg = job[t].msg /\ r.left = job[t].left
    BY <1>2, <1>3, Changed
  <2>2. job' = [job EXCEPT ![t] = q]
    BY <1>6, <2>1 DEF Go, Goto
  <2> HIDE DEF r
  <2>3. /\ q \in Jobs /\ (Tail(p) = <<>> => q = NoJob)
        /\ Tail(p) # <<>> => q.pc = Tail(p) /\ q.fn = job[t].fn /\ q.msg = job[t].msg /\ q.left = job[t].left
    BY <1>2, <2>1, Going
  <2> HIDE DEF q
  <2>4. job'[t] = q /\ job' \in [All -> Jobs] /\ \A u \in All \ {t} : job'[u] = job[u]
    BY <1>4, <2>2, <2>3
  <2>5. Placed(t)'
    BY <1>1, <1>2, <1>4, <2>3, <2>4, GoesOnWith
  <2> DEFINE flag == CASE Does(t, "set") -> TRUE [] Does(t, "clear") -> FALSE [] OTHER -> job[t].old
  <2>6. /\ flag \in BOOLEAN
        /\ p \in {pipc_msg_recv_nowait, pipc_msg_send, pipc_msg_destory, Notice3} => flag = TRUE
        /\ p = pipc_msg_recv => flag = FALSE
    <3>1. p \in {pipc_msg_recv_nowait, pipc_msg_send, pipc_msg_destory, Notice3} => Does(t, "set")
      BY <1>1, Programs DEF Does
    <3>2. p = pipc_msg_recv => Does(t, "clear") /\ ~Does(t, "set")
      BY <1>1, Programs DEF Does
    <3>3. p # pipc_msg_recv => ~Does(t, "clear")
      BY <1>1, <1>2, PlaceOf DEF Does
    <3>4. CASE p \in {pipc_msg_recv_nowait, pipc_msg_send, pipc_msg_destory, Notice3}
      <4>1. Does(t, "set") /\ ~Does(t, "clear") /\ p # pipc_msg_recv
        BY ONLY <3>1, <3>3, <3>4, Different
      <4>2. flag = TRUE
        BY ONLY <4>1
      <4> QED BY ONLY <4>1, <4>2
    <3>5. CASE p = pipc_msg_recv
      <4>1. flag = FALSE
        BY ONLY <3>2, <3>5
      <4> QED BY ONLY <3>5, <4>1, Different
    <3>6. CASE p \notin {pipc_msg_recv, pipc_msg_recv_nowait, pipc_msg_send, pipc_msg_destory, Notice3}
      <4>1. ~Does(t, "clear") /\ ~Does(t, "set")
        BY <1>1, <1>2, <3>6, PlaceOf DEF Does
      <4>2. flag = job[t].old
        BY ONLY <4>1
      <4> HIDE DEF flag
      <4> QED BY ONLY <1>2, <3>6, <4>2
    <3> QED BY ONLY <3>4, <3>5, <3>6
  <2>7. nonblock' = [nonblock EXCEPT ![Desc(t)] = flag]
    BY <1>6
  <2> HIDE DEF flag
  <2>8. /\ nonblock' \in [{Shared} \cup {DescOf[u] : u \in Threads} -> BOOLEAN]
        /\ \A d \in DOMAIN nonblock : d # Desc(t) => nonblock'[d] = nonblock[d]
        /\ Flag(t)' = flag
    BY <1>3, <1>4, <2>6, <2>7 DEF Queue, Flag
  <2>9. Tail(p) \in {Receive3, Send2, End5, Notice2, Receive1, <<>>, End3} /\ Tail(p) \notin {Wait3, NoticeWait}
    <3>1. Tail(p) \in {Receive3, Send2, End5, Notice2, Receive1, <<>>, End3}
      BY <1>1, Programs, ZenonT(60)
    <3> QED BY ONLY <3>1, Different
  <2>10. Carries(t)'
    <3>1. CASE job[t].msg = <<Poison>>
      <4>1. t \in Receivers /\ p = Receive2
        BY <1>1, <1>2, <3>1, Programs, ZenonT(60) DEF Carries
      <4> QED BY <1>2, <1>4, <2>3, <2>4, <4>1, Programs DEF Carries
    <3>2. CASE job[t].msg # <<Poison>>
      BY <1>2, <1>4, <2>3, <2>4, <3>2, Idle DEF Carries, Poison
    <3> QED BY <3>1, <3>2
  <2>11. Waits(t)'
    BY <2>3, <2>4, <2>9, Idle, Programs, ZenonT(60) DEF Waits
  <2>12. InMode(t)'
    <3>1. CASE Tail(p) = <<>>
      <4>1. job'[t].pc = <<>>
        BY <2>3, <2>4, <3>1, Idle
      <4> QED BY ONLY <4>1, Different DEF InMode
    <3>2. CASE Tail(p) = Receive3
      <4>1. p \in {pipc_msg_recv, pipc_msg_recv_nowait}
        BY <1>1, <3>2, Programs, ZenonT(60)
      <4>2. /\ p = pipc_msg_recv => job[t].fn = "recv"
            /\ p = pipc_msg_recv_nowait => job[t].fn = "recv_nowait"
        BY <1>1, <1>2, <1>4, FunctionOf
      <4>3. flag = (q.fn # "recv")
        BY <2>3, <2>6, <3>2, <4>1, <4>2, Programs
      <4> QED BY <2>3, <2>4, <2>8, <3>2, <4>3, Programs, ZenonT(60) DEF InMode
    <3>3. CASE Tail(p) \in {Send2, Notice2}
      <4>1. p \in {pipc_msg_send, Notice3}
        <5>1. /\ Tail(pipc_msg_recv) = Receive3 /\ Tail(pipc_msg_recv_nowait) = Receive3
              /\ Tail(pipc_msg_destory) = End5 /\ Tail(Receive2) = Receive1 /\ Tail(Last1) = <<>>
              /\ Tail(End4) = End3
          BY Programs
        <5> QED BY ONLY <1>1, <3>3, <5>1, Different
      <4> QED BY <2>3, <2>4, <2>6, <2>8, <3>3, <4>1, Programs, ZenonT(60) DEF InMode
    <3>4. CASE Tail(p) \in {End5, Receive1, End3}
      <4>1. job'[t].pc = Tail(p)
        BY <2>3, <2>4, <3>4, Different
      <4> QED BY ONLY <3>4, <4>1, Different DEF InMode
    <3> QED BY <2>9, <3>1, <3>2, <3>3, <3>4
  <2> QED BY <1>5, <2>3, <2>4, <2>5, <2>8, <2>10, <2>11, <2>12 DEF Right
<1>7. CASE Return(t) /\ UNCHANGED nonblock
  <2>1. job' = [job EXCEPT ![t] = NoJob]
    BY <1>7, <1>2, Going, Idle DEF Return, Goto, After
  <2>2. job'[t] = NoJob /\ job' \in [All -> Jobs] /\ \A u \in All \ {t} : job'[u] = job[u]
    BY <1>4, <2>1, Idle
  <2>3. Right(t)'
    BY <2>2, Idle, Programs DEF Right, Placed, Carries, Waits, InMode
  <2> QED BY <1>4, <1>5, <1>7, <2>2, <2>3, Idle DEF Queue
<1> QED BY <1>6, <1>7 DEF SetAttr

\* Where a thread neither counts on its flag nor waits, there is nothing to show.
LEMMA Calm ==
  ASSUME NEW t, job'[t].pc \notin {Receive3, Wait3, Send2, Notice2, NoticeWait}
  PROVE  InMode(t)' /\ Waits(t)'
BY DEF InMode, Waits

\* A thread that goes on is where it should be, with what it had.
LEMMA Goes ==
  ASSUME PosixInv, NEW t \in All, job[t].pc # <<>>, NEW r \in Jobs,
         r.pc = job[t].pc, r.fn = job[t].fn, r.left = job[t].left,
         Go(t, r), use' = use
  PROVE  /\ job' \in [All -> Jobs] /\ (\A u \in All \ {t} : job'[u] = job[u]) /\ Placed(t)'
         /\ Tail(job[t].pc) = <<>> => job'[t] = NoJob
         /\ Tail(job[t].pc) # <<>> => /\ job'[t].pc = Tail(job[t].pc) /\ job'[t].fn = r.fn
                                      /\ job'[t].msg = r.msg /\ job'[t].left = r.left
<1> DEFINE q == After(r, Tail(job[t].pc))
<1>1. job[t] \in Jobs /\ Tail(job[t].pc) \in Places /\ Placed(t)
  BY Here
<1>2. job' = [job EXCEPT ![t] = q]
  BY DEF Go, Goto
<1>3. /\ q \in Jobs /\ (Tail(job[t].pc) = <<>> => q = NoJob)
      /\ Tail(job[t].pc) # <<>> => /\ q.pc = Tail(job[t].pc) /\ q.fn = r.fn
                                   /\ q.msg = r.msg /\ q.left = r.left
  BY <1>1, Going
<1> HIDE DEF q
<1>4. job'[t] = q /\ job' \in [All -> Jobs] /\ \A u \in All \ {t} : job'[u] = job[u]
  BY <1>2, <1>3 DEF PosixInv
<1>5. Placed(t)'
  BY <1>1, <1>3, <1>4, GoesOnWith
<1> QED BY <1>3, <1>4, <1>5

\* A thread that returns is right wherever it was.
LEMMA Returns ==
  ASSUME PosixInv, NEW t \in All, Return(t)
  PROVE  /\ job' \in [All -> Jobs] /\ (\A u \in All \ {t} : job'[u] = job[u])
         /\ job'[t] = NoJob /\ Right(t)'
<1>1. job' = [job EXCEPT ![t] = NoJob]
  BY Idle DEF Return, Goto, After
<1>2. job'[t] = NoJob /\ job' \in [All -> Jobs] /\ \A u \in All \ {t} : job'[u] = job[u]
  BY <1>1, Idle DEF PosixInv
<1>3. InMode(t)' /\ Waits(t)'
  BY <1>2, Idle, Different, Calm
<1>4. Placed(t)' /\ Carries(t)'
  BY <1>2, Idle DEF Placed, Carries, Poison
<1> QED BY <1>2, <1>3, <1>4 DEF Right

\* Steps that set no flag.
LEMMA OneSteps ==
  ASSUME PosixInv, NEW t \in All, job[t].pc # <<>>, Right(t)',
         job' \in [All -> Jobs], \A u \in All \ {t} : job'[u] = job[u],
         Queue', UNCHANGED <<use, alone, nonblock, sent>>,
         \A u \in All \ {t} : job[u].pc \in {Wait3, NoticeWait} => pqueue' = <<>>
  PROVE  PosixInv'
<1>1. Busy(t)
  BY Here
<1>2. sent' >= sent
  BY PipcAssumption DEF PosixInv, Queue
<1>3. \A u \in All \ {t} : Desc(u) # Desc(t) => Flag(u)' = Flag(u)
  BY DEF Flag
<1> QED BY <1>1, <1>2, <1>3, OneMoves

\* The first message is taken.
LEMMA Taken ==
  ASSUME Queue, pqueue # <<>>, pqueue' = Tail(pqueue), UNCHANGED <<use, sent, registered, nonblock, alone>>,
         got' \subseteq 1..sent
  PROVE  /\ Queue' /\ Head(pqueue) \in Nat /\ Head(pqueue) <= sent
         /\ use = "notify" => Head(pqueue) # Poison
<1>1. pqueue \in Seq(Nat) /\ Len(pqueue) \in Nat /\ Len(pqueue) > 0 /\ PCap \in Nat
  BY PipcAssumption DEF Queue
<1>2. /\ Tail(pqueue) \in Seq(Nat) /\ Len(Tail(pqueue)) = Len(pqueue) - 1
      /\ \A n \in 1 .. Len(Tail(pqueue)) : n + 1 \in 1 .. Len(pqueue) /\ Tail(pqueue)[n] = pqueue[n + 1]
  BY <1>1
<1>3. Head(pqueue) = pqueue[1] /\ 1 \in 1 .. Len(pqueue)
  BY <1>1
<1> QED BY <1>1, <1>2, <1>3 DEF Queue

\* mq_receive waits only if the flag is cleared, and then the queue is empty.
LEMMA MqReceiveKeeps ==
  ASSUME PosixInv, NEW t \in All, MqReceive(t)
  PROVE  PosixInv'
<1>1. job[t].pc # <<>> /\ job[t].pc = Receive3
  <2>1. job[t].pc \in Places
    BY DEF PosixInv, Jobs
  <2> QED BY <2>1, PlaceOf DEF MqReceive, Does
<1>2. /\ job[t] \in Jobs /\ Placed(t) /\ Carries(t) /\ InMode(t) /\ Waits(t)
      /\ job[t].fn \in {"recv", "recv_nowait"} /\ t \in Receivers /\ use = "receive"
  <2>1. job[t] \in Jobs /\ Placed(t) /\ Carries(t) /\ InMode(t) /\ Waits(t)
    BY <1>1, Here
  <2> QED BY <1>1, <2>1, FunctionOf DEF PosixInv, Receiving
<1>3. UNCHANGED <<use, nonblock, open, linked, registered, sent, got, alone, wild>> /\ Queue
  BY DEF MqReceive, PosixInv
<1>4. CASE /\ pqueue # <<>>
           /\ pqueue' = Tail(pqueue) /\ Go(t, [job[t] EXCEPT !.msg = <<Head(pqueue)>>])
  <2>1. Queue' /\ Head(pqueue) \in Nat /\ Head(pqueue) <= sent
    BY <1>3, <1>4, Taken DEF Queue
  <2> DEFINE r == [job[t] EXCEPT !.msg = <<Head(pqueue)>>]
  <2>2. r \in Jobs /\ r.pc = job[t].pc /\ r.fn = job[t].fn /\ r.left = job[t].left /\ r.msg = <<Head(pqueue)>>
    BY <1>2, <2>1, Changed
  <2>3. Go(t, r)
    BY <1>4
  <2> HIDE DEF r
  <2>4. /\ job' \in [All -> Jobs] /\ (\A u \in All \ {t} : job'[u] = job[u]) /\ Placed(t)'
        /\ job'[t].pc = Receive2 /\ job'[t].msg = <<Head(pqueue)>>
    BY <1>1, <1>3, <2>2, <2>3, Goes, Programs, ZenonT(60)
  <2>5. InMode(t)' /\ Waits(t)'
    BY <2>4, Different, Calm
  <2>6. Carries(t)'
    BY <1>2, <1>3, <2>1, <2>4, Idle DEF Carries
  <2>7. \A u \in All \ {t} : job[u].pc \in {Wait3, NoticeWait} => pqueue' = <<>>
    BY <1>4 DEF PosixInv, Right, Waits
  <2> QED BY <1>1, <1>3, <2>1, <2>4, <2>5, <2>6, <2>7, OneSteps DEF Right
<1>5. CASE pqueue = <<>> /\ Flag(t) /\ Return(t) /\ UNCHANGED pqueue
  <2>1. Queue'
    BY <1>3, <1>5 DEF Queue
  <2> QED BY <1>1, <1>3, <1>5, <2>1, Returns, OneSteps
<1>6. CASE /\ pqueue = <<>> /\ ~Flag(t)
           /\ Goto(t, job[t], <<"wait">> \o Tail(job[t].pc)) /\ UNCHANGED pqueue
  <2>1. Queue'
    BY <1>3, <1>6 DEF Queue
  <2> DEFINE q == After(job[t], Wait3)
  <2>2. job' = [job EXCEPT ![t] = q]
    BY <1>1, <1>6, Programs DEF Goto
  <2>3. q \in Jobs /\ q.pc = Wait3 /\ q.fn = job[t].fn /\ q.msg = job[t].msg
    <3>1. Wait3 \in Places /\ Wait3 # <<>>
      BY Different DEF Places, RecvPlaces, Receiving
    <3> QED BY <1>2, <3>1, Going
  <2> HIDE DEF q
  <2>4. job' \in [All -> Jobs] /\ (\A u \in All \ {t} : job'[u] = job[u]) /\ job'[t] = q
    BY <2>2, <2>3 DEF PosixInv
  <2>5. Placed(t)'
    BY <1>2, <1>3, <2>3, <2>4 DEF Placed, RecvPlaces, NowaitPlaces, Receiving
  <2>6. Carries(t)'
    BY <1>1, <1>2, <1>3, <2>3, <2>4, Different DEF Carries
  <2>7. InMode(t)'
    BY <1>1, <1>2, <1>3, <1>6, <2>3, <2>4, Different DEF InMode
  <2>8. Waits(t)'
    BY <1>6 DEF Waits
  <2> QED BY <1>1, <1>3, <1>6, <2>1, <2>4, <2>5, <2>6, <2>7, <2>8, OneSteps DEF Right
<1> QED BY <1>4, <1>5, <1>6 DEF MqReceive

\* What a thread has received and gives to the user was sent.
LEMMA Given ==
  ASSUME Queue, NEW t \in All, job[t] \in Jobs, Carries(t), job[t].msg # <<Poison>>
  PROVE  ToSet(job[t].msg) \subseteq 1..sent
<1>1. sent \in Nat
  BY PipcAssumption DEF Queue
<1>2. CASE job[t].msg = <<>>
  BY <1>2 DEF ToSet
<1>3. ASSUME NEW m \in Nat, job[t].msg = <<m>> PROVE ToSet(job[t].msg) \subseteq 1..sent
  <2>1. m <= sent /\ m # 0
    BY <1>3 DEF Carries, Poison
  <2>2. ToSet(<<m>>) = {m}
    BY DEF ToSet
  <2> QED BY <1>1, <1>3, <2>1, <2>2
<1> QED BY <1>2, <1>3 DEF Jobs

\* What is given to the user was sent.
LEMMA DeliverKeeps ==
  ASSUME PosixInv, NEW t \in All, Deliver(t)
  PROVE  PosixInv'
<1>1. job[t].pc # <<>> /\ job[t].pc = Receive1
  <2>1. job[t].pc \in Places
    BY DEF PosixInv, Jobs
  <2> QED BY <2>1, PlaceOf DEF Deliver, Does
<1>2. job[t] \in Jobs /\ Carries(t)
  BY <1>1, Here
<1>3. UNCHANGED <<use, nonblock, linked, pqueue, registered, sent, alone, wild>> /\ Queue /\ Go(t, job[t])
  BY DEF Deliver, PosixInv
<1>4. job' \in [All -> Jobs] /\ (\A u \in All \ {t} : job'[u] = job[u]) /\ job'[t] = NoJob
  BY <1>1, <1>2, <1>3, Goes, Programs
<1>5. got' \subseteq 1..sent
  <2>1. CASE got' = got \cup ToSet(job[t].msg) /\ job[t].msg # <<Poison>>
    BY <1>2, <1>3, <2>1, Given DEF Queue
  <2>2. CASE UNCHANGED got
    BY <1>3, <2>2 DEF Queue
  <2> QED BY <2>1, <2>2 DEF Deliver
<1>6. Queue'
  BY <1>3, <1>5 DEF Queue
<1>7. Right(t)'
  BY <1>4, Idle, Different, Calm DEF Right, Placed, Carries, Poison
<1>8. \A u \in All \ {t} : job[u].pc \in {Wait3, NoticeWait} => pqueue' = <<>>
  BY <1>3 DEF PosixInv, Right, Waits
<1> QED BY <1>1, <1>3, <1>4, <1>6, <1>7, <1>8, OneSteps

\* pipc_msg_clean takes messages and leaves the rest in order.
LEMMA CleanKeeps ==
  ASSUME PosixInv, NEW t \in All, Clean(t)
  PROVE  PosixInv'
<1>1. job[t].pc # <<>> /\ job[t].pc = End5
  <2>1. job[t].pc \in Places
    BY DEF PosixInv, Jobs
  <2> QED BY <2>1, PlaceOf DEF Clean, Does
<1>2. job[t] \in Jobs /\ Carries(t) /\ Right(t)
  BY <1>1, Here DEF PosixInv
<1>3. UNCHANGED <<use, nonblock, open, linked, registered, sent, got, alone, wild>> /\ Queue
  BY DEF Clean, PosixInv
<1>4. CASE pqueue # <<>> /\ pqueue' = Tail(pqueue) /\ UNCHANGED job
  <2>1. Queue'
    BY <1>3, <1>4, Taken DEF Queue
  <2>2. Right(t)'
    <3>1. job'[t].pc = End5
      BY <1>1, <1>4
    <3>2. InMode(t)' /\ Waits(t)'
      BY ONLY <3>1, Different, Calm
    <3> QED BY <1>2, <1>3, <1>4, <3>2 DEF Right, Placed, Carries
  <2>3. \A u \in All \ {t} : job[u].pc \in {Wait3, NoticeWait} => pqueue' = <<>>
    BY <1>4 DEF PosixInv, Right, Waits
  <2>4. job' \in [All -> Jobs]
    BY <1>4 DEF PosixInv
  <2> QED BY <1>1, <1>3, <1>4, <2>1, <2>2, <2>3, <2>4, OneSteps
<1>5. CASE pqueue = <<>> /\ Go(t, job[t]) /\ UNCHANGED pqueue
  <2>1. Queue'
    BY <1>3, <1>5 DEF Queue
  <2>2. /\ job' \in [All -> Jobs] /\ (\A u \in All \ {t} : job'[u] = job[u]) /\ Placed(t)'
        /\ job'[t].pc = End4 /\ job'[t].msg = job[t].msg
    BY <1>1, <1>2, <1>3, <1>5, Goes, Programs, ZenonT(60)
  <2>3. InMode(t)' /\ Waits(t)'
    BY <2>2, Different, Calm
  <2>4. Carries(t)'
    BY <1>1, <1>2, <1>3, <2>2, Different DEF Carries
  <2> QED BY <1>1, <1>3, <1>5, <2>1, <2>2, <2>3, <2>4, OneSteps DEF Right
<1> QED BY <1>4, <1>5 DEF Clean

\* The last steps of pipc_msg_destory change neither flags nor messages.
LEMMA CloseKeeps ==
  ASSUME PosixInv, NEW t \in All, pipc_msg_close(t) \/ __pipc_msg_destory(t)
  PROVE  PosixInv'
<1>1. job[t].pc # <<>> /\ job[t].pc \in {End2, End1}
  <2>1. job[t].pc \in Places
    BY DEF PosixInv, Jobs
  <2> QED BY <2>1, PlaceOf DEF pipc_msg_close, __pipc_msg_destory, Does
<1>2. job[t] \in Jobs /\ Carries(t)
  BY <1>1, Here
<1>3. UNCHANGED <<use, nonblock, pqueue, registered, sent, got, alone>> /\ Queue /\ Go(t, job[t])
  BY DEF pipc_msg_close, __pipc_msg_destory, PosixInv
<1>4. Queue'
  BY <1>3 DEF Queue
<1>5. /\ job' \in [All -> Jobs] /\ (\A u \in All \ {t} : job'[u] = job[u]) /\ Placed(t)'
      /\ job'[t].pc \in {End1, <<>>} /\ job'[t].msg \in {job[t].msg, <<>>}
  <2>1. CASE job[t].pc = End2
    BY <1>1, <1>2, <1>3, <2>1, Goes, Programs, ZenonT(60)
  <2>2. CASE job[t].pc = End1
    <3>1. Tail(job[t].pc) = <<>>
      BY <2>2, Programs
    <3>2. job' \in [All -> Jobs] /\ (\A u \in All \ {t} : job'[u] = job[u]) /\ Placed(t)' /\ job'[t] = NoJob
      BY <1>1, <1>2, <1>3, <3>1, Goes
    <3> QED BY <3>2, Idle
  <2> QED BY <1>1, <2>1, <2>2
<1>6. InMode(t)' /\ Waits(t)'
  BY <1>5, Different, Calm
<1>7. Carries(t)'
  BY <1>1, <1>2, <1>3, <1>5, Idle, Different DEF Carries, Poison
<1>8. \A u \in All \ {t} : job[u].pc \in {Wait3, NoticeWait} => pqueue' = <<>>
  BY <1>3 DEF PosixInv, Right, Waits
<1> QED BY <1>1, <1>3, <1>4, <1>5, <1>6, <1>7, <1>8, OneSteps DEF Right

\* Asking for a notification, and ending on lost parameters, change nothing else.
LEMMA RearmKeeps ==
  ASSUME PosixInv, NEW t \in All, Rearm(t)
  PROVE  PosixInv'
<1>1. job[t].pc # <<>> /\ job[t].pc = pipc_msg_thread_func
  <2>1. job[t].pc \in Places
    BY DEF PosixInv, Jobs
  <2> QED BY <2>1, PlaceOf DEF Rearm, Does
<1>2. job[t] \in Jobs /\ Carries(t) /\ use = "notify"
  <2>1. job[t] \in Jobs /\ Placed(t) /\ Carries(t)
    BY <1>1, Here
  <2>2. pipc_msg_thread_func \in NoticePlaces \ {Last1}
    BY Different DEF NoticePlaces
  <2> QED BY <1>1, <2>1, <2>2, FunctionOf DEF PosixInv
<1>3. UNCHANGED <<use, nonblock, pqueue, sent, got, alone>> /\ Queue
  BY DEF Rearm, PosixInv
<1>4. \A u \in All \ {t} : job[u].pc \in {Wait3, NoticeWait} => pqueue' = <<>>
  BY <1>3 DEF PosixInv, Right, Waits
<1>5. CASE registered' = TRUE /\ Go(t, job[t])
  <2>1. Queue'
    BY <1>2, <1>3, <1>5 DEF Queue
  <2>2. /\ job' \in [All -> Jobs] /\ (\A u \in All \ {t} : job'[u] = job[u]) /\ Placed(t)'
        /\ job'[t].pc = Notice3 /\ job'[t].msg = job[t].msg
    BY <1>1, <1>2, <1>3, <1>5, Goes, Programs
  <2>3. InMode(t)' /\ Waits(t)'
    BY <2>2, Different, Calm
  <2>4. Carries(t)'
    BY <1>1, <1>2, <1>3, <2>2, Different DEF Carries
  <2> QED BY <1>1, <1>3, <1>4, <2>1, <2>2, <2>3, <2>4, OneSteps DEF Right
<1>6. CASE Return(t) /\ UNCHANGED registered
  <2>1. Queue'
    BY <1>3, <1>6 DEF Queue
  <2> QED BY <1>1, <1>3, <1>4, <1>6, <2>1, Returns, OneSteps
<1> QED BY <1>5, <1>6 DEF Rearm

\* A notification's thread, if it is alone, never waits for a message.
LEMMA TakeKeeps ==
  ASSUME PosixInv, NEW t \in All, Take(t)
  PROVE  PosixInv'
<1>1. job[t].pc # <<>> /\ job[t].pc = Notice2
  <2>1. job[t].pc \in Places
    BY DEF PosixInv, Jobs
  <2> QED BY <2>1, PlaceOf DEF Take, Does
<1>2. job[t] \in Jobs /\ Right(t) /\ job[t].fn = "none" /\ t \in Handlers /\ use = "notify"
  <2>1. job[t] \in Jobs /\ Placed(t) /\ Right(t)
    BY <1>1, Here DEF PosixInv
  <2>2. Notice2 \in NoticePlaces \ {Last1}
    BY Different DEF NoticePlaces
  <2> QED BY <1>1, <2>1, <2>2, FunctionOf DEF PosixInv
<1>3. UNCHANGED <<use, open, linked, nonblock, registered, sent, alone, wild>> /\ Queue
  BY DEF Take, PosixInv
<1>4. job[t].msg # <<Poison>>
  BY <1>1, <1>2, Different DEF Right, Carries
<1>5. t \in alone => Flag(t)
  BY <1>1, <1>2 DEF Right, InMode
<1>6. CASE /\ job[t].msg # <<>>
           /\ got' = got \cup ToSet(job[t].msg)
           /\ job' = [job EXCEPT ![t].msg = <<>>] /\ UNCHANGED pqueue
  <2> DEFINE q == [job[t] EXCEPT !.msg = <<>>]
  <2>1. q \in Jobs /\ q.pc = job[t].pc /\ q.fn = job[t].fn /\ q.msg = <<>> /\ q.left = job[t].left
    BY <1>2, Changed
  <2>2. job' = [job EXCEPT ![t] = q]
    BY <1>6
  <2> HIDE DEF q
  <2>3. job' \in [All -> Jobs] /\ (\A u \in All \ {t} : job'[u] = job[u]) /\ job'[t] = q
    BY <2>1, <2>2 DEF PosixInv
  <2>4. Queue'
    <3>1. ToSet(job[t].msg) \subseteq 1..sent
      BY <1>2, <1>3, <1>4, Given DEF Right
    <3> QED BY <1>3, <1>6, <3>1 DEF Queue
  <2>5. Placed(t)'
    BY <1>1, <1>2, <1>3, <2>1, <2>3 DEF Placed, NoticePlaces
  <2>6. Carries(t)' /\ Waits(t)'
    BY <1>1, <2>1, <2>3, Idle, Different DEF Carries, Waits, Poison
  <2>7. InMode(t)'
    BY <1>1, <1>3, <1>5, <2>1, <2>3, Different DEF InMode, Flag
  <2>8. \A u \in All \ {t} : job[u].pc \in {Wait3, NoticeWait} => pqueue' = <<>>
    BY <1>6 DEF PosixInv, Right, Waits
  <2> QED BY <1>1, <1>3, <2>3, <2>4, <2>5, <2>6, <2>7, <2>8, OneSteps DEF Right
<1>7. CASE /\ job[t].msg = <<>> /\ pqueue # <<>>
           /\ pqueue' = Tail(pqueue) /\ got' = got \cup {Head(pqueue)} /\ UNCHANGED job
  <2>1. Head(pqueue) \in Nat /\ Head(pqueue) <= sent /\ Head(pqueue) # Poison
    <3>1. pqueue \in Seq(Nat) /\ Len(pqueue) > 0 /\ Head(pqueue) = pqueue[1] /\ 1 \in 1 .. Len(pqueue)
      BY <1>3, <1>7 DEF Queue
    <3> QED BY <1>2, <1>3, <3>1 DEF Queue
  <2>2. got' \subseteq 1..sent
    <3>1. sent \in Nat /\ got \subseteq 1..sent
      BY <1>3, PipcAssumption DEF Queue
    <3>2. \A h \in Nat : h <= sent /\ h # 0 => h \in 1..sent
      BY <3>1
    <3>3. Head(pqueue) \in 1..sent
      BY <2>1, <3>2 DEF Poison
    <3> QED BY ONLY <1>7, <3>1, <3>3
  <2>3. Queue'
    BY <1>3, <1>7, <2>2, Taken
  <2>4. Right(t)'
    <3>1. InMode(t)' /\ Waits(t)'
      BY <1>1, <1>3, <1>5, <1>7, Different DEF InMode, Flag, Waits
    <3> QED BY <1>2, <1>3, <1>7, <3>1 DEF Right, Placed, Carries
  <2>5. \A u \in All \ {t} : job[u].pc \in {Wait3, NoticeWait} => pqueue' = <<>>
    BY <1>7 DEF PosixInv, Right, Waits
  <2>6. job' \in [All -> Jobs]
    BY <1>7 DEF PosixInv
  <2> QED BY <1>1, <1>3, <1>7, <2>3, <2>4, <2>5, <2>6, OneSteps
<1>8. CASE pqueue = <<>> /\ Go(t, job[t]) /\ UNCHANGED <<pqueue, got>>
  <2>1. Queue'
    BY <1>3, <1>8 DEF Queue
  <2>2. /\ job' \in [All -> Jobs] /\ (\A u \in All \ {t} : job'[u] = job[u]) /\ Placed(t)'
        /\ job'[t].pc = Last1 /\ job'[t].msg = job[t].msg
    BY <1>1, <1>2, <1>3, <1>8, Goes, Programs, ZenonT(60)
  <2>3. InMode(t)' /\ Waits(t)'
    BY <2>2, Different, Calm
  <2>4. Carries(t)'
    BY <1>2, <1>3, <1>4, <2>2 DEF Right, Carries
  <2> QED BY <1>1, <1>3, <1>8, <2>1, <2>2, <2>3, <2>4, OneSteps DEF Right
<1>9. CASE /\ pqueue = <<>> /\ ~Flag(t)
           /\ Goto(t, job[t], <<"wait">> \o job[t].pc) /\ UNCHANGED <<pqueue, got>>
  <2>1. Queue'
    BY <1>3, <1>9 DEF Queue
  <2> DEFINE q == After(job[t], NoticeWait)
  <2>2. job' = [job EXCEPT ![t] = q]
    BY <1>1, <1>9, Programs DEF Goto
  <2>3. q \in Jobs /\ q.pc = NoticeWait /\ q.fn = job[t].fn /\ q.msg = job[t].msg
    <3>1. NoticeWait \in Places /\ NoticeWait # <<>>
      BY Different DEF Places, NoticePlaces
    <3> QED BY <1>2, <3>1, Going
  <2> HIDE DEF q
  <2>4. job' \in [All -> Jobs] /\ (\A u \in All \ {t} : job'[u] = job[u]) /\ job'[t] = q
    BY <2>2, <2>3 DEF PosixInv
  <2>5. Placed(t)'
    BY <1>2, <1>3, <2>3, <2>4 DEF Placed, NoticePlaces
  <2>6. Carries(t)'
    BY <1>2, <1>3, <1>4, <2>3, <2>4 DEF Right, Carries
  <2>7. InMode(t)'
    BY <1>3, <1>5, <1>9 DEF InMode
  <2>8. Waits(t)'
    BY <1>9 DEF Waits
  <2> QED BY <1>1, <1>3, <1>9, <2>1, <2>4, <2>5, <2>6, <2>7, <2>8, OneSteps DEF Right
<1> QED BY <1>6, <1>7, <1>8, <1>9 DEF Take

\* A message is put into the queue, or handed over: what was sent goes to one
\* of those who wait, and a thread is started by what comes into an empty queue.
LEMMA PutKeeps ==
  ASSUME PosixInv, NEW t \in All, job[t].pc # <<>>, job[t].pc \notin {Wait3, NoticeWait, Receive2, Receive1},
         NEW m \in Nat, NEW q \in Jobs, Put(t, m, q),
         UNCHANGED <<use, nonblock, got>>, sent' \in 0..MaxMsgs, sent' >= sent, m <= sent',
         use = "notify" => m # Poison, Len(pqueue) < PCap,
         q.pc \notin {Receive3, Wait3, Receive2, Receive1, Send2, Notice2, NoticeWait}, q.msg = job[t].msg,
         job'[t] = q => Placed(t)'
  PROVE  PosixInv'
<1>1. Busy(t) /\ Carries(t) /\ job[t] \in Jobs
  BY Here
<1>2. Queue /\ job \in [All -> Jobs] /\ sent \in Nat /\ sent' \in Nat
  BY PipcAssumption DEF PosixInv, Queue
<1>3. \A k \in Nat : k <= sent => k <= sent'
  BY <1>2
<1>4. ASSUME job'[t] = q PROVE Right(t)'
  <2>1. InMode(t)' /\ Waits(t)'
    BY <1>4, Calm
  <2>2. Carries(t)'
    <3>1. q.msg # <<Poison>>
      BY <1>1 DEF Carries
    <3> QED BY <1>1, <1>3, <1>4, <3>1 DEF Carries
  <2> QED BY <1>4, <2>1, <2>2 DEF Right
<1>5. Waiting = {u \in All : job[u].pc \in {Wait3, NoticeWait}}
  <2>1. \A u \in All : job[u].pc \in Places
    BY <1>2 DEF Jobs
  <2>2. ASSUME NEW u \in All PROVE Does(u, "wait") <=> job[u].pc \in {Wait3, NoticeWait}
    BY <2>1, PlaceOf, Different DEF Does
  <2> QED BY <2>2 DEF Waiting
<1>6. \A u \in All : job[u].pc \in {Wait3, NoticeWait} => pqueue = <<>>
  BY DEF PosixInv, Right, Waits
<1>7. ASSUME NEW w \in Waiting,
             job' = [job EXCEPT ![t] = q, ![w] = [job[w] EXCEPT !.pc = Tail(@), !.msg = <<m>>]],
             UNCHANGED <<pqueue, registered, alone>>
      PROVE  PosixInv'
  <2>1. w \in All /\ w # t /\ job[w].pc \in {Wait3, NoticeWait} /\ job[w].pc # <<>>
    BY <1>5, <1>7, Different
  <2>2. job[w] \in Jobs /\ Placed(w) /\ InMode(w) /\ Busy(w) /\ Tail(job[w].pc) \in {Receive2, Notice2}
        /\ Tail(job[w].pc) \in Places
    BY <2>1, Here, Programs, ZenonT(60)
  <2> DEFINE x == [job[w] EXCEPT !.pc = Tail(job[w].pc), !.msg = <<m>>]
  <2>3. x \in Jobs /\ x.pc = Tail(job[w].pc) /\ x.fn = job[w].fn /\ x.msg = <<m>> /\ x.left = job[w].left
    BY <2>2 DEF Jobs
  <2>4. job' = [job EXCEPT ![t] = q, ![w] = x]
    BY <1>7
  <2> HIDE DEF x
  <2>5. job' \in [All -> Jobs] /\ job'[t] = q /\ job'[w] = x /\ \A u \in All \ {t, w} : job'[u] = job[u]
    BY <1>2, <2>1, <2>3, <2>4
  <2>6. Placed(w)'
    BY <2>1, <2>2, <2>3, <2>5, Different, GoesOnWith
  <2>7. Carries(w)'
    <3>1. CASE m = Poison
      <4>1. use # "notify"
        BY <3>1
      <4>2. w \in Receivers /\ job[w].pc = Wait3
        <5>1. NoticeWait \in NoticePlaces \ {Last1} /\ Wait3 \in Receiving
          BY Different DEF NoticePlaces, Receiving
        <5> QED BY <1>2, <2>1, <2>2, <4>1, <5>1, FunctionOf
      <4>3. x.pc = Receive2
        BY <2>3, <4>2, Programs
      <4> QED BY <2>3, <2>5, <4>2, <4>3, Idle DEF Carries
    <3>2. CASE m # Poison
      BY <2>3, <2>5, <3>2, Idle DEF Carries, Poison
    <3> QED BY <3>1, <3>2
  <2>8. Waits(w)'
    BY <1>6, <1>7, <2>1 DEF Waits
  <2>9. InMode(w)'
    <3>1. CASE job[w].pc = Wait3
      <4>1. job'[w].pc = Receive2
        BY <2>3, <2>5, <3>1, Programs
      <4> QED BY <4>1, Different, Calm
    <3>2. CASE job[w].pc = NoticeWait
      BY <1>7, <2>2, <3>2 DEF InMode
    <3> QED BY <2>1, <3>1, <3>2
  <2>10. Queue'
    BY <1>2, <1>3, <1>7 DEF Queue
  <2> DEFINE T == {t, w}
  <2>11. T \in SUBSET All /\ \A u \in T : Busy(u) /\ Right(u)'
    BY <1>1, <1>4, <2>1, <2>2, <2>5, <2>6, <2>7, <2>8, <2>9 DEF Right
  <2>12. /\ \A u \in All \ T : job'[u] = job[u]
         /\ \A u \in All : Flag(u)' = Flag(u)
    BY <2>5 DEF Flag
  <2>13. \A u \in All \ T : job[u].pc \in {Wait3, NoticeWait} => pqueue' = <<>>
    BY <1>6, <1>7
  <2> HIDE DEF T
  <2>14. UNCHANGED <<use, alone>>
    BY <1>7
  <2> QED BY <2>5, <2>10, <2>11, <2>12, <2>13, <2>14, Moves
<1>8. CASE /\ Waiting = {}
           /\ pqueue' = IF m = Poison THEN <<Poison>> \o pqueue ELSE Append(pqueue, m)
           /\ \/ /\ registered /\ pqueue = <<>> /\ registered' = FALSE
                 /\ \E h \in Handlers :
                      /\ ~Busy(h)
                      /\ job' = [job EXCEPT ![t] = q, ![h] = [NoJob EXCEPT !.pc = pipc_msg_thread_func]]
                      /\ alone' = AloneAfter(h)
              \/ /\ ~(registered /\ pqueue = <<>>)
                 /\ job' = [job EXCEPT ![t] = q]
                 /\ UNCHANGED <<registered, alone>>
  <2>1. \A u \in All : job[u].pc \notin {Wait3, NoticeWait}
    BY <1>5, <1>8
  <2>2. /\ pqueue' \in Seq(Nat) /\ Len(pqueue') <= PCap
        /\ \A n \in 1 .. Len(pqueue') : pqueue'[n] <= sent' /\ (use = "notify" => pqueue'[n] # Poison)
    <3>1. /\ pqueue \in Seq(Nat) /\ Len(pqueue) \in Nat /\ Len(pqueue) + 1 <= PCap
          /\ \A n \in 1 .. Len(pqueue) : pqueue[n] <= sent' /\ (use = "notify" => pqueue[n] # Poison)
      BY <1>2, <1>3, PipcAssumption DEF Queue
    <3>2. CASE m = Poison
      <4> DEFINE new == <<Poison>> \o pqueue
      <4>1. /\ new \in Seq(Nat) /\ Len(new) = Len(pqueue) + 1 /\ new[1] = Poison
            /\ \A n \in 1 .. Len(pqueue) : new[n + 1] = pqueue[n]
        BY <3>1, InFront DEF Poison
      <4>2. pqueue' = new /\ use # "notify" /\ Poison <= sent'
        BY <1>8, <3>2
      <4> HIDE DEF new
      <4>3. \A n \in 1 .. Len(new) : n = 1 \/ (n - 1 \in 1 .. Len(pqueue) /\ (n - 1) + 1 = n)
        BY <3>1, <4>1
      <4>4. \A n \in 1 .. Len(new) : new[n] <= sent'
        BY <3>1, <4>1, <4>2, <4>3
      <4> QED BY <3>1, <4>1, <4>2, <4>4
    <3>3. CASE m # Poison
      <4>1. pqueue' = Append(pqueue, m)
        BY <1>8, <3>3
      <4>2. /\ pqueue' \in Seq(Nat) /\ Len(pqueue') = Len(pqueue) + 1 /\ pqueue'[Len(pqueue) + 1] = m
            /\ \A n \in 1 .. Len(pqueue) : pqueue'[n] = pqueue[n]
        BY <3>1, <4>1
      <4>3. \A n \in 1 .. Len(pqueue') : n = Len(pqueue) + 1 \/ n \in 1 .. Len(pqueue)
        BY <3>1, <4>2
      <4> QED BY <3>1, <3>3, <4>2, <4>3
    <3> QED BY <3>2, <3>3
  <2>3. ASSUME registered, registered' = FALSE, NEW h \in Handlers, ~Busy(h),
               job' = [job EXCEPT ![t] = q, ![h] = [NoJob EXCEPT !.pc = pipc_msg_thread_func]],
               alone' = AloneAfter(h)
        PROVE  PosixInv'
    <3>1. h \in All /\ h # t /\ use = "notify"
      BY <1>1, <1>2, <2>3 DEF All, Queue
    <3> DEFINE x == [NoJob EXCEPT !.pc = pipc_msg_thread_func]
    <3>2. x \in Jobs /\ x.pc = pipc_msg_thread_func /\ x.fn = "none" /\ x.msg = <<>>
      BY DEF NoJob, Jobs, Places, NoticePlaces
    <3> HIDE DEF x
    <3>3. job' = [job EXCEPT ![t] = q, ![h] = x]
      BY <2>3 DEF x
    <3>4. job' \in [All -> Jobs] /\ job'[t] = q /\ job'[h] = x /\ \A u \in All \ {t, h} : job'[u] = job[u]
      BY <1>2, <3>1, <3>2, <3>3
    <3>5. Right(h)'
      <4>1. InMode(h)' /\ Waits(h)'
        BY <3>2, <3>4, Different, Calm
      <4> QED BY <2>3, <3>1, <3>2, <3>4, <4>1, Idle, ZenonT(60) DEF Right, Placed, NoticePlaces, Carries, Poison
    <3>6. Queue'
      <4>1. alone' \subseteq All
        BY <1>2, <2>3, <3>1 DEF AloneAfter, Queue
      <4>2. got' \subseteq 1..sent'
        BY <1>2 DEF Queue
      <4> QED BY <1>2, <2>2, <2>3, <4>1, <4>2 DEF Queue
    <3> DEFINE T == {t}
    <3>7. T \in SUBSET All /\ h \notin T /\ \A u \in T : Busy(u) /\ Right(u)'
      BY <1>1, <1>4, <3>1, <3>4
    <3>8. \A u \in All \ (T \cup {h}) : job'[u] = job[u]
      BY <3>4
    <3> HIDE DEF T
    <3> QED BY <2>1, <2>3, <3>1, <3>4, <3>5, <3>6, <3>7, <3>8, Begins
  <2>4. ASSUME job' = [job EXCEPT ![t] = q], UNCHANGED <<registered, alone>>
        PROVE  PosixInv'
    <3>1. job' \in [All -> Jobs] /\ job'[t] = q /\ \A u \in All \ {t} : job'[u] = job[u]
      BY <1>2, <2>4
    <3>2. Queue'
      <4>1. got' \subseteq 1..sent'
        BY <1>2 DEF Queue
      <4> QED BY <1>2, <2>2, <2>4, <4>1 DEF Queue
    <3>3. \A u \in All \ {t} : Desc(u) # Desc(t) => Flag(u)' = Flag(u)
      BY DEF Flag
    <3> QED BY <1>1, <1>4, <2>1, <2>4, <3>1, <3>2, <3>3, OneMoves
  <2> QED BY <1>8, <2>3, <2>4
<1> QED BY <1>7, <1>8 DEF Put

\* A message that is sent has the next number.
LEMMA SendKeeps ==
  ASSUME PosixInv, NEW t \in All, Send(t)
  PROVE  PosixInv'
<1>1. job[t].pc # <<>> /\ job[t].pc = Send2
  <2>1. job[t].pc \in Places
    BY DEF PosixInv, Jobs
  <2> QED BY <2>1, PlaceOf DEF Send, Does
<1>2. job[t] \in Jobs /\ job[t].fn = "send" /\ t \in Threads /\ (use = "notify" \/ t \notin Receivers)
  <2>1. job[t] \in Jobs /\ Placed(t)
    BY <1>1, Here
  <2> QED BY <1>1, <2>1, FunctionOf DEF PosixInv
<1>3. UNCHANGED <<use, nonblock, got>> /\ Queue /\ sent < MaxMsgs /\ sent \in Nat
  BY PipcAssumption DEF Send, PosixInv, Queue
<1>4. CASE Len(pqueue) < PCap /\ sent' = sent + 1 /\ Put(t, sent + 1, After(job[t], Tail(job[t].pc)))
  <2>1. PICK m \in Nat : m = sent + 1
    BY <1>3
  <2>2. /\ After(job[t], Last1) \in Jobs /\ After(job[t], Last1).pc = Last1
        /\ After(job[t], Last1).fn = job[t].fn /\ After(job[t], Last1).msg = job[t].msg
    <3>1. Last1 \in Places /\ Last1 # <<>>
      BY Different DEF Places, SendPlaces
    <3> QED BY <1>2, <3>1, Going
  <2>3. PICK q \in Jobs : q = After(job[t], Last1)
    BY <2>2
  <2>4. q.pc = Last1 /\ q.fn = "send" /\ q.msg = job[t].msg
    BY <1>2, <2>2, <2>3
  <2>5. Put(t, m, q)
    BY <1>1, <1>4, <2>1, <2>3, Programs
  <2>6. job'[t] = q => Placed(t)'
    BY <1>2, <1>3, <2>4 DEF Placed, SendPlaces
  <2>7. q.pc \notin {Receive3, Wait3, Receive2, Receive1, Send2, Notice2, NoticeWait}
    BY <2>4, Different
  <2>8. job[t].pc \notin {Wait3, NoticeWait, Receive2, Receive1}
    BY <1>1, Different
  <2>9. sent' \in 0..MaxMsgs /\ sent' >= sent /\ m <= sent' /\ m # Poison
    BY <1>3, <1>4, <2>1, PipcAssumption DEF Poison
  <2> QED BY <1>1, <1>3, <1>4, <2>4, <2>5, <2>6, <2>7, <2>8, <2>9, PutKeeps
<1>5. CASE Return(t) /\ UNCHANGED <<pqueue, registered, alone, sent>>
  <2>1. Queue'
    BY <1>3, <1>5 DEF Queue
  <2>2. \A u \in All \ {t} : job[u].pc \in {Wait3, NoticeWait} => pqueue' = <<>>
    BY <1>5 DEF PosixInv, Right, Waits
  <2> QED BY <1>1, <1>3, <1>5, <2>1, <2>2, Returns, OneSteps
<1> QED BY <1>4, <1>5 DEF Send

\* A message of the end is for a receiver, as no notifications are used.
LEMMA TellKeeps ==
  ASSUME PosixInv, NEW t \in All, Tell(t)
  PROVE  PosixInv'
<1>1. job[t].pc # <<>> /\ job[t].pc = End3
  <2>1. job[t].pc \in Places
    BY DEF PosixInv, Jobs
  <2> QED BY <2>1, PlaceOf DEF Tell, Does
<1>2. job[t] \in Jobs /\ job[t].fn = "destory" /\ t \in Enders /\ use = "receive" /\ job[t].left \in Nat
      /\ job[t].left > 0
  <2>1. job[t] \in Jobs /\ Placed(t) /\ job[t].left \in Nat
    BY <1>1, Here
  <2>2. End3 \in EndPlaces
    BY Different DEF EndPlaces
  <2> QED BY <1>1, <2>1, <2>2, FunctionOf DEF PosixInv
<1>3. UNCHANGED <<use, nonblock, got, sent>> /\ Queue /\ sent \in Nat /\ sent' \in 0..MaxMsgs
  BY PipcAssumption DEF Tell, PosixInv, Queue
<1> DEFINE r == [job[t] EXCEPT !.left = job[t].left - 1]
<1>4. r \in Jobs /\ r.pc = End3 /\ r.fn = "destory" /\ r.msg = job[t].msg /\ r.left = job[t].left - 1
  <2>1. job[t].left - 1 \in Nat
    BY <1>2
  <2> QED BY <1>1, <1>2, <2>1, Changed
<1>5. CASE /\ Len(pqueue) < PCap
           /\ Put(t, Poison, IF r.left > 0 THEN r ELSE After(r, Tail(r.pc)))
  <2> HIDE DEF r
  <2>1. PICK m \in Nat : m = Poison
    BY DEF Poison
  <2> DEFINE next == IF r.left > 0 THEN r ELSE After(r, Tail(r.pc))
  <2>2. next \in Jobs /\ next.fn = "destory" /\ next.msg = job[t].msg
        /\ (next.pc = End2 \/ (next.pc = End3 /\ next.left > 0))
    <3>1. End2 \in Places /\ End2 # <<>> /\ Tail(r.pc) = End2
      BY <1>4, Programs DEF Places, EndPlaces
    <3> QED BY <1>4, <3>1, Going
  <2>3. PICK q \in Jobs : q = next
    BY <2>2
  <2>4. Put(t, m, q)
    BY <1>5, <2>1, <2>3
  <2> HIDE DEF next
  <2>5. job'[t] = q => Placed(t)'
    <3>1. End2 \notin {pipc_msg_destory, End5, End4, End3} /\ End3 \notin {pipc_msg_destory, End5, End4}
      BY Different
    <3> QED BY <1>2, <1>3, <2>2, <2>3, <3>1 DEF Placed, EndPlaces
  <2>6. q.pc \notin {Receive3, Wait3, Receive2, Receive1, Send2, Notice2, NoticeWait}
    BY <2>2, <2>3, Different
  <2>7. job[t].pc \notin {Wait3, NoticeWait, Receive2, Receive1}
    BY <1>1, Different
  <2>8. sent' >= sent /\ m <= sent' /\ use # "notify"
    BY <1>2, <1>3, <2>1 DEF Poison
  <2> QED BY <1>1, <1>3, <1>5, <2>2, <2>3, <2>4, <2>5, <2>6, <2>7, <2>8, PutKeeps
<1>6. CASE Return(t) /\ UNCHANGED <<pqueue, registered, alone>>
  <2>1. Queue'
    BY <1>3, <1>6 DEF Queue
  <2>2. \A u \in All \ {t} : job[u].pc \in {Wait3, NoticeWait} => pqueue' = <<>>
    BY <1>6 DEF PosixInv, Right, Waits
  <2> QED BY <1>1, <1>3, <1>6, <2>1, <2>2, Returns, OneSteps
<1> QED BY <1>5, <1>6 DEF Tell

\* A call begins at the beginning of its function.
LEMMA CallKeeps ==
  ASSUME PosixInv, NEW t \in All, NEW fn \in {"recv", "recv_nowait", "send", "destory"}, Call(t, fn),
         fn \in {"recv", "recv_nowait"} => use = "receive" /\ t \in Receivers,
         fn = "send" => t \in Threads /\ (use = "notify" \/ t \notin Receivers),
         fn = "destory" => use = "receive" /\ t \in Enders
  PROVE  PosixInv'
<1>1. UNCHANGED <<use, nonblock, pqueue, registered, sent, got>> /\ alone' = AloneAfter(t) /\ Queue
      /\ sent \in Nat /\ ~Busy(t)
  BY PipcAssumption DEF Call, PosixInv, Queue
<1> DEFINE x == [NoJob EXCEPT !.pc = Program[fn], !.fn = fn, !.left = Cardinality(Opened)]
<1>2. /\ fn = "recv" => Program[fn] = pipc_msg_recv
      /\ fn = "recv_nowait" => Program[fn] = pipc_msg_recv_nowait
      /\ fn = "send" => Program[fn] = pipc_msg_send
      /\ fn = "destory" => Program[fn] = pipc_msg_destory
  BY DEF Program
<1>3. Program[fn] \in Places
  BY <1>2 DEF Places, RecvPlaces, NowaitPlaces, SendPlaces, EndPlaces
<1>4. Program[fn] \in {pipc_msg_recv, pipc_msg_recv_nowait, pipc_msg_send, pipc_msg_destory}
  BY <1>2
<1>5. Cardinality(Opened) \in Nat
  BY Descriptors
<1>6. x \in Jobs /\ x.pc = Program[fn] /\ x.fn = fn /\ x.msg = <<>> /\ x.left = Cardinality(Opened)
  BY <1>3, <1>5 DEF NoJob, Jobs
<1>7. job' = [job EXCEPT ![t] = x]
  BY DEF Call
<1> HIDE DEF x
<1>8. job' \in [All -> Jobs] /\ job'[t] = x /\ \A u \in All \ {t} : job'[u] = job[u]
  BY <1>6, <1>7 DEF PosixInv
<1>9. Placed(t)'
  <2>1. pipc_msg_destory # End3
    BY Different
  <2> QED BY <1>1, <1>2, <1>6, <1>8, <2>1 DEF Placed, RecvPlaces, NowaitPlaces, SendPlaces, EndPlaces
<1>10. InMode(t)' /\ Waits(t)'
  BY <1>4, <1>6, <1>8, Different, Calm
<1>11. Carries(t)'
  BY <1>6, <1>8, Idle DEF Carries, Poison
<1>12. Queue'
  <2>1. alone' \subseteq All
    BY <1>1 DEF AloneAfter, Queue
  <2> QED BY <1>1, <2>1 DEF Queue
<1>13. \A u \in All : job[u].pc \in {Wait3, NoticeWait} => pqueue' = <<>>
  BY <1>1 DEF PosixInv, Right, Waits
<1> DEFINE T == {}
<1>14. T \in SUBSET All /\ t \notin T /\ (\A u \in T : Busy(u) /\ Right(u)')
       /\ \A u \in All \ (T \cup {t}) : job'[u] = job[u]
  BY <1>8
<1>15. sent' >= sent
  BY <1>1
<1> HIDE DEF T
<1> QED BY <1>1, <1>8, <1>9, <1>10, <1>11, <1>12, <1>13, <1>14, <1>15, Begins DEF Right

\* A queue that has just been created satisfies the invariant.
LEMMA InitPosix ==
  ASSUME PipcInit(MaxMsgs)
  PROVE  PosixInv
<1>1. Queue
  <2>1. pqueue = <<>> /\ pqueue \in Seq(Nat) /\ Len(pqueue) = 0 /\ PCap \in Nat /\ 1 .. 0 = {}
    BY PipcAssumption DEF PipcInit
  <2>2. sent = 0 /\ sent \in 0..MaxMsgs
    BY PipcAssumption DEF PipcInit
  <2>3. nonblock \in [{Shared} \cup {DescOf[t] : t \in Threads} -> BOOLEAN]
    BY DEF PipcInit
  <2>4. use \in {"receive", "notify"} /\ registered \in BOOLEAN /\ (use = "receive" => ~registered)
    BY DEF PipcInit
  <2>5. got = {} /\ alone = {}
    BY DEF PipcInit
  <2>6. Len(pqueue) <= PCap
    BY ONLY <2>1
  <2>7. \A n \in 1 .. Len(pqueue) : pqueue[n] <= sent /\ (use = "notify" => pqueue[n] # Poison)
    BY ONLY <2>1
  <2>8. got \subseteq 1..sent /\ alone \subseteq All
    BY ONLY <2>5
  <2> QED BY ONLY <2>1, <2>2, <2>3, <2>4, <2>6, <2>7, <2>8 DEF Queue
<1>2. job \in [All -> Jobs] /\ \A t \in All : job[t] = NoJob
  BY Idle DEF PipcInit
<1>3. ASSUME NEW t \in All PROVE Right(t)
  BY <1>2, Idle, Different DEF Right, Placed, Carries, InMode, Waits, Poison
<1>4. AloneOnes
  BY DEF PipcInit, AloneOnes
<1> QED BY <1>1, <1>2, <1>3, <1>4 DEF PosixInv

\* Every step keeps it.
LEMMA NextPosix ==
  ASSUME PosixInv, [PipcNext]_pipcVars
  PROVE  PosixInv'
<1>1. CASE Calls
  <2>1. Receivers \cup Senders \cup Enders \subseteq Threads /\ Threads \subseteq All
    BY PipcAssumption DEF All
  <2>2. ASSUME NEW t \in Receivers, use = "receive", Call(t, "recv") \/ Call(t, "recv_nowait") PROVE PosixInv'
    BY <2>1, <2>2, CallKeeps
  <2>3. ASSUME NEW t \in Senders, use = "notify" \/ t \notin Receivers, Call(t, "send") PROVE PosixInv'
    BY <2>1, <2>3, CallKeeps
  <2>4. ASSUME NEW t \in Enders, use = "receive", Call(t, "destory") PROVE PosixInv'
    BY <2>1, <2>4, CallKeeps
  <2> QED BY <1>1, <2>2, <2>3, <2>4 DEF Calls
<1>2. ASSUME NEW t \in All, Step(t) PROVE PosixInv'
  BY <1>2, SetAttrKeeps, SendKeeps, MqReceiveKeeps, DeliverKeeps, CleanKeeps, TellKeeps, CloseKeeps,
     RearmKeeps, TakeKeeps DEF Step
<1>3. CASE UNCHANGED pipcVars
  BY <1>3 DEF pipcVars, PosixInv, Queue, Right, Placed, Carries, InMode, Waits, AloneOnes, Busy, Flag
<1> QED BY <1>1, <1>2, <1>3 DEF PipcNext

-----------------------------------------------------------------------------
\* One thread at most ends the queue: a second one would take, in
\* pipc_msg_clean, the messages by which the first tells of the end.
OneEnder == \A t, u \in Enders : t = u

\* The receivers that have not been told of the end.
Untold == {r \in Receivers : job[r].msg # <<Poison>> /\ (Busy(r) \/ Desc(r) \in open)}

\* The first k messages of the queue tell of the end, and no others.
EndsFirst(k) ==
    /\ k <= Len(pqueue)
    /\ \A n \in 1 .. Len(pqueue) : pqueue[n] = Poison <=> n <= k

\* The receivers that are not counted, for they share a descriptor with others.
Spare == Cardinality(Receivers) - Cardinality(Opened)

\* Once all are sent they are enough for those who have not been told and are counted,
\* and while they are sent they will be.
Enough(k) ==
    /\ (~linked \/ \E t \in All : job[t].pc \in {End2, End1}) => Cardinality(Untold) <= k + Spare
    /\ \A t \in All : job[t].pc = End3 => Cardinality(Untold) <= k + job[t].left + Spare

EndComes == \E k \in Nat : EndsFirst(k) /\ Enough(k)

EndInv ==
    /\ use = "notify" => linked
    /\ \A t \in Enders : Busy(t) => linked
    /\ use = "receive" => EndComes

\* Nobody gets further with the end of the queue.
LaterEnds ==
    \A u \in All :
        /\ job'[u].pc = End3 => job[u].pc = End3 /\ job'[u].left = job[u].left
        /\ job'[u].pc \in {End2, End1} => job[u].pc \in {End2, End1}

\* Fewer receivers that have not been told are counted as fewer.
LEMMA Fewer ==
  /\ Cardinality(Untold) \in Nat /\ Cardinality(Untold)' \in Nat
  /\ Cardinality(Untold) <= Cardinality(Receivers) /\ Cardinality(Untold)' <= Cardinality(Receivers)
  /\ Untold' \subseteq Untold =>
       /\ Cardinality(Untold)' <= Cardinality(Untold)
       /\ \A t \in Untold : t \notin Untold' => Cardinality(Untold)' + 1 <= Cardinality(Untold)
<1>1. ASSUME NEW S, IsFiniteSet(S), NEW T \in SUBSET S
      PROVE  /\ Cardinality(T) \in Nat /\ Cardinality(S) \in Nat /\ Cardinality(T) <= Cardinality(S) /\ IsFiniteSet(T)
             /\ \A t \in S : t \notin T => Cardinality(T) + 1 <= Cardinality(S)
  <2>1. /\ Cardinality(T) \in Nat /\ Cardinality(S) \in Nat /\ Cardinality(T) <= Cardinality(S) /\ IsFiniteSet(T)
    BY <1>1, FS_Subset, FS_CardinalityType
  <2>2. ASSUME NEW t \in S, t \notin T PROVE Cardinality(T) + 1 <= Cardinality(S)
    <3>1. T \subseteq S \ {t} /\ IsFiniteSet(S \ {t}) /\ Cardinality(S \ {t}) = Cardinality(S) - 1
      BY <1>1, <2>2, FS_RemoveElement
    <3>2. Cardinality(T) <= Cardinality(S \ {t})
      BY <3>1, FS_Subset
    <3> QED BY <2>1, <3>1, <3>2
  <2> QED BY <2>1, <2>2
<1>2. IsFiniteSet(Receivers) /\ Untold \in SUBSET Receivers /\ Untold' \in SUBSET Receivers
  BY PipcAssumption DEF Untold
<1>3. IsFiniteSet(Untold)
  BY <1>1, <1>2
<1> QED BY <1>1, <1>2, <1>3

\* What was enough is, if it has not shrunk by more than those who had to be told.
LEMMA EnoughFor ==
  ASSUME PosixInv, NEW k \in Nat, NEW j \in Nat, Enough(k), linked' = linked, LaterEnds,
         Cardinality(Untold)' + k <= Cardinality(Untold) + j
  PROVE  Enough(j)'
<1>1. Cardinality(Untold) \in Nat /\ Cardinality(Untold)' \in Nat
  BY Fewer
<1>2. (\A u \in All : job[u].left \in Nat) /\ Spare \in Nat
  BY Descriptors DEF PosixInv, Jobs, Spare
<1>3. ASSUME ~linked' \/ \E t \in All : job'[t].pc \in {End2, End1} PROVE Cardinality(Untold)' <= j + Spare
  <2>1. Cardinality(Untold) <= k + Spare
    BY <1>3 DEF Enough, LaterEnds
  <2> QED BY <1>1, <1>2, <2>1
<1>4. ASSUME NEW t \in All, job'[t].pc = End3 PROVE Cardinality(Untold)' <= j + job'[t].left + Spare
  <2>1. Cardinality(Untold) <= k + job[t].left + Spare /\ job'[t].left = job[t].left
    BY <1>4 DEF Enough, LaterEnds
  <2> QED BY <1>1, <1>2, <2>1
<1> QED BY <1>3, <1>4 DEF Enough, Spare, Opened

\* Taking the first message takes one of the end if there is one.
LEMMA FrontTail ==
  ASSUME Queue, NEW k \in Nat, EndsFirst(k), pqueue # <<>>, pqueue' = Tail(pqueue)
  PROVE  /\ Head(pqueue) = Poison => k - 1 \in Nat /\ EndsFirst(k - 1)'
         /\ Head(pqueue) # Poison => k = 0 /\ EndsFirst(k)'
<1>1. pqueue \in Seq(Nat) /\ Len(pqueue) \in Nat /\ Len(pqueue) > 0
  BY DEF Queue
<1>2. /\ Len(pqueue') = Len(pqueue) - 1 /\ Head(pqueue) = pqueue[1] /\ 1 \in 1 .. Len(pqueue)
      /\ \A n \in 1 .. Len(pqueue') : n + 1 \in 1 .. Len(pqueue) /\ pqueue'[n] = pqueue[n + 1]
  BY <1>1
<1>3. \A n \in 1 .. Len(pqueue') : pqueue'[n] = Poison <=> n + 1 <= k
  BY <1>2 DEF EndsFirst
<1>4. Head(pqueue) = Poison <=> 1 <= k
  BY <1>2 DEF EndsFirst
<1>5. k <= Len(pqueue)
  BY DEF EndsFirst
<1>6. ASSUME Head(pqueue) = Poison PROVE k - 1 \in Nat /\ EndsFirst(k - 1)'
  <2>1. k - 1 \in Nat /\ k - 1 <= Len(pqueue')
    BY <1>1, <1>2, <1>4, <1>5, <1>6
  <2>2. \A n \in 1 .. Len(pqueue') : n + 1 <= k <=> n <= k - 1
    OBVIOUS
  <2> QED BY <1>3, <2>1, <2>2 DEF EndsFirst
<1>7. ASSUME Head(pqueue) # Poison PROVE k = 0 /\ EndsFirst(k)'
  <2>1. k = 0 /\ k <= Len(pqueue')
    BY <1>1, <1>2, <1>4, <1>7
  <2>2. \A n \in 1 .. Len(pqueue') : ~(n + 1 <= k) /\ ~(n <= k)
    BY <2>1
  <2> QED BY <1>3, <2>1, <2>2 DEF EndsFirst
<1> QED BY <1>6, <1>7

\* A message of the end goes before all others, and others behind them.
LEMMA FrontPut ==
  ASSUME Queue, NEW k \in Nat, EndsFirst(k), NEW m \in Nat,
         pqueue' = IF m = Poison THEN <<Poison>> \o pqueue ELSE Append(pqueue, m)
  PROVE  /\ m = Poison => EndsFirst(k + 1)'
         /\ m # Poison => EndsFirst(k)'
<1>1. pqueue \in Seq(Nat) /\ Len(pqueue) \in Nat /\ k <= Len(pqueue)
  BY DEF Queue, EndsFirst
<1>2. ASSUME m = Poison PROVE EndsFirst(k + 1)'
  <2>1. /\ Len(pqueue') = Len(pqueue) + 1 /\ pqueue'[1] = Poison
        /\ \A n \in 1 .. Len(pqueue) : pqueue'[n + 1] = pqueue[n]
    BY <1>1, <1>2, InFront DEF Poison
  <2>2. \A n \in 1 .. Len(pqueue') : n = 1 \/ (n - 1 \in 1 .. Len(pqueue) /\ (n - 1) + 1 = n)
    BY <1>1, <2>1
  <2>3. \A n \in 1 .. Len(pqueue') : n <= k + 1 <=> n = 1 \/ n - 1 <= k
    OBVIOUS
  <2>4. \A n \in 1 .. Len(pqueue) : pqueue[n] = Poison <=> n <= k
    BY DEF EndsFirst
  <2>5. k + 1 <= Len(pqueue')
    BY <1>1, <2>1
  <2>6. ASSUME NEW n \in 1 .. Len(pqueue') PROVE pqueue'[n] = Poison <=> n <= k + 1
    <3>1. CASE n = 1
      BY <2>1, <2>3, <3>1
    <3>2. CASE n - 1 \in 1 .. Len(pqueue) /\ (n - 1) + 1 = n
      <4>1. pqueue'[n] = pqueue[n - 1] /\ (pqueue[n - 1] = Poison <=> n - 1 <= k) /\ n # 1
        BY <2>1, <2>4, <3>2
      <4> QED BY <2>3, <4>1
    <3> QED BY <2>2, <3>1, <3>2
  <2> QED BY <2>5, <2>6 DEF EndsFirst
<1>3. ASSUME m # Poison PROVE EndsFirst(k)'
  <2>1. pqueue' = Append(pqueue, m) /\ m \in Nat
    BY <1>3
  <2>2. /\ Len(pqueue') = Len(pqueue) + 1 /\ pqueue'[Len(pqueue) + 1] = m
        /\ \A n \in 1 .. Len(pqueue) : pqueue'[n] = pqueue[n]
    BY ONLY <1>1, <2>1
  <2>3. \A n \in 1 .. Len(pqueue') : (n = Len(pqueue) + 1 /\ ~(n <= k)) \/ n \in 1 .. Len(pqueue)
    BY <1>1, <2>2
  <2>4. k <= Len(pqueue')
    BY <1>1, <2>2
  <2> QED BY <1>3, <2>2, <2>3, <2>4 DEF EndsFirst
<1> QED BY <1>2, <1>3

\* Whoever is not told by a step of t was not before.
LEMMA Shrinks ==
  ASSUME NEW t \in All, \A u \in All \ {t} : job'[u] = job[u], open' \subseteq open,
         t \in Untold' => t \in Untold
  PROVE  Untold' \subseteq Untold
<1>1. Receivers \subseteq All
  BY PipcAssumption DEF All
<1> QED BY <1>1 DEF Untold, Busy

\* A receiver in a function that has not read of the end is not told.
LEMMA NotTold ==
  ASSUME PosixInv, NEW t \in Receivers, job[t].pc # <<>>, job[t].pc \notin {Receive2, Receive1}
  PROVE  t \in Untold
<1>1. t \in All
  BY PipcAssumption DEF All
<1>2. Busy(t) /\ Carries(t)
  BY <1>1, Here
<1> QED BY <1>2 DEF Untold, Carries

\* While a thread ends the queue nobody else does, and the name is there.
LEMMA LoneEnder ==
  ASSUME PosixInv, EndInv, OneEnder, NEW t \in All, job[t].pc \in EndPlaces
  PROVE  /\ t \in Enders /\ t \notin Receivers /\ use = "receive" /\ linked /\ job[t].pc # <<>>
         /\ \A u \in All \ {t} : job[u].pc \notin EndPlaces
<1>1. ASSUME NEW u \in All, job[u].pc \in EndPlaces PROVE u \in Enders /\ use = "receive" /\ job[u].pc # <<>>
  <2>1. job[u].pc # <<>>
    BY <1>1, Idle
  <2>2. Placed(u)
    BY <2>1, Here
  <2> QED BY <1>1, <2>1, <2>2, FunctionOf DEF PosixInv
<1>2. t \in Enders /\ use = "receive" /\ job[t].pc # <<>>
  BY <1>1
<1>3. linked
  <2>1. Busy(t)
    BY <1>2, Here
  <2> QED BY <1>2, <2>1 DEF EndInv
<1>4. t \notin Receivers
  BY <1>2, PipcAssumption
<1> QED BY <1>1, <1>2, <1>3, <1>4 DEF OneEnder

\* A step of one thread that does not remove the name.
LEMMA OneEnds ==
  ASSUME EndInv, NEW t \in All, Busy(t), \A u \in All \ {t} : job'[u] = job[u],
         UNCHANGED <<use, linked>>, use = "receive" => EndComes'
  PROVE  EndInv'
<1>1. Enders \subseteq All
  BY PipcAssumption DEF All
<1>2. \A u \in Enders : Busy(u)' => Busy(u)
  BY <1>1 DEF Busy
<1> QED BY <1>2 DEF EndInv

\* A step that leaves the queue alone and tells nobody, nor gets on with telling.
LEMMA Aside ==
  ASSUME PosixInv, EndInv, NEW t \in All, Busy(t), \A u \in All \ {t} : job'[u] = job[u],
         UNCHANGED <<use, linked, pqueue>>, open' \subseteq open,
         job'[t].pc # End3, job'[t].pc \in {End2, End1} => job[t].pc \in {End2, End1},
         t \in Untold' => t \in Untold
  PROVE  EndInv'
<1>1. ASSUME use = "receive" PROVE EndComes'
  <2>1. PICK k \in Nat : EndsFirst(k) /\ Enough(k)
    BY <1>1 DEF EndInv, EndComes
  <2>2. EndsFirst(k)'
    BY <2>1 DEF EndsFirst
  <2>3. LaterEnds
    BY DEF LaterEnds
  <2>4. Cardinality(Untold)' <= Cardinality(Untold) /\ Cardinality(Untold) \in Nat /\ Cardinality(Untold)' \in Nat
    BY Shrinks, Fewer
  <2>5. Cardinality(Untold)' + k <= Cardinality(Untold) + k
    BY <2>4
  <2>6. Enough(k)'
    BY <2>1, <2>3, <2>5, EnoughFor
  <2> QED BY <2>2, <2>6 DEF EndComes
<1> QED BY <1>1, OneEnds

\* pipc_msg_destory begins to tell as many as there are descriptors.
LEMMA SetAttrEnds ==
  ASSUME PosixInv, EndInv, OneEnder, NEW t \in All, SetAttr(t)
  PROVE  EndInv'
<1>1. /\ job[t].pc \in {pipc_msg_recv, pipc_msg_recv_nowait, pipc_msg_send, pipc_msg_destory, Notice3,
                        Receive2, Last1, End4}
      /\ job[t].pc # <<>>
  <2>1. job[t].pc \in Places
    BY DEF PosixInv, Jobs
  <2> QED BY <2>1, PlaceOf DEF SetAttr, Does
<1>2. job[t] \in Jobs /\ Busy(t) /\ Carries(t) /\ Placed(t)
  BY <1>1, Here
<1>3. UNCHANGED <<use, open, linked, pqueue>>
  BY DEF SetAttr
<1>4. CASE Go(t, [job[t] EXCEPT !.old = Flag(t)])
  <2> DEFINE r == [job[t] EXCEPT !.old = Flag(t)]
  <2>1. Flag(t) \in BOOLEAN
    BY PipcAssumption DEF PosixInv, Queue, Desc, Flag, All
  <2>2. r \in Jobs /\ r.pc = job[t].pc /\ r.fn = job[t].fn /\ r.msg = job[t].msg /\ r.left = job[t].left
    BY <1>2, <2>1, Changed
  <2>3. Go(t, r)
    BY <1>4
  <2> HIDE DEF r
  <2>4. /\ \A u \in All \ {t} : job'[u] = job[u]
        /\ Tail(job[t].pc) = <<>> => job'[t] = NoJob
        /\ Tail(job[t].pc) # <<>> => /\ job'[t].pc = Tail(job[t].pc)
                                     /\ job'[t].msg = job[t].msg /\ job'[t].left = job[t].left
    BY <1>1, <1>3, <2>2, <2>3, Goes
  <2>5. t \in Untold' => t \in Untold
    <3>1. CASE job[t].msg = <<Poison>>
      <4>1. job[t].pc = Receive2
        BY <1>1, <1>2, <3>1, Different DEF Carries
      <4>2. job'[t].msg = <<Poison>>
        BY <2>4, <3>1, <4>1, Programs
      <4> QED BY <4>2 DEF Untold
    <3>2. CASE job[t].msg # <<Poison>>
      BY <1>2, <3>2 DEF Untold
    <3> QED BY <3>1, <3>2
  <2>6. CASE job[t].pc = End4
    <3>1. job[t].pc \in EndPlaces /\ job[t].left = Cardinality(Opened)
      <4>1. End4 \in EndPlaces
        BY DEF EndPlaces
      <4> QED BY <1>1, <1>2, <2>6, <4>1, FunctionOf DEF PosixInv
    <3>2. use = "receive" /\ linked /\ \A u \in All \ {t} : job[u].pc \notin EndPlaces
      BY <3>1, LoneEnder
    <3>3. job'[t].pc = End3 /\ job'[t].left = Cardinality(Opened)
      BY <2>4, <2>6, <3>1, Programs
    <3>4. PICK k \in Nat : EndsFirst(k)
      BY <3>2 DEF EndInv, EndComes
    <3>5. Enough(k)'
      <4>1. ~(~linked' \/ \E u \in All : job'[u].pc \in {End2, End1})
        <5>1. End3 \notin {End2, End1} /\ {End2, End1} \subseteq EndPlaces
          BY Different DEF EndPlaces
        <5> QED BY <1>3, <2>4, <3>2, <3>3, <5>1
      <4>2. \A u \in All : job'[u].pc = End3 => u = t
        BY <2>4, <3>2 DEF EndPlaces
      <4>3. Cardinality(Untold)' <= k + Cardinality(Opened) + Spare
        <5>1. Cardinality(Untold)' \in Nat /\ Cardinality(Untold)' <= Cardinality(Receivers)
          BY Fewer
        <5> QED BY <5>1, Descriptors DEF Spare
      <4> QED BY <3>3, <4>1, <4>2, <4>3 DEF Enough, Spare, Opened
    <3>6. EndsFirst(k)'
      BY <1>3, <3>4 DEF EndsFirst
    <3> QED BY <1>2, <1>3, <2>4, <3>5, <3>6, OneEnds DEF EndComes
  <2>7. CASE job[t].pc # End4
    <3>1. Tail(job[t].pc) \in {<<>>, Receive3, Send2, End5, Notice2, Receive1}
      BY <1>1, <2>7, Programs, ZenonT(60)
    <3>2. job'[t].pc \notin {End3, End2, End1}
      BY <2>4, <3>1, Different, Idle
    <3> QED BY <1>2, <1>3, <2>4, <2>5, <3>2, Aside
  <2> QED BY <2>6, <2>7
<1>5. CASE Desc(t) \notin open /\ Return(t)
  <2>1. (\A u \in All \ {t} : job'[u] = job[u]) /\ job'[t] = NoJob
    BY <1>5, Returns
  <2>2. t \notin Untold'
    BY <1>3, <1>5, <2>1 DEF Untold, Busy, Desc
  <2>3. job'[t].pc \notin {End3, End2, End1}
    BY <2>1, Different, Idle
  <2> QED BY <1>2, <1>3, <2>1, <2>2, <2>3, Aside
<1> QED BY <1>4, <1>5 DEF SetAttr

\* A thread that has not read of the end returns.
LEMMA ReturnEnds ==
  ASSUME PosixInv, EndInv, NEW t \in All, job[t].pc # <<>>, job[t].pc \notin {Receive2, Receive1},
         Return(t), UNCHANGED <<use, linked, pqueue, open>>
  PROVE  EndInv'
<1>1. (\A u \in All \ {t} : job'[u] = job[u]) /\ job'[t] = NoJob
  BY Returns
<1>2. t \in Untold' => t \in Untold
  BY NotTold DEF Untold
<1>3. job'[t].pc \notin {End3, End2, End1}
  BY <1>1, Different, Idle
<1> QED BY <1>1, <1>2, <1>3, Here, Aside

\* A receiver that takes a message of the end is told; one that waits finds none.
LEMMA MqReceiveEnds ==
  ASSUME PosixInv, EndInv, NEW t \in All, MqReceive(t)
  PROVE  EndInv'
<1>1. job[t].pc # <<>> /\ job[t].pc = Receive3 /\ job[t].pc \notin {Receive2, Receive1}
  <2>1. job[t].pc \in Places
    BY DEF PosixInv, Jobs
  <2> QED BY <2>1, PlaceOf, Different DEF MqReceive, Does
<1>2. job[t] \in Jobs /\ Busy(t) /\ t \in Receivers /\ use = "receive" /\ t \in Untold
  <2>1. job[t] \in Jobs /\ Placed(t) /\ Busy(t)
    BY <1>1, Here
  <2>2. t \in Receivers /\ use = "receive"
    BY <1>1, <2>1, FunctionOf DEF PosixInv, Receiving
  <2> QED BY <1>1, <2>1, <2>2, NotTold
<1>3. UNCHANGED <<use, open, linked>> /\ Queue
  BY DEF MqReceive, PosixInv
<1>4. CASE /\ pqueue # <<>>
           /\ pqueue' = Tail(pqueue) /\ Go(t, [job[t] EXCEPT !.msg = <<Head(pqueue)>>])
  <2>1. Head(pqueue) \in Nat
    BY <1>3, <1>4 DEF Queue
  <2> DEFINE r == [job[t] EXCEPT !.msg = <<Head(pqueue)>>]
  <2>2. r \in Jobs /\ r.pc = job[t].pc /\ r.fn = job[t].fn /\ r.left = job[t].left /\ r.msg = <<Head(pqueue)>>
    BY <1>2, <2>1, Changed
  <2>3. Go(t, r)
    BY <1>4
  <2> HIDE DEF r
  <2>4. /\ (\A u \in All \ {t} : job'[u] = job[u])
        /\ job'[t].pc = Receive2 /\ job'[t].msg = <<Head(pqueue)>>
    BY <1>1, <1>3, <2>2, <2>3, Goes, Programs, ZenonT(60)
  <2>5. LaterEnds
    BY <2>4, Different DEF LaterEnds
  <2>6. Untold' \subseteq Untold
    BY <1>2, <1>3, <2>4, Shrinks
  <2>7. PICK k \in Nat : EndsFirst(k) /\ Enough(k)
    BY <1>2 DEF EndInv, EndComes
  <2>8. CASE Head(pqueue) = Poison
    <3>1. PICK j \in Nat : j = k - 1 /\ EndsFirst(j)'
      BY <1>3, <1>4, <2>7, <2>8, FrontTail
    <3>2. t \notin Untold'
      BY <2>4, <2>8 DEF Untold
    <3>3. Cardinality(Untold)' + k <= Cardinality(Untold) + j
      <4>1. /\ Cardinality(Untold)' + 1 <= Cardinality(Untold)
            /\ Cardinality(Untold) \in Nat /\ Cardinality(Untold)' \in Nat
        BY <1>2, <2>6, <3>2, Fewer
      <4> QED BY <3>1, <4>1
    <3>4. Enough(j)'
      BY <1>3, <2>5, <2>7, <3>3, EnoughFor
    <3> QED BY <1>2, <1>3, <2>4, <3>1, <3>4, OneEnds DEF EndComes
  <2>9. CASE Head(pqueue) # Poison
    <3>1. EndsFirst(k)'
      BY <1>3, <1>4, <2>7, <2>9, FrontTail
    <3>2. Cardinality(Untold)' + k <= Cardinality(Untold) + k
      <4>1. /\ Cardinality(Untold)' <= Cardinality(Untold)
            /\ Cardinality(Untold) \in Nat /\ Cardinality(Untold)' \in Nat
        BY <2>6, Fewer
      <4> QED BY <4>1
    <3>3. Enough(k)'
      BY <1>3, <2>5, <2>7, <3>2, EnoughFor
    <3> QED BY <1>2, <1>3, <2>4, <3>1, <3>3, OneEnds DEF EndComes
  <2> QED BY <2>8, <2>9
<1>5. CASE Return(t) /\ UNCHANGED pqueue
  BY <1>1, <1>3, <1>5, ReturnEnds
<1>6. CASE /\ Goto(t, job[t], <<"wait">> \o Tail(job[t].pc)) /\ UNCHANGED pqueue
  <2>1. job' = [job EXCEPT ![t] = After(job[t], Wait3)]
    BY <1>1, <1>6, Programs DEF Goto
  <2>2. After(job[t], Wait3).pc = Wait3
    <3>1. Wait3 \in Places /\ Wait3 # <<>>
      BY Different DEF Places, RecvPlaces, Receiving
    <3> QED BY <1>2, <3>1, Going
  <2>3. (\A u \in All \ {t} : job'[u] = job[u]) /\ job'[t].pc = Wait3
    BY <2>1, <2>2 DEF PosixInv
  <2>4. job'[t].pc \notin {End3, End2, End1}
    BY <2>3, Different
  <2> QED BY <1>2, <1>3, <1>6, <2>3, <2>4, Aside
<1> QED BY <1>4, <1>5, <1>6 DEF MqReceive

\* A receiver that was told closes the descriptor.
LEMMA DeliverEnds ==
  ASSUME PosixInv, EndInv, NEW t \in All, Deliver(t)
  PROVE  EndInv'
<1>1. job[t].pc # <<>> /\ job[t].pc = Receive1
  <2>1. job[t].pc \in Places
    BY DEF PosixInv, Jobs
  <2> QED BY <2>1, PlaceOf DEF Deliver, Does
<1>2. job[t] \in Jobs /\ Busy(t)
  BY <1>1, Here
<1>3. UNCHANGED <<use, linked, pqueue>> /\ Go(t, job[t])
  BY DEF Deliver
<1>4. (\A u \in All \ {t} : job'[u] = job[u]) /\ job'[t] = NoJob
  BY <1>1, <1>2, <1>3, Goes, Programs
<1>5. job'[t].pc \notin {End3, End2, End1}
  BY <1>4, Different, Idle
<1>6. open' \subseteq open /\ (t \in Untold' => t \in Untold)
  <2>1. CASE job[t].msg = <<Poison>> /\ open' = open \ {Desc(t)}
    BY <1>4, <2>1 DEF Untold, Busy, Desc
  <2>2. CASE job[t].msg # <<Poison>> /\ UNCHANGED open
    BY <1>2, <2>2 DEF Untold
  <2> QED BY <2>1, <2>2 DEF Deliver
<1> QED BY <1>2, <1>3, <1>4, <1>5, <1>6, Aside

\* pipc_msg_clean is done before anybody is told of this end.
LEMMA CleanEnds ==
  ASSUME PosixInv, EndInv, OneEnder, NEW t \in All, Clean(t)
  PROVE  EndInv'
<1>1. job[t].pc # <<>> /\ job[t].pc = End5 /\ job[t].pc \notin {Receive2, Receive1}
  <2>1. job[t].pc \in Places
    BY DEF PosixInv, Jobs
  <2> QED BY <2>1, PlaceOf, Different DEF Clean, Does
<1>2. job[t] \in Jobs /\ Busy(t)
  BY <1>1, Here
<1>3. /\ t \notin Receivers /\ use = "receive" /\ linked
      /\ \A u \in All \ {t} : job[u].pc \notin EndPlaces
  <2>1. job[t].pc \in EndPlaces
    BY <1>1 DEF EndPlaces
  <2> QED BY <2>1, LoneEnder
<1>4. UNCHANGED <<use, open, linked>> /\ Queue
  BY DEF Clean, PosixInv
<1>5. CASE pqueue # <<>> /\ pqueue' = Tail(pqueue) /\ UNCHANGED job
  <2>1. PICK k \in Nat : EndsFirst(k)
    BY <1>3 DEF EndInv, EndComes
  <2>2. PICK j \in Nat : EndsFirst(j)'
    <3>1. CASE Head(pqueue) = Poison
      <4>1. PICK j \in Nat : j = k - 1 /\ EndsFirst(j)'
        BY <1>4, <1>5, <2>1, <3>1, FrontTail
      <4> QED BY <4>1
    <3>2. CASE Head(pqueue) # Poison
      BY <1>4, <1>5, <2>1, <3>2, FrontTail
    <3> QED BY <3>1, <3>2
  <2>3. Enough(j)'
    <3>1. \A u \in All : job[u].pc \notin {End3, End2, End1}
      <4>1. {End3, End2, End1} \subseteq EndPlaces /\ End5 \notin {End3, End2, End1}
        BY Different DEF EndPlaces
      <4> QED BY <1>1, <1>3, <4>1
    <3> QED BY <1>3, <1>4, <1>5, <3>1 DEF Enough
  <2> QED BY <1>2, <1>4, <1>5, <2>2, <2>3, OneEnds DEF EndComes
<1>6. CASE pqueue = <<>> /\ Go(t, job[t]) /\ UNCHANGED pqueue
  <2>1. (\A u \in All \ {t} : job'[u] = job[u]) /\ job'[t].pc = End4
    BY <1>1, <1>2, <1>4, <1>6, Goes, Programs
  <2>2. job'[t].pc \notin {End3, End2, End1}
    BY <2>1, Different
  <2>3. t \notin Untold'
    BY <1>3 DEF Untold
  <2> QED BY <1>2, <1>4, <1>6, <2>1, <2>2, <2>3, Aside
<1> QED BY <1>5, <1>6 DEF Clean

\* Closing its descriptor, the thread has told all.
LEMMA CloseEnds ==
  ASSUME PosixInv, EndInv, OneEnder, NEW t \in All, pipc_msg_close(t)
  PROVE  EndInv'
<1>1. job[t].pc # <<>> /\ job[t].pc = End2
  <2>1. job[t].pc \in Places
    BY DEF PosixInv, Jobs
  <2> QED BY <2>1, PlaceOf DEF pipc_msg_close, Does
<1>2. job[t] \in Jobs /\ Busy(t)
  BY <1>1, Here
<1>3. t \notin Receivers
  <2>1. job[t].pc \in EndPlaces
    BY <1>1 DEF EndPlaces
  <2> QED BY <2>1, LoneEnder
<1>4. UNCHANGED <<use, linked, pqueue>> /\ open' \subseteq open /\ Go(t, job[t])
  BY DEF pipc_msg_close
<1>5. (\A u \in All \ {t} : job'[u] = job[u]) /\ job'[t].pc = End1
  BY <1>1, <1>2, <1>4, Goes, Programs
<1>6. job'[t].pc # End3 /\ job[t].pc \in {End2, End1}
  BY <1>1, <1>5, Different
<1>7. t \notin Untold'
  BY <1>3 DEF Untold
<1> QED BY <1>2, <1>4, <1>5, <1>6, <1>7, Aside

\* All have been told when the name goes.
LEMMA UnlinkEnds ==
  ASSUME PosixInv, EndInv, OneEnder, NEW t \in All, __pipc_msg_destory(t)
  PROVE  EndInv'
<1>1. job[t].pc # <<>> /\ job[t].pc = End1
  <2>1. job[t].pc \in Places
    BY DEF PosixInv, Jobs
  <2> QED BY <2>1, PlaceOf DEF __pipc_msg_destory, Does
<1>2. job[t] \in Jobs
  BY <1>1, Here
<1>3. /\ t \in Enders /\ t \notin Receivers /\ use = "receive"
      /\ \A u \in All \ {t} : job[u].pc \notin EndPlaces
  <2>1. job[t].pc \in EndPlaces
    BY <1>1 DEF EndPlaces
  <2> QED BY <2>1, LoneEnder
<1>4. UNCHANGED <<use, open, pqueue>> /\ Go(t, job[t])
  BY DEF __pipc_msg_destory
<1>5. (\A u \in All \ {t} : job'[u] = job[u]) /\ job'[t] = NoJob
  <2>1. Tail(job[t].pc) = <<>>
    BY <1>1, Programs
  <2> QED BY <1>1, <1>2, <1>4, <2>1, Goes
<1>6. PICK k \in Nat : EndsFirst(k) /\ Enough(k)
  BY <1>3 DEF EndInv, EndComes
<1>7. Cardinality(Untold)' <= k + Spare
  <2>1. Cardinality(Untold) <= k + Spare
    BY <1>1, <1>6 DEF Enough
  <2>2. Untold' \subseteq Untold
    <3>1. t \notin Untold'
      BY <1>3 DEF Untold
    <3> QED BY <1>4, <1>5, <3>1, Shrinks
  <2>3. /\ Cardinality(Untold)' <= Cardinality(Untold) /\ k + Spare \in Nat
        /\ Cardinality(Untold)' \in Nat /\ Cardinality(Untold) \in Nat
    BY <2>2, Fewer, Descriptors DEF Spare
  <2> QED BY <2>1, <2>3
<1>8. \A u \in All : job'[u].pc # End3
  <2>1. End3 \in EndPlaces /\ NoJob.pc # End3
    BY Different, Idle DEF EndPlaces
  <2> QED BY <1>3, <1>5, <2>1
<1>9. EndsFirst(k)' /\ Enough(k)'
  BY <1>4, <1>6, <1>7, <1>8 DEF EndsFirst, Enough, Spare, Opened
<1>10. \A u \in Enders : ~Busy(u)'
  BY <1>3, <1>5 DEF OneEnder, Busy
<1> QED BY <1>3, <1>4, <1>9, <1>10 DEF EndInv, EndComes

\* Where no notifications are used, a message that is sent goes to a receiver that
\* waits, or into the queue.
LEMMA PutGoes ==
  ASSUME PosixInv, use = "receive", NEW t \in All, job[t].pc # <<>>, job[t].pc \notin {Wait3, NoticeWait},
         NEW m \in Nat, NEW q \in Jobs, Put(t, m, q)
  PROVE  \/ \E w \in Receivers \ {t} :
              /\ job[w].pc = Wait3 /\ pqueue = <<>> /\ pqueue' = pqueue
              /\ job'[t] = q /\ job'[w].pc = Receive2 /\ job'[w].msg = <<m>>
              /\ \A u \in All \ {t, w} : job'[u] = job[u]
         \/ /\ pqueue' = IF m = Poison THEN <<Poison>> \o pqueue ELSE Append(pqueue, m)
            /\ job'[t] = q /\ \A u \in All \ {t} : job'[u] = job[u]
<1>1. job \in [All -> Jobs] /\ ~registered
  BY DEF PosixInv, Queue
<1>2. ASSUME NEW w \in Waiting,
             job' = [job EXCEPT ![t] = q, ![w] = [job[w] EXCEPT !.pc = Tail(@), !.msg = <<m>>]],
             pqueue' = pqueue
      PROVE  /\ w \in Receivers \ {t} /\ job[w].pc = Wait3 /\ pqueue = <<>>
             /\ job'[t] = q /\ job'[w].pc = Receive2 /\ job'[w].msg = <<m>>
             /\ \A u \in All \ {t, w} : job'[u] = job[u]
  <2>1. w \in All /\ job[w].pc \in {Wait3, NoticeWait} /\ w # t /\ job[w].pc # <<>>
    <3>1. w \in All /\ Does(w, "wait") /\ job[w].pc \in Places
      BY <1>1 DEF Waiting, Jobs
    <3> QED BY <3>1, PlaceOf DEF Does
  <2>2. job[w] \in Jobs /\ Placed(w) /\ Waits(w)
    BY <2>1, Here
  <2>3. job[w].pc = Wait3 /\ w \in Receivers
    <3>1. NoticeWait \in NoticePlaces \ {Last1} /\ Wait3 \in Receiving
      BY Different DEF NoticePlaces, Receiving
    <3> QED BY <1>1, <2>1, <2>2, <3>1, FunctionOf
  <2> DEFINE x == [job[w] EXCEPT !.pc = Tail(job[w].pc), !.msg = <<m>>]
  <2>4. x.pc = Receive2 /\ x.msg = <<m>>
    BY <2>2, <2>3, Programs DEF Jobs
  <2>5. job' = [job EXCEPT ![t] = q, ![w] = x]
    BY <1>2
  <2> HIDE DEF x
  <2>6. job'[t] = q /\ job'[w] = x /\ \A u \in All \ {t, w} : job'[u] = job[u]
    BY <1>1, <2>1, <2>5
  <2> QED BY <2>1, <2>2, <2>3, <2>4, <2>6 DEF Waits
<1>3. ASSUME job' = [job EXCEPT ![t] = q]
      PROVE  job'[t] = q /\ \A u \in All \ {t} : job'[u] = job[u]
  BY <1>1, <1>3
<1> QED BY <1>1, <1>2, <1>3 DEF Put

\* Other messages neither tell nor hinder those who tell.
LEMMA SendEnds ==
  ASSUME PosixInv, EndInv, NEW t \in All, Send(t)
  PROVE  EndInv'
<1>1. job[t].pc # <<>> /\ job[t].pc = Send2 /\ job[t].pc \notin {Receive2, Receive1, Wait3, NoticeWait}
  <2>1. job[t].pc \in Places
    BY DEF PosixInv, Jobs
  <2> QED BY <2>1, PlaceOf, Different DEF Send, Does
<1>2. job[t] \in Jobs /\ Busy(t) /\ (use = "notify" \/ t \notin Receivers) /\ Queue /\ sent \in Nat
  <2>1. job[t] \in Jobs /\ Placed(t) /\ Busy(t)
    BY <1>1, Here
  <2> QED BY <1>1, <2>1, FunctionOf, PipcAssumption DEF PosixInv, Queue
<1>3. UNCHANGED <<use, open, linked>>
  BY DEF Send
<1>4. CASE Put(t, sent + 1, After(job[t], Tail(job[t].pc)))
  <2>1. PICK m \in Nat : m = sent + 1 /\ m # Poison
    BY <1>2 DEF Poison
  <2>2. PICK q \in Jobs : q = After(job[t], Tail(job[t].pc)) /\ q.pc = Last1
    <3>1. Last1 \in Places /\ Last1 # <<>> /\ Tail(job[t].pc) = Last1
      BY <1>1, Programs DEF Places, SendPlaces
    <3> QED BY <1>2, <3>1, Going
  <2>3. Put(t, m, q)
    BY <1>4, <2>1, <2>2
  <2>4. CASE use = "receive"
    <3>1. PICK k \in Nat : EndsFirst(k) /\ Enough(k)
      BY <2>4 DEF EndInv, EndComes
    <3>2. t \notin Receivers /\ q.pc \notin {End3, End2, End1} /\ Receive2 \notin {End3, End2, End1}
      BY <1>2, <2>2, <2>4, Different
    <3>3. ASSUME Untold' \subseteq Untold, LaterEnds, EndsFirst(k)' PROVE EndComes'
      <4>1. Cardinality(Untold)' + k <= Cardinality(Untold) + k
        <5>1. /\ Cardinality(Untold)' <= Cardinality(Untold)
              /\ Cardinality(Untold) \in Nat /\ Cardinality(Untold)' \in Nat
          BY <3>3, Fewer
        <5> QED BY <5>1
      <4>2. Enough(k)'
        BY <1>3, <3>1, <3>3, <4>1, EnoughFor
      <4> QED BY <3>3, <4>2 DEF EndComes
    <3>4. ASSUME NEW w \in Receivers \ {t}, job[w].pc = Wait3, pqueue' = pqueue, job'[t] = q,
                 job'[w].pc = Receive2, \A u \in All \ {t, w} : job'[u] = job[u]
          PROVE  EndInv'
      <4>1. w \in All /\ w \in Untold /\ w \notin Enders
        <5>1. w \in All /\ w \notin Enders
          BY PipcAssumption DEF All
        <5>2. job[w].pc # <<>> /\ job[w].pc \notin {Receive2, Receive1}
          BY <3>4, Different
        <5> QED BY <5>1, <5>2, NotTold
      <4>2. Untold' \subseteq Untold
        <5>1. Receivers \subseteq All
          BY PipcAssumption DEF All
        <5> QED BY <1>3, <3>2, <3>4, <4>1, <5>1 DEF Untold, Busy
      <4>3. LaterEnds
        BY <3>2, <3>4 DEF LaterEnds
      <4>4. EndsFirst(k)'
        BY <3>1, <3>4 DEF EndsFirst
      <4>5. \A u \in Enders : Busy(u)' => Busy(u)
        <5>1. Enders \subseteq All
          BY PipcAssumption DEF All
        <5> QED BY <1>2, <3>4, <4>1, <5>1 DEF Busy
      <4> QED BY <1>3, <2>4, <3>3, <4>2, <4>3, <4>4, <4>5 DEF EndInv
    <3>5. ASSUME pqueue' = IF m = Poison THEN <<Poison>> \o pqueue ELSE Append(pqueue, m),
                 job'[t] = q, \A u \in All \ {t} : job'[u] = job[u]
          PROVE  EndInv'
      <4>1. EndsFirst(k)'
        BY <1>2, <2>1, <3>1, <3>5, FrontPut
      <4>2. Untold' \subseteq Untold
        <5>1. t \notin Untold'
          BY <3>2 DEF Untold
        <5> QED BY <1>3, <3>5, <5>1, Shrinks
      <4>3. LaterEnds
        BY <3>2, <3>5 DEF LaterEnds
      <4> QED BY <1>2, <1>3, <3>3, <3>5, <4>1, <4>2, <4>3, OneEnds
    <3> QED BY <1>1, <2>3, <2>4, <3>4, <3>5, PutGoes
  <2>5. CASE use # "receive"
    <3>1. linked
      BY <2>5 DEF EndInv, PosixInv, Queue
    <3> QED BY <1>3, <2>5, <3>1 DEF EndInv
  <2> QED BY <2>4, <2>5
<1>5. CASE Return(t) /\ UNCHANGED pqueue
  BY <1>1, <1>3, <1>5, ReturnEnds
<1> QED BY <1>4, <1>5 DEF Send

\* One more has been told, or will find that it is told, and one less is left to tell.
LEMMA TellEnds ==
  ASSUME PosixInv, EndInv, OneEnder, NEW t \in All, Tell(t)
  PROVE  EndInv'
<1>1. job[t].pc # <<>> /\ job[t].pc = End3 /\ job[t].pc \notin {Receive2, Receive1, Wait3, NoticeWait}
  <2>1. job[t].pc \in Places
    BY DEF PosixInv, Jobs
  <2> QED BY <2>1, PlaceOf, Different DEF Tell, Does
<1>2. /\ t \in Enders /\ t \notin Receivers /\ use = "receive" /\ linked
      /\ \A u \in All \ {t} : job[u].pc \notin EndPlaces
  <2>1. job[t].pc \in EndPlaces
    BY <1>1 DEF EndPlaces
  <2> QED BY <2>1, LoneEnder
<1>3. job[t] \in Jobs /\ Busy(t) /\ job[t].left \in Nat /\ job[t].left > 0 /\ Queue
  <2>1. job[t] \in Jobs /\ Placed(t) /\ Busy(t) /\ job[t].left \in Nat
    BY <1>1, Here
  <2>2. End3 \in EndPlaces
    BY DEF EndPlaces
  <2> QED BY <1>1, <2>1, <2>2, FunctionOf DEF PosixInv
<1>4. UNCHANGED <<use, open, linked>>
  BY DEF Tell
<1>5. CASE Return(t) /\ UNCHANGED pqueue
  BY <1>1, <1>4, <1>5, ReturnEnds
<1> DEFINE r == [job[t] EXCEPT !.left = job[t].left - 1]
<1>6. r \in Jobs /\ r.pc = End3 /\ r.left = job[t].left - 1
  <2>1. job[t].left - 1 \in Nat
    BY <1>3
  <2> QED BY <1>1, <1>3, <2>1, Changed
<1>7. CASE Put(t, Poison, IF r.left > 0 THEN r ELSE After(r, Tail(r.pc)))
  <2> HIDE DEF r
  <2>1. PICK m \in Nat : m = Poison
    BY DEF Poison
  <2> DEFINE next == IF r.left > 0 THEN r ELSE After(r, Tail(r.pc))
  <2>2. /\ next \in Jobs
        /\ \/ next.pc = End3 /\ next.left = job[t].left - 1
           \/ next.pc = End2 /\ job[t].left = 1
    <3>1. End2 \in Places /\ End2 # <<>> /\ Tail(r.pc) = End2
      BY <1>6, Programs DEF Places, EndPlaces
    <3>2. r.left > 0 \/ job[t].left = 1
      BY <1>3, <1>6
    <3> QED BY <1>6, <3>1, <3>2, Going
  <2>3. PICK q \in Jobs : q = next
    BY <2>2
  <2>4. Put(t, m, q)
    BY <1>7, <2>1, <2>3
  <2> HIDE DEF next
  <2>5. PICK k \in Nat : EndsFirst(k) /\ Enough(k)
    BY <1>2 DEF EndInv, EndComes
  <2>6. Cardinality(Untold) <= k + job[t].left + Spare /\ Spare \in Nat
    BY <1>1, <2>5, Descriptors DEF Enough, Spare
  <2>7. ASSUME NEW j \in Nat, EndsFirst(j)', Cardinality(Untold)' <= j + job[t].left - 1 + Spare,
               job'[t] = q, \A u \in All \ {t} : job'[u].pc \notin {End3, End2, End1}
        PROVE  EndComes'
    <3>1. ASSUME ~linked' \/ \E u \in All : job'[u].pc \in {End2, End1} PROVE Cardinality(Untold)' <= j + Spare
      <4>1. job'[t].pc \in {End2, End1}
        BY <1>2, <1>4, <2>7, <3>1
      <4>2. End3 \notin {End2, End1}
        BY Different
      <4>3. job[t].left = 1
        BY <2>2, <2>3, <2>7, <4>1, <4>2
      <4> QED BY <2>6, <2>7, <4>3, Fewer
    <3>2. ASSUME NEW u \in All, job'[u].pc = End3 PROVE Cardinality(Untold)' <= j + job'[u].left + Spare
      <4>1. u = t
        BY <2>7, <3>2
      <4>2. End2 # End3
        BY Different
      <4>3. job'[u].left = job[t].left - 1
        BY <2>2, <2>3, <2>7, <3>2, <4>1, <4>2
      <4> QED BY <1>3, <2>7, <4>3
    <3>3. Enough(j)'
      BY <3>1, <3>2 DEF Enough, Spare, Opened
    <3> QED BY <2>7, <3>3 DEF EndComes
  <2>8. Cardinality(Untold) \in Nat /\ Cardinality(Untold)' \in Nat
    BY Fewer
  <2>9. {End3, End2, End1} \subseteq EndPlaces /\ Receive2 \notin {End3, End2, End1}
    BY Different DEF EndPlaces
  <2>10. ASSUME NEW w \in Receivers \ {t}, job[w].pc = Wait3, pqueue' = pqueue, job'[t] = q,
                job'[w].pc = Receive2, job'[w].msg = <<m>>, \A u \in All \ {t, w} : job'[u] = job[u]
         PROVE  EndInv'
    <3>1. w \in All /\ w \in Untold /\ w \notin Enders
      <4>1. w \in All /\ w \notin Enders
        BY PipcAssumption DEF All
      <4>2. job[w].pc # <<>> /\ job[w].pc \notin {Receive2, Receive1}
        BY <2>10, Different
      <4> QED BY <4>1, <4>2, NotTold
    <3>2. Untold' \subseteq Untold /\ w \notin Untold'
      <4>1. Receivers \subseteq All
        BY PipcAssumption DEF All
      <4> QED BY <1>2, <1>4, <2>1, <2>10, <3>1, <4>1 DEF Untold, Busy
    <3>3. Cardinality(Untold)' + 1 <= Cardinality(Untold)
      BY <3>1, <3>2, Fewer
    <3>4. Cardinality(Untold)' <= k + job[t].left - 1 + Spare
      BY <1>3, <2>6, <2>8, <3>3
    <3>5. EndsFirst(k)'
      BY <2>5, <2>10 DEF EndsFirst
    <3>6. \A u \in All \ {t} : job'[u].pc \notin {End3, End2, End1}
      BY <1>2, <2>9, <2>10
    <3>7. EndComes'
      BY <2>7, <2>10, <3>4, <3>5, <3>6
    <3> QED BY <1>2, <1>4, <3>7 DEF EndInv
  <2>11. ASSUME pqueue' = IF m = Poison THEN <<Poison>> \o pqueue ELSE Append(pqueue, m),
                job'[t] = q, \A u \in All \ {t} : job'[u] = job[u]
         PROVE  EndInv'
    <3>1. PICK j \in Nat : j = k + 1 /\ EndsFirst(j)'
      BY <1>3, <2>1, <2>5, <2>11, FrontPut
    <3>2. Untold' \subseteq Untold
      <4>1. t \notin Untold'
        BY <1>2 DEF Untold
      <4> QED BY <1>4, <2>11, <4>1, Shrinks
    <3>3. Cardinality(Untold)' <= Cardinality(Untold)
      BY <3>2, Fewer
    <3>4. Cardinality(Untold)' <= j + job[t].left - 1 + Spare
      BY <1>3, <2>6, <2>8, <3>1, <3>3
    <3>5. \A u \in All \ {t} : job'[u].pc \notin {End3, End2, End1}
      BY <1>2, <2>9, <2>11
    <3>6. EndComes'
      BY <2>7, <2>11, <3>1, <3>4, <3>5
    <3> QED BY <1>2, <1>4, <3>6 DEF EndInv
  <2> QED BY <1>1, <1>2, <2>4, <2>10, <2>11, PutGoes
<1> QED BY <1>5, <1>7 DEF Tell

\* The threads of notifications have nothing to do with ends.
LEMMA NoticeEnds ==
  ASSUME PosixInv, EndInv, NEW t \in All, Rearm(t) \/ Take(t)
  PROVE  EndInv'
<1>1. job[t].pc # <<>> /\ job[t].pc \in NoticePlaces \ {Last1}
  <2>1. job[t].pc \in Places
    BY DEF PosixInv, Jobs
  <2> QED BY <2>1, PlaceOf, Different DEF Rearm, Take, Does, NoticePlaces
<1>2. use = "notify"
  <2>1. Placed(t)
    BY <1>1, Here
  <2> QED BY <1>1, <2>1, FunctionOf DEF PosixInv
<1>3. UNCHANGED <<use, linked>>
  BY DEF Rearm, Take
<1> QED BY <1>2, <1>3 DEF EndInv

\* Who calls has not been told, and was counted.
LEMMA CallEnds ==
  ASSUME PosixInv, EndInv, NEW t \in All, NEW fn \in {"recv", "recv_nowait", "send", "destory"}, Call(t, fn)
  PROVE  EndInv'
<1>1. UNCHANGED <<use, open, linked, pqueue>> /\ ~Busy(t) /\ Desc(t) \in open /\ linked
  BY DEF Call
<1> DEFINE x == [NoJob EXCEPT !.pc = Program[fn], !.fn = fn, !.left = Cardinality(Opened)]
<1>2. Program[fn] \in {pipc_msg_recv, pipc_msg_recv_nowait, pipc_msg_send, pipc_msg_destory}
  BY DEF Program
<1>3. x.pc = Program[fn] /\ x.msg = <<>>
  BY DEF NoJob
<1>4. job' = [job EXCEPT ![t] = x]
  BY DEF Call
<1> HIDE DEF x
<1>5. job'[t] = x /\ \A u \in All \ {t} : job'[u] = job[u]
  BY <1>4 DEF PosixInv
<1>6. ASSUME use = "receive" PROVE EndComes'
  <2>1. PICK k \in Nat : EndsFirst(k) /\ Enough(k)
    BY <1>6 DEF EndInv, EndComes
  <2>2. t \in Untold' => t \in Untold
    BY <1>1, Idle DEF Untold, Busy, Poison
  <2>3. Cardinality(Untold)' + k <= Cardinality(Untold) + k
    <3>1. Untold' \subseteq Untold
      BY <1>1, <1>5, <2>2, Shrinks
    <3>2. /\ Cardinality(Untold)' <= Cardinality(Untold)
          /\ Cardinality(Untold) \in Nat /\ Cardinality(Untold)' \in Nat
      BY <3>1, Fewer
    <3> QED BY <3>2
  <2>4. LaterEnds
    <3>1. job'[t].pc \notin {End3, End2, End1}
      BY <1>2, <1>3, <1>5, Different
    <3> QED BY <1>5, <3>1 DEF LaterEnds
  <2>5. Enough(k)'
    BY <1>1, <2>1, <2>3, <2>4, EnoughFor
  <2>6. EndsFirst(k)'
    BY <1>1, <2>1 DEF EndsFirst
  <2> QED BY <2>5, <2>6 DEF EndComes
<1> QED BY <1>1, <1>6 DEF EndInv

\* At first there is nobody to tell, and the name is there.
LEMMA InitEnds ==
  ASSUME PipcInit(MaxMsgs)
  PROVE  EndInv
<1>1. linked /\ pqueue = <<>> /\ \A t \in All : job[t].pc = <<>>
  <2>1. linked = (MaxMsgs > 0) /\ pqueue = <<>> /\ job = [t \in All |-> NoJob]
    BY DEF PipcInit
  <2>2. MaxMsgs > 0
    BY PipcAssumption
  <2> QED BY <2>1, <2>2, Idle
<1>2. EndsFirst(0)
  BY <1>1 DEF EndsFirst
<1>3. Enough(0)
  BY <1>1, Different DEF Enough
<1> QED BY <1>1, <1>2, <1>3 DEF EndInv, EndComes

\* Every step keeps it, if one thread ends the queue.
LEMMA NextEnds ==
  ASSUME OneEnder, PosixInv, EndInv, [PipcNext]_pipcVars
  PROVE  EndInv'
<1>1. CASE Calls
  <2>1. Receivers \cup Senders \cup Enders \subseteq All
    BY PipcAssumption DEF All
  <2> QED BY <1>1, <2>1, CallEnds DEF Calls
<1>2. ASSUME NEW t \in All, Step(t) PROVE EndInv'
  BY <1>2, SetAttrEnds, SendEnds, MqReceiveEnds, DeliverEnds, CleanEnds, TellEnds, CloseEnds, UnlinkEnds,
     NoticeEnds DEF Step
<1>3. CASE UNCHANGED pipcVars
  BY <1>3 DEF pipcVars, EndInv, EndComes, EndsFirst, Enough, Untold, Busy, Spare, Opened
<1> QED BY <1>1, <1>2, <1>3 DEF PipcNext

-----------------------------------------------------------------------------
\* Whoever is alone with a descriptor works in the mode that the function has
\* set, whatever others do with theirs.
THEOREM OwnModes == PipcSpec => [](PipcTypeOK /\ ModeIsOwn)
<1>1. PipcInit(MaxMsgs) => PosixInv
  BY InitPosix
<1>2. PosixInv /\ [PipcNext]_pipcVars => PosixInv'
  BY NextPosix
<1>3. PosixInv => PipcTypeOK /\ ModeIsOwn
  <2> SUFFICES ASSUME PosixInv PROVE PipcTypeOK /\ ModeIsOwn
    OBVIOUS
  <2>1. PipcTypeOK
    <3>1. ToSet(pqueue) \subseteq 0..MaxMsgs
      <4>1. /\ pqueue \in Seq(Nat) /\ sent \in 0..MaxMsgs /\ MaxMsgs \in Nat
            /\ \A n \in 1 .. Len(pqueue) : pqueue[n] <= sent
        BY PipcAssumption DEF PosixInv, Queue
      <4>2. \A n \in 1 .. Len(pqueue) : pqueue[n] \in 0..MaxMsgs
        BY <4>1
      <4> QED BY <4>1, <4>2 DEF ToSet
    <3> QED BY <3>1 DEF PosixInv, Queue, PipcTypeOK
  <2>2. ASSUME NEW t \in alone
        PROVE  /\ Does(t, "receive") \/ Does(t, "send") => Flag(t) = (job[t].fn # "recv")
               /\ Does(t, "wait") => job[t].fn = "recv"
    <3>1. t \in All /\ job[t].pc \in Places /\ Placed(t) /\ InMode(t) /\ Flag(t) \in BOOLEAN
      BY PipcAssumption DEF PosixInv, Queue, Right, Jobs, Flag, Desc, All
    <3>2. CASE job[t].pc = <<>>
      BY <3>2 DEF Does
    <3>3. CASE job[t].pc # <<>>
      <4>1. Does(t, "receive") => job[t].pc = Receive3
        BY <3>1, <3>3, PlaceOf DEF Does
      <4>2. Does(t, "send") => job[t].pc = Send2
        BY <3>1, <3>3, PlaceOf DEF Does
      <4>3. Does(t, "wait") => job[t].pc \in {Wait3, NoticeWait}
        BY <3>1, <3>3, PlaceOf DEF Does
      <4>4. job[t].pc = Send2 => Flag(t) /\ job[t].fn # "recv"
        BY <3>1, <3>3, FunctionOf DEF PosixInv, InMode
      <4> QED BY <3>1, <4>1, <4>2, <4>3, <4>4 DEF InMode
    <3> QED BY <3>2, <3>3
  <2> QED BY <2>1, <2>2 DEF ModeIsOwn
<1> QED BY <1>1, <1>2, <1>3, PTL DEF PipcSpec

\* When one thread ends the queue, and its name is gone, as many receivers have been told,
\* or will be, as there were descriptors: if each has its own, none waits for what never
\* comes.
THEOREM EndsAreTold == OneEnder /\ PipcSpec => []PosixSound
<1> SUFFICES ASSUME OneEnder PROVE PipcSpec => []PosixSound
  OBVIOUS
<1>1. PipcInit(MaxMsgs) => PosixInv /\ EndInv
  BY InitPosix, InitEnds
<1>2. PosixInv /\ EndInv /\ [PipcNext]_pipcVars => (PosixInv /\ EndInv)'
  BY NextPosix, NextEnds
<1>3. PosixInv /\ EndInv => EndTold
  <2> SUFFICES ASSUME PosixInv, EndInv, ~linked
               PROVE  Cardinality(Waiting) + Cardinality(Opened) <= Cardinality(Receivers)
    BY DEF EndTold
  <2>1. use = "receive"
    BY DEF EndInv, PosixInv, Queue
  <2>2. ASSUME NEW w \in Waiting PROVE w \in Untold /\ pqueue = <<>>
    <3>1. w \in All /\ job[w].pc \in {Wait3, NoticeWait} /\ job[w].pc # <<>>
      <4>1. w \in All /\ Does(w, "wait") /\ job[w].pc \in Places
        BY <2>2 DEF Waiting, Jobs, PosixInv
      <4> QED BY <4>1, PlaceOf DEF Does
    <3>2. job[w].pc = Wait3 /\ w \in Receivers /\ Waits(w)
      <4>1. Placed(w) /\ Waits(w)
        BY <3>1, Here
      <4>2. NoticeWait \in NoticePlaces \ {Last1} /\ Wait3 \in Receiving
        BY Different DEF NoticePlaces, Receiving
      <4> QED BY <2>1, <3>1, <4>1, <4>2, FunctionOf DEF PosixInv
    <3>3. w \in Untold
      BY <3>1, <3>2, NotTold, Different
    <3> QED BY <3>2, <3>3 DEF Waits
  <2>3. CASE Waiting = {}
    BY <2>3, FS_EmptySet, Descriptors
  <2>4. CASE Waiting # {}
    <3>1. pqueue = <<>> /\ Waiting \subseteq Untold
      BY <2>2, <2>4
    <3>2. PICK k \in Nat : EndsFirst(k) /\ Enough(k)
      BY <2>1 DEF EndInv, EndComes
    <3>3. k = 0
      BY <3>1, <3>2 DEF EndsFirst
    <3>4. Cardinality(Untold) <= Spare
      BY <3>2, <3>3, Descriptors DEF Enough, Spare
    <3>5. IsFiniteSet(Untold)
      BY PipcAssumption, FS_Subset DEF Untold
    <3>6. Cardinality(Waiting) <= Cardinality(Untold) /\ IsFiniteSet(Waiting)
      BY <3>1, <3>5, FS_Subset
    <3> QED BY <3>4, <3>5, <3>6, Descriptors, FS_CardinalityType DEF Spare
  <2> QED BY <2>3, <2>4
<1>4. PipcSpec => [](PipcTypeOK /\ ModeIsOwn)
  BY OwnModes
<1> QED BY <1>1, <1>2, <1>3, <1>4, PTL DEF PipcSpec, PosixSound

=============================================================================
