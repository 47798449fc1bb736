------------------------------ MODULE VipcSem ------------------------------
(***************************************************************************)
(* One System V semaphore under one IPC key, through the calls of          *)
(* fram/module/ipc/src/ipcsem.c: creation in two system calls (semget and  *)
(* SETALL), look-up of the identifier with and without the check of        *)
(* sem_otime, grab with and without waiting, free and removal.             *)
(***************************************************************************)
EXTENDS Integers, FiniteSets

CONSTANTS Procs,     \* the processes that know the key
          Num,       \* the initial value the creator passes
          Timed,     \* the values of "the caller passes maxtime > 0"
          MayDie,    \* whether a process may end at any time
          MaxSets    \* bound: how often the semaphore is created

ASSUME VipcSemAssumption ==
    /\ IsFiniteSet(Procs)
    /\ Num \in Nat \ {0}
    /\ Timed \subseteq BOOLEAN
    /\ MayDie \in BOOLEAN
    /\ MaxSets \in Nat \ {0}

VARIABLES
    set,     \* the identifier the key has now, 0 when there is none
    last,    \* the last identifier given out
    val,     \* the value of the semaphore
    otime,   \* whether sem_otime is set: some semop has completed
    inited,  \* whether SETALL was done on the present set
    pc,      \* what a process does next
    id,      \* the identifier a process works with, 0 before it has one
    held,    \* units of set id[p] that p has grabbed and not freed
    timed,   \* whether the grab of p has a timeout
    alive    \* the processes that have not ended

vars == <<set, last, val, otime, inited, pc, id, held, timed, alive>>

kernel == <<set, last, val, otime, inited>>

-----------------------------------------------------------------------------
PC == {"idle", "setall", "recheck", "grab"}

GoesOn(p, s) == pc' = [pc EXCEPT ![p] = s]

\* A process works with another identifier from now on.
UseId(p, i) ==
    /\ id' = [id EXCEPT ![p] = i]
    /\ held' = [held EXCEPT ![p] = IF i = id[p] THEN @ ELSE 0]

Init ==
    /\ set = 0 /\ last = 0 /\ val = 0
    /\ otime = FALSE /\ inited = FALSE
    /\ pc = [p \in Procs |-> "idle"]
    /\ id = [p \in Procs |-> 0]
    /\ held = [p \in Procs |-> 0]
    /\ timed = [p \in Procs |-> FALSE]
    /\ alive = Procs

\* Mutant of CreateGet: a new set counts as used.
CreateGetUsed(p) ==
    /\ pc[p] = "idle"
    /\ set = 0
    /\ last < MaxSets
    /\ last' = last + 1 /\ set' = last + 1
    /\ val' = 0 /\ otime' = TRUE /\ inited' = FALSE
    /\ UseId(p, last + 1)
    /\ GoesOn(p, "setall")
    /\ UNCHANGED <<timed, alive>>

\* vipc_sem_create: semget with IPC_EXCL.  A new set has the value 0.
CreateGet(p) ==
    /\ pc[p] = "idle"
    /\ set = 0
    /\ last < MaxSets
    /\ last' = last + 1 /\ set' = last + 1
    /\ val' = 0 /\ otime' = FALSE /\ inited' = FALSE
    /\ UseId(p, last + 1)
    /\ GoesOn(p, "setall")
    /\ UNCHANGED <<timed, alive>>

\* Mutant of CreateSetAll: the values are set in the set that has the key now.
CreateSetAllByKey(p) ==
    /\ pc[p] = "setall"
    /\ IF set # 0 THEN val' = Num /\ inited' = TRUE ELSE UNCHANGED <<val, inited>>
    /\ GoesOn(p, "idle")
    /\ UNCHANGED <<set, last, otime, id, held, timed, alive>>

\* vipc_sem_create: semctl SETALL; it does not set sem_otime.
CreateSetAll(p) ==
    /\ pc[p] = "setall"
    /\ IF set = id[p] THEN val' = Num /\ inited' = TRUE ELSE UNCHANGED <<val, inited>>
    /\ GoesOn(p, "idle")
    /\ UNCHANGED <<set, last, otime, id, held, timed, alive>>

\* vipc_sem_getid asks for the identifier and nothing else.
GetId(p) ==
    /\ pc[p] = "idle"
    /\ set # 0
    /\ UseId(p, set)
    /\ UNCHANGED <<kernel, pc, timed, alive>>

\* vipc_sem_getid_safe reads the semid_ds of the set: with sem_otime set the
\* call succeeds, otherwise it sleeps a second.
GetIdSafe(p) ==
    /\ pc[p] = "idle"
    /\ set # 0
    /\ IF otime THEN UseId(p, set) /\ UNCHANGED pc
                ELSE GoesOn(p, "recheck") /\ UNCHANGED <<id, held>>
    /\ UNCHANGED <<kernel, timed, alive>>

\* After the sleep vipc_sem_getid_safe tests the copy it read before: still 0.
GetIdSafeRecheck(p) ==
    /\ pc[p] = "recheck"
    /\ GoesOn(p, "idle")
    /\ UNCHANGED <<kernel, id, held, timed, alive>>

\* vipc_sem_grab and vipc_sem_grab_masksig are called.
GrabCall(p, t) ==
    /\ pc[p] = "idle"
    /\ id[p] # 0
    /\ held[p] = 0
    /\ timed' = [timed EXCEPT ![p] = t]
    /\ GoesOn(p, "grab")
    /\ UNCHANGED <<kernel, id, held, alive>>

\* A unit is taken from the set p works with, and sem_otime is set.
TakeUnit(p) ==
    /\ set = id[p]
    /\ val > 0
    /\ val' = val - 1
    /\ otime' = TRUE
    /\ held' = [held EXCEPT ![p] = @ + 1]

\* The semtimedop of vipc_sem_grab succeeds.
Grab(p) ==
    /\ pc[p] = "grab"
    /\ TakeUnit(p)
    /\ GoesOn(p, "idle")
    /\ UNCHANGED <<set, last, inited, id, timed, alive>>

\* The semtimedop of vipc_sem_grab fails: its time is over, or the set was
\* removed.
GrabFails(p) ==
    /\ pc[p] = "grab"
    /\ \/ set = id[p] /\ val = 0 /\ timed[p]
       \/ set # id[p]
    /\ GoesOn(p, "idle")
    /\ UNCHANGED <<kernel, id, held, timed, alive>>

\* A signal ends the semtimedop of vipc_sem_grab; vipc_sem_grab_masksig would
\* begin it again.
GrabInterrupted(p) ==
    /\ pc[p] = "grab"
    /\ GoesOn(p, "idle")
    /\ UNCHANGED <<kernel, id, held, timed, alive>>

\* vipc_sem_grab_nowait takes a unit if there is one.
GrabNowait(p) ==
    /\ pc[p] = "idle"
    /\ held[p] = 0
    /\ id[p] # 0
    /\ TakeUnit(p)
    /\ UNCHANGED <<set, last, inited, pc, id, timed, alive>>

\* Mutant of Free: it is called without a unit.
FreeUnheld(p) ==
    /\ pc[p] = "idle"
    /\ id[p] # 0
    /\ IF set = id[p] THEN val' = val + 1 /\ otime' = TRUE ELSE UNCHANGED <<val, otime>>
    /\ held' = [held EXCEPT ![p] = @ - 1]
    /\ UNCHANGED <<set, last, inited, pc, id, timed, alive>>

\* Mutant of Free: the unit does not come back.
FreeLost(p) ==
    /\ pc[p] = "idle"
    /\ held[p] > 0
    /\ held' = [held EXCEPT ![p] = @ - 1]
    /\ UNCHANGED <<set, last, val, otime, inited, pc, id, timed, alive>>

\* vipc_sem_free, by the process that has the unit.
Free(p) ==
    /\ pc[p] = "idle"
    /\ held[p] > 0
    /\ IF set = id[p] THEN val' = val + 1 /\ otime' = TRUE ELSE UNCHANGED <<val, otime>>
    /\ held' = [held EXCEPT ![p] = @ - 1]
    /\ UNCHANGED <<set, last, inited, pc, id, timed, alive>>

\* vipc_sem_destory removes the set the caller works with.
Destory(p) ==
    /\ pc[p] = "idle"
    /\ set # 0 /\ set = id[p]
    /\ set' = 0 /\ val' = 0 /\ otime' = FALSE /\ inited' = FALSE
    /\ UNCHANGED <<last, pc, id, held, timed, alive>>

\* A process ends; sem_flg is 0 in every operation, so nothing is undone.
Die(p) ==
    /\ MayDie
    /\ alive' = alive \ {p}
    /\ UNCHANGED <<kernel, pc, id, held, timed>>

SemStep(p) ==
    \/ CreateSetAll(p) \/ GetIdSafeRecheck(p) \/ Grab(p) \/ GrabFails(p) \/ Free(p)

SemCall(p) ==
    \/ CreateGet(p) \/ GetId(p) \/ GetIdSafe(p) \/ GrabNowait(p) \/ Destory(p)
    \/ \E t \in Timed : GrabCall(p, t)

Next == \E p \in alive : SemStep(p) \/ SemCall(p) \/ GrabInterrupted(p) \/ Die(p)

Spec == Init /\ [][Next]_vars

\* Processes that can go on do, and free what they grabbed; the kernel serves
\* the sleepers of a semaphore in order.
FairSpec ==
    /\ Spec
    /\ \A p \in Procs : /\ WF_vars(p \in alive /\ SemStep(p))
                        /\ SF_vars(p \in alive /\ Grab(p))

-----------------------------------------------------------------------------
TypeOK ==
    /\ set \in 0..last
    /\ last \in 0..MaxSets
    /\ val \in 0..Num
    /\ otime \in BOOLEAN /\ inited \in BOOLEAN
    /\ pc \in [Procs -> PC]
    /\ id \in [Procs -> 0..last]
    /\ held \in [Procs -> 0..1]
    /\ timed \in [Procs -> BOOLEAN]
    /\ alive \subseteq Procs

Holders == {p \in Procs : id[p] = set /\ held[p] = 1}

\* Once SETALL is done, free units and grabbed units add up to the initial
\* value, though a process may look the identifier up before SETALL, wait on
\* the bare set, time out or die with its unit.
UnitsConserved ==
    set # 0 /\ inited => val + Cardinality(Holders) = Num

\* What vipc_sem_getid_safe is for: a process that it gives the identifier of a
\* set finds the set initialised, because only a completed semop sets
\* sem_otime and none completes before SETALL.
SafeGetidInitialised ==
    [][\A p \in alive :
          pc[p] = "idle" /\ GetIdSafe(p) /\ pc'[p] = "idle" => inited]_vars

\* A process that waits for a unit of an initialised set gets it, or the call
\* ends in another way: it never waits for ever, unless it dies or a process has
\* died with a unit, which nothing gives back.
GrabReturns ==
    \A p \in Procs :
        (pc[p] = "grab" /\ inited) ~>
            \/ pc[p] # "grab"
            \/ p \notin alive
            \/ ~(Holders \subseteq alive)

\* A set is used within its bounds and its units are all accounted for.
UnitsSound == TypeOK /\ UnitsConserved

=============================================================================
