------------------------------- MODULE ArrShm -------------------------------
(***************************************************************************)
(* The array in shared memory of fram/module/ipc/src/arrshm.c.  The module *)
(* leaves the locking to its users: here they take the write lock          *)
(* (ArrShmWlocked) around each call, and can die at any step: nothing is   *)
(* undone then, neither what they have written nor the lock, which stays   *)
(* taken until somebody gives it back without having it (nothing looks for *)
(* the owner) or removes the segment with its semaphores.                  *)
(***************************************************************************)
EXTENDS Integers, FiniteSets

CONSTANTS Users,       \* processes
          BlockNum,    \* TotalBlockNum of the formatted segment
          ShmInserts, ShmDeaths, ShmFormats    \* bounds

ASSUME ArrShmAssumption == BlockNum \in Nat \ {0} /\ ShmInserts \in Nat

Unheld == "unheld"
Abandoned == "lost"                   \* taken by a process that has died
Blocks == 1..BlockNum
Past == BlockNum + 1          \* what follows the last block
Unwritten == 0                   \* the data of a block that was never written

VARIABLES
    seg,        \* the segment: "none", "made" (InitFlag 0) or "formatted"
    unuse,      \* UnUseBlockNum
    flag,       \* the first word of each block: "dirty", "clean" or "other"
    data,       \* the data of each block: the number of an insertion
    shmlock,    \* the user that holds the write lock, Abandoned or Unheld
    upc,        \* what each user does next
    at,         \* the block it has found or wants to delete
    kept,       \* the insertions that ended and were not deleted, with their blocks (not in
                \* the code)
    left,       \* how far the user whose lock is lost may have left the count out: by
                \* one, or by all in the middle of a format (not in the code)
    drift,      \* the same for those whose lock was given back (not in the code)
    spilt,      \* data was written over the end of a block (not in the code)
    inserts, formats, deaths

shmVars == <<seg, unuse, flag, data, shmlock, upc, at, kept, left, drift, spilt, inserts, formats, deaths>>
segment == <<seg, unuse, flag, data>>
bounds == <<left, drift, inserts, formats, deaths>>

ShmInit ==
    /\ seg = "none" /\ unuse = 0
    /\ flag = [b \in Blocks |-> "other"] /\ data = [b \in Blocks |-> Unwritten]
    /\ shmlock = Unheld
    /\ upc = [u \in Users |-> "out"] /\ at = [u \in Users |-> Past]
    /\ kept = {} /\ left = 0 /\ drift = 0 /\ deaths = 0 /\ spilt = FALSE /\ inserts = 0 /\ formats = 0

Moves(u, s) == upc' = [upc EXCEPT ![u] = s]

\* ArrShmCreate: there is one segment with the key; its head says that it is
\* not formatted.
ArrShmCreate(u) ==
    /\ seg = "none" /\ upc[u] = "out"
    /\ seg' = "made"
    /\ UNCHANGED <<unuse, flag, data, shmlock, upc, at, kept, spilt, bounds>>

ArrShmWlocked(u) ==
    /\ seg # "none" /\ upc[u] = "out" /\ shmlock = Unheld
    /\ shmlock' = u /\ Moves(u, "in")
    /\ UNCHANGED <<segment, at, kept, spilt, bounds>>

ArrShmWunlock(u) ==
    /\ upc[u] = "in" /\ shmlock' = Unheld /\ Moves(u, "out")
    /\ UNCHANGED <<segment, at, kept, spilt, bounds>>

\* ArrShmFormat: the head, which says from now on that it is formatted, ...
FormatHead(u) ==
    /\ upc[u] = "in" /\ formats < ShmFormats
    /\ seg' = "formatted" /\ unuse' = BlockNum /\ formats' = formats + 1
    /\ kept' = {} /\ Moves(u, "clear")
    /\ UNCHANGED <<flag, data, shmlock, at, spilt, left, drift, inserts, deaths>>

\* ... and then the blocks.
FormatClear(u) ==
    /\ upc[u] = "clear"
    /\ flag' = [b \in Blocks |-> "clean"] /\ data' = [b \in Blocks |-> Unwritten]
    /\ drift' = 0 /\ Moves(u, "in")
    /\ UNCHANGED <<seg, unuse, shmlock, at, kept, spilt, left, inserts, formats, deaths>>

\* Mutant of FirstFree: the first block.
FirstAny == 1

\* The first block that is not in use; Past, if there is none.
FirstFree == LET free == {b \in Blocks : flag[b] # "dirty"} \cup {Past}
             IN  CHOOSE b \in free : \A c \in free : b <= c

\* Mutant of InsertFind: the count is not asked.
InsertFindAnyway(u) ==
    /\ upc[u] = "in" /\ seg = "formatted" /\ inserts < ShmInserts
    /\ at' = [at EXCEPT ![u] = FirstFree] /\ inserts' = inserts + 1
    /\ Moves(u, "copy")
    /\ UNCHANGED <<segment, shmlock, kept, left, drift, formats, spilt, deaths>>

\* ArrShmInsert: the head is looked at, and a block is searched ...
InsertFind(u) ==
    /\ upc[u] = "in" /\ seg = "formatted" /\ unuse > 0 /\ inserts < ShmInserts
    /\ at' = [at EXCEPT ![u] = FirstFree] /\ inserts' = inserts + 1
    /\ Moves(u, "copy")
    /\ UNCHANGED <<segment, shmlock, kept, left, drift, formats, spilt, deaths>>

\* ... the data is copied behind its first word: the length was compared with
\* the size of the block and its first word, so that up to a word too much is
\* let through, over the first word of the next block ...
InsertCopy(u) ==
    /\ upc[u] = "copy"
    /\ \E long \in BOOLEAN :
        /\ data' = [b \in Blocks |-> IF b = at[u] THEN inserts ELSE data[b]]
        /\ flag' = [b \in Blocks |-> IF long /\ b = at[u] + 1 THEN "other" ELSE flag[b]]
        /\ spilt' = (spilt \/ long \/ at[u] = Past)
    /\ Moves(u, "mark")
    /\ UNCHANGED <<seg, unuse, shmlock, at, kept, bounds>>

\* ... the block is marked ...
InsertMark(u) ==
    /\ upc[u] = "mark"
    /\ flag' = [b \in Blocks |-> IF b = at[u] THEN "dirty" ELSE flag[b]]
    /\ kept' = kept \cup {[at |-> b, of |-> inserts] : b \in {at[u]} \cap Blocks}
    /\ Moves(u, "less")
    /\ UNCHANGED <<seg, unuse, data, shmlock, at, spilt, bounds>>

\* Mutant of InsertCount: the count goes the other way.
InsertCountUp(u) ==
    /\ upc[u] = "less" /\ unuse' = unuse + 1 /\ Moves(u, "in")
    /\ UNCHANGED <<seg, flag, data, shmlock, at, kept, spilt, bounds>>

\* ... and counted.  The segment stays mapped.
InsertCount(u) ==
    /\ upc[u] = "less" /\ unuse' = unuse - 1 /\ Moves(u, "in")
    /\ UNCHANGED <<seg, flag, data, shmlock, at, kept, spilt, bounds>>

\* ArrShmDelete, of a block for which ArrShmBlockAssert says DIRTY, in two steps
DeleteMark(u) ==
    /\ upc[u] = "in" /\ seg = "formatted"
    /\ \E b \in Blocks :
        /\ flag[b] = "dirty"
        /\ flag' = [flag EXCEPT ![b] = "clean"]
        /\ kept' = {k \in kept : k.at # b}
    /\ Moves(u, "more")
    /\ UNCHANGED <<seg, unuse, data, shmlock, at, spilt, bounds>>

DeleteCount(u) ==
    /\ upc[u] = "more" /\ unuse' = unuse + 1 /\ Moves(u, "in")
    /\ UNCHANGED <<seg, flag, data, shmlock, at, kept, spilt, bounds>>

\* Mutant of Perish: the kernel gives the lock back.
PerishUndone(u) ==
    /\ upc[u] # "out" /\ deaths < ShmDeaths
    /\ shmlock' = Unheld /\ Moves(u, "out") /\ deaths' = deaths + 1
    /\ UNCHANGED <<segment, at, kept, left, drift, spilt, inserts, formats>>

\* The end of a process between two steps; another one takes its place.  The
\* semaphores are taken without SEM_UNDO.
Perish(u) ==
    /\ upc[u] # "out" /\ deaths < ShmDeaths
    /\ shmlock' = Abandoned /\ Moves(u, "out")
    /\ left' = IF upc[u] = "clear" THEN BlockNum ELSE 1
    /\ deaths' = deaths + 1
    /\ UNCHANGED <<segment, at, kept, drift, spilt, inserts, formats>>

\* ArrShmWunlock of somebody who does not have the lock, for one who died with it
GiveBack(u) ==
    /\ upc[u] = "out" /\ shmlock = Abandoned
    /\ shmlock' = Unheld /\ drift' = drift + left /\ left' = 0
    /\ UNCHANGED <<segment, upc, at, kept, spilt, inserts, formats, deaths>>

\* ArrShmDestroy, by anybody at any time: who is inside goes on in memory that
\* nobody else finds any more.
ArrShmDestroy(u) ==
    /\ seg # "none" /\ upc[u] = "out"
    /\ seg' = "none" /\ unuse' = 0
    /\ flag' = [b \in Blocks |-> "other"] /\ data' = [b \in Blocks |-> Unwritten]
    /\ shmlock' = Unheld /\ upc' = [v \in Users |-> "out"]
    /\ kept' = {} /\ left' = 0 /\ drift' = 0 /\ spilt' = FALSE
    /\ UNCHANGED <<at, inserts, formats, deaths>>

ShmNext == \E u \in Users :
    \/ ArrShmCreate(u) \/ ArrShmWlocked(u) \/ ArrShmWunlock(u)
    \/ FormatHead(u) \/ FormatClear(u)
    \/ InsertFind(u) \/ InsertCopy(u) \/ InsertMark(u) \/ InsertCount(u)
    \/ DeleteMark(u) \/ DeleteCount(u)
    \/ Perish(u) \/ GiveBack(u) \/ ArrShmDestroy(u)

-----------------------------------------------------------------------------
ShmTypeOK ==
    /\ seg \in {"none", "made", "formatted"} /\ unuse \in Int
    /\ flag \in [Blocks -> {"dirty", "clean", "other"}] /\ data \in [Blocks -> 0..ShmInserts]
    /\ shmlock \in Users \cup {Unheld, Abandoned} /\ at \in [Users -> 1..Past]
    /\ upc \in [Users -> {"out", "in", "clear", "copy", "mark", "less", "more"}]
    /\ \A u \in Users : upc[u] # "out" <=> shmlock = u
    /\ left # 0 <=> shmlock = Abandoned
    /\ \A k \in kept : k.at \in Blocks /\ k.of \in 1..ShmInserts

\* A block that was taken and not given back has its data, as long as all data
\* fits: a process that dies on the way costs nobody else what is stored.
ShmKept ==
    ~spilt /\ (\A u \in Users : upc[u] # "clear") =>
        \A k \in kept : flag[k.at] = "dirty" /\ data[k.at] = k.of

\* Between the calls the count of unused blocks is exact, even if somebody has
\* died inside, for nobody comes in after him: it is out by one, at most, for every
\* one whose lock another one has given back, until the next format.
CountDrifts ==
    ~spilt /\ shmlock = Unheld /\ seg = "formatted" =>
        LET free == Cardinality({b \in Blocks : flag[b] # "dirty"})
        IN  unuse - free \in (0 - drift)..drift

\* No data is written behind the last block unless a lock was given back for one
\* who died: only a count that is too high lets a call go on without a block.
NothingPast == drift = 0 /\ ~spilt => \A u \in Users : upc[u] = "copy" => at[u] # Past

=============================================================================
