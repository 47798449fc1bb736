----------------------------- MODULE ZlogRotate -----------------------------
(***************************************************************************)
(* Writing a log file and rotating it when it is full                      *)
(* (fram/module/log/src/rule.c, rotater.c): the threads of several         *)
(* processes append to the file and move it among its archives, each       *)
(* system call a step, under a mutex of the process and a lock on a file.  *)
(* A file is the number of its creation, an archive is known by its index, *)
(* and every message has length 1.                                         *)
(***************************************************************************)
EXTENDS Integers, FiniteSets, SequencesExt

CONSTANTS Writers,       \* threads that log
          Owner,         \* the process of each
          MaxSize,       \* archive_max_size
          MaxCount,      \* archive_max_count
          MaxWrites,     \* bound: messages written
          MaxFaults      \* bound: processes that end and calls that fail

ASSUME RotateAssumption ==
    /\ Owner \in [Writers -> Nat \ {0}]
    /\ MaxSize \in Nat \ {0} /\ MaxCount \in Nat \ {0}

VARIABLES
    mvType,      \* a_rotater->mv_type: "roll" (aa.1 -> aa.2) or "seq" (aa -> aa.3)
    base,        \* the file at base_path, 0 for none
    archive,     \* the file at each index that has an archive
    size,        \* the size of each file ever created
    mutex,       \* lock_mutex of each process: whether it is held
    flock,       \* the process that has the lock on lock_fd, 0 for none
    wpc,         \* what each thread does next
    cursor,      \* the file each thread has open, then its place in its list of files
    files,       \* a_rotater->files of each thread: the indexes it found
    written, faults

rotateVars == <<mvType, base, archive, size, mutex, flock, wpc, cursor, files, written, faults>>

RotateInit ==
    /\ mvType \in {"roll", "seq"}
    /\ base = 0 /\ archive = <<>> /\ size = <<>>
    /\ mutex = [w \in Writers |-> FALSE] /\ flock = 0
    /\ wpc = [w \in Writers |-> "idle"] /\ cursor = [w \in Writers |-> 0]
    /\ files = [w \in Writers |-> <<>>]
    /\ written = 0 /\ faults = 0

Mutex(w) == CHOOSE v \in Writers : Owner[v] = Owner[w]
At(w, here, there) == wpc[w] = here /\ wpc' = [wpc EXCEPT ![w] = there]
KeepFiles == UNCHANGED <<mvType, base, archive, size, written, faults>>
KeepLocks == UNCHANGED <<mutex, flock>>

-----------------------------------------------------------------------------
(***************************************************************************)
(* zlog_rule_output_static_file_rotate                                     *)
(***************************************************************************)

\* Mutant of Open: without O_CREAT.
OpenNoCreate(w) ==
    /\ written < MaxWrites /\ At(w, "idle", "write")
    /\ cursor' = [cursor EXCEPT ![w] = base]
    /\ written' = written + 1
    /\ UNCHANGED <<mvType, base, size, archive, files, faults>> /\ KeepLocks

\* open with O_CREAT and O_APPEND
Open(w) ==
    /\ written < MaxWrites /\ At(w, "idle", "write")
    /\ IF base = 0 THEN base' = Len(size) + 1 /\ size' = Append(size, 0)
                   ELSE UNCHANGED <<base, size>>
    /\ cursor' = [cursor EXCEPT ![w] = base']
    /\ written' = written + 1
    /\ UNCHANGED <<mvType, archive, files, faults>> /\ KeepLocks

\* write goes to the file that was opened, wherever it has been moved since
Write(w) ==
    /\ At(w, "write", "stat")
    /\ size' = [size EXCEPT ![cursor[w]] = @ + 1]
    /\ cursor' = [cursor EXCEPT ![w] = 0]
    /\ UNCHANGED <<mvType, base, archive, files, written, faults>> /\ KeepLocks

\* "maybe in rotating", or not so big
Stat(w) ==
    /\ At(w, "stat", IF base = 0 \/ size[base] + 1 < MaxSize THEN "idle" ELSE "mutex")
    /\ KeepFiles /\ KeepLocks /\ UNCHANGED <<cursor, files>>

-----------------------------------------------------------------------------
(***************************************************************************)
(* zlog_rotater_rotate                                                     *)
(***************************************************************************)

\* Mutant of TryMutex: only the lock on the file is tried.
TryMutexNever(w) ==
    /\ At(w, "mutex", "flock")
    /\ KeepFiles /\ UNCHANGED <<mutex, flock, cursor, files>>

\* pthread_mutex_trylock: another thread of the process rotates, so this one does not
TryMutex(w) ==
    /\ At(w, "mutex", IF mutex[Mutex(w)] THEN "idle" ELSE "flock")
    /\ mutex' = [mutex EXCEPT ![Mutex(w)] = TRUE]
    /\ KeepFiles /\ UNCHANGED <<flock, cursor, files>>

\* fcntl(F_SETLK): a process is never kept out by a lock of its own
TryFlock(w) ==
    /\ IF flock \in {0, Owner[w]}
       THEN At(w, "flock", "restat") /\ flock' = Owner[w] /\ UNCHANGED mutex
       ELSE At(w, "flock", "idle") /\ mutex' = [mutex EXCEPT ![Mutex(w)] = FALSE] /\ UNCHANGED flock
    /\ KeepFiles /\ UNCHANGED <<cursor, files>>

\* It "may already be rotated by another process or thread".
Restat(w) ==
    /\ At(w, "restat", IF base = 0 \/ size[base] + 1 <= MaxSize THEN "unlock" ELSE "list")
    /\ KeepFiles /\ KeepLocks /\ UNCHANGED <<cursor, files>>

\* zlog_rotater_add_archive_files: glob, sorted by index
List(w) ==
    /\ At(w, "list", "move")
    /\ \E list \in [1 .. Cardinality(DOMAIN archive) -> DOMAIN archive] :
          /\ ToSet(list) = DOMAIN archive
          /\ \A i, j \in DOMAIN list : i < j => list[i] < list[j]
          /\ files' = [files EXCEPT ![w] = list]
    /\ cursor' = [cursor EXCEPT ![w] = IF mvType = "roll" THEN Cardinality(DOMAIN archive) ELSE 1]
    /\ KeepFiles /\ KeepLocks

Unlink(i) == archive' = [j \in DOMAIN archive \ {i} |-> archive[j]]
Rename(i, k) ==
    archive' = [j \in (DOMAIN archive \ {i}) \cup {k} |-> IF j = k THEN archive[i] ELSE archive[j]]

\* Mutant of RollFiles: one archive too many is kept.
RollFilesKeeping(w) ==
    LET k == cursor[w] IN
    /\ mvType = "roll" /\ k > 0
    /\ At(w, "move", "move")
    /\ IF k > MaxCount THEN Unlink(files[w][k]) ELSE Rename(files[w][k], k)
    /\ cursor' = [cursor EXCEPT ![w] = k - 1]
    /\ UNCHANGED <<mvType, base, size, files, written, faults>> /\ KeepLocks

\* One round of the loop of zlog_rotater_roll_files, from the last file of
\* the list to the first: the k-th becomes archive k, those beyond the count go.
RollFiles(w) ==
    LET k == cursor[w] IN
    /\ mvType = "roll" /\ k > 0
    /\ At(w, "move", "move")
    /\ IF k >= MaxCount THEN Unlink(files[w][k]) ELSE Rename(files[w][k], k)
    /\ cursor' = [cursor EXCEPT ![w] = k - 1]
    /\ UNCHANGED <<mvType, base, size, files, written, faults>> /\ KeepLocks

\* One round of the loop of zlog_rotater_seq_files: the oldest go.
SeqFiles(w) ==
    LET k == cursor[w] IN
    /\ mvType = "seq" /\ k <= Len(files[w]) - MaxCount
    /\ At(w, "move", "move")
    /\ Unlink(files[w][k])
    /\ cursor' = [cursor EXCEPT ![w] = k + 1]
    /\ UNCHANGED <<mvType, base, size, files, written, faults>> /\ KeepLocks

\* Mutant of NewIndex: the number of archives is the next index.
NewIndexCounted(list) == IF mvType = "roll" THEN 0 ELSE Len(list)
\* Mutant of NewIndex: the first number that is free.
NewIndexFree(list) ==
    IF mvType = "roll" THEN 0 ELSE CHOOSE j \in 0 .. Len(list) : j \notin ToSet(list)
\* The index that base_path moves to: 0, or the one after the last.
NewIndex(list) ==
    IF mvType = "roll" \/ list = <<>> THEN 0
    ELSE (IF Last(list) > Len(list) - 1 THEN Last(list) ELSE Len(list) - 1) + 1

MoveBase(w) ==
    /\ IF mvType = "roll" THEN cursor[w] = 0 ELSE cursor[w] > Len(files[w]) - MaxCount
    /\ At(w, "move", "unlock")
    /\ archive' = [j \in DOMAIN archive \cup {NewIndex(files[w])} |->
                      IF j = NewIndex(files[w]) THEN base ELSE archive[j]]
    /\ base' = 0
    /\ cursor' = [cursor EXCEPT ![w] = 0] /\ files' = [files EXCEPT ![w] = <<>>]
    /\ UNCHANGED <<mvType, size, written, faults>> /\ KeepLocks

\* An unlink or a rename that fails ends the rotation where it is.
MoveFails(w) ==
    /\ faults < MaxFaults /\ faults' = faults + 1
    /\ At(w, "move", "unlock")
    /\ cursor' = [cursor EXCEPT ![w] = 0] /\ files' = [files EXCEPT ![w] = <<>>]
    /\ UNCHANGED <<mvType, base, archive, size, written>> /\ KeepLocks

\* zlog_rotater_unlock
UnlockRotater(w) ==
    /\ At(w, "unlock", "idle")
    /\ flock' = 0 /\ mutex' = [mutex EXCEPT ![Mutex(w)] = FALSE]
    /\ KeepFiles /\ UNCHANGED <<cursor, files>>

\* A process ends anywhere, the kernel gives its lock back, and it is started again.
Crash(w) ==
    /\ faults < MaxFaults /\ faults' = faults + 1
    /\ \E v \in Writers : Owner[v] = Owner[w] /\ wpc[v] # "idle"
    /\ LET mine == {v \in Writers : Owner[v] = Owner[w]} IN
       /\ wpc' = [v \in Writers |-> IF v \in mine THEN "idle" ELSE wpc[v]]
       /\ cursor' = [v \in Writers |-> IF v \in mine THEN 0 ELSE cursor[v]]
       /\ files' = [v \in Writers |-> IF v \in mine THEN <<>> ELSE files[v]]
    /\ mutex' = [mutex EXCEPT ![Mutex(w)] = FALSE]
    /\ flock' = IF flock = Owner[w] THEN 0 ELSE flock
    /\ UNCHANGED <<mvType, base, archive, size, written>>

RotateNext ==
    \/ \E w \in Writers : Open(w)
    \/ \E w \in Writers : Write(w)
    \/ \E w \in Writers : Stat(w)
    \/ \E w \in Writers : TryMutex(w)
    \/ \E w \in Writers : TryFlock(w)
    \/ \E w \in Writers : Restat(w)
    \/ \E w \in Writers : List(w)
    \/ \E w \in Writers : RollFiles(w)
    \/ \E w \in Writers : SeqFiles(w)
    \/ \E w \in Writers : MoveBase(w)
    \/ \E w \in Writers : MoveFails(w)
    \/ \E w \in Writers : UnlockRotater(w)
    \/ \E w \in Writers : Crash(w)

RotateSpec == RotateInit /\ [][RotateNext]_rotateVars

-----------------------------------------------------------------------------
Rotating == {w \in Writers : wpc[w] \in {"restat", "list", "move", "unlock"}}
Present == {archive[i] : i \in DOMAIN archive} \cup ({base} \ {0})

RotateTypeOK ==
    /\ mvType \in {"roll", "seq"} /\ base \in 0 .. Len(size)
    /\ DOMAIN archive \subseteq Nat /\ \A i \in DOMAIN archive : archive[i] \in 1 .. Len(size)
    /\ size \in Seq(Nat) /\ flock \in {0} \cup {Owner[w] : w \in Writers}
    /\ wpc \in [Writers -> {"idle", "write", "stat", "mutex", "flock", "restat", "list", "move", "unlock"}]
    /\ cursor \in [Writers -> Nat] /\ \A w \in Writers : wpc[w] = "write" => cursor[w] # 0

\* One thread of all processes moves files at a time: the lock on the file
\* does not keep out a thread of the same process, the mutex only does that.
OneRotates == Cardinality(Rotating) <= 1

\* Whatever was interrupted between two renames, the archives are in the
\* order in which the files were begun, and the file itself is the newest.
ArchivesByAge ==
    /\ \A i, j \in DOMAIN archive :
          i < j => IF mvType = "roll" THEN archive[i] > archive[j] ELSE archive[i] < archive[j]
    /\ \A i \in DOMAIN archive : base # 0 => archive[i] < base

\* There are never more archives than archive_max_count, or one more when
\* they are numbered in sequence: that one deletes before it adds.
CountKept ==
    Cardinality(DOMAIN archive) <= IF mvType = "roll" THEN MaxCount ELSE MaxCount + 1

\* The rotation of a file, whatever fails or ends in the middle: one thread at a time
\* moves files, and the archives keep their order and their number (rotater.c).
RotateSound == RotateTypeOK /\ OneRotates /\ ArchivesByAge /\ CountKept

\* No rename ever falls on another archive, even after a rotation that broke
\* off left a hole in the numbers: a file only goes when it is the oldest and
\* the archives are at their number.
OldestGoFirst ==
    [][\A f \in Present \ Present' :
          /\ \A g \in Present : f <= g
          /\ Cardinality(DOMAIN archive) >= MaxCount]_rotateVars

=============================================================================
