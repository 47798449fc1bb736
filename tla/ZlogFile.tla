------------------------------ MODULE ZlogFile ------------------------------
(***************************************************************************)
(* Writing to a file that another program may move away                    *)
(* (zlog_rule_output_static_file_single of fram/module/log/src/rule.c):    *)
(* the threads of the process, which hold zlog_env_lock only for reading,  *)
(* share the descriptor and the inode that the rule keeps.  Each system    *)
(* call is a step; a file is the number of its creation.                   *)
(***************************************************************************)
EXTENDS Integers, FiniteSets

CONSTANTS FileThreads,
          FileMsgs, FileMoves, FileFaults   \* bounds: messages, moves, other files and failures

ASSUME FileAssumption == IsFiniteSet(FileThreads)

VARIABLES
    atPath,      \* the file at a_rule->file_path, 0 for none
    created,     \* files created so far
    open,        \* the open descriptors: the file of each, 0 for one that is not a log file
    static,      \* a_rule->static_fd (-1 if open failed) and static_ino
    fpc, stb,    \* what each thread does next, and what stat told it
    mine,        \* what open gave to each thread, until it is stored
    crowded,     \* a thread was in the function while another changed the
                 \* descriptor or the inode (not in the code)
    raced,       \* the file was moved between an open and the store of its descriptor or
                 \* the stat after it (not in the code)
    astray,      \* a message or a close went to another file (not in the code)
    fileMsgs, fileMoves, fileFaults    \* how many there were

zfVars == <<atPath, created, open, static, fpc, stb, mine, crowded, raced, astray,
            fileMsgs, fileMoves, fileFaults>>
ghosts == <<crowded, raced, astray>>
fileBounds == <<fileMsgs, fileMoves, fileFaults>>

\* zlog_rule_new has opened the file.
FileInit ==
    /\ atPath = 1 /\ created = 1
    /\ open = [d \in {0} |-> 1] /\ static = [fd |-> 0, ino |-> 1]
    /\ fpc = [t \in FileThreads |-> "idle"] /\ stb = [t \in FileThreads |-> 0]
    /\ mine = [t \in FileThreads |-> -1]
    /\ crowded = FALSE /\ raced = FALSE /\ astray = FALSE
    /\ fileMsgs = 0 /\ fileMoves = 0 /\ fileFaults = 0

Step(t, here, there) == fpc[t] = here /\ fpc' = [fpc EXCEPT ![t] = there]
LowestFree == CHOOSE d \in 0 .. Cardinality(DOMAIN open) :
                  d \notin DOMAIN open /\ \A e \in 0 .. d - 1 : e \in DOMAIN open
Opened(d, f) == [e \in DOMAIN open \cup {d} |-> IF e = d THEN f ELSE open[e]]
Others(t) == \E u \in FileThreads \ {t} : fpc[u] # "idle"

\* The first stat: whether the file at the path is the one that is open.
StatFile(t) ==
    /\ fileMsgs < FileMsgs /\ fileMsgs' = fileMsgs + 1
    /\ Step(t, "idle", IF atPath = static.ino THEN "write" ELSE "close")
    /\ stb' = [stb EXCEPT ![t] = atPath]
    /\ UNCHANGED <<atPath, created, open, static, mine, ghosts, fileMoves, fileFaults>>

\* Mutant of CloseFile: the descriptor is left open.
CloseNot(t) ==
    /\ Step(t, "close", "open")
    /\ crowded' = (crowded \/ Others(t)) /\ UNCHANGED <<open, astray>>
    /\ UNCHANGED <<atPath, created, static, stb, mine, raced, fileBounds>>

\* close(a_rule->static_fd), whatever that descriptor is by now
CloseFile(t) ==
    /\ Step(t, "close", "open")
    /\ open' = [d \in DOMAIN open \ {static.fd} |-> open[d]]
    /\ astray' = (astray \/ (static.fd \in DOMAIN open /\ open[static.fd] = 0))
    /\ crowded' = (crowded \/ Others(t))
    /\ UNCHANGED <<atPath, created, static, stb, mine, raced, fileBounds>>

\* open with O_CREAT
OpenFile(t) ==
    /\ Step(t, "open", "keep")
    /\ LET f == IF atPath = 0 THEN created + 1 ELSE atPath IN
       /\ atPath' = f /\ created' = IF atPath = 0 THEN f ELSE created
       /\ open' = Opened(LowestFree, f)
       /\ mine' = [mine EXCEPT ![t] = LowestFree]
    /\ UNCHANGED <<static, stb, ghosts, fileBounds>>

OpenFails(t) ==
    /\ fileFaults < FileFaults /\ fileFaults' = fileFaults + 1
    /\ Step(t, "open", "keep")
    /\ mine' = [mine EXCEPT ![t] = -1]
    /\ UNCHANGED <<atPath, created, open, static, stb, ghosts, fileMsgs, fileMoves>>

\* What open returned is stored, after whatever other threads have done since; a
\* file that was missing is looked at again.
KeepFile(t) ==
    /\ Step(t, "keep", IF mine[t] = -1 THEN "idle" ELSE IF stb[t] = 0 THEN "restat" ELSE "save")
    /\ static' = [static EXCEPT !.fd = mine[t]] /\ mine' = [mine EXCEPT ![t] = -1]
    /\ crowded' = (crowded \/ Others(t))
    /\ UNCHANGED <<atPath, created, open, stb, raced, astray, fileBounds>>

\* Mutant of RestatFile: its failure is passed over.
RestatAnyway(t) ==
    /\ Step(t, "restat", "save")
    /\ stb' = [stb EXCEPT ![t] = atPath]
    /\ UNCHANGED <<atPath, created, open, static, mine, ghosts, fileBounds>>

\* The second stat; it fails if the file has gone already.
RestatFile(t) ==
    /\ Step(t, "restat", IF atPath = 0 THEN "idle" ELSE "save")
    /\ stb' = [stb EXCEPT ![t] = atPath]
    /\ UNCHANGED <<atPath, created, open, static, mine, ghosts, fileBounds>>

\* Mutant of SaveInode: the newest file is taken for the one that was opened.
SaveAlways(t) ==
    /\ Step(t, "save", "write")
    /\ static' = [static EXCEPT !.ino = created] /\ crowded' = (crowded \/ Others(t))
    /\ UNCHANGED <<atPath, created, open, stb, mine, raced, astray, fileBounds>>

SaveInode(t) ==
    /\ Step(t, "save", "write")
    /\ static' = [static EXCEPT !.ino = stb[t]] /\ crowded' = (crowded \/ Others(t))
    /\ UNCHANGED <<atPath, created, open, stb, mine, raced, astray, fileBounds>>

\* write(a_rule->static_fd), which fails when nothing is open there; the fsync
\* that may follow changes nothing here
WriteFile(t) ==
    /\ Step(t, "write", "idle")
    /\ astray' = (astray \/ (static.fd \in DOMAIN open /\ open[static.fd] = 0))
    /\ UNCHANGED <<atPath, created, open, static, stb, mine, crowded, raced, fileBounds>>

\* Another program moves the file away, and may put a new one there.
MoveAway ==
    /\ fileMoves < FileMoves /\ fileMoves' = fileMoves + 1 /\ atPath # 0
    /\ \/ atPath' = 0 /\ UNCHANGED created
       \/ atPath' = created + 1 /\ created' = created + 1
    /\ raced' = (raced \/ \E t \in FileThreads : fpc[t] \in {"keep", "restat"})
    /\ UNCHANGED <<open, static, fpc, stb, mine, crowded, astray, fileMsgs, fileFaults>>

\* Another part of the process opens a file of its own.
OtherOpens ==
    /\ fileFaults < FileFaults /\ fileFaults' = fileFaults + 1
    /\ open' = Opened(LowestFree, 0)
    /\ crowded' = (crowded \/ \E t \in FileThreads : fpc[t] \in {"open", "keep"})
    /\ UNCHANGED <<atPath, created, static, fpc, stb, mine, raced, astray, fileMsgs, fileMoves>>

FileNext ==
    \/ \E t \in FileThreads : StatFile(t)
    \/ \E t \in FileThreads : CloseFile(t)
    \/ \E t \in FileThreads : OpenFile(t)
    \/ \E t \in FileThreads : OpenFails(t)
    \/ \E t \in FileThreads : KeepFile(t)
    \/ \E t \in FileThreads : RestatFile(t)
    \/ \E t \in FileThreads : SaveInode(t)
    \/ \E t \in FileThreads : WriteFile(t)
    \/ MoveAway
    \/ OtherOpens

FileSpec == FileInit /\ [][FileNext]_zfVars

-----------------------------------------------------------------------------
Resting == \A t \in FileThreads : fpc[t] = "idle"

FileTypeOK ==
    /\ atPath \in 0 .. created
    /\ \A d \in DOMAIN open : open[d] \in 0 .. created
    /\ static.ino \in 1 .. created /\ static.fd \in Nat \cup {-1}
    /\ \A t \in FileThreads : fpc[t] = "save" => stb[t] # 0

\* When all threads are through, the inode that the rule keeps says whether
\* its descriptor is the file at the path, however many of them found the file
\* moved at once and whichever of them stored last what it had opened: otherwise
\* every later message goes to the file that was moved.  It takes a move between an
\* open and the store of its descriptor or the stat after it to break this, or a
\* failure of open while another thread is about to save the inode.
InodeTellsTruth ==
    Resting /\ ~raced /\ ~(crowded /\ fileFaults > 0) /\ static.ino = atPath =>
        static.fd \in DOMAIN open /\ open[static.fd] = atPath

\* As long as no thread is in the function while another changes what the
\* rule keeps, no message and no close reaches a file of somebody else, and no
\* descriptor is left open.
OwnDescriptorOnly ==
    ~crowded => ~astray /\ Cardinality({d \in DOMAIN open : open[d] # 0}) <= 1

\* A rule writes to the file that has its path, on a descriptor of its own (rule.c).
FileSound == FileTypeOK /\ InodeTellsTruth /\ OwnDescriptorOnly

=============================================================================
