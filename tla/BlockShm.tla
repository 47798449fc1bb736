------------------------------ MODULE BlockShm ------------------------------
(***************************************************************************)
(* Blocks of records in shared memory: fram/module/ipc/src/blockshm.c over *)
(* the system calls of ipcshm.c and the read-write lock of ipcsem.c.       *)
(*                                                                         *)
(* A segment is a head and cells; data grows from the first cell up, the   *)
(* descriptions of the blocks from the last cell down, and a block exists  *)
(* for others once the head counts it.  Every function of the interface is *)
(* a program, the sequence of its steps; an error skips to the steps that  *)
(* leave it.  The functions with a lock are used by all processes at once, *)
(* those without one by one process at a time.                             *)
(***************************************************************************)
EXTENDS Naturals, Sequences, FiniteSets, SequencesExt

CONSTANTS Users,       \* the processes
          Contents,    \* the records a block is uploaded with, by its name
          Cap,         \* cells of a segment, one for a record or a description
          MaxSegs,     \* bound: segments made under the key
          Used,        \* bound: the blocks that are sorted and read, and the
                       \* only ones uploaded from the second segment on
          Extra        \* bound: the blocks uploaded only without a lock

ASSUME BlockShmAssumption ==
    /\ Cap \in Nat
    /\ MaxSegs \in Nat
    /\ Used \cup Extra \subseteq DOMAIN Contents
    /\ \A n \in DOMAIN Contents : Contents[n] \in Seq(Nat) /\ Contents[n] # <<>>

Names == DOMAIN Contents
Segs == 1..MaxSegs
None == 0

VARIABLES
    mode,      \* "safe": the functions with a lock are used, or "plain"
    shmkey,    \* the segment the key names
    semkey,    \* the semaphore set the key names, called after its segment
    made,      \* segments made so far
    head,      \* head[g]: fsize, pin_head, pin_tail and blocknum of segment g
    mem,       \* mem[g]: its cells
    writing, reading,   \* the locks, as in RWGate
    proc,      \* what process p has to do and has read, Idle outside of a call
    maps,      \* the segments it has mapped
    living,     \* the processes that have not ended
    content,   \* history: the records a visible block was uploaded with
    clean,     \* history: readers that no sort has crossed
    crossed    \* history: a lock or a description was used with another segment, or a
               \* block was uploaded to a head that its maker had not filled in

bsVars == <<mode, shmkey, semkey, made, head, mem, writing, reading, proc, maps,
          living, content, clean, crossed>>
keyVars == <<mode, shmkey, semkey, made>>
lockVars == <<writing, reading>>
segVars == <<head, mem, content>>
history == <<clean, crossed>>

BsGate == INSTANCE RWGate WITH Procs <- Users, Locks <- Segs

-----------------------------------------------------------------------------
(***************************************************************************)
(* The functions.                                                          *)
(***************************************************************************)
HeadFields == <<"fsize", "pin_head", "pin_tail", "blocknum">>
shm_init == <<"create", "mapnew">> \o HeadFields \o <<"close">>
shm_init_safe == <<"create", "semcreate", "mapnew">> \o HeadFields \o <<"close">>
shm_destroy == <<"getid", "rmshm">>
\* Mutant of shm_destroy_safe: the segment goes without the write lock.
DestroyUnlocked == <<"getid", "semid", "rmshm", "rmsem">>
shm_destroy_safe == <<"getid", "semid", "wlock", "rmshm", "rmsem">>
shm_getshminfo == <<"getid", "open", "readhead">>
shm_getshminfo_safe == <<"getid", "semid", "open", "rlock", "readhead", "runlock">>
shm_getblockinfo == <<"getid", "open", "find", "close">>
shm_getblockinfo_safe == <<"getid", "semid", "open", "rlock", "find", "runlock", "close">>
_shm_upload == <<"getid", "open", "check", "data", "desc", "puthead", "close">>
\* Mutant of _shm_upload_safe: the head counts the block before it is described.
UploadHeadFirst ==
    <<"getid", "semid", "open", "wlock", "check", "data", "puthead", "desc", "wunlock", "close">>
_shm_upload_safe ==
    <<"getid", "semid", "open", "wlock", "check", "data", "desc", "puthead", "wunlock", "close">>
shm_download == <<"getid", "open", "info", "copy", "close">>
shm_download_safe == <<"getid", "semid", "open", "rlock", "info", "copy", "runlock", "close">>
shm_select == <<"getid", "open", "find", "copy", "close">>
shm_select_safe == <<"getid", "semid", "open", "rlock", "find", "copy", "runlock", "close">>
shm_qsort == <<"getid", "open", "info", "sort", "flag", "close">>
\* Mutant of shm_qsort_safe: the flag is set before the block is sorted.
QsortFlagFirst ==
    <<"getid", "semid", "open", "wlock", "info", "flag", "sort", "wunlock", "close">>
shm_qsort_safe ==
    <<"getid", "semid", "open", "wlock", "info", "sort", "flag", "wunlock", "close">>
\* The guard lets only a null description pass, which is then used.
shm_setblockinfo_safe == <<"getid", "semid", "open", "wlock", "usenull">>

Plain == [init |-> shm_init, destroy |-> shm_destroy, shminfo |-> shm_getshminfo,
          blockinfo |-> shm_getblockinfo, upload |-> _shm_upload,
          download |-> shm_download, select |-> shm_select, qsort |-> shm_qsort]
Safe == [init |-> shm_init_safe, destroy |-> shm_destroy_safe,
         shminfo |-> shm_getshminfo_safe, blockinfo |-> shm_getblockinfo_safe,
         upload |-> _shm_upload_safe, download |-> shm_download_safe,
         select |-> shm_select_safe, qsort |-> shm_qsort_safe,
         setinfo |-> shm_setblockinfo_safe]

ByName == {"blockinfo", "upload", "download", "select", "qsort"}

-----------------------------------------------------------------------------
Free == [kind |-> "free"]
Record(k, i) == [kind |-> "data", key |-> k, id |-> i]
Key(c) == IF c.kind = "data" THEN c.key ELSE 0
Description(n, start, flag) ==
    [kind |-> "desc", name |-> n, pstart |-> start, num |-> Len(Contents[n]), sorted |-> flag]
RecordsOf(n) == [i \in 1..Len(Contents[n]) |-> Record(Contents[n][i], i)]

Blank == [i \in 1..Cap |-> Free]
NoContent == [n \in Names |-> <<>>]
NoHead == [fsize |-> 0, pin_head |-> 0, pin_tail |-> 0, blocknum |-> 0]
NoLocal == [head |-> NoHead, info |-> Free, at |-> 0, tmp |-> Free, buf |-> <<>>]
NewHead == [fsize |-> Cap, pin_head |-> 1, pin_tail |-> Cap + 1, blocknum |-> 0]

Idle == [pc |-> <<>>, fn |-> "none", name |-> "none", shm |-> None, sem |-> None,
         head |-> NoHead, info |-> Free, at |-> 0, tmp |-> Free, buf |-> <<>>]

\* The cells of the descriptions the head counts, and that of block n.
Visible(g) == {i \in 1..Cap : i > Cap - head[g].blocknum}
PlaceOf(g, n) == {i \in Visible(g) : mem[g][i].kind = "desc" /\ mem[g][i].name = n}
Has(g, n) == g # None /\ PlaceOf(g, n) # {}
InfoOf(g, n) == mem[g][CHOOSE i \in PlaceOf(g, n) : \A j \in PlaceOf(g, n) : j <= i]

\* A sort of segment g is, or was when its process ended, in the middle of a swap.
MidSwap(g) == \E p \in Users : proc[p].shm = g /\ proc[p].tmp # Free
Readers == {"download", "select"}

\* Bound: what happens after a crossing is not followed.
Runs(p) == p \in living /\ ~crossed
At(p, s) == Runs(p) /\ proc[p].pc # <<>> /\ Head(proc[p].pc) = s
Shm(p) == proc[p].shm
Mapped(g) == \E p \in living : g \in maps[p]
\* A removed segment can be mapped while another process maps it.
CanMap(g) == shmkey = g \/ Mapped(g)

\* Process p goes on with the state r, to its next step or out of the function.
BsGoto(p, r, steps) == proc' = [proc EXCEPT ![p] = IF steps = <<>> THEN Idle ELSE [r EXCEPT !.pc = steps]]
Go(p, r) == BsGoto(p, r, Tail(r.pc))
\* An error inside a function: what is left of it is unlocking and unmapping.
Leave(p) == BsGoto(p, proc[p], SelectSeq(proc[p].pc, LAMBDA s : s \in {"wunlock", "runlock", "close"}))
\* The function returns, unmapping its segment.
Return(p) == BsGoto(p, proc[p], <<>>) /\ maps' = [maps EXCEPT ![p] = @ \ {Shm(p)}]

BsInit ==
    /\ mode \in {"safe", "plain"}
    /\ shmkey = None /\ semkey = None /\ made = 0
    /\ head = [g \in Segs |-> NoHead]
    /\ mem = [g \in Segs |-> Blank]
    /\ BsGate!GateInit
    /\ proc = [p \in Users |-> Idle]
    /\ maps = [p \in Users |-> {}]
    /\ living = Users
    /\ content = [g \in Segs |-> NoContent]
    /\ clean = {} /\ crossed = FALSE

-----------------------------------------------------------------------------
\* A function is called; without locks only while nobody else is in one.  Its
\* first step, _vipc_shm_getid or _vipc_shm_create (with IPC_EXCL), is taken
\* with the call: when it fails nothing has happened.  What nobody maps of
\* the segments before a new one is gone.  Bound: one process
\* at a time keeps a segment mapped outside of a call.
BsCall(p, fn, name) ==
    LET r == [Idle EXCEPT !.fn = fn, !.name = name,
                          !.pc = IF mode = "safe" THEN Safe[fn] ELSE Plain[fn]]
    IN  /\ Runs(p) /\ proc[p] = Idle
        /\ fn = "shminfo" => \A q \in living : proc[q] = Idle => maps[q] = {}
        /\ mode = "plain" => \A q \in living : proc[q] = Idle
        /\ \/ /\ fn = "init" /\ shmkey = None /\ made < MaxSegs
              /\ made' = made + 1 /\ shmkey' = made + 1
              /\ Go(p, [r EXCEPT !.shm = made + 1])
              /\ head' = [g \in Segs |-> IF Mapped(g) THEN head[g] ELSE NoHead]
              /\ mem' = [g \in Segs |-> IF Mapped(g) THEN mem[g] ELSE Blank]
              /\ content' = [g \in Segs |-> IF Mapped(g) THEN content[g] ELSE NoContent]
           \/ /\ fn # "init" /\ shmkey # None
              /\ Go(p, [r EXCEPT !.shm = shmkey])
              /\ UNCHANGED <<made, shmkey, segVars>>
        /\ clean' = clean \ {p}
        /\ UNCHANGED <<mode, semkey, maps, living, crossed, lockVars>>

Calls(p) ==
    \/ mode = "plain" /\ \E fn \in DOMAIN Plain \ ByName : BsCall(p, fn, "none")
    \/ mode = "safe" /\ \E fn \in DOMAIN Safe \ ByName : BsCall(p, fn, "none")
    \/ mode = "plain" /\ made = 1 /\ \E n \in Names : BsCall(p, "upload", n)
    \/ mode = "safe" /\ made = 1 /\ \E n \in Names \ Extra : BsCall(p, "upload", n)
    \/ made > 1 /\ \E n \in Used : BsCall(p, "upload", n)
    \/ \E fn \in ByName \ {"upload"}, n \in Used : BsCall(p, fn, n)

\* vipc_sem_RWlock_create: when the old set is still there the new segment is
\* removed again.
SemCreate(p) ==
    /\ At(p, "semcreate")
    /\ \/ /\ semkey = None
          /\ semkey' = Shm(p)
          /\ Go(p, [proc[p] EXCEPT !.sem = Shm(p)])
          /\ UNCHANGED <<maps, shmkey>>
       \/ /\ semkey # None
          /\ shmkey' = IF shmkey = Shm(p) THEN None ELSE shmkey
          /\ Return(p)
          /\ UNCHANGED semkey
    /\ UNCHANGED <<mode, made, living, lockVars, segVars, history>>

\* The mapping of a new segment; when it fails the lock is removed.
MapNew(p) ==
    /\ At(p, "mapnew")
    /\ \/ /\ CanMap(Shm(p))
          /\ maps' = [maps EXCEPT ![p] = @ \cup {Shm(p)}]
          /\ Go(p, proc[p])
          /\ UNCHANGED semkey
       \/ /\ ~CanMap(Shm(p))
          /\ semkey' = IF semkey = proc[p].sem THEN None ELSE semkey
          /\ Return(p)
    /\ UNCHANGED <<mode, shmkey, made, living, lockVars, segVars, history>>

\* The head is filled in field by field, without the lock, when the key and the lock
\* are there already: the count, stored last, wipes the blocks of who came before.
InitHead(p) ==
    \E f \in ToSet(HeadFields) :
        /\ At(p, f)
        /\ head' = [head EXCEPT ![Shm(p)][f] = NewHead[f]]
        /\ crossed' = (crossed \/ (f = "blocknum" /\ head[Shm(p)].blocknum # 0))
        /\ Go(p, proc[p])
        /\ UNCHANGED <<mem, content, maps, living, clean, keyVars, lockVars>>

\* vipc_sem_RWlock_getid, after the look-up of the segment.
SemId(p) ==
    /\ At(p, "semid")
    /\ \/ semkey # None /\ Go(p, [proc[p] EXCEPT !.sem = semkey]) /\ UNCHANGED maps
       \/ semkey = None /\ Return(p)
    /\ UNCHANGED <<living, keyVars, lockVars, segVars, history>>

\* _vipc_shm_open.
Open(p) ==
    /\ At(p, "open")
    /\ \/ CanMap(Shm(p)) /\ maps' = [maps EXCEPT ![p] = @ \cup {Shm(p)}] /\ Go(p, proc[p])
       \/ ~CanMap(Shm(p)) /\ Return(p)
    /\ UNCHANGED <<living, keyVars, lockVars, segVars, history>>

Lock(p) ==
    /\ \/ At(p, "wlock") /\ BsGate!Wlocked(p, proc[p].sem)
       \/ At(p, "rlock") /\ BsGate!Rlocked(p, proc[p].sem)
    /\ semkey = proc[p].sem
    /\ Go(p, proc[p])
    /\ crossed' = (crossed \/ semkey # Shm(p))
    /\ UNCHANGED <<clean, maps, living, keyVars, segVars>>

\* The set has been removed, which wakes who waits for it, or overtime is over.
LockFails(p) ==
    /\ At(p, "wlock") \/ At(p, "rlock")
    /\ semkey # proc[p].sem \/ ~BsGate!Open(proc[p].sem)
    /\ Return(p)
    /\ UNCHANGED <<living, keyVars, lockVars, segVars, history>>

Unlock(p) ==
    /\ \/ At(p, "wunlock") /\ BsGate!Wunlock(p, proc[p].sem)
       \/ At(p, "runlock") /\ BsGate!Runlock(p, proc[p].sem)
    /\ Go(p, [Idle EXCEPT !.pc = proc[p].pc, !.shm = Shm(p)])
    /\ UNCHANGED <<maps, living, keyVars, segVars, history>>

\* _vipc_shm_close.
Close(p) ==
    /\ At(p, "close")
    /\ Return(p)
    /\ UNCHANGED <<living, keyVars, lockVars, segVars, history>>

\* _vipc_shm_destroy: the key is free at once, the memory when nobody maps it.
RmShm(p) ==
    /\ At(p, "rmshm")
    /\ shmkey' = IF shmkey = Shm(p) THEN None ELSE shmkey
    /\ Go(p, proc[p])
    /\ UNCHANGED <<mode, semkey, made, maps, living, lockVars, segVars, history>>

RmSem(p) ==
    /\ At(p, "rmsem")
    /\ semkey' = IF semkey = proc[p].sem THEN None ELSE semkey
    /\ writing' = {w \in writing : w[2] # proc[p].sem}
    /\ reading' = {w \in reading : w[2] # proc[p].sem}
    /\ Go(p, proc[p])
    /\ UNCHANGED <<mode, shmkey, made, maps, living, segVars, history>>

-----------------------------------------------------------------------------
\* Reading the head; shm_getshminfo never unmaps the segment.
ReadHead(p) ==
    /\ At(p, "readhead")
    /\ Go(p, [proc[p] EXCEPT !.head = head[Shm(p)]])
    /\ UNCHANGED <<maps, living, keyVars, lockVars, segVars, history>>

\* The description of a block is looked up in segment g.
LookUp(p, g) ==
    LET n == proc[p].name
    IN  /\ \/ /\ Has(g, n)
              /\ Go(p, [proc[p] EXCEPT !.info = InfoOf(g, n), !.at = InfoOf(g, n).num - 1])
              /\ clean' = IF proc[p].fn \in Readers /\ ~MidSwap(Shm(p)) THEN clean \cup {p} ELSE clean
              /\ crossed' = (crossed \/ g # Shm(p))
           \/ ~Has(g, n) /\ Leave(p) /\ UNCHANGED history
        /\ UNCHANGED <<maps, living, keyVars, lockVars, segVars>>

\* In the segment that is mapped, or by shm_getblockinfo in the one the key
\* names by now.
Find(p) == At(p, "find") /\ LookUp(p, Shm(p))
Info(p) == At(p, "info") /\ LookUp(p, shmkey)

\* Upload: the space and the name are checked; a head may have its space before the
\* places of what is uploaded, if its maker is at it, or has ended ...
Check(p) ==
    /\ At(p, "check")
    /\ LET h == head[Shm(p)]
           n == proc[p].name
           fits == h.fsize >= Len(Contents[n]) + 1 /\ ~Has(shmkey, n)
       IN  \/ fits /\ Go(p, [proc[p] EXCEPT !.head = h]) /\ crossed' = (crossed \/ h.pin_tail = 0)
           \/ ~fits /\ Leave(p) /\ UNCHANGED crossed
    /\ UNCHANGED <<maps, living, clean, keyVars, lockVars, segVars>>

\* ... the records are written ...
Data(p) ==
    /\ At(p, "data")
    /\ LET first == proc[p].head.pin_head
           records == RecordsOf(proc[p].name)
       IN  mem' = [mem EXCEPT ![Shm(p)] = [i \in 1..Cap |->
                      IF i - first + 1 \in DOMAIN records THEN records[i - first + 1] ELSE @[i]]]
    /\ Go(p, proc[p])
    /\ UNCHANGED <<head, content, maps, living, keyVars, lockVars, history>>

\* Mutant of Desc: the place is computed from the size of the segment.
DescLast(p) ==
    /\ At(p, "desc")
    /\ mem' = [mem EXCEPT ![Shm(p)][Cap] = Description(proc[p].name, proc[p].head.pin_head, FALSE)]
    /\ Go(p, proc[p])
    /\ UNCHANGED <<head, content, maps, living, keyVars, lockVars, history>>

\* ... then their description ...
Desc(p) ==
    /\ At(p, "desc")
    /\ LET h == proc[p].head
       IN  mem' = [mem EXCEPT ![Shm(p)][h.pin_tail - 1] = Description(proc[p].name, h.pin_head, FALSE)]
    /\ Go(p, proc[p])
    /\ UNCHANGED <<head, content, maps, living, keyVars, lockVars, history>>

\* Mutants of PutHead: pin_head stays, the number of blocks goes down.
PutHeadStill(p) ==
    /\ At(p, "puthead")
    /\ LET h == proc[p].head
           len == Len(Contents[proc[p].name])
       IN  /\ head' = [head EXCEPT ![Shm(p)] = [h EXCEPT !.fsize = @ - (len + 1), !.pin_tail = @ - 1,
                                                         !.blocknum = @ + 1]]
           /\ content' = [content EXCEPT ![Shm(p)][proc[p].name] = RecordsOf(proc[p].name)]
    /\ Go(p, proc[p])
    /\ UNCHANGED <<mem, maps, living, keyVars, lockVars, history>>

PutHeadDown(p) ==
    /\ At(p, "puthead")
    /\ head' = [head EXCEPT ![Shm(p)].blocknum = @ - 1]
    /\ Go(p, proc[p])
    /\ UNCHANGED <<mem, content, maps, living, keyVars, lockVars, history>>

\* ... and the head makes the block visible.
PutHead(p) ==
    /\ At(p, "puthead")
    /\ LET h == proc[p].head
           n == proc[p].name
           len == Len(Contents[n])
       IN  /\ head' = [head EXCEPT ![Shm(p)] =
                 [fsize |-> h.fsize - (len + 1), pin_head |-> h.pin_head + len,
                  pin_tail |-> h.pin_tail - 1, blocknum |-> h.blocknum + 1]]
           /\ content' = [content EXCEPT ![Shm(p)][n] = RecordsOf(n)]
    /\ Go(p, proc[p])
    /\ UNCHANGED <<mem, maps, living, keyVars, lockVars, history>>

\* Mutant of Copy: it starts at the second record.
CopyPast(p) ==
    /\ At(p, "copy")
    /\ LET r == proc[p]
           next == Append(r.buf, mem[r.shm][r.info.pstart + Len(r.buf) + 1])
       IN  IF Len(next) < r.info.num THEN proc' = [proc EXCEPT ![p].buf = next]
                                     ELSE Go(p, [r EXCEPT !.buf = next])
    /\ UNCHANGED <<maps, living, keyVars, lockVars, segVars, history>>

\* Download and select of a whole block, record by record.
Copy(p) ==
    /\ At(p, "copy")
    /\ LET r == proc[p]
           next == Append(r.buf, mem[r.shm][r.info.pstart + Len(r.buf)])
       IN  IF Len(next) < r.info.num THEN proc' = [proc EXCEPT ![p].buf = next]
                                     ELSE Go(p, [r EXCEPT !.buf = next])
    /\ UNCHANGED <<maps, living, keyVars, lockVars, segVars, history>>

\* _shm_ssort, used up to CUTOFF records: the greatest of the records up to
\* "at" is swapped with the one there, in two writes.
Sort(p) ==
    /\ At(p, "sort")
    /\ LET r == proc[p]
           lo == r.info.pstart
           hi == lo + r.at
           cell == mem[r.shm]
           greatest == CHOOSE i \in lo..hi :
                          /\ \A j \in lo..hi : Key(cell[j]) <= Key(cell[i])
                          /\ \A j \in lo..(i - 1) : Key(cell[j]) < Key(cell[i])
           Write(i, c) == /\ mem' = [mem EXCEPT ![r.shm][i] = c]
                          /\ clean' = {q \in clean : Shm(q) # r.shm}
       IN  \/ /\ hi > lo /\ r.tmp = Free /\ greatest # hi
              /\ Write(greatest, cell[hi])
              /\ proc' = [proc EXCEPT ![p].tmp = cell[greatest]]
           \/ /\ hi > lo /\ r.tmp = Free /\ greatest = hi
              /\ proc' = [proc EXCEPT ![p].at = @ - 1]
              /\ UNCHANGED <<mem, clean>>
           \/ /\ r.tmp # Free
              /\ Write(hi, r.tmp)
              /\ proc' = [proc EXCEPT ![p].tmp = Free, ![p].at = @ - 1]
           \/ hi <= lo /\ r.tmp = Free /\ Go(p, r) /\ UNCHANGED <<mem, clean>>
    /\ UNCHANGED <<head, content, maps, living, crossed, keyVars, lockVars>>

\* shm_setblockinfo writes the copied description back, with the flag, to the
\* block of that name in the segment the key names.
Flag(p) ==
    /\ At(p, "flag")
    /\ \/ \E i \in IF shmkey = None THEN {} ELSE PlaceOf(shmkey, proc[p].name) :
             /\ mem' = [mem EXCEPT ![shmkey][i] = [proc[p].info EXCEPT !.sorted = TRUE]]
             /\ Go(p, proc[p])
       \/ ~Has(shmkey, proc[p].name) /\ Leave(p) /\ UNCHANGED mem
    /\ UNCHANGED <<head, content, maps, living, keyVars, lockVars, history>>

\* A process ends inside a function, with or without its own doing (the null
\* description of shm_setblockinfo_safe): its locks stay as they are.
BsDie(p) ==
    /\ Runs(p) /\ proc[p] # Idle
    /\ living' = living \ {p}
    /\ maps' = [maps EXCEPT ![p] = {}]
    /\ proc' = [proc EXCEPT ![p] = IF @.tmp = Free THEN Idle ELSE @]
    /\ UNCHANGED <<keyVars, lockVars, segVars, history>>

BsStep(p) ==
    \/ SemCreate(p) \/ MapNew(p) \/ InitHead(p) \/ SemId(p) \/ Open(p)
    \/ LockFails(p) \/ Unlock(p) \/ Close(p) \/ RmShm(p) \/ RmSem(p)
    \/ ReadHead(p) \/ Find(p) \/ Info(p) \/ Copy(p)
    \/ Check(p) \/ Data(p) \/ Desc(p) \/ PutHead(p) \/ Sort(p) \/ Flag(p)

BsNext == \E p \in Users : Calls(p) \/ BsStep(p) \/ Lock(p) \/ BsDie(p)

BsSpec == BsInit /\ [][BsNext]_bsVars

-----------------------------------------------------------------------------
BsTypeOK ==
    /\ shmkey \in Segs \cup {None} /\ semkey \in Segs \cup {None} /\ made \in 0..MaxSegs
    /\ \A g \in Segs : head[g].blocknum \in Nat /\ DOMAIN mem[g] = 1..Cap
    /\ writing \cup reading \subseteq Users \X Segs
    /\ \A p \in Users : Shm(p) \in Segs \cup {None} /\ maps[p] \subseteq Segs
    /\ living \subseteq Users /\ clean \subseteq Users

\* The cells of block n of segment g.
Cells(g, n) == LET d == InfoOf(g, n) IN [i \in 1..d.num |-> mem[g][d.pstart + i - 1]]
SameRecords(s, t) == Len(s) = Len(t) /\ ToSet(s) = ToSet(t)

\* Whoever looks finds whole blocks: what the head counts is described, the
\* descriptions name the blocks that were uploaded, and their cells hold
\* records, never a description or nothing, and the free space is what lies between,
\* whoever died in the middle of an upload or of filling in the head. It takes an upload
\* to a head that is not filled in to break this, or a segment that is made again
\* between two steps of another process.
BlocksComplete ==
    ~crossed => \A g \in Segs :
        /\ {mem[g][i].kind : i \in Visible(g)} \subseteq {"desc"}
        /\ {n \in Names : Has(g, n)} = {n \in Names : content[g][n] # <<>>}
        /\ head[g].blocknum = Cardinality({n \in Names : Has(g, n)})
        /\ head[g].pin_tail # 0 => head[g].fsize = head[g].pin_tail - head[g].pin_head
        /\ \A n \in Names : Has(g, n) => \A i \in DOMAIN Cells(g, n) : Cells(g, n)[i].kind = "data"

\* The records of a block are those it was uploaded with, whatever is sorted
\* or uploaded next to it: only a sort that ends in a swap loses one.
RecordsKept ==
    ~crossed => \A g \in Segs, n \in Names :
        Has(g, n) /\ ~MidSwap(g) => SameRecords(Cells(g, n), content[g][n])

\* shm_bsearch may be used on a block whose flag is set: it is sorted.
FlagMeansSorted ==
    ~crossed => \A g \in Segs, n \in Names :
        Has(g, n) /\ InfoOf(g, n).sorted =>
            \A i, j \in DOMAIN Cells(g, n) : i < j => Cells(g, n)[i].key <= Cells(g, n)[j].key

\* A download that no sort crosses gives the records of the block.
DownloadExact ==
    ~crossed => \A p \in clean :
        LET r == proc[p]
        IN  Len(r.buf) > 0 /\ Len(r.buf) = r.info.num => SameRecords(r.buf, content[r.shm][r.name])

\* Nobody removes a segment from under a writer: shm_destroy_safe waits for
\* the write lock, takes it along, and nobody who waited for it gets it then.
WriterKeepsSegment ==
    \A p \in Users, s \in {"data", "desc", "puthead", "sort", "flag"} :
        At(p, s) => shmkey = Shm(p)

\* Blocks are never removed one by one and never move: a step keeps the place
\* of every block, so a copied description stays true.
BlocksStay ==
    [][~crossed' => \A g \in Segs, n \in Names :
          Has(g, n) /\ CanMap(g) => PlaceOf(g, n) \subseteq PlaceOf(g, n)' /\ InfoOf(g, n).pstart = InfoOf(g, n)'.pstart]_bsVars

\* The three parts of a segment, data, descriptions and head, agree for whoever may
\* look at them, through uploads, sorts, downloads and the removal of the segment.
BlocksSound ==
    /\ BsTypeOK /\ BlocksComplete /\ WriterKeepsSegment
    /\ RecordsKept /\ FlagMeansSorted /\ DownloadExact

=============================================================================
