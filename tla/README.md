# A TLA+ model of MyResource

The repository holds two frameworks of one author: `fram` (C, pthreads, System V
and POSIX IPC, sockets) and `cppfram` (C++, a beginning). Their own logic is a
thread pool, a process pool, an IPC library with a semaphore read-write lock and
blocks of records in shared memory, a heartbeat server, and containers; they
carry two libraries along, zlog (twice) and cJSON. This directory holds TLA+
modules of that logic, the TLC configurations that check them, and proofs that
TLAPS checks.

Paths below are relative to `src/fram/module/` unless they begin with `src/`.

1. [Inventory](#1-inventory)
2. [Modules and how they correspond to the code](#2-modules-and-how-they-correspond-to-the-code)
3. [Runs](#3-runs): what is checked, bounds, fairness
4. [Proofs](#4-proofs)
5. [What the code does not do](#5-what-the-code-does-not-do)
6. [What is not modelled](#6-what-is-not-modelled)

## 1. Inventory

| component | state it keeps | operations | modules |
|---|---|---|---|
| semaphores (`ipc/src/ipcsem.c` 17-276) | a System V semaphore set in the kernel, under a key | create (two system calls), getid, getid_safe, grab, grab_masksig, grab_nowait, free, destory | `VipcSem` |
| read-write lock (`ipc/src/ipcsem.c` 305-504) | a set of two semaphores; `iRnum`, one static counter per process | Wlocked, Wunlock, Rlocked, Runlock, each of several semaphore operations | `RWLock`, `RWGate` |
| shared memory blocks (`ipc/src/blockshm.c`, `ipcshm.c`) | a segment: head, records growing up, block descriptions growing down | init, upload, download, select, sort, setblockinfo, destroy; plain and `_safe` | `BlockShm`, `BlockSort` |
| shared memory array (`ipc/src/arrshm.c`) | a segment of blocks of one size, a count of the free ones | create, format, insert, delete, locks | `ArrShm` |
| message queues (`ipc/src/ipcmsg.c`) | kernel queues, a static timeout flag, handler state | send, recv, send_recv with an alarm; POSIX send, recv, clean, notify, two ways to end | `VipcMsg`, `PipcMsg` |
| event queue (`threadpool/src/Tpoolevent.c`, `eventlist.c`) | priority list, counter, status, mutex, condition | addevt, popevt, clrevt | `EventQueue`, `TaskQueue` |
| workers (`threadpool/src/Tpoolcore.c`, `workerlist.c`) | list of worker structures with status, mutex, condition and rwlock each; `cursize`, `available` | createworker, task, threadclean, cancelworker, `_Tpool_sizectl`, `_Tpool_destroy` | `TpoolWorkers` |
| commands (`threadpool/src/Tpool.c`, `Tpool_monitor`) | one command, one argument pointer, one result; `olock`, `ilock` | create, sizectl, destroy | `TpoolCommand` |
| load control (`Tpool_loadcal`, timer part of `Tpool_monitor`) | `rate`, `loadsilver` | every 5 seconds: read, count, grow or shrink | `TpoolLoad` |
| process pool (`procpool/`) | the manager process: list of children, counts, usage list; signal handlers | create, destroy, stat, sizectrl; messages from children; SIGCHLD, SIGALRM, SIGUSR1 | `ProcPool` |
| memory pool (`mempool/src/mem_pool.c`) | pages with free bytes and fail counts, large blocks | create, alloc, free, reset, renew | `MemPool` |
| trees (`ds/src/`) | red-black tree, search tree, trie | insert, delete, search, destroy | `RBTree`, `SearchTree`, `TrieTree` |
| sockets and lists (`public/src/Socket.c`, `rlist.c`) | a connection; rings of cells | PkgSend, PkgRecv, waiting or not; the list operations | `PkgSocket`, `RList`, `RListSeq` |
| heartbeat (`heartbeat/src/`) | an epoll descriptor, one buffer, the connections | accept, read, show; clients that connect, send, end | `Heartbeat` |
| ini files (`ini/src/`) | a list of sections, each a list of items | load, look up, add, delete, free | `IniFile` |
| JSON (`json/src/cJSON.c`) | trees of items; the text that is printed | parse, print in three ways, create, add, detach, replace, delete, duplicate | `JsonDoc` |
| logging environment (`log/src/zlog.c`, `category*.c`, `record*.c`, `thread.c`, `event.c`, `mdc.c`) | configuration, categories, recording functions, a structure per thread; `zlog_env_lock` | init, reload, fini, get_category, set_record, the log functions | `ZlogEnv`, `ZlogEvent` |
| logging configuration (`conf.c`, `rule.c`, `level*.c`, `format.c`) | levels, formats, rules and their open files | reading a file line by line, matching a message | `ZlogConf`, `ZlogRule` |
| logging output (`rule.c`, `rotater.c`, `buf.c`, `spec.c`, `zc_hashtable.c`) | files and their archives, descriptors and inodes, message buffers, hash tables | write, rotate, reopen, sync; append, grow, cut; put, get, remove | `ZlogRotate`, `ZlogFile`, `ZlogRule`, `ZlogBuf`, `ZlogEvent`, `HashTable` |

How they interact. A user of the thread pool calls `Tpool_create`, which starts
the monitor thread and waits on `ocond` for it; `Tpool_AddEvt`, which puts a
task into the event queue; `Tpool_sizectl` and `Tpool_destroy`, which write a
command into the pool under `olock` and wait under `ilock` for its result. The
monitor sleeps on `ocond` with a timeout of 5 seconds: with a command it creates
or cancels workers, without one it looks at the load. Workers take tasks from
the queue, and change `status` and `available` around each. Processes share
memory under the read-write lock, whose two semaphores are changed by one system
call at a time. The creator of a process pool writes commands into a socket,
the children write into theirs what they do, and the manager reads both while
signal handlers run in the middle of it. The heartbeat client packs a JSON text
into a package with a length, which the server takes from a stream socket. Every
thread that logs reads the configuration, the categories and its own structure
under `zlog_env_lock`, which only reload, init and fini take for writing, so
that the files of the rules are shared by threads without a lock.

What is hard here: several threads or processes change one counter in several
steps, with different locks for the same field, or none; threads are cancelled in
a wait, handlers interrupt each other; every wait has a timeout after which the
caller goes on as if it had ended well; a process may die with a semaphore, or
between two writes into shared memory; a call may get a part of a message; a
file is renamed by another process; any allocation may fail.

`PROJECT.json` lists 40 hazards line by line with the properties that would
catch them. Others of the same components, which share those properties:

* `ipc/src/ipcsem.c`: vipc_sem_Wunlock gives the two semaphores back in two steps;
  readers and writers run between them (:401); a process dies inside a call or
  with the lock: the semaphores stay as they are (:191); a writer waits for
  semaphore 1 while readers come and go (:361); vipc_sem_getid_safe tests, after
  its sleep, the copy it read before it (:83).
* `threadpool/src/Tpoolevent.c`: the list and its counter are changed in two
  steps, with waits and cancellation around them (:57).
* `threadpool/src/eventlist.c`: the insertion walks from the tail: an off-by-one
  in it breaks the order of arrival among equal priorities (:52).
* `threadpool/src/Tpoolcore.c`: a worker is already BUSY when the monitor wakes from the wait for its
  registration: it is marked as in error and never counted (:176); creating
  several workers fails in the middle: those created stay (:338); the command is
  cleared after the result was given: a command repeated or lost between the two
  (:532); division by the size of the pool, which commands can bring to 0 (:390);
  the count of readings survives sizes at which the change is 0, and is used at a
  later size (:423); a change in percent of the size overshoots the minimum or the
  maximum; the cut may make it 0 (:503).
* `threadpool/src/Tpool.c`: Tpool_create times out and frees the list that the
  running monitor still uses (:108), which no property covers: the call returns in
  `TpoolCommand`, and the monitor's work on the freed list is in no module; a result that comes after the timeout of its call is
  found by the next call (:234); the monitor's TPOOL_RETERR never reaches the
  caller, which gets SUCCESS for it and for a timeout (:238).
* `ipc/src/blockshm.c`: the head of a new segment is filled in field by field,
  without the lock that exists by then (:46-50, :102-106); shm_setblockinfo_safe returns with the write lock on two
  of its paths, and its guard lets only a null description pass, which it then
  uses (:705); the flag that says that a block is sorted is written after the
  sort, by a copy of the description that was read before it (:1957); a partition
  that is small enough is sorted by selection over the whole block and not over
  the partition: the ranges on the stack must still be right for what is left
  (:1733); from the record that bsearch found, the indexed download walks to both
  sides as long as the index is equal, past the ends of the block (:1234); records
  are exchanged in three copies of bytes: an off-by-one in the indices doubles one
  and loses another (:1668).
* `ipc/src/ipcmsg.c`: the receivers that wait for a queue are told its end by as
  many messages as the destroyer counts; one too few leaves a receiver waiting for
  ever (:493), and it is to count descriptors, which threads may share (:475); the parameters of the notification live in the frame of the
  function that registered them (:910).
* `procpool/child_monitor_main.c`: the SIGCHLD handler loops until waitpid returns
  0; when the last child is gone it returns -1 for ever (:53); the idle rate
  divides by the number of children, which all may have ended (:76); a child that
  ended is taken off the list and freed before its status is read (:282); creating
  several children fails in the middle: those created must not be left behind
  without a manager (:345); the list of usage readings is freed by the signal
  handler while the alarm handler adds to it (:96).
* `procpool/procpool.c`: the creator and the manager keep both ends of their socket
  (:60, :73), so that the manager never sees the end of the creator.
* `log/src/rotater.c`: a process dies between two renames of the archives: a
  number is missing, and the next rotation renames around it (:322); how many
  archives are kept is counted from numbers that may have gaps (:301).
* `log/src/zlog.c`: a reload fails in the middle of the categories: rules of the
  old and of the new configuration are in use (:282); the recording functions are
  bound to the rules of the configuration of the moment: a reload makes new rules,
  a registration comes before or after it (:255); the event cannot be rebuilt
  after a reload: the thread keeps one made for an earlier configuration, with
  fewer caches (:447).
* `log/src/rule.c`: all threads that find the file moved close and open the one
  descriptor of the rule, under a lock held for reading (:102), and what open gave to one is stored after
  another has opened a later file (:103); the inode is read
  after the file was created, by its path: the file can be moved between the two
  (:113); the bitmap of the levels of a rule is computed by shifts of a char whose
  number of bits depends on the level; it must agree with the comparison that is
  made when the message is written (:695); descriptor 0 means that a rule has no
  file: a log file that was given descriptor 0 is never closed (:951); a
  configuration fails at one of its rules: the outputs of that rule and of the
  rules before it are to be closed (:939).
* `log/src/conf.c`: the fsync period and the default format reach only the rules
  that are parsed after them: the order of the sections decides (:373).
* `log/src/buf.c`: a buffer grows by what is missing or half as much again, up to
  its maximum: off by one it is cut too early, too late, or without its mark
  (:175); a realloc fails: the buffer is gone and the next message starts without
  one (:190).
* `log/src/zc_hashtable.c`: rehashing relinks every entry in both directions with
  what it finds in the new slots (:135).
* `ds/src/rbtree.c`: the side of the parent is decided once for the whole loop of
  the insertion: from eight keys on the tree loses its balance (:185); the node
  that takes the place of a deleted one has its own links and those of its
  neighbours to change, in an order that matters when they are the same node
  (:509); the loops of the repairs move up only on some of their branches (:388);
  the side of a leaf is found by its key: a leaf in the place of the deleted node
  has none (:390).
* `ds/src/stree.c`: the successor of a node with two children may be its own child
  (:170).
* `ds/src/trietree.c`: an insertion without data, or one that finds no memory half
  way, leaves nodes that serve no key (:129, :117); deleting a key removes the nodes above it that serve nobody
  else, and only those (:195).
* `mempool/src/mem_pool.c`: the page of a block is found by comparing addresses
  that are computed in units of the structure and not of bytes (:298); a page that
  has failed often is recycled when its count of blocks comes to zero: a block
  counted on another page is still in it (:315); a recycled page is taken out of
  the list and put to its end, with the links of its neighbours; the last and the
  first page are special cases (:327); a stray semicolon ends the test of the
  large blocks: any block freed while there is a large one is freed as a large one
  (:401); the loop that resets the pages runs while its condition is the wrong way
  round, and the list of the large blocks keeps pointing at freed ones (:74).
* `ipc/src/arrshm.c`: the place for a record is looked for, filled, marked and
  counted in four steps under a lock that its users take or not (:278); when every
  block is marked the search ends behind the last one (:289).
* `public/src/Socket.c`: a package arrives in pieces of any size, its length too;
  the next package follows without a gap (:86).
* `heartbeat/src/hbserver.c`: descriptors are edge-triggered, and one connection
  is accepted and one package read for each edge: two that come as one edge leave
  the second waiting (:77); a read that failed leaves the text of the package
  before in the buffer, and it is shown again (:101).
* `public/src/rlist.c`: every operation has the links of both directions to set,
  in cells that may be the same (:32); a list that was spliced into another must
  be left empty, or two heads share the cells (:226).
* `ini/src/itemlist.c`: the second or third allocation of an item fails, in the
  middle of a file: what was made for it, and for the sections before it, is to be
  freed (:8); items are unlinked while the list is walked, at the head and inside
  (:61).
* `ini/src/sectionlist.c`: a section that cannot be made is returned as the
  pointer -1, which the caller takes for a section (:23).
* `ini/src/parserINI.c`: the value is copied without its last character, which is
  the newline unless the line is the last or too long (:83).
* `json/src/cJSON.c`: a print fails below some level: every level above frees the
  pieces it has, its table and its names (:492); the length of a printed string is
  computed apart from the writing of it, each with its own list of escapes (:279);
  a text that was cut on its way must not be read as a smaller document (:430);
  the copy of a name fails: the item goes into the object without one, and nobody
  is told (:673); a number is printed as an integer, with six digits or with an
  exponent: digits are lost (:170).
* `log/src/spec.c`: the text of the process number is kept in the event, which a
  fork copies (:203).

What makes each part correct:

* locks - writers exclude each other; no read starts in a write; the semaphores
  come back; those who wait get it.
* semaphores - units are neither lost nor made; nobody is given a set that is not
  initialised by the safe look-up.
* shared memory - what the head counts is complete, whoever died in the middle;
  records are those that were uploaded; nobody writes to a segment that is gone.
* message queues - an answer goes to its call; who waits for a queue hears of its
  end; a notified message is taken.
* event queue - tasks are taken once, in order of priority, then of arrival; the
  counter is the length of the list; no wake-up is lost.
* thread pool - no structure is freed under a running thread; the counters are
  right; the monitor does not hang; a shrink spares running tasks; a call is done
  once and returns with its own result; the size keeps its limits.
* process pool - the counters are those of the list; children are reaped, their
  end is noticed, none is left behind; a shrink costs idle children.
* containers - they find what was put in and nothing else, their links agree, and
  nothing is lost or freed twice.
* sockets, heartbeat, JSON - packages arrive whole and in order; what is shown was
  sent; what is printed reads back; a text that was cut is refused.
* logging - a message meets live rules and a large enough buffer, is complete or
  marked, goes to its own file; archives are in order and the oldest goes first;
  descriptors are closed by whom they belong to.

## 2. Modules and how they correspond to the code

One action is one critical section, one system call, one handler, or one access
to a shared field outside of a lock; where nothing runs beside a function (the
containers), it is the call, or one round of its loop. A local variable of the
code becomes a program counter (`pc`, `mpc`, `epc`, `wpc`, ...) or a field per
thread. Definitions whose comment begins with "Mutant of" are an action with a
plausible mistake in it (`AddCountForgotten`, `GrownHalf`); no specification uses
them. They show that each property notices such a mistake.

History variables, marked "history" or "not in the code" where they are
declared, record what the code does not: which records were uploaded, which keys
inserted, who was crossed by whom. None of them guards a step of the code. Those
called `crossed`, `swayed`, `misled`, `raced`, `crowded`, `astray`, `drift`, `drifted`,
`freed` (of the event queue), `left`, `spilt`, `stumps`, `late`, `wild` or `halfway` are set when the code has done what it should not; a property then
says "until this happens", the run goes on past it, and section 5 names the line.

### Locks and semaphores

* **`RWLock`** - `sem[l][n]` are the semaphore values, `iRnum` the static
  counter, `pc` the place inside a call. `Wlocked` is `WlockedCall`,
  `WlockedGrab1`, `WlockedGrab0`; `Wunlock` is `WunlockFree0`, `WunlockFree1`;
  `Rlocked` is `RlockedTry1`, `RlockedGrab0`, `RlockedFree0`; `Runlock` is one
  step. `left` is what remains of `maxtime`, which the code computes in whole
  seconds: after a grab it may be positive, 0 (which `semtimedop` is given as no
  timeout) or negative (an invalid timespec). `Die` stops a process anywhere;
  nothing is undone. A caller does not ask for a write lock while it has a read
  lock.
* **`RWGate`** - what `RWLock` promises: a gate that opens for a writer or a
  reader while nobody writes. `RWLock` implements it (`ImplementsGate`), and
  `BlockShm` is written over it, so that its runs do not repeat the semaphores.
* **`VipcSem`** - one key; `set` is the identifier it has now. Creation is
  `CreateGet` and `CreateSetAll`. `GrabInterrupted` is EINTR, which
  `vipc_sem_grab` returns to its caller.

### Thread pool

* **`EventQueue`** - `EventListADD` and `EventListPop` work on sequences: the
  circular list starts at the head, the walk of the insertion from the tail is
  `StopOfWalk`, and a task has a number of arrival that the code does not have.
  `addevt` is `AddCheck`, `AddLock`, `AddInsert`, `AddCount`
  (with the signal), `AddUnlock`; `popevt` is `PopCheck`, `PopLock`, `PopTest`,
  `PopHead`, `PopCount`, `PopUnlock`; `clrevt` is `ClearStatus`, `ClearList`. A
  worker that is cancelled in `pthread_cond_wait` takes the mutex again
  (`CancelRelock`), and `Tpool_threadclean` releases it (`CancelUnlock`). A worker
  that is cancelled elsewhere, or ends before it has registered, runs the same
  handler without having the mutex (`LeaveOutside`): it releases that of whoever is
  inside, which `freed` counts. Two threads inside change the list together; what
  it is then is undefined, and so is where they go on (`Torn`). After `ClearList` the list is freed and the mutex
  destroyed; a thread that was past the status test is `Late` and anything can
  happen to it.
* **`TaskQueue`** - what the queue promises: a set of tasks, of which the first in
  order of service is taken whole, as long as the queue is `sound`. `EventQueue`
  refines it with `queued` mapped to the tasks of `elist`, and `sound` to
  `freed = 0`.
* **`TpoolWorkers`** - `Tpool_task` is `Lookup` to `Ready`; `Tpool_createworker`
  is `Spawn`, `Insert`, `Await`, `Count` with the failures beside them;
  `Tpool_cancelworker` is `CancelTakeOwn` to `CancelWait`; the shrink is
  `Sizectl`, `Scan`, `ShrinkNext`; `_Tpool_destroy` is `Destroy` to
  `DestroyList`. `prw` and `wrw` are the two rwlocks, taken in opposite orders by
  the two sides. The worker's mutex is not a variable: its sections end in a wait
  or are left at once, so each is one step. `Wild` is a thread whose structure
  was freed.
* **`TpoolCommand`** - the pool's single `command`, `iargs` and `result`. `olock`
  is a variable, since the monitor works and ends with it; `ilock` is not, for
  the same reason as above.
* **`TpoolLoad`** - the load control on the two counters and the number of workers
  in a task (`busy`, not in the code), in the code's own arithmetic. Tasks change
  `available` without a test, as the code does; a shrink that cancels a worker while
  it takes or ends a task leaves the counters apart (`drifted`, within
  `DriftBound`): `Reading` is an integer division, `Change` a fifth of the size
  after more than five readings of one kind, `Clipped` the cut to the limits.

### Shared memory, message queues, processes

* **`BlockShm`** - every function of `blockshm.c` is a program, the sequence of
  its steps (`Plain`, `Safe`), each a system call, a lock or a write into the
  segment; an error skips to the steps that leave the function. The head of a new
  segment is filled in by four steps (`HeadFields`, two fields that nothing tells
  apart are one), without the lock and when the segment can already be found: an
  upload may come between, whose block the last store wipes (`crossed`). The functions
  with a lock are used by all processes at once, those without one by one
  process at a time, and a process may end at any step with its lock and its
  half-done write left as they are. `content` is what a block was uploaded with.
  `crossed` begins when a lock or a copied description is used with another
  segment than it came from; the model stops there.
* **`BlockSort`** - the sort of a block and the selections from it, step by step:
  median of three, the scans, the stack of partitions, selection sort of what is
  small, binary search, and the walk from a hit to both sides. The code's
  `CUTOFF` 8 is 2 here, and records are an index and one more value.
* **`ArrShm`** - the shared array, whose users take the write lock around calls
  or die in them. The lock stays taken then (`Abandoned`), since the semaphores are
  grabbed without `SEM_UNDO` (`ipcsem.c:152`), until another user frees what it does
  not have (`GiveBack`) or the segment is removed; `kept` are the insertions that ended and were not deleted.
* **`VipcMsg`** - `vipc_msg_send_recv` is `SendRequest`, `SetAlarm`, `Enter`,
  `Receive`, `Test`; `AlarmRings` sets the flag whether or not anybody waits.
  `vipc_msg_clean` is `VipcClean`, one `VipcCleanNext` for each message of the type
  it finds, `VipcCleanEnds`: what others send in between is its, too. The server is
  one as a user of the library would write it.
* **`PipcMsg`** - the POSIX queue under threads that share descriptors. Every
  function saves the flags of the descriptor, sets its mode, works and restores
  them, each in a system call. `Tell` sends as many messages of priority 31 as
  `pipc_msg_destory` is given, which its comment (`ipcmsg.c:475`) says is the number
  of descriptors open for receiving (`Opened`); threads that share one are more.
  In `Rearm` the thread of a notification may end on parameters that lay
  in a frame that is gone (`wild`). Who receives, sends and ends the queue is given
  (`Receivers`, `Senders`, `Enders`); no receiver ends it (`PipcAssumption`).
* **`ProcPool`** - the control of the manager is a stack of frames: a signal
  handler is pushed on what it interrupts, `main`'s loop is at the bottom, and every
  change of a counter, the list, the children or the end is a step of its own that
  a handler may come before: a counter is read and written apart (`readall`,
  `writeall`, `readfree`, `writefree`), so are the receipt of a message and the store
  of its status (`told`), the end of a child and its removal (`lost`), and
  the manager that ends kills, sleeps and exits (`dying`, `failing`). A
  child that is forked while another is registered inherits its end of the
  socket (`holds`). The walk keeps the descriptors that `select` gave and clears one
  after the other (`Foremost`); it reads the counters in one step and writes them in
  another (`Storing`). `drift` says which counters may differ and why.

### Containers

* **`RBTree`** - one round of a fix-up is a step; `Leaf` is the code's real leaf
  node, whose colour and parent change; a step through NULL is "dead".
* **`SearchTree`**, **`TrieTree`** - one call is a step. A path of the trie is
  what its walks make of a key; an insertion may have no data (`trietree.c:129`) or
  find no memory for one of its nodes (`:117`), and what it leaves is in `stumps`.
* **`MemPool`** - places in bytes, as the code's pointer arithmetic yields them;
  what leaves the language is "lost".
* **`HashTable`** - buckets of linked entries by the places they were given.
* **`RListSeq`**, **`RList`** - what the ring lists promise, on sequences, and the
  links: the second implements the first (`RingsAreLists`), which also says on which
  side of which place each call puts a node or a list.
* **`IniFile`** - the lines as `fgets` gives them, the two levels of lists, an
  allocation that fails anywhere.

### Sockets, heartbeat, JSON

* **`PkgSocket`** - the stream carries half lengths and units of bodies; a call
  of the kernel moves any part; `SendSocketWait` and `RecvSocketWait` are the
  loops, their NoWait forms give up where they are. Two history variables tell
  such ends apart: `gaveUp` after a part of a package was moved, `refused` for the
  packages of which there was no room for the first unit.
* **`Heartbeat`** - `ready` are the descriptors epoll has an edge of, `events` what
  one `epoll_wait` gave and is not handled to its end, in an order that nothing
  fixes, `reading` the connection that a blocking `PkgRecv` has, `shown` the texts
  unpacked for each connection.
* **`JsonDoc`** - printing and parsing as recursive operators on sequences of
  lexemes, with what each asks of the allocator; and a caller that builds, takes
  apart, copies, prints, cuts and parses documents while one allocation fails.

### Logging

* **`ZlogEnv`** - init, reload, fini, and the path of a message: read lock, the
  thread's structure, output, count, unlock. A configuration is a number.
* **`ZlogConf`** - reading a file line by line, and what a message then goes to,
  with the bitmap of a category beside the comparisons of the rules.
* **`ZlogRule`** - the descriptors that rules open, and their writing, counting,
  syncing and closing by threads that share them; what waits for a sync (`late`) is
  followed for the single file of a rule only. **`ZlogFile`** - the output that
  finds its file moved: it looks, opens and stores the descriptor (`KeepFile`) and
  then the inode in separate steps, between which the file moves and other threads
  do the same; **`ZlogRotate`** - threads of two processes that append
  and rotate, one system call a step, dying between two of them.
* **`ZlogBuf`** - the two buffers, their growth, truncation and padding;
  **`ZlogEvent`** - the event of a thread, its cached time, process number and
  mdc, across reloads and forks.

`MC...` modules give a configuration its sets and symmetry; `TpoolWorkers`, which
is checked alone, has its own at its end. A module that joins
several parts (`MCLibraries`, `MCLogging`, `MCSockets`, `MCBlockShm`,
`MCTpoolControl`) has a variable `part`: a behaviour is one of one part, the others
stay at their beginning. That adds the state spaces and does not multiply them;
it is sound because the parts share no variable. In `MCIpcMsg` the other part
has none of its calls left instead.

## 3. Runs

Every run is exhaustive, and checks conjunctions of named parts. Deadlock is
checked in `rwlock_fair`; elsewhere everybody may have stopped for good (all
workers gone, the bound on calls used up, all processes dead, the program ended by
NULL).

| run | bounds | properties and their parts |
|---|---|---|
| `rwlock_fair` | 3 processes, 2 locks with one counter, nobody gives up or dies | an unused lock can be written (`IdleLockWritable`); who waits gets it (`EachServed`: `WriterServed`, `ReaderServed`) |
| `vipcsem` | 3 processes, 1 unit, created up to twice, deaths, signals, timeouts, removal | `UnitsSound` (`UnitsConserved`), `SafeGetidInitialised`, and a grab of an initialised semaphore returns unless a unit died with its holder (`GrabReturns`) |
| `eventqueue` | 2 callers, 2 workers, 2 tasks, 2 priorities, workers cancelled in the wait and elsewhere, clearing | `QueueSound` (`Ordered`, `QueueExclusion`, `OwnerAlone`, `CountMatches`, `PopFindsTask`), the refinement `TaskQueueSpec`, no lost wake-up (`TasksServed`) |
| `tpool_safety` | 4 workers, pool of 2 up to 3, no timeouts | `WorkersSound`: no structure is freed under its thread (`FreedIsUnused`); until something crosses, the counters and the maximum are right (`ExactInTurn`, `WithinMaximum`). A shrink never chooses a worker in its task, and until then cancels none that is (`ShrinkSparesTasks`) |
| `tpool_liveness` | 2 workers, timeouts | what the monitor begins ends (`CallsEnd`) |
| `control` | limits 5 and 7, created with 6, commands of one more or less, counters at most 1 apart; 2 callers, timeouts | `LoadSound` (`CountersMeet`, `WithinLimits`, `MessagesTrue`, `SmallPoolLeft`, `MaximumKept`), `BusyPoolRelieved`; `CommandSound` (`DoneOnReturn`, `ArgumentAlive`), `CommandsServed` (`ExecutedOnce`, `CallReturns`) |
| `blockshm` | the lock: 3 processes, 2 nested reads, timeouts, deaths; the blocks: 2 processes, 3 blocks of up to 2 records, 5 cells, 2 segments, ends anywhere | `LockSound` (`WriterExclusion`, `Sem0Conserved`), semaphore 1 drifts no further than the number of processes (`Sem1Bounded`), the refinement `ImplementsGate`; `BlocksSound` (`BlocksComplete`, `WriterKeepsSegment`, `RecordsKept`, `FlagMeansSorted`, `DownloadExact`), `BlocksStay` |
| `ipcmsg` | 2 clients, 3 calls, 2 queues of 2 messages; 3 threads, 2 descriptors of which the 2 receivers share one, 2 notification threads, 3 messages | `AnswersRight` (`AnswersNotMixed`, `AnswersInOrder`), `CallsEnd`; `PosixSound` (`ModeIsOwn`, `EndTold`), `NotifiedServed` |
| `procpool` | 3 processes that can be children, pool of 1 up to 2, one command, one death, one piece of work | `ChildrenSound` (`CountsTrue`, `NoneLeftBehind`), `ShrinkSparesWorkers`, `DeadServed` (`ZombiesReaped`, `DeathNoticed`) |
| `logging` | 2 or 3 threads of 1 or 2 processes, 2 to 4 messages each, 2 or 3 configurations, 1 or 2 failing calls; buffers of 4, without a limit or up to 4 or 5 | `EnvSound` (`RulesAlive`, `BuffersFit`, `RecordsBound`), `ConfSound` (`ShortcutExact`, `RulesAsIfLast`, `PeriodInReach`), `BufSound` (`NoSilentCut`, `GivenUpTooLong`), `MessagesSound` (`OneMoment`, `CacheInside`, `LateBound`), `FilesSound` (`OneRotates`, `ArchivesByAge`, `CountKept`, `InodeTellsTruth`, `OwnDescriptorOnly`, `OutputsOwn`, `NothingLeftOpen`), `LoggingSteps` (`ReloadSpaced`, `OldestGoFirst`) |
| `libraries` | red-black tree of 8 keys, search tree of 7, trie of keys up to 3 letters with or without data and 1 node without memory, 3 pages and 6 blocks, array of 2 blocks with 4 insertions and a death, 5 hashed keys, blocks of 7 records, 4 ring nodes, files of 3 lines | `TreesSound` (`RBFinds`, `RBParents`, `RBBalanced`, `WalkMeetsKept`, `StParents`, `SearchFindsMeant`, `NoDeadWood`), `StoresSound` (`PagesListed`, `PagesCount`, `BlocksApart`, `ShmKept`, `CountDrifts`, `NothingPast`, `HtFinds`, `HtWalkMeetsAll`, `BothWays`, `AllAccounted`, `LoadedAsWritten`, `Parted`, `StackShort`, `FlagTrue`, `AsManyAsFit`), `LibrarySteps` (`RecordsStay`, `RingsAreLists`, `DeletedIsGone`, `RBCallsEnd`) |
| `sockets` | 3 packages, 3 receives, bodies of 0, 2 or 3 units, buffer of 2, window of 3; 2 machines with 2 packages and 1, 1 reset; documents of 3 items, 1 failing allocation | `PackagesSound` (`PackagesInOrder`, `FramingKept`, `ShortAtTheEnd`), `HeartbeatSound` (`ShownAsSent`, `NothingForgotten`), `JsonSound` (`EveryBlockHeld`, `RoomForAll`, `ReadsBack`, `CutIsRefused`, `DiesAfterFailureOnly`), `SocketsServe` (`PackageComes`, `ServerReturns`) |

Each conjunction also has the type invariant of its module. `PROJECT.json` lists
for every property changes of the code that break it, one or more for each part.

### Why the bounds are enough

* Two workers and two callers give every pair of positions inside the queue's
  mutex, a worker that leaves beside one inside included; with two tasks a new one
  comes before, behind or equal to the one that is there. Four worker structures let a pool of two shrink, fail and grow again with
  fresh structures, which are never used twice.
* Three processes on a lock are a writer, a second writer between its grabs and a
  reader that skipped semaphore 1; two locks, in `rwlock_fair`, are enough for one
  counter to mistake one for the other, and two nested reads of one lock, in
  `blockshm`, for one reader to give back what another took. Both at once are too
  many states; what `RWLockProofs` shows holds for any number of either.
* Five is the least size at which the load control changes anything: a pool of 5 to 7
  grows, shrinks, meets both limits and is brought below five by commands. That a
  change of two overshoots takes a pool of ten, which the proof covers. `SilverBound`
  stops the count of readings above the threshold of five, beyond which nothing
  depends on it.
* Two processes and two segments are enough for a segment to be destroyed and
  made again under a process that looked it up; of three blocks in five cells all
  fit but one, and one has two records, so that there is something to sort.
* Two clients' answers can be mixed, and three calls give a late answer, the call
  that gets it, and the one after; queues of two can be full for either side.
* Two children are the manager's maximum above a minimum of one, so that it both
  grows and shrinks; a third process is the child that is forked in a handler.
* From eight keys on the red-black tree loses its balance, which is the first
  thing one wants to see; seven records are three levels of partitions above a
  cut-off of 2. Hashes collide for three of five keys before and after the table
  doubles. Two levels of 4 bits to a byte stand for 32 levels of 8 (`Width`,
  `Bytes`).
* Two writers of one process and one of another tell the mutex from the file
  lock; two archives and five messages rotate a full set. Two machines are the
  fewest whose edges can merge.
* Of three packages one can be refused, or too long for the buffer, between two
  that come; a window of 3 holds less than the package of a body of 2, so that
  every call moves a part.
* `MaxSets`, `MaxTasks`, `MaxReads`, `MaxCalls`, `MaxChanges`, `MaxWrites`,
  `MaxFails` and the like bound what would only repeat.

### Fairness

* Threads that can go on do (weak fairness of their steps). A mutex or rwlock is
  not withheld from one thread for ever (strong fairness): neither POSIX nor
  glibc starves a waiter for ever in practice, and the critical sections are
  short.
* The kernel serves the sleepers of a System V semaphore in order: strong
  fairness of each process's grabs. Whoever has a lock gives it back (weak
  fairness of `Runlock` and of the steps of `Wunlock`).
* A timed wait ends when its deadline is over, whatever wakes it before: strong
  fairness of the timeouts in `TpoolCommand`. The wait of the load control ends by
  a command or by its timer (weak fairness of `Loadcal`, `Control` and the commands
  together): the deadline is computed anew in each turn (`Tpoolcore.c:476-482`), so
  that commands that keep coming put it off for ever. `BusyPoolRelieved` assumes that
  they cease.
* In `VipcMsg` the steps of a call go on and an alarm that is set goes off (weak
  fairness); the server owes nothing, which is what `CallsEnd` is about. In
  `PipcMsg` the steps that a thread can take are taken.
* In `ProcPool` the manager goes on, a pending signal is delivered and the ten
  seconds pass; no command, no end of a child and no piece of work has to come.
* In `RBTree` only the rounds of a fix-up go on. In `PkgSocket` both calls go on,
  but nobody has to send or to call again. In `Heartbeat` the server goes on, and
  a client that has sent a part of a package sends the rest or ends (its
  `PkgSend` blocks); it need not begin another.
* Nothing makes a user call, a task end (`TpoolWorkers`), or a new task come; in
  `EventQueue` a task does end, since otherwise its worker is gone.

## 4. Proofs

TLAPS checks these for every value of the constants, under the named assumptions
of the modules (`RWLockAssumption`, with finitely many processes;
`EventQueueAssumption`, `PrioritiesAssumption`, `TpoolAssumption`,
`LoadAssumption`, `CommandAssumption`, `VipcSemAssumption`, `VipcAssumption`,
`PipcAssumption`, `ProcPoolAssumption`, `PkgAssumption`, `HbAssumption`,
`EnvAssumption`, `ConfAssumption`, `BufAssumption`, `RotateAssumption`,
`RuleAssumption`), which TLC evaluates in the
runs. Each inductive invariant was checked by TLC before it was proved.

* `RWLockProofs`: `LockHolds` puts together `TypeCorrect`, `Conservation` (semaphore
  0 has either the value 1 and no holder or the value 0 and exactly one) and
  `WritersExcludeEachOther`, for `LockSound`; `ReadsStartOutsideWrites`; and
  `LockIsGate`, that every step of the lock is a step of `RWGate` or leaves it
  alone (`ImplementsGate`), on which `BlockShm` builds. Semaphore 1 plays no part
  in these, which is why neither timeouts nor deaths nor the wrong counter can
  break them. `Sem0Conserved` together with `TypeOK` is inductive: three lemmas
  say what a step does that leaves semaphore 0 alone, takes it, or gives it back,
  and every action is one of the three. About semaphore 1 there are two:
  - `WriteSemaphoreBounded` for `Sem1Bounded`. The bound is not inductive, because a
    reader's unlock frees what it may not have taken. The value and the number of
    processes that use the lock are bounded together (`UnitsLimited`): a reader
    becomes a user without a unit, or with one that was there.
  - `IdleLocksCanBeWritten` for `IdleLockWritable`, under `OneAtATime`: a process has
    one read lock at a time and nobody gives up, as in its run. Then the static
    counter is right about the semaphore its process skipped, and units and users of
    a lock together are never less than one (`UnitsLeft`). Processes may even die:
    one that dies with a lock goes on counting as its user.
* `EventQueueProofs`, on the list of tasks: where the insertion's walk stops (a
  maximum over a finite set, found by the least-number principle on natural
  numbers), that the insertion adds one task and keeps the order
  (`EventListADDKeepsOrder`), what taking the head removes. On the queue: the
  inductive invariant `IInv` is the type invariant, exclusion, the counter,
  `PopFindsTask`, the order, and that numbers of arrival are below `arrived` and
  distinct. Exclusion comes in two parts, since a leaving worker releases the mutex of
  another: how many are inside without owning it is at most `freed`, whatever happens
  (`DebtKept`), and while `freed` is 0 the owner is alone inside (`OwnerAlone`); the
  rest is claimed while it is 0. The counter needs exclusion (only the owner can be between the list
  and its counter), `PopFindsTask` needs the counter, and the order needs the bound
  on the numbers (a new task is the last among its equals). From it `TypeCorrect`,
  `LockExcludes`, `CountIsExact`, `WorkersFindTasks`, `ListIsOrdered`, together
  `QueueHolds` for `QueueSound`; and `ImplementsTaskQueue`, the refinement of
  `TaskQueue`: `AddInsert` is `Put`, `PopHead` is `Get`, `PopCheck` is `Forget`,
  `ClearList` is `Drop`, and every other step leaves the abstract state alone.
* `TpoolWorkersProofs`: `WorkersHold` for `WorkersSound` and `ShrinkSpares` for
  `ShrinkSparesTasks`, under two hypotheses: the pool is created within its maximum,
  and no wait of the monitor times out (after a timeout a structure is freed while
  its thread uses it, which is the exception that `tpool_liveness` makes). `Safe`
  holds whatever overlaps: which job the monitor's place belongs to
  (`MonitorTrue`), that a worker is in the list once and the one the monitor is
  about is there (`ListTrue`), how the status of the new worker follows its thread
  (`NewTrue`), that nobody works before the pool is ready (`StartTrue`), and that
  whoever was cancelled is gone when the monitor turns to the next (`CancelTrue`),
  which gives `FreedIsUnused`. `InTurn` holds until size and tasks cross: the
  counters are the cardinalities of the listed workers that serve, but for the one
  that is being created or cancelled (`Counted`), and with those still to be
  created they are within the maximum (`Within`). That the scan never chooses a worker
  in its task needs none of it: whoever is in its task has said so (`TaskTrue`).
* `TpoolControlProofs`. On the load control, under the hypothesis that the pool is
  created with a size between its limits (`SizesInOrder`): `CountersHold` (the counters meet the workers
  that are free, though tasks change them without a test, until a cancelled worker
  crosses), `MaximumHolds`, `LimitsHold`, `MessagesHold`, `SmallPoolsStay`, together
  `LoadHolds` for `LoadSound`. `MessagesTrue` is not inductive: it needs that the count never waits
  beyond five unless the pool is below five workers, too small to change
  (`CountingTrue`), which is exactly what a command breaks. On the commands:
  `CommandHolds` for `CommandSound`, and `CommandOnce`, for `CommandSpec`, the calls
  from `Tpool_create` on. `MonitorTrue` holds whatever overlaps (who has `olock`);
  `Orderly` holds until calls cross: one client is busy (`Alone`), the command in
  the pool is the one of the client that waits (`Pending`, `Executed`), the result
  it finds is its own (`Own`), and none is left over (`Asking`, `Quiet`). `Quiet`
  is why `Tpool_destroy` need not reset the result: nothing is asked of a pool
  after it.
* `IpcProofs`. On semaphores: `UnitsHold` for `UnitsSound` and `SafeGetidHolds` for
  `SafeGetidInitialised`. The count of units is not inductive: it needs that a set
  without SETALL has nobody with a unit and no completed semop (`BareSet`), that
  SETALL is done once for each set, by the process that made it (`Maker`), and
  that an identifier comes before a unit (`Working`). What is counted is a set of
  holders, so each lemma says which way that set goes: `UnitTaken`, `UnitFreed`,
  `IdLookedUp`, `UnitsSet`, `SetMade`, and `OnlyMoves` for the rest. On message
  queues: `AnswersHold` for `AnswersRight`. The messages of one client that are
  under way lie in the order of its calls, from the answer it got last over the
  one it has taken, the answers in the queue and the request the server works on to
  the requests in the queue (`Lines`, `EndedInOrder`); none is of a later call than
  the client's (`NoneAhead`), and one of an earlier call has a call that was given
  up to explain it (`Explained`). Cleaning takes messages out of the middle, which
  keeps every order.
  On POSIX queues: `EndsAreTold` for `PosixSound`, for any number of threads and any
  sharing of their descriptors, under the hypothesis that one thread at most ends
  the queue (`OneEnder`): the `pipc_msg_clean` of a second one takes the messages
  by which the first tells of the end, and TLC finds the receiver that waits then.
  `OwnModes`, for all of it but `EndTold`, needs no hypothesis. The flag that a
  thread has set is there because whoever crosses it on its descriptor takes it
  from `alone` (`AloneOnes`); who waits finds the queue empty (`Waits`). For the
  end, the receivers that have not been told (`Untold`) are counted against the descriptors
  that the destroyer counted (`Opened`): the messages
  of the end are the first of the queue (`EndsFirst`), while they are sent they and
  those that are left make up for the count, and once they are sent they alone
  (`Enough`). Taking one, and closing the descriptor on it, lowers both sides; a
  call that begins was counted already, because its descriptor is open.
* `ProcPoolProofs`: `ChildrenHold` for `ChildrenSound` and `ShrinkHolds` for
  `ShrinkSparesWorkers`, for any number of children, however deep the handlers nest.
  The loop of the manager is at the bottom of the stack and nowhere else
  (`LoopBelow`), and a step changes the top of the stack, at most with the frame
  that a signal wakes up; what lies below is carried over (`Carries`, with a lemma
  for each way a step has with the stack). The counters are not inductive: while
  the loop is going to store one, what it will store has to be right
  (`CountersTrue`). It is right because a message is news: a child that is READY on
  the list has not written READY again, and one at work has not written WORK
  (`Known`), so that plus or minus one follows the list. A message that is
  received and not yet stored is in a frame instead of the socket (`told`), and counts
  as unread. For that a child must not
  be registered twice: whom a `child_init` waits for is unlisted and has written
  READY at most (`Awaited`, `Unlisted`), and the walk finds only what was there to
  be read when `select` returned (`FoundTrue`), since handlers read the sockets of
  new children only. `Known` gives `ShrinkSparesWorkers`, too: a busy child that is
  READY on the list has written WORK, and the manager has not read it.
* `SocketProofs`: `PackagesHold` for `PackagesSound`. What the receiver has of a
  package, what is on its way and what is left to send are one row of units
  (`Line`). The calls of the kernel move the two cuts in it and leave the row as it
  is (`FrontMoves`, `BackMoves`), so that parts of any size need no further
  argument. The row is a chain of packages: the units of one lie together in their
  order, and the next begins where one ends (`Chain`); until the sender is gone
  the last is there to its end (`WholePackages`). It begins with a length, or with the
  body of the size that was read, and all packages before it that fit and were not
  refused have been received (`BeginsAt`). A package that begins extends the chain
  (`ChainLonger`), an end of the sender or a refusal cuts it behind a package
  (`ShorterLine`), a length or a body that is read takes its front
  (`LengthGone`, `BodyGone`). All of that is claimed until a call gives up inside a
  package; that a short package is the last one holds whatever is given up
  (`ShortTrue`).
  And `HeartbeatHolds` for `HeartbeatSound`, for any machines, numbers of packages
  and resets. The invariant (`HbInd`) has a rule for each machine: the texts shown,
  the units the server has read and those received are what the machine has sent,
  in a row (`Exact`), or the text shown last was not its own and nothing comes any
  more (`Spent`); and what the server has not seen of a connection is an edge or an
  event of it (`Seen`), which needs that a machine that did not go on too early is
  at most one package ahead. A step leaves the rules of the machines it does not
  touch as they are (`UntouchedKept`).
* `ZlogProofs`. On the environment: `EnvHolds` for `EnvSound`, from who has the lock
  for reading (`LockTrue`), that without an environment nothing of one is left
  (`ConfTrue`), that a thread whose version is the environment's has buffers of
  its size (`ThreadsTrue`); and `ReloadIsSpaced` for `ReloadSpaced`, one part of
  `LoggingSteps`, from a count that can lose messages but never gains any
  (`CountTrue`). On the configuration: `ConfHolds` for `ConfSound`. That the bitmap
  of a category agrees with the comparison of its rules (`BitTellsOutput`) is
  arithmetic on a level's char and bit, for chars of any width; the rest is what
  the lines before a rule have set when it is parsed (`ConfInv`). On the buffer:
  `BufHolds` for `BufSound`, for any sizes, limits, marks, lengths and widths. A
  text that is cut ends with the mark whatever its buffer had before (`FilledGood`),
  and the mark comes through the width of a conversion, unless the second buffer was
  longer than the text and the junk behind it shows instead (`CutShows`,
  `AdjustedGood`), which takes a realloc that failed (`MemoryHeld`).
  On the files: `FilesHold` for `FilesSound`, from three theorems.
  - `RotateHolds`: the writer that moves files has the mutex of its process and the
    file's lock (`LocksTrue`), so nothing but its own moves happens to the list it has
    read. The archives are numbered from 0 with at most one hole (`Archived`), and in
    the middle of the moves the files it has not come to are where the list says, the
    hole is not behind it (`Moving`); so a rename never meets an archive, and a writer
    that dies leaves at most the hole, which the next one closes (`RollStep`).
    `OldestFirst` for `OldestGoFirst`, the other part of `LoggingSteps` (`StepsHold`).
  - `FileHolds`: an inode that is the path's, wherever a thread has it, is of the newest
    file (`InodeTrue`), as long as no move came between an open and the store of its
    descriptor or the stat after it; and the
    only descriptor of a log file is the rule's, which no other file gets while threads
    do not meet (`OneDescriptor`).
  - `OutputsHold`: every rule, in use or being built, has the descriptor it opened
    (`AllKeep`), every thread at work its own (`WorksTrue`), and every descriptor that
    is open has one of them or the program as its owner (`Accounted`). What is closed
    with some rules is theirs (`ClosedTheirs`), as no two have the same number.
  `PartsOfRun` says that a behaviour of the run's specification is one of each part, so
  that these theorems are about what the run checks.

Only model-checked:

* all liveness: fairness and ENABLED are out of the prover's reach;
* `JsonSound`, and the trees, heaps and sorts of `libraries`: what they promise of
  every tree or list needs induction over it, which none of the installed provers
  can do; `JsonDoc` computes with RECURSIVE operators besides;
* `MessagesSound`: the cached times of an event are compared word by word of a format,
  which is again induction, and the bound on messages that wait for an fsync
  (`LateBound`) is one of two threads;
* `BlocksSound` and `BlocksStay`: not attempted so far.

## 5. What the code does not do

The passing properties hold as they are stated; their exceptions are named here,
each at the line that makes it necessary.

Locks and thread pool

* A writer and a reader can have the read-write lock ("创建读写锁",
  `ipcsem.c:300`) together: a reader that finds semaphore 1 taken goes on without
  it, gives semaphore 0 back before it returns, and its unlock frees semaphore 1
  for the next writer. What holds is that no read starts in a write.
* `sem_flg` is 0, though `ipcsem.c:152` says "进程结束后恢复所有信号量" (all
  semaphores are restored after the process ends): `GrabReturns` makes an exception
  of units that died with their holder.
* `available` is taken for the number of free threads (`Tpoolcore.c:346`), but a
  worker that is busy before the monitor has seen it register is never counted
  (`Tpoolcore.c:176`) and decrements it all the same.
* "@return [SUCCESS or SYSERROR]" (`Tpool.c:184`), but it is always SUCCESS, after
  an error and after a timeout too.
* `Tpool_threadclean` releases the queue's mutex whether or not the worker has it
  (`Tpoolcore.c:22`): a worker that is cancelled in the user's task, or that ends
  at `:59` because it does not find itself in the list, lets a second thread in
  beside the one that is inside (`freed`), and then list and counter may be anything.
* The cancelling thread takes the worker's rwlock before the pool's
  (`Tpoolcore.c:217`), the scan and the workers the other way round: the two can wait
  for each other for ever, an exception of `CallsEnd`. Between the choice of an idle
  worker and its cancellation (`:227`) the worker may take a task, which is lost with
  it, and `available` is wrong from then on (`crossed`, `drifted`). After a wait of the
  cancellation that timed out the structure is freed (`:359`) under its thread.
* A second caller overwrites the command of the first before the monitor has seen it
  (`Tpool.c:211`): it is never carried out, and its argument is lost (`crossed`).
* A pool below five workers, the default of four too, is never changed by the load
  control, since a fifth of it is 0 (`Tpoolcore.c:425`).
* There is a minimum (`Tpoolcore.c:393`), but a command shrinks the pool below it,
  down to none, and then line 390 divides by zero. "Tpool Load is too high"
  (`Tpoolcore.c:494`) can be logged of a pool whose reading was not, after a
  command has made it larger.

Shared memory and message queues

* The `_safe` functions look the key up again after they have taken the lock
  (`blockshm.c:1189`), and the lock admits a writer during a read: after a destroy
  and a new init a reader uses the description of one segment on another
  (`crossed`).
* A new segment can be found, and its lock exists, before its head is written
  (`blockshm.c:46-50`, `:102-106`): a process that ends between the stores leaves half a
  head, and a block that another uploads there is wiped by the last of them.
* `shm_getshminfo` never unmaps; `shm_setblockinfo_safe` refuses every description
  that is not NULL and uses the NULL one under the write lock (`:705`). A sort that
  ends in the middle of a swap loses a record.
* A partition of at most 8 records makes the sort of the WHOLE block (`:1733`); the
  indexed selection walks past the ends of the block and gives copies of the hit for
  its neighbours (`:1234`), so a record next to it with the same index is not seen.
* A process that dies with the lock of the shared array keeps it (`ipcsem.c:152`,
  `:191`), until somebody frees what he does not have.
* An insertion into the shared array checks the length without the flag word, and a
  format says that it is ready before it has cleared the blocks.
* An answer that comes after the timeout stays in the queue, and from then on every
  call gets the answer of the one before it; an alarm that goes off before `msgrcv`
  is lost, and nothing bounds the wait of `msgsnd`.
* `pipc_msg_*` set and restore a flag that all users of a descriptor share; after
  EAGAIN they leave it set (`ModeIsOwn` speaks of threads that are alone). The
  parameters of a notification lie in a frame that is gone (`ipcmsg.c:910`).
  `pipc_msg_destory` is to be given the number of descriptors (`:475`): of the threads
  that share one, only one is told.

Process pool

* The SIGCHLD handler ends when `waitpid` gives 0, which it never does after the
  last child (`child_monitor_main.c:53`); the list of readings is freed while
  another handler walks it (`:96`); a child's status is read after its node was
  freed (`:282`); an idle pool grows (`:112`); two SIGUSR1 may be one.
* The manager never sees the end of its creator, since both keep both ends of their
  socket (`procpool.c:60`, `:73`): it goes on for ever.
* A shrink kills a child that has gone to work when the handler comes between the
  receipt of its message (`child_monitor_main.c:275`) and the store of its status
  (`:205`), or before the receipt: `ShrinkSparesWorkers` makes the exception.

Containers

* The red-black tree decides the side once for the whole loop (`rbtree.c:185`), and
  is no longer balanced from eight keys on (`swayed`); deletion repairs the wrong
  node (`:390`, `:453`), and inserting into an emptied tree follows NULL.
* `stree_delete` follows NULL for a node without a left child (`stree.c:139`). The
  walks of the trie never advance in the key; UNKNOWKEY is used as a pointer. An
  insertion with no data makes a node that `trie_search` does not find, and
  counts it (`trietree.c:129`); one that finds no memory leaves the nodes it has made
  (`:117`).
* The memory pool adds bytes to pointers to structures, gives blocks back to the
  wrong page (`misled`), frees as large whatever is freed while there is a large
  one (`mem_pool.c:401`), and its reset loops the wrong way round (`:74`).
* Ini files: the value of a last line without newline loses its last character
  (`parserINI.c:83`), a section that cannot be made is a pointer of -1
  (`sectionlist.c:23`), names of sections are never freed, `ItemADD` reads a node
  that it has freed. A list node keeps one byte of the caller's data
  (`rlist.c:66`), and the functions for the head insert behind the place that they are
  given, those for the tail before it, where the comments (`:79`, `:96`) say the
  opposite.

Sockets, heartbeat, JSON

* Half a length at the end of a stream reads as 0 and a short body as a success
  (`Socket.c:70-102`); a call without waiting that finds nothing, or no room, inside
  a package loses its place; one that finds no room for the first unit says so, and
  that package does not come; the call for the body of an empty package waits for the next one.
* The server accepts one connection and reads one package for an edge: of two that
  come as one edge the second waits, for ever if it is the end of the stream
  (`hbserver.c:77`, `:90`). A read that failed shows the package before once more.
* cJSON does not look at what follows a value, needs no closing quote at the end of
  a text, tells nobody that a `strdup` failed and then prints a null string;
  `cJSON_ReplaceItemInObject` loses the name the new item had; numbers keep six
  digits after the point.

Logging

* `zlog_reload` rolls nothing back when the rules of a category cannot be updated,
  though `zlog.c:279-280` says so (`halfway`); categories that a program keeps
  dangle after `zlog_fini`.
* A truncated message is never written: `zlog_format_gen_msg` makes an error of
  what `format.c:145` says is "return 0 success, or buf is full".
* A buffer that lost its memory counts as full with its old size: after the next
  realloc it may have room for more than the text, which is then read too far
  (`buf.c:518-531`), and a width can cut the mark off behind it (`spec.c:350-367`).
  A buffer max of 1 leaves no room for a mark.
* All threads that find a file moved close and open the one descriptor of the rule
  under a lock held for reading (`crowded`, `rule.c:102`); a move between creating
  a file and reading its inode sends the messages to the moved file (`raced`,
  `:113`), and so does one that comes between the open and the store of its descriptor
  (`:103`) in one thread while another opens a later file. A failed open in one thread leaves the descriptor -1 with the inode of
  the path when another saves it then, and no message is written any more.
* A failing `dzlog_init` (`zlog.c:186`) leaves its configuration in place.
* Two threads spoil each other's fsync counts; with a period of P up to P*P+1
  messages are not synced. The count of a rule with many files is one for all of them,
  and what is synced is the file of the message at hand (`rule.c:272`): what
  waits in the others has no bound. A reload starts the counts anew: a rule that few
  messages go to is not synced before it (`PeriodInReach` speaks of the periods). A log file with the descriptor 0 is never closed
  (`rule.c:951`). The output that rotates counts each message twice and syncs the
  descriptor of the archived file.
* In sequence mode one archive more is kept; a file that only looks like an archive
  is rolled along; a process that has the file open across a rotation writes into
  the archive.
* A level without a name gives -1 without an error; a configuration without
  `[rules]` has no rotater; a bad default format is accepted until `[rules]`.
* `zlog_event_new` loses the event when its caches find no memory.

## 6. What is not modelled

* Of modelled components: the timeout of `Tpool_create` (`Tpool.c:104-111`); the
  nesting of a write lock in a read lock; the shared array used without its lock; in `blockshm` the bytes of a record
  beyond a key; in `ipcmsg` the fragments of a message as anything but a message;
  in the process pool the memory of the list of readings, failures of `socketpair`, `fork`
  and `Malloc`, the middle of `list_add` and `list_del`, and bytes that are no command; walks and printing of
  the red-black tree; in cJSON references to items of other documents, constant
  names, arrays of numbers, insertion in the middle and minifying; in zlog the
  characters of a line, the patterns of a format, the hex dump, facilities of
  syslog; a read of uninitialised memory at `Socket.c:254`.
* `log` in `src/cppfram/module` is the same library once more: `rule.c` differs in
  a line of comment (937), the other files not at all. The modules of the first
  copy hold for it.
* The C++ communication library is a skeleton: client, read and write are empty,
  `c_close` always throws, `s_close` does not end when there is a client. The C++
  public library is templates around one mutex that nothing uses, and a thread
  pool that does not compile.
* Stubs and empty files: the timers of the thread pool, name server, process
  manager, `temp`. Backups: `*.bak`, `heartbeat.bak`. Text-mode experiments with
  curses, the XML parser, demonstration programs, shell scripts, `mem.c`, which
  only forwards to malloc.
* Everything that is text: formatting, file names, wording of messages.

What could come next: the thread pool as a whole, queue, workers and commands
composed, and its safety from the theorems about the parts; proofs of the blocks in
shared memory over `RWGate`, and that the rotation of a log file loses none;
`RList` implementing `RListSeq` as a theorem.
