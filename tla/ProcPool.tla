------------------------------ MODULE ProcPool ------------------------------
(***************************************************************************)
(* The process pool, fram/module/procpool: a creator (procpool.c), the     *)
(* manager it starts (child_monitor_main.c) and the manager's children     *)
(* (child_main.c), which write what they do into sockets.                  *)
(*                                                                         *)
(* The manager has one thread, and three signal handlers that run in the   *)
(* middle of it and of each other.  Its control is a stack of frames: the  *)
(* handler that runs is on the top, what it has interrupted is below.      *)
(*                                                                         *)
(* The manager never notices the death of its creator: procpool.c:60 and   *)
(* :73 leave both ends of their socket open in both, so that no end is     *)
(* read and no report fails.  A creator that is dead is one that asks for  *)
(* nothing more.                                                           *)
(***************************************************************************)
EXTENDS Integers, Sequences, FiniteSets, SequencesExt

CONSTANTS Kids,          \* bound: the children that can be forked, numbered
          MINCHILDNUM, MAXCHILDNUM,
          Checks,        \* samples for an average: checknum >= 5 in the code
          Asked,         \* procnum of procpool_create
          MaxSize,       \* bound: the most procpool_sizectrl asks for, up or down
          MaxCommands,   \* bound: what the creator asks for in all
          MaxDeaths,     \* bound: children that die by themselves
          MaxWorks       \* bound: times a child begins to work

ASSUME ProcPoolAssumption ==
    /\ IsFiniteSet(Kids) /\ Kids \subseteq Nat \ {0}
    /\ Asked \in Nat /\ MINCHILDNUM \in Int /\ MAXCHILDNUM \in Int /\ MaxSize \in Nat

VARIABLES
    stack,     \* the frames of the manager, <<>> when it has ended
    gone,      \* how it has ended
    child,     \* child[k]: the state of child k
    pipe,      \* pipe[k]: what k has written and the manager has not read
    holds,     \* holds[k]: the children whose end of the socket k has, too
    list,      \* child_head: the children the manager knows, with their status
    childnum, freechildnum,    \* stppoolinfo
    usage,     \* poolusage_head: percentages, in twelfths
    chldPending, usr1Pending,  \* signals to come, 0 for no SIGUSR1
    alarm,     \* the ten seconds of alarm() may have passed
    creator,   \* what the creator does
    command,   \* what it has written and the manager has not read
    budget,    \* bound: commands and deaths that are left
    late,      \* history: the children registered while the manager was ending
    drift      \* history: "free" or "all" counters may differ from the list

vars == <<stack, gone, child, pipe, holds, list, childnum, freechildnum, usage, chldPending,
          usr1Pending, alarm, creator, command, budget, late, drift>>
kidVars == <<child, pipe, holds>>
poolVars == <<list, childnum, freechildnum>>
signalVars == <<chldPending, usr1Pending, usage, alarm>>
creatorVars == <<creator, command, budget>>
historyVars == <<late, drift>>

READY == "1"
WORK == "2"
DEAD == "3"
Manager == 0    \* the socket of the creator, among those of the children

\* byte is what was received from the child kid; all and free what is to be
\* added to the counters of the pool, and read the one that was read last.
Frame(do) == [do |-> do, sig |-> "none", todo |-> 0, kid |-> 0, set |-> {},
              byte |-> "none", all |-> 0, free |-> 0, read |-> 0]
InitFrame(n, sig) == [Frame("fork") EXCEPT !.todo = n, !.sig = sig]
Unborn == {k \in Kids : child[k] = "none"}
Top == Head(stack)
Replace(f) == stack' = <<f>> \o Tail(stack)
Push(f) == stack' = <<f>> \o stack
Handling(sig) == \E i \in DOMAIN stack : stack[i].sig = sig

\* A signal that its own handler does not hold back is delivered before
\* anything else is done.
ChldDue == chldPending /\ ~Handling("chld")
Usr1Due == usr1Pending # 0 /\ ~Handling("usr1")
Runs(do) == stack # <<>> /\ Top.do = do /\ ~ChldDue /\ ~Usr1Due

Alive(k) == child[k] \in {"forked", "idle", "busy"}
Listed == {list[i].kid : i \in DOMAIN list}
Listening == [Frame("listen") EXCEPT !.set = Listed]
\* The children that are waiting for work, as far as the manager knows.
Free == {list[i].kid : i \in {i \in DOMAIN list : list[i].status = READY}}
\* The socket of a dead child reads as ended when nobody else has its end.
Ended(k) == ~Alive(k) /\ pipe[k] = <<>> /\ \A j \in Kids : Alive(j) => k \notin holds[j]
Worse(d) == IF drift = "all" THEN drift ELSE d
NoChild == \A k \in Kids : ~Alive(k) /\ child[k] # "zombie"
Kill(S) == child' = [k \in Kids |-> IF k \in S /\ Alive(k) THEN "zombie" ELSE child[k]]
SigChld(S) == chldPending' = (chldPending \/ \E k \in S : Alive(k))
Exit(how) == stack' = <<>> /\ gone' = how
\* A frame that changes the list and the counters, between the first change and the last.
Counting(f) == f.do \in {"readall", "writeall", "readfree", "writefree", "add"}
Storing == \E i \in DOMAIN stack : Counting(stack[i])
\* One that has killed the children on the list and is going to exit.
Ending == \E i \in DOMAIN stack : stack[i].do \in {"dying", "failing"}

\* procpool_create has forked the manager, whose main begins with child_init
\* and the registration.
Init ==
    /\ stack = <<InitFrame(Asked, "none"), Frame("register")>> /\ gone = "no"
    /\ child = [k \in Kids |-> "none"] /\ pipe = [k \in Kids |-> <<>>]
    /\ holds = [k \in Kids |-> {}]
    /\ list = <<>> /\ childnum = 0 /\ freechildnum = 0
    /\ usage = <<>> /\ chldPending = FALSE /\ usr1Pending = 0 /\ alarm = FALSE
    /\ creator = "creating" /\ command = <<>>
    /\ budget = [commands |-> MaxCommands, deaths |-> MaxDeaths, works |-> MaxWorks]
    /\ late = {} /\ drift = "none"

-----------------------------------------------------------------------------
(***************************************************************************)
(* child_init, from main, from RESTART or from the SIGUSR1 handler.        *)
(***************************************************************************)
\* A child inherits the sockets of every child_init that this one interrupts.
Fork ==
    /\ Runs("fork")
    /\ \/ /\ Top.todo > 0
          /\ \E k \in Unborn :
                /\ \A j \in Unborn : k <= j
                /\ child' = [child EXCEPT ![k] = "forked"]
                /\ holds' = [holds EXCEPT ![k] = {stack[i].kid : i \in {i \in DOMAIN stack : stack[i].do = "wait"}}]
                /\ LET left == Cardinality(Unborn)
                   IN  Replace([Top EXCEPT !.do = "wait", !.kid = k, !.todo = IF @ < left THEN @ ELSE left])
       \/ /\ Top.todo = 0 \/ Unborn = {}
          /\ stack' = Tail(stack)
          /\ UNCHANGED <<child, holds>>
    /\ UNCHANGED <<gone, pipe, poolVars, signalVars, creatorVars, historyVars>>

\* The registration of the child is awaited for a second; then it is counted, and
\* put in front of the list.
Registered ==
    /\ Runs("wait") /\ pipe[Top.kid] # <<>>
    /\ Replace([Top EXCEPT !.do = "readall", !.byte = Head(pipe[Top.kid]), !.all = 1, !.free = 1])
    /\ pipe' = [pipe EXCEPT ![Top.kid] = Tail(@)]
    /\ drift' = IF Storing THEN "all" ELSE drift
    /\ UNCHANGED <<gone, child, holds, poolVars, signalVars, creatorVars, late>>

Add ==
    /\ Runs("add")
    /\ list' = <<[kid |-> Top.kid, status |-> Top.byte]>> \o list
    /\ Replace(InitFrame(Top.todo - 1, Top.sig))
    /\ late' = late \cup IF Ending THEN {Top.kid} ELSE {}
    /\ UNCHANGED <<gone, kidVars, childnum, freechildnum, signalVars, creatorVars, drift>>

\* kill_all_children: a child that a handler adds during its walk is added in front
\* of the list, behind the walk.
KillAll ==
    /\ Kill(Listed) /\ SigChld(Listed)
    /\ list' = [i \in DOMAIN list |-> [list[i] EXCEPT !.status = DEAD]]
    /\ drift' = Worse("free")
    /\ UNCHANGED <<pipe, holds, childnum, freechildnum, usr1Pending, usage, alarm, late>>

\* Mutant of RegisterFails: the manager ends without killing.
RegisterFailsLeaving ==
    /\ Runs("wait") /\ pipe[Top.kid] = <<>>
    /\ Replace([Top EXCEPT !.do = "failing", !.kid = 0])
    /\ UNCHANGED <<gone, kidVars, poolVars, signalVars, creatorVars, historyVars>>

\* It ends or is late: all are killed but the new one, the arguments of whose kill
\* are swapped.
RegisterFails ==
    /\ Runs("wait") /\ pipe[Top.kid] = <<>>
    /\ KillAll
    /\ Replace([Top EXCEPT !.do = "failing", !.kid = 0])
    /\ UNCHANGED <<gone, creatorVars>>

\* exit, after the sleep of a DESTROY that any signal cuts short.  Those that were
\* killed may not have ended yet.
Leave ==
    /\ stack # <<>>
    /\ \/ Top.do = "dying" /\ Exit("destroy")
       \/ Top.do = "failing" /\ Exit("register")
    /\ UNCHANGED <<kidVars, poolVars, signalVars, creatorVars, historyVars>>

\* The manager registers with the creator and sets the alarm.
Register ==
    /\ Runs("register")
    /\ creator' = IF creator = "creating" THEN "ready" ELSE creator
    /\ Replace(Listening)
    /\ UNCHANGED <<gone, kidVars, poolVars, signalVars, command, budget, historyVars>>

-----------------------------------------------------------------------------
(***************************************************************************)
(* The counters, childnum and then freechildnum, each of which is read and *)
(* then written: what a handler has added in between is forgotten.         *)
(***************************************************************************)
\* The walk through the list, of which only the sockets that can be read count.
Walking(set) == [Frame("walk") EXCEPT !.set = set]
\* What a frame does when the counters are written.
Counted == IF Top.all = 1 THEN [Top EXCEPT !.do = "add"] ELSE Walking(Top.set)

ReadAll ==
    /\ Runs("readall")
    /\ Replace([Top EXCEPT !.do = "writeall", !.read = childnum])
    /\ UNCHANGED <<gone, kidVars, poolVars, signalVars, creatorVars, historyVars>>

WriteAll ==
    /\ Runs("writeall")
    /\ childnum' = Top.read + Top.all
    /\ Replace(IF Top.free = 0 THEN Counted ELSE [Top EXCEPT !.do = "readfree"])
    /\ UNCHANGED <<gone, kidVars, list, freechildnum, signalVars, creatorVars, historyVars>>

ReadFree ==
    /\ Runs("readfree")
    /\ Replace([Top EXCEPT !.do = "writefree", !.read = freechildnum])
    /\ UNCHANGED <<gone, kidVars, poolVars, signalVars, creatorVars, historyVars>>

WriteFree ==
    /\ Runs("writefree")
    /\ freechildnum' = Top.read + Top.free
    /\ Replace(Counted)
    /\ UNCHANGED <<gone, kidVars, list, childnum, signalVars, creatorVars, historyVars>>

-----------------------------------------------------------------------------
(***************************************************************************)
(* The signal handlers.                                                    *)
(***************************************************************************)
\* Mutant of Interrupted: select goes on waiting.
InterruptedNot == stack

\* What a signal interrupts: select returns with EINTR, and the loop begins anew.
Interrupted == IF Top.do = "blocked" THEN <<Frame("build")>> \o Tail(stack) ELSE stack

Sigchld ==
    /\ stack # <<>> /\ ChldDue
    /\ chldPending' = FALSE
    /\ stack' = <<[Frame("reap") EXCEPT !.sig = "chld"]>> \o Interrupted
    /\ UNCHANGED <<gone, kidVars, poolVars, usr1Pending, usage, alarm, creatorVars, historyVars>>

\* Mutant of Reap: one child is taken for each signal.
ReapOne ==
    /\ Runs("reap")
    /\ \E k \in Kids : child[k] = "zombie" /\ child' = [child EXCEPT ![k] = "reaped"]
    /\ stack' = Tail(stack)
    /\ UNCHANGED <<gone, pipe, holds, poolVars, signalVars, creatorVars, historyVars>>

\* waitpid gives the next that has ended, or 0, which ends the handler, or -1
\* when there is no child at all, with which it goes on for ever.
Reap ==
    /\ Runs("reap")
    /\ \/ /\ \E k \in Kids : child[k] = "zombie" /\ child' = [child EXCEPT ![k] = "reaped"]
          /\ UNCHANGED <<stack, alarm>>
       \/ /\ \A k \in Kids : child[k] # "zombie"
          /\ \E k \in Kids : Alive(k)
          /\ stack' = Tail(stack) /\ UNCHANGED <<child, alarm>>
       \/ NoChild /\ ~alarm /\ Last(stack).do # "register" /\ alarm' = TRUE /\ UNCHANGED <<stack, child>>
    /\ UNCHANGED <<gone, pipe, holds, poolVars, chldPending, usr1Pending, usage, creatorVars, historyVars>>

\* The children kill_free_children(n) takes: the first n that are READY.
FreeOnes(n) ==
    LET ready == {i \in DOMAIN list : list[i].status = READY}
    IN  {list[i].kid : i \in {i \in ready : Cardinality({j \in ready : j <= i}) <= n}}

\* Mutant of Sigusr1: it kills whatever the status is.
Sigusr1Any ==
    /\ stack # <<>> /\ Usr1Due /\ usr1Pending < 0
    /\ usr1Pending' = 0
    /\ \E k \in Listed : Kill({k}) /\ SigChld({k})
    /\ stack' = Interrupted
    /\ UNCHANGED <<gone, pipe, holds, poolVars, usage, alarm, creatorVars, historyVars>>

\* Mutant of Sigusr1: a negative number is taken for a positive one.
Sigusr1Signed ==
    /\ stack # <<>> /\ Usr1Due
    /\ usr1Pending' = 0
    /\ stack' = <<InitFrame(usr1Pending, "usr1")>> \o Interrupted
    /\ UNCHANGED <<gone, kidVars, poolVars, chldPending, usage, alarm, creatorVars, historyVars>>

Sigusr1 ==
    /\ stack # <<>> /\ Usr1Due
    /\ usr1Pending' = 0
    /\ \/ /\ usr1Pending > 0
          /\ stack' = <<InitFrame(usr1Pending, "usr1")>> \o Interrupted
          /\ UNCHANGED <<child, chldPending>>
       \/ /\ usr1Pending < 0
          /\ Kill(FreeOnes(-usr1Pending)) /\ SigChld(FreeOnes(-usr1Pending))
          /\ stack' = Interrupted
    /\ UNCHANGED <<gone, pipe, holds, poolVars, usage, alarm, creatorVars, historyVars>>

\* sigqueue of a signal that is pending already is lost.  Bound: no number
\* exceeds that of the children that can be forked.
Most == Cardinality(Kids)
Queue(n) == usr1Pending' = IF usr1Pending # 0 THEN usr1Pending
                           ELSE IF n > Most THEN Most ELSE IF n < -Most THEN -Most ELSE n

\* The sample: NaN for 0 of 0 children is -1, and infinity is too great.
Percent ==
    IF childnum > 0 THEN (freechildnum * 1200) \div childnum ELSE IF freechildnum = 0 THEN -1 ELSE 120000

Sigalrm ==
    /\ stack # <<>> /\ alarm /\ ~Handling("alrm")
    /\ alarm' = FALSE
    /\ usage' = Append(usage, Percent)
    /\ Queue(IF childnum < MINCHILDNUM THEN MINCHILDNUM - childnum
             ELSE IF childnum > MAXCHILDNUM THEN MAXCHILDNUM - childnum ELSE 0)
    /\ stack' = <<[Frame("average") EXCEPT !.sig = "alrm"]>> \o Interrupted
    /\ UNCHANGED <<gone, kidVars, poolVars, chldPending, creatorVars, historyVars>>

\* The average is formed while the list is freed: what comes after the first
\* element may be gone, so it may be the first one's or that of all, or the
\* manager ends on it.
Sum(s) == FoldLeft(LAMBDA a, b : a + b, 0, s)
Average ==
    /\ Runs("average")
    /\ LET free4 == (freechildnum * 10) \div 4
           free6 == (freechildnum * 10) \div 6
           n == Len(usage)
           known == ToSet(usage) \subseteq Nat
           busy == known /\ Sum(usage) < 360 * n
           idle == known /\ Sum(usage) > 960 * n
       IN  \/ n < Checks /\ stack' = Tail(stack) /\ UNCHANGED <<usage, usr1Pending, gone>>
           \/ /\ n >= Checks /\ usage' = <<>>
              /\ \/ busy /\ Queue(IF free4 - freechildnum + childnum > MAXCHILDNUM
                                  THEN MAXCHILDNUM - childnum ELSE free4 + 1 - freechildnum)
                 \/ idle /\ Queue(IF free6 - freechildnum + childnum < MINCHILDNUM
                                  THEN MINCHILDNUM - childnum ELSE free4 + 1 - freechildnum)
                 \/ ~busy /\ ~idle /\ UNCHANGED usr1Pending
              /\ stack' = Tail(stack) /\ UNCHANGED gone
           \/ n >= Checks /\ Exit("freed") /\ UNCHANGED <<usage, usr1Pending>>
    /\ UNCHANGED <<kidVars, poolVars, chldPending, alarm, creatorVars, historyVars>>

-----------------------------------------------------------------------------
(***************************************************************************)
(* do_monitor.                                                             *)
(***************************************************************************)
Readable ==
    {k \in Top.set \cap Kids : pipe[k] # <<>> \/ Ended(k)}
        \cup (IF command # <<>> THEN {Manager} ELSE {})

\* The sets of descriptors are formed, then select waits; a signal in between
\* interrupts nothing.
Build ==
    /\ Runs("build")
    /\ Replace(Listening)
    /\ UNCHANGED <<gone, kidVars, poolVars, signalVars, creatorVars, historyVars>>

Block ==
    /\ Runs("listen") /\ Readable = {}
    /\ Replace([Top EXCEPT !.do = "blocked"])
    /\ alarm' = TRUE
    /\ UNCHANGED <<gone, kidVars, poolVars, chldPending, usr1Pending, usage, creatorVars, historyVars>>

\* Where the walk comes next: the first on the list whose descriptor is set.
Foremost(i) == list[i].kid \in Top.set /\ \A j \in 1 .. i - 1 : list[j].kid \notin Top.set

Select ==
    /\ Runs("listen") \/ Runs("blocked")
    /\ Readable # {}
    /\ Replace(IF Manager \in Readable THEN [Frame("parent") EXCEPT !.set = Readable] ELSE Walking(Readable))
    /\ UNCHANGED <<gone, kidVars, poolVars, signalVars, creatorVars, historyVars>>

\* deal_parent_msg: a REPORT is answered, and nobody waits for the answer here.
Command(byte) ==
    /\ Runs("parent") /\ Head(command) = byte
    /\ command' = Tail(command)
    /\ UNCHANGED <<creator, budget>>

Report ==
    /\ Command("p")
    /\ Replace(Walking(Top.set))
    /\ UNCHANGED <<gone, kidVars, poolVars, signalVars, historyVars>>

Destroyed ==
    /\ Command("k")
    /\ KillAll
    /\ Replace(Frame("dying"))
    /\ UNCHANGED gone

Restart ==
    /\ Command("r")
    /\ KillAll
    /\ stack' = <<InitFrame(Asked, "none"), Walking(Top.set)>> \o Tail(stack)
    /\ UNCHANGED gone

WalkEnds ==
    /\ Runs("walk") /\ Top.set \cap Listed = {}
    /\ Replace(Listening)
    /\ UNCHANGED <<gone, kidVars, poolVars, signalVars, creatorVars, historyVars>>

\* recv gives what the child has written, or its end.
ReadChild ==
    /\ Runs("walk")
    /\ \E i \in DOMAIN list :
          LET k == list[i].kid
              read == [Top EXCEPT !.set = @ \ {k}, !.kid = k]
          IN  /\ Foremost(i)
              /\ \/ /\ pipe[k] # <<>>
                    /\ pipe' = [pipe EXCEPT ![k] = Tail(@)]
                    /\ Replace([read EXCEPT !.do = "told", !.byte = Head(pipe[k])])
                 \/ pipe[k] = <<>> /\ Replace([read EXCEPT !.do = "lost"]) /\ UNCHANGED pipe
    /\ UNCHANGED <<gone, child, holds, poolVars, signalVars, creatorVars, historyVars>>

\* deal_child_msg stores the status; the number of free children comes after it.
ChildMessage ==
    /\ Runs("told")
    /\ list' = [i \in DOMAIN list |->
                   IF list[i].kid = Top.kid THEN [list[i] EXCEPT !.status = Top.byte] ELSE list[i]]
    /\ Replace([Top EXCEPT !.do = "readfree", !.free = IF Top.byte = WORK THEN -1 ELSE 1])
    /\ UNCHANGED <<gone, kidVars, childnum, freechildnum, signalVars, creatorVars, historyVars>>

\* childinfo_del of the lost child; both counters come after it.
Unlist(i, free) ==
    /\ Runs("lost") /\ list[i].kid = Top.kid
    /\ list' = RemoveAt(list, i)
    /\ Replace([Top EXCEPT !.do = "readall", !.all = -1, !.free = free])
    /\ UNCHANGED <<gone, kidVars, childnum, freechildnum, signalVars, creatorVars, late>>

\* Mutant of ChildDead: the number of free children stays.
ChildDeadKept == \E i \in DOMAIN list : Unlist(i, 0) /\ UNCHANGED drift

\* The node is freed before its status is read: what is read may be the status or not.
ChildDead ==
    \E i \in DOMAIN list, read \in BOOLEAN :
        /\ Unlist(i, IF read THEN -1 ELSE 0)
        /\ drift' = IF read = (list[i].status = READY) THEN drift ELSE Worse("free")

-----------------------------------------------------------------------------
(***************************************************************************)
(* The children: child_main.c.                                             *)
(***************************************************************************)
\* Registering, beginning and ending work: a byte for the manager.
\* Bounds: one byte is not read yet, and what happens once the manager has
\* ended is left out: a child that writes then ends by SIGPIPE.
Says(k, from, to, byte) ==
    /\ child[k] = from /\ stack # <<>> /\ pipe[k] = <<>>
    /\ pipe' = [pipe EXCEPT ![k] = <<byte>>]
    /\ child' = [child EXCEPT ![k] = to]
    /\ UNCHANGED <<stack, gone, holds, poolVars, signalVars, creator, command, historyVars>>

Works(k) == /\ budget.works > 0 /\ Says(k, "idle", "busy", WORK)
            /\ budget' = [budget EXCEPT !.works = @ - 1]

ChildStep(k) ==
    \/ Says(k, "forked", "idle", READY) /\ UNCHANGED budget
    \/ Works(k)
    \/ Says(k, "busy", "idle", READY) /\ UNCHANGED budget

Dies(k) ==
    /\ Alive(k) /\ stack # <<>> /\ budget.deaths > 0
    /\ Kill({k}) /\ SigChld({k})
    /\ budget' = [budget EXCEPT !.deaths = @ - 1]
    /\ UNCHANGED <<stack, gone, pipe, holds, poolVars, usr1Pending, usage, alarm, creator, command, historyVars>>

-----------------------------------------------------------------------------
(***************************************************************************)
(* The creator: procpool.c.                                                *)
(***************************************************************************)
\* procpool_create gives up: the manager is killed, its children are not.
CreateFails ==
    /\ creator = "creating" /\ stack # <<>>
    /\ creator' = "failed" /\ Exit("killed")
    /\ UNCHANGED <<kidVars, poolVars, signalVars, command, budget, historyVars>>

Ask(byte) ==
    /\ creator = "ready" /\ budget.commands > 0 /\ stack # <<>>
    /\ command' = Append(command, byte)
    /\ budget' = [budget EXCEPT !.commands = @ - 1]
    /\ UNCHANGED <<stack, gone, kidVars, poolVars, signalVars, creator, historyVars>>

procpool_stat == Ask("p")
procpool_destroy == Ask("k")
\* RESTART is a command of the manager that no function of procpool.c sends.
AskRestart == Ask("r")

procpool_sizectrl ==
    /\ creator = "ready" /\ budget.commands > 0 /\ stack # <<>>
    /\ \E n \in ((-MaxSize)..MaxSize) \ {0} : Queue(n)
    /\ budget' = [budget EXCEPT !.commands = @ - 1]
    /\ UNCHANGED <<stack, gone, kidVars, poolVars, chldPending, usage, alarm, creator, command, historyVars>>

ManagerStep ==
    \/ Fork \/ Registered \/ Add \/ RegisterFails \/ Leave \/ Register \/ Reap \/ Average
    \/ ReadAll \/ WriteAll \/ ReadFree \/ WriteFree
    \/ Build \/ Block \/ Select \/ Report \/ Destroyed \/ Restart
    \/ WalkEnds \/ ReadChild \/ ChildMessage \/ ChildDead

Next ==
    \/ ManagerStep \/ Sigchld \/ Sigusr1 \/ Sigalrm
    \/ \E k \in Kids : ChildStep(k) \/ Dies(k)
    \/ CreateFails \/ procpool_stat \/ procpool_destroy \/ AskRestart
    \/ procpool_sizectrl

\* The manager runs, signals come, and time passes.
Spec == Init /\ [][Next]_vars
FairSpec == Spec /\ WF_vars(ManagerStep) /\ WF_vars(Sigchld) /\ WF_vars(Sigusr1) /\ WF_vars(Sigalrm)

-----------------------------------------------------------------------------
TypeOK ==
    /\ Listed \subseteq Kids /\ Len(list) = Cardinality(Listed)
    /\ \A i \in DOMAIN list : list[i].status \in {READY, WORK, DEAD}
    /\ \A i \in DOMAIN stack : stack[i].do \in {"fork", "wait"} => stack[i].todo >= 0
    /\ stack = <<>> <=> gone # "no"

\* The counters of the pool are those of the list, whatever handlers run in
\* between, but for three causes: a restart or an end, a status read after its node
\* was freed, and a child that a handler registers while another is being counted.
CountsTrue ==
    stack # <<>> /\ ~Storing =>
        /\ drift # "all" => childnum = Len(list)
        /\ drift = "none" => freechildnum = Cardinality(Free)

\* A smaller pool costs idle children: one that is killed at work has begun it
\* since the manager read its last message, or since it has stored it.
ShrinkSparesWorkers ==
    [][\A k \in Kids : usr1Pending < 0 /\ usr1Pending' = 0 /\ child[k] = "busy" /\ child'[k] = "zombie"
          => \/ WORK \in ToSet(pipe[k])
             \/ \E i \in DOMAIN stack : stack[i].do = "told" /\ stack[i].kid = k /\ stack[i].byte = WORK]_vars

\* A manager that ends on a command or an error of its own leaves none of the
\* children on its list behind, but for those that a handler registers meanwhile.
NoneLeftBehind ==
    gone \in {"register", "destroy"} => \A k \in Listed \ late : ~Alive(k)

\* Signals are lost when one is pending, but no child stays a zombie.
Zombies == {k \in Kids : child[k] = "zombie"}
ZombiesReaped == Zombies # {} ~> Zombies = {} \/ stack = <<>>

\* The death of a child is noticed in the end, unless a younger child, forked
\* while it was registered, has its end of the socket, or unless there is no
\* child left, with which the handler of SIGCHLD never ends.
Unnoticed == {k \in Listed : ~Alive(k) /\ \A j \in Kids : Alive(j) => k \notin holds[j]}
DeathNoticed == Unnoticed # {} ~> Unnoticed = {} \/ stack = <<>> \/ (Handling("chld") /\ NoChild)

\* The manager's counts are those of its list while no handler crossed a walk of it,
\* and it leaves no child behind.
ChildrenSound == TypeOK /\ CountsTrue /\ NoneLeftBehind

\* The end of a child is noticed by the manager, and the child is reaped.
DeadServed == ZombiesReaped /\ DeathNoticed

=============================================================================
