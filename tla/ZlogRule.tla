------------------------------ MODULE ZlogRule ------------------------------
(***************************************************************************)
(* The outputs of the rules of a configuration (zlog_rule_new,             *)
(* zlog_rule_del and the output functions of log/src/rule.c) and the       *)
(* descriptors of the process they hold.                                   *)
(*                                                                         *)
(* A configuration is built, and the one before it freed, under the write  *)
(* lock: no message is written then.  Messages are written by threads that *)
(* hold the lock for reading, system call by system call.  A file that     *)
(* moves is in ZlogFile and ZlogRotate.                                    *)
(***************************************************************************)
EXTENDS Integers, Sequences, FiniteSets, SequencesExt

CONSTANTS
    RuleThreads,
    RuleKinds,                 \* what the outputs of the rules may be
    Terminal,                  \* the descriptors open when the program starts
    FdLimit,                   \* one more than the highest descriptor there can be
    FsyncPeriod,               \* messages to a file between two fsyncs
    MaxRules, RuleMsgs,        \* bounds, for each configuration: its rules and messages
    MaxRuleFaults              \* bound: failures

ASSUME RuleAssumption ==
    /\ FdLimit \in Nat \ {0} /\ Terminal \subseteq 0 .. FdLimit - 1
    /\ RuleThreads \cap Int = {}        \* as owners of descriptors, threads are not rules

\* single and rotate keep their file open, each opens one for every message;
\* pipe is the standard input of another program; plain is syslog, a standard
\* stream or a function of the program.  An each output writes to one of many
\* files, by what the message is, and a rotate output to a file that is renamed
\* away from the descriptor it keeps.
FileKinds == {"single", "rotate"}
Reopening == {"rotate", "each"}

VARIABLES
    fds,                       \* the open descriptors: who opened each
    rules, fresh,              \* the rules in use, and those of the configuration being built
    confState,                 \* none, building or ready
    served,                    \* whether a configuration is in use
    works,                     \* what each thread does: [pc, rule, fd, count]
    ids, builds, ruleMsgs, ruleFaults   \* rules, configurations, messages and failures so far

zrVars == <<fds, rules, fresh, confState, served, works, ids, builds, ruleMsgs, ruleFaults>>
buildVars == <<fresh, confState, served, ids, builds>>

Program == 0
Lost == -1                     \* opened for a rule that did not come to be

NoWork == [pc |-> "idle", rule |-> 0, fd |-> -1, count |-> 0]

RuleInit ==
    /\ fds = [d \in Terminal |-> Program]
    /\ rules = <<>> /\ fresh = <<>> /\ confState = "none" /\ served = FALSE
    /\ works = [t \in RuleThreads |-> NoWork]
    /\ ids = 0 /\ builds = 0 /\ ruleMsgs = 0 /\ ruleFaults = 0

\* The descriptor open and popen give: the lowest that is free, or none.
FreeFds == (0 .. FdLimit - 1) \ DOMAIN fds
LowestFd == CHOOSE d \in FreeFds : \A e \in FreeFds : d <= e
With(d, who) == [e \in DOMAIN fds \cup {d} |-> IF e = d THEN who ELSE fds[e]]
WithoutFds(ds) == [e \in DOMAIN fds \ ds |-> fds[e]]

----------------------------------------------------------------------------
(* Building and freeing *)

\* Mutant of ClosedBy: descriptor 0 is closed for a rule that has no file.
ClosedAnyway(rs) == {r.static : r \in ToSet(rs)} \cup {r.pipe : r \in {x \in ToSet(rs) : x.kind = "pipe"}}

\* What zlog_rule_del closes for these rules: static_fd 0 stands for none.
ClosedBy(rs) ==
    {r.static : r \in {x \in ToSet(rs) : x.static # 0}} \cup
    {r.pipe : r \in {x \in ToSet(rs) : x.kind = "pipe"}}

AllIdle == \A t \in RuleThreads : works[t].pc = "idle"

BuildConf ==
    /\ confState # "building" /\ AllIdle /\ builds < Len(MaxRules)
    /\ confState' = "building" /\ builds' = builds + 1 /\ fresh' = <<>>
    /\ UNCHANGED <<fds, rules, served, works, ids, ruleMsgs, ruleFaults>>

BlankRule(kind) == [id |-> ids + 1, kind |-> kind, static |-> 0, pipe |-> 0, count |-> 0, late |-> 0]

\* Mutant of GiveUp: the rules built so far are forgotten.
GiveUpOpen(rs) ==
    /\ fds' = WithoutFds(ClosedBy(rs)) /\ fresh' = <<>>
    /\ confState' = IF served THEN "ready" ELSE "none"

\* The configuration cannot be built: the rule at hand and those before it go,
\* and the one in use stays.
GiveUp(rs) ==
    /\ fds' = WithoutFds(ClosedBy(rs \o fresh)) /\ fresh' = <<>>
    /\ confState' = IF served THEN "ready" ELSE "none"

Building == confState = "building" /\ UNCHANGED <<rules, served, works, builds, ruleMsgs>>

NewOutput ==
    /\ Building /\ Len(fresh) < MaxRules[builds] /\ ids' = ids + 1 /\ UNCHANGED <<confState, ruleFaults>>
    /\ \E kind \in RuleKinds :
          IF kind \in FileKinds \cup {"pipe"}
          THEN /\ FreeFds # {}
               /\ fds' = With(LowestFd, ids + 1)
               /\ fresh' = Append(fresh, IF kind = "pipe" THEN [BlankRule(kind) EXCEPT !.pipe = LowestFd]
                                         ELSE [BlankRule(kind) EXCEPT !.static = LowestFd])
          ELSE UNCHANGED fds /\ fresh' = Append(fresh, BlankRule(kind))

\* Mutant of NewOutputFails: what open returned is kept.
NewOutputUnchecked ==
    /\ Building /\ Len(fresh) < MaxRules[builds] /\ ids' = ids + 1
    /\ ruleFaults < MaxRuleFaults /\ ruleFaults' = ruleFaults + 1
    /\ fresh' = Append(fresh, [BlankRule("single") EXCEPT !.static = -1])
    /\ UNCHANGED <<fds, confState>>

\* open or popen fails, because of the limit or otherwise; static_fd is -1.
\* A line may be wrong in many ways before that, with static_fd still 0.
NewOutputFails ==
    /\ Building /\ Len(fresh) < MaxRules[builds] /\ UNCHANGED ids
    /\ \/ FreeFds = {} /\ UNCHANGED ruleFaults
       \/ ruleFaults < MaxRuleFaults /\ ruleFaults' = ruleFaults + 1
    /\ \E fd \in {0, -1} : GiveUp(<<[BlankRule("single") EXCEPT !.static = fd]>>)

\* The file opens but its inode cannot be read.
NewOutputUnread ==
    /\ Building /\ Len(fresh) < MaxRules[builds] /\ FreeFds # {} /\ UNCHANGED ids
    /\ ruleFaults < MaxRuleFaults /\ ruleFaults' = ruleFaults + 1
    /\ confState' = (IF served THEN "ready" ELSE "none") /\ fresh' = <<>>
    /\ LET closed == ClosedBy(<<[BlankRule("single") EXCEPT !.static = LowestFd]>> \o fresh)
       IN  fds' = [d \in (DOMAIN fds \cup {LowestFd}) \ closed |-> With(LowestFd, Lost)[d]]

\* The new configuration takes the place of the old one, which is freed.
ConfReady ==
    /\ confState = "building" /\ confState' = "ready" /\ served' = TRUE /\ fresh' = <<>>
    /\ rules' = fresh /\ fds' = WithoutFds(ClosedBy(rules))
    /\ ruleMsgs' = 0 /\ UNCHANGED <<works, ids, builds, ruleFaults>>

ConfFreed ==
    /\ confState = "ready" /\ AllIdle /\ confState' = "none" /\ served' = FALSE
    /\ fds' = WithoutFds(ClosedBy(rules)) /\ rules' = <<>>
    /\ UNCHANGED <<fresh, works, ids, builds, ruleMsgs, ruleFaults>>

----------------------------------------------------------------------------
(* Messages *)

Go(t, pc) == works' = [works EXCEPT ![t].pc = pc]
Doing(t, pc) == works[t].pc = pc /\ UNCHANGED buildVars
RuleOf(t) == rules[works[t].rule]

\* A message of thread t for rule i; where nothing is opened it is written at once.
OutputTo(t, i) ==
    /\ confState = "ready" /\ Doing(t, "idle") /\ ruleMsgs < RuleMsgs[builds] /\ ruleMsgs' = ruleMsgs + 1
    /\ LET work == [NoWork EXCEPT !.rule = i]
       IN  works' = [works EXCEPT ![t] =
              IF rules[i].kind \in Reopening THEN [work EXCEPT !.pc = "open"]
              ELSE IF rules[i].kind = "single" THEN [work EXCEPT !.pc = "write", !.fd = rules[i].static]
              ELSE NoWork]
    /\ UNCHANGED <<fds, rules, ruleFaults>>

OpenEach(t) ==
    /\ Doing(t, "open") /\ UNCHANGED <<rules, ruleMsgs, ruleFaults>>
    /\ IF FreeFds = {} THEN works' = [works EXCEPT ![t] = NoWork] /\ UNCHANGED fds
       ELSE /\ fds' = With(LowestFd, t)
            /\ works' = [works EXCEPT ![t].pc = "write", ![t].fd = LowestFd]

\* late counts what waits in the one file of a single output.  The count of the
\* others is kept for the rule too, but which file an fsync at its end is of they
\* do not tell; a rotate output counts each message twice.
WriteOut(t) ==
    /\ Doing(t, "write") /\ Go(t, "load")
    /\ rules' = [rules EXCEPT ![works[t].rule].late = IF RuleOf(t).kind = "single" THEN @ + 1 ELSE @]
    /\ UNCHANGED <<fds, ruleMsgs, ruleFaults>>

WriteFails(t) ==
    /\ Doing(t, "write") /\ works' = [works EXCEPT ![t] = NoWork]
    /\ ruleFaults < MaxRuleFaults /\ ruleFaults' = ruleFaults + 1
    /\ fds' = IF RuleOf(t).kind \in Reopening THEN WithoutFds({works[t].fd}) ELSE fds
    /\ UNCHANGED <<rules, ruleMsgs>>

\* ++fsync_count, which other threads do too: read, then written and compared.
LoadCount(t) ==
    /\ Doing(t, "load") /\ works' = [works EXCEPT ![t].pc = "store", ![t].count = RuleOf(t).count + 1]
    /\ UNCHANGED <<fds, rules, ruleMsgs, ruleFaults>>

\* Mutant of StoreCount: one message more is waited for.
StoreLonger(t) ==
    /\ Doing(t, "store") /\ Go(t, IF works[t].count > FsyncPeriod THEN "zero" ELSE "close")
    /\ rules' = [rules EXCEPT ![works[t].rule].count = works[t].count]
    /\ UNCHANGED <<fds, ruleMsgs, ruleFaults>>

StoreCount(t) ==
    /\ Doing(t, "store") /\ Go(t, IF works[t].count >= FsyncPeriod THEN "zero" ELSE "close")
    /\ rules' = [rules EXCEPT ![works[t].rule].count = works[t].count]
    /\ UNCHANGED <<fds, ruleMsgs, ruleFaults>>

ZeroCount(t) ==
    /\ Doing(t, "zero") /\ Go(t, "sync")
    /\ rules' = [rules EXCEPT ![works[t].rule].count = 0]
    /\ UNCHANGED <<fds, ruleMsgs, ruleFaults>>

Fsync(t) ==
    /\ Doing(t, "sync") /\ Go(t, "close")
    /\ rules' = [rules EXCEPT ![works[t].rule].late = 0]
    /\ UNCHANGED <<fds, ruleMsgs, ruleFaults>>

CloseEach(t) ==
    /\ Doing(t, "close") /\ works' = [works EXCEPT ![t] = NoWork]
    /\ fds' = IF RuleOf(t).kind \in Reopening THEN WithoutFds({works[t].fd}) ELSE fds
    /\ UNCHANGED <<rules, ruleMsgs, ruleFaults>>

RuleNext ==
    \/ BuildConf \/ NewOutput \/ NewOutputFails \/ NewOutputUnread \/ ConfReady \/ ConfFreed
    \/ \E t \in RuleThreads :
          \/ \E i \in DOMAIN rules : OutputTo(t, i)
          \/ OpenEach(t) \/ WriteOut(t) \/ WriteFails(t) \/ LoadCount(t) \/ StoreCount(t)
          \/ ZeroCount(t) \/ Fsync(t) \/ CloseEach(t)

RuleSpec == RuleInit /\ [][RuleNext]_zrVars

----------------------------------------------------------------------------
(* Properties *)

RuleTypeOK ==
    /\ DOMAIN fds \subseteq 0 .. FdLimit - 1
    /\ \A d \in DOMAIN fds : fds[d] \in {Program, Lost} \cup RuleThreads \cup 1 .. ids
    /\ \A r \in ToSet(rules \o fresh) :
          /\ r.kind \in RuleKinds /\ r.id \in 1 .. ids
          /\ {r.static, r.pipe} \subseteq 0 .. FdLimit - 1 /\ {r.count, r.late} \subseteq Nat
    /\ confState \in {"none", "building", "ready"} /\ (confState = "ready" => served)
    /\ \A t \in RuleThreads : works[t].pc # "idle" => works[t].rule \in DOMAIN rules

\* The descriptors that a file kept open or a pipe needs are open, and are those
\* the rule opened: freeing one rule never takes the output of another, of a
\* thread that is writing, or of the program.
OutputsOwn ==
    /\ \A r \in ToSet(rules \o fresh) :
          /\ r.kind \in FileKinds => r.static \in DOMAIN fds /\ fds[r.static] = r.id
          /\ r.kind = "pipe" => r.pipe \in DOMAIN fds /\ fds[r.pipe] = r.id
    /\ \A t \in RuleThreads :
          (works[t].fd # -1 /\ RuleOf(t).kind \in Reopening) =>
              works[t].fd \in DOMAIN fds /\ fds[works[t].fd] = t
    /\ \A d \in Terminal : d \in DOMAIN fds /\ fds[d] = Program

\* However a configuration ends, in use or half built, its descriptors are
\* closed: what else is open belongs to the program, but for descriptor 0.
NothingLeftOpen ==
    \A d \in DOMAIN fds \ {0} :
        \/ fds[d] = Program
        \/ fds[d] \in {r.id : r \in ToSet(rules \o fresh)}
        \/ \E t \in RuleThreads : fds[d] = t /\ works[t].fd = d

\* Messages in the one file of a rule, which stays where it is, that no fsync has
\* followed yet, two threads writing: each spoils the count of the other, which
\* makes them more than the period, but not without a limit.  With many files
\* there is none: the rule counts for all of them and syncs the one at hand.
LateBound ==
    \A r \in ToSet(rules) : r.kind = "single" => r.late <= FsyncPeriod * FsyncPeriod + 1

\* What the rules of a configuration open is theirs, and closed with them (rule.c).
OutputsSound == RuleTypeOK /\ OutputsOwn /\ NothingLeftOpen

=============================================================================
