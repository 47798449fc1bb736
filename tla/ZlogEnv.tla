------------------------------- MODULE ZlogEnv -------------------------------
(***************************************************************************)
(* The environment of the logging library (fram/module/log/src/zlog.c,     *)
(* category.c, category_table.c, thread.c): a configuration and the        *)
(* categories that point into it, set up, reloaded and torn down by some   *)
(* threads under zlog_env_lock while others log.  Configurations, and the  *)
(* lists of rules taken from them, are numbered in the order in which they *)
(* are built; a freed one is only gone from confs.                         *)
(***************************************************************************)
EXTENDS Integers, FiniteSets, Sequences

CONSTANTS Threads, Names,     \* threads, and the names of categories
          Period,             \* reload_conf_period of every configuration
          Sizes,              \* the buffer sizes a configuration can ask for
          MaxConfs,           \* bound: configurations ever built
          MaxLogs,            \* bound: messages logged
          MaxFails            \* bound: allocations that fail while categories are updated

ASSUME EnvAssumption == Period \in Nat \ {0} /\ MaxConfs \in Nat /\ Names # {}

VARIABLES
    readers,           \* the threads that hold zlog_env_lock for reading
    isInit,            \* zlog_env_is_init
    version,           \* zlog_env_init_version
    count,             \* zlog_env_reload_conf_count
    confs,             \* the configurations that are not freed, and their buffer sizes
    conf,              \* zlog_env_conf, 0 for NULL
    built,             \* configurations built so far (not in the code)
    bound,             \* the configurations whose rules know the recording function
    record,            \* zlog_env_records: whether the function is registered
    fit, backup,       \* fit_rules and fit_rules_backup of each category in
                       \* zlog_env_categories: a configuration, or 0
    thread,            \* a_thread of each thread that has one: version and buffer size
    epc,               \* what each thread does next
    seen,              \* the count that each thread has read
    logs, fails,
    since,             \* messages since the count was reset (not in the code)
    halfway            \* whether the categories were left half updated (not in the code)

envVars == <<readers, isInit, version, count, confs, conf, built, bound, record, fit,
             backup, thread, epc, seen, logs, fails, since, halfway>>
confVars == <<isInit, version, confs, conf, built, bound, record, fit, backup, halfway>>
logVars == <<count, thread, seen, logs, since>>

WriterCalls == {"init", "dinit", "reload", "period", "fini", "get", "record"}

EnvInit ==
    /\ readers = {} /\ isInit = FALSE /\ version = 0 /\ count = 0
    /\ confs = <<>> /\ conf = 0 /\ built = 0 /\ bound = {} /\ record = FALSE
    /\ fit = <<>> /\ backup = <<>> /\ thread = <<>>
    /\ epc = [t \in Threads |-> "idle"] /\ seen = [t \in Threads |-> 0]
    /\ logs = 0 /\ fails = 0 /\ since = 0 /\ halfway = FALSE

Goes(t, here, there) == epc[t] = here /\ epc' = [epc EXCEPT ![t] = there]

-----------------------------------------------------------------------------
(***************************************************************************)
(* The calls that take the lock for writing.  Each is one step: it waits   *)
(* for the readers to leave and nobody sees what it has done until it      *)
(* unlocks.                                                                *)
(***************************************************************************)
\* pthread_rwlock_wrlock of t for call c, to the unlock of it
WrLock(t, c) ==
    /\ Goes(t, IF c = "period" THEN c ELSE "idle", "idle")
    /\ readers = {}
    /\ UNCHANGED <<readers, thread, seen, logs>>

\* zlog_conf_new: a configuration of some buffer size, or NULL
NewConf(s) == /\ built < MaxConfs /\ built' = built + 1
              /\ confs' = [k \in DOMAIN confs \cup {built'} |-> IF k = built' THEN s ELSE confs[k]]
NoConf == UNCHANGED <<built, confs>>

\* Mutant of NextVersion: the second zlog_init makes no new version.
SameVersion == IF version = 0 THEN 2 ELSE version

\* zlog_env_init_version after a successful init
NextVersion == IF version = 0 THEN 2 ELSE version + 1

\* zlog_init_inner, of zlog_init and dzlog_init, and the categories they begin
\* with; zlog_fini_inner undoes a failure but for the version.  When dzlog_init
\* gets no category the configuration it has read stays, of no more use.
Begin(t, c) ==
    /\ WrLock(t, c) /\ c \in {"init", "dinit"} /\ ~isInit
    /\ \/ /\ \E s \in Sizes : NewConf(s)
          /\ isInit' = TRUE /\ conf' = built'
          /\ version' = NextVersion
          /\ fit' = IF c = "init" THEN <<>>
                    ELSE [n \in {CHOOSE n \in Names : TRUE} |-> built']
          /\ UNCHANGED fails
       \/ /\ NoConf /\ conf' = 0
          /\ version' = IF version = 0 THEN 1 ELSE version
          /\ UNCHANGED <<isInit, fit, fails>>
       \/ /\ c = "dinit" /\ fails < MaxFails /\ fails' = fails + 1
          /\ \E s \in Sizes : NewConf(s)
          /\ conf' = built'
          /\ version' = IF version = 0 THEN 1 ELSE version
          /\ UNCHANGED <<isInit, fit>>
    /\ UNCHANGED <<count, bound, record, backup, since, halfway>>

\* Mutant of Due: the count is not tested again.
DueAlready(c) == TRUE

\* The test that zlog_reload makes again under the lock, when it is automatic.
Due(c) == c = "period" => count > Period

\* "already init, use zlog_reload" and "never call zlog_init before", or an
\* automatic reload that another thread has made already.
Refused(t, c) ==
    /\ WrLock(t, c)
    /\ \/ c \in {"init", "dinit"} /\ isInit
       \/ c \in {"reload", "period", "fini", "get", "record"} /\ ~isInit
       \/ c = "period" /\ isInit /\ ~Due(c)
    /\ UNCHANGED <<confVars, count, fails, since>>

\* Mutant of NewBound: the rules of the new configuration are not told.
OldBound == bound

\* zlog_rule_set_record for each new rule
NewBound == (bound \ {conf}) \cup (IF record THEN {built'} ELSE {})

\* Mutant of NewFit: only the categories without rules get new ones.
KeptFit == [n \in DOMAIN fit |-> IF fit[n] = 0 THEN built' ELSE fit[n]]

\* zlog_category_table_update_rules and zlog_category_table_commit_rules
NewFit == [n \in DOMAIN fit |-> built']

\* zlog_reload from the reset of the count on: the categories take their
\* rules from the new configuration, then the old one is freed.
Reload(t, c) ==
    /\ WrLock(t, c) /\ c \in {"reload", "period"} /\ isInit
    /\ Due(c)
    /\ count' = 0 /\ since' = 0
    /\ \E s \in Sizes :
          /\ built < MaxConfs /\ built' = built + 1
          /\ confs' = [k \in (DOMAIN confs \ {conf}) \cup {built'} |->
                          IF k = built' THEN s ELSE confs[k]]
    /\ conf' = built' /\ version' = version + 1
    /\ bound' = NewBound
    /\ fit' = NewFit /\ backup' = <<>>
    /\ halfway' = FALSE
    /\ UNCHANGED <<isInit, record, fails>>

\* zlog_conf_new fails: the old configuration is kept, the count is not.
ReloadRefused(t, c) ==
    /\ WrLock(t, c) /\ c \in {"reload", "period"} /\ isInit
    /\ Due(c)
    /\ count' = 0 /\ since' = 0
    /\ UNCHANGED <<confVars, fails>>

\* zlog_category_update_rules fails for one category, when others may be
\* updated: c_up is 0 then, and nothing is rolled back.  The new configuration
\* is freed all the same.
ReloadFails(t, c) ==
    /\ WrLock(t, c) /\ c \in {"reload", "period"} /\ isInit
    /\ Due(c)
    /\ fails < MaxFails /\ fails' = fails + 1
    /\ built < MaxConfs /\ built' = built + 1
    /\ count' = 0 /\ since' = 0 /\ halfway' = TRUE
    /\ \E n \in DOMAIN fit, done \in SUBSET (DOMAIN fit) :
          /\ n \notin done
          /\ fit' = [k \in DOMAIN fit |-> IF k \in done THEN built' ELSE IF k = n THEN 0 ELSE fit[k]]
          /\ backup' = [k \in done \cup {n} |-> fit[k]]
    /\ UNCHANGED <<isInit, version, confs, conf, bound, record>>

\* Mutant of Fini: what the rules were told is kept.
FiniForgetting(t, c) ==
    /\ WrLock(t, c) /\ c = "fini" /\ isInit
    /\ isInit' = FALSE /\ conf' = 0 /\ fit' = <<>> /\ backup' = <<>> /\ record' = FALSE
    /\ confs' = [k \in DOMAIN confs \ {conf} |-> confs[k]] /\ bound' = bound
    /\ halfway' = FALSE
    /\ UNCHANGED <<version, built, count, fails, since>>

Fini(t, c) ==
    /\ WrLock(t, c) /\ c = "fini" /\ isInit
    /\ isInit' = FALSE /\ conf' = 0 /\ fit' = <<>> /\ backup' = <<>> /\ record' = FALSE
    /\ confs' = [k \in DOMAIN confs \ {conf} |-> confs[k]] /\ bound' = bound \ {conf}
    /\ halfway' = FALSE
    /\ UNCHANGED <<version, built, count, fails, since>>

\* zlog_get_category, and dzlog_set_category
GetCategory(t, c) ==
    /\ WrLock(t, c) /\ c = "get" /\ isInit
    /\ \E n \in Names : fit' = [k \in DOMAIN fit \cup {n} |-> IF k \in DOMAIN fit THEN fit[k] ELSE conf]
    /\ UNCHANGED <<isInit, version, confs, conf, built, bound, record, backup, halfway,
                   count, fails, since>>

\* zlog_set_record
SetRecord(t, c) ==
    /\ WrLock(t, c) /\ c = "record" /\ isInit
    /\ record' = TRUE /\ bound' = bound \cup {conf}
    /\ UNCHANGED <<isInit, version, confs, conf, built, fit, backup, halfway, count, fails, since>>

-----------------------------------------------------------------------------
(***************************************************************************)
(* Logging: zlog and its like, and zlog_put_mdc as far as zlog_fetch_thread*)
(***************************************************************************)

\* pthread_rwlock_rdlock.  The categories that callers keep are those got
\* since the last zlog_fini: needless_level reads them before it takes the lock.
RdLock(t) ==
    /\ logs < MaxLogs /\ logs' = logs + 1
    /\ readers' = readers \cup {t}
    /\ Goes(t, "idle", IF isInit THEN "fetch" ELSE "rdunlock")
    /\ UNCHANGED <<confVars, count, thread, seen, fails, since>>

\* zlog_fetch_thread: what the thread keeps is built for the configuration,
\* or built again when there has been another since.
FetchThread(t) ==
    /\ \E next \in {"output", "rdunlock"} : Goes(t, "fetch", next)
    /\ thread' = [u \in DOMAIN thread \cup {t} |->
                     IF u = t /\ (t \notin DOMAIN thread \/ thread[t].version # version)
                     THEN [version |-> version, size |-> confs[conf]] ELSE thread[u]]
    /\ UNCHANGED <<readers, confVars, count, seen, logs, fails, since>>

\* zlog_category_output, which may fail, and the read of ++zlog_env_reload_conf_count, which
\* other readers of the lock increment at the same time
Output(t) ==
    /\ ~halfway /\ DOMAIN fit # {}
    /\ \/ Goes(t, "output", "count") /\ seen' = [seen EXCEPT ![t] = count] /\ since' = since + 1
       \/ Goes(t, "output", "rdunlock") /\ UNCHANGED <<seen, since>>
    /\ UNCHANGED <<readers, confVars, count, thread, logs, fails>>

Count(t) ==
    /\ epc[t] = "count" /\ count' = seen[t] + 1
    /\ epc' = [epc EXCEPT ![t] = IF count' > Period THEN "toreload" ELSE "rdunlock"]
    /\ UNCHANGED <<readers, confVars, thread, seen, logs, fails, since>>

RdUnlock(t) ==
    /\ \/ Goes(t, "rdunlock", "idle")
       \/ Goes(t, "toreload", "period")
    /\ readers' = readers \ {t}
    /\ UNCHANGED <<confVars, logVars, fails>>

EnvNext ==
    \/ \E t \in Threads, c \in WriterCalls : Begin(t, c)
    \/ \E t \in Threads, c \in WriterCalls : Refused(t, c)
    \/ \E t \in Threads, c \in WriterCalls : Reload(t, c)
    \/ \E t \in Threads, c \in WriterCalls : ReloadRefused(t, c)
    \/ \E t \in Threads, c \in WriterCalls : ReloadFails(t, c)
    \/ \E t \in Threads, c \in WriterCalls : Fini(t, c)
    \/ \E t \in Threads, c \in WriterCalls : GetCategory(t, c)
    \/ \E t \in Threads, c \in WriterCalls : SetRecord(t, c)
    \/ \E t \in Threads : RdLock(t)
    \/ \E t \in Threads : FetchThread(t)
    \/ \E t \in Threads : Output(t)
    \/ \E t \in Threads : Count(t)
    \/ \E t \in Threads : RdUnlock(t)

EnvSpec == EnvInit /\ [][EnvNext]_envVars

-----------------------------------------------------------------------------
EnvTypeOK ==
    /\ readers \subseteq Threads
    /\ isInit \in BOOLEAN /\ version \in Nat /\ count \in Nat /\ built \in 0 .. MaxConfs
    /\ DOMAIN confs \subseteq 1 .. built /\ \A k \in DOMAIN confs : confs[k] \in Sizes
    /\ conf \in {0} \cup DOMAIN confs /\ bound \subseteq DOMAIN confs /\ record \in BOOLEAN
    /\ DOMAIN fit \subseteq Names /\ DOMAIN backup \subseteq Names
    /\ \A t \in DOMAIN thread : thread[t] \in [version : 0 .. version, size : Sizes]
    /\ halfway \in BOOLEAN

\* Every category has the rules of the configuration that is in force, through
\* init, reload, refused reload and fini in any order; unless an allocation
\* failed halfway through an update, which zlog_reload does not roll back.
RulesAlive == isInit /\ ~halfway => \A n \in DOMAIN fit : fit[n] = conf /\ conf \in DOMAIN confs

\* A thread formats its message in buffers made for the configuration in
\* force, though others reload it or end and begin the environment between
\* two messages of that thread.
BuffersFit ==
    \A t \in Threads : epc[t] \in {"output", "count"} =>
        conf # 0 /\ thread[t] = [version |-> version, size |-> confs[conf]]

\* The rules in force record to the function once it is registered, whether it
\* was registered before they were read or after.
RecordsBound == isInit => bound = (IF record THEN {conf} ELSE {})

\* However many threads find that the period is over, and however many
\* increments they lose to each other, an automatic reload comes only when
\* more messages than the period were written since the last one.
ReloadSpaced ==
    [][\A t \in Threads :
          epc[t] = "period" /\ epc'[t] = "idle" /\ conf' # conf => since > Period]_envVars

\* What a thread uses of the environment, rules, buffers and recording functions, is
\* that of a configuration that is there.
EnvSound == EnvTypeOK /\ RulesAlive /\ BuffersFit /\ RecordsBound

=============================================================================
