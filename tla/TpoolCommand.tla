---------------------------- MODULE TpoolCommand ----------------------------
(***************************************************************************)
(* The calls of the thread pool's users to its monitor thread: Tpool_create *)
(* waits for the monitor, Tpool_sizectl and Tpool_destroy leave a command  *)
(* in the pool under olock and wait under ilock for the result             *)
(* (fram/module/threadpool/src/Tpool.c, Tpool_monitor in Tpoolcore.c).     *)
(*                                                                         *)
(* The sections under ilock end in a condition wait or are left at once,   *)
(* so each is one step; olock is a variable because the monitor keeps it   *)
(* while it works.  What a command does to the workers is TpoolWorkers.    *)
(***************************************************************************)
EXTENDS Naturals, FiniteSets

CONSTANTS Clients,      \* threads that use the pool
          Creator,      \* the one of them that creates it
          Monitor, Nobody

ASSUME CommandAssumption ==
    /\ Creator \in Clients
    /\ Monitor \notin Clients /\ Nobody \notin Clients \cup {Monitor}

VARIABLES
    pstatus,    \* pool->status
    olock,      \* the owner of pool->olock, or Nobody
    command,    \* pool->command.command
    iargs,      \* pool->command.iargs: the client whose psize it points to, or
                \* Nobody when it is not set or the psize was freed
    result,     \* pool->command.result
    mstep,        \* what the monitor does next
    mret,       \* ret of Tpool_monitor: how the last command ended
    cpc,        \* what each client does next
    call,       \* the call each client makes: "create", "destroy" or "sizectl"
    ret,        \* what its last call returned
    issuer,     \* the client whose command the monitor finds (not in the code)
    executed,   \* how the command of each client's call ended (not in the code)
    crossed     \* whether calls overlapped or timed out (not in the code)

commandVars == <<pstatus, olock, command, iargs, result, mstep, mret, cpc, call, ret,
          issuer, executed, crossed>>
callHistory == <<issuer, executed, crossed>>
pool == <<pstatus, command, iargs, result>>
monitor == <<mstep, mret>>

-----------------------------------------------------------------------------
\* The pool is being created by a call that is at `first`, and the monitor is
\* at `second`: "o_test" and "create".
CommandInit(first, second) ==
    /\ pstatus = "INIT"
    /\ olock = Nobody
    /\ command = "NONE" /\ iargs = Nobody /\ result = "NONE"
    /\ mstep = second /\ mret = "SUCC"
    /\ cpc = [c \in Clients |-> IF c = Creator THEN first ELSE "idle"]
    /\ call = [c \in Clients |-> "create"]
    /\ ret = [c \in Clients |-> "none"]
    /\ issuer = Nobody
    /\ executed = [c \in Clients |-> "no"]
    /\ crossed = FALSE

CGoto(c, s) == cpc' = [cpc EXCEPT ![c] = s]

Return(c, r) == CGoto(c, "idle") /\ ret' = [ret EXCEPT ![c] = r]

-----------------------------------------------------------------------------
\* Tpool_create waits, under olock, until the status is not INIT any more.
CreateTest ==
    /\ cpc[Creator] = "o_test"
    /\ olock = Nobody
    /\ \/ pstatus = "INIT" /\ CGoto(Creator, "o_wait") /\ UNCHANGED ret
       \/ pstatus = "READY" /\ Return(Creator, "SUCCESS")
       \/ pstatus = "UNAVAILABLE" /\ Return(Creator, "SYSERROR")
    /\ UNCHANGED <<pool, olock, monitor, call, callHistory>>

CreateTimeout ==
    /\ cpc[Creator] = "o_wait"
    /\ olock = Nobody
    /\ Return(Creator, "SYSERROR")
    /\ crossed' = TRUE
    /\ UNCHANGED <<pool, olock, monitor, call, issuer, executed>>

\* The first part of Tpool_destroy and Tpool_sizectl: the status is read under
\* rwlock, which is then released.  The pool is used when it was created.
Begin(c, k) ==
    /\ cpc[c] = "idle" /\ cpc[Creator] \notin {"o_test", "o_wait"}
    /\ ret[Creator] # "SYSERROR" \/ call[Creator] # "create"
    /\ crossed' = (crossed \/ \E d \in Clients : cpc[d] # "idle")
    /\ call' = [call EXCEPT ![c] = k]
    /\ \/ /\ pstatus = "READY"
          /\ CGoto(c, "o_lock")
          /\ executed' = [executed EXCEPT ![c] = "no"]
          /\ UNCHANGED ret
       \/ /\ pstatus # "READY"
          /\ Return(c, "SYSERROR")
          /\ UNCHANGED executed
    /\ UNCHANGED <<pool, olock, monitor, issuer>>

\* Mutant of SetCommand: olock is not released.
SetCommandKeepsLock(c) ==
    /\ cpc[c] = "o_lock"
    /\ olock = Nobody
    /\ olock' = c
    /\ \/ call[c] = "sizectl" /\ command' = "SIZECTL" /\ iargs' = c
       \/ call[c] = "destroy" /\ command' = "DESTROY" /\ UNCHANGED iargs
    /\ mstep' = IF mstep = "wait" THEN "lock" ELSE mstep
    /\ issuer' = c
    /\ CGoto(c, "i_test")
    /\ UNCHANGED <<pstatus, result, call, ret, executed, crossed, mret>>

\* The command is left in the pool, over the one that may be there, and ocond
\* is signalled.
SetCommand(c) ==
    /\ cpc[c] = "o_lock"
    /\ olock = Nobody
    /\ \/ call[c] = "sizectl" /\ command' = "SIZECTL" /\ iargs' = c
       \/ call[c] = "destroy" /\ command' = "DESTROY" /\ UNCHANGED iargs
    /\ mstep' = IF mstep = "wait" THEN "lock" ELSE mstep
    /\ issuer' = c
    /\ CGoto(c, "i_test")
    /\ UNCHANGED <<pstatus, result, olock, call, ret, executed, crossed, mret>>

\* Mutant of End: the result is left for the next call.
EndKeepsResult(c) ==
    /\ \/ call[c] = "sizectl" /\ iargs' = IF iargs = c THEN Nobody ELSE iargs
       \/ call[c] = "destroy" /\ UNCHANGED iargs
    /\ Return(c, "SUCCESS")
    /\ UNCHANGED <<pstatus, command, result, olock, monitor, call, issuer, executed>>

\* The end of a call: Tpool_sizectl resets the result and frees its psize,
\* Tpool_destroy does neither.
End(c) ==
    /\ \/ call[c] = "sizectl" /\ result' = "NONE" /\ iargs' = IF iargs = c THEN Nobody ELSE iargs
       \/ call[c] = "destroy" /\ UNCHANGED <<result, iargs>>
    /\ Return(c, "SUCCESS")
    /\ UNCHANGED <<pstatus, command, olock, monitor, call, issuer, executed>>

\* Mutant of AwaitResult: a wake-up counts as a result.
AwaitResultOnce(c) ==
    /\ cpc[c] = "i_test"
    /\ End(c)
    /\ UNCHANGED crossed

\* The wait for a result under ilock, until there is one ...
AwaitResult(c) ==
    /\ cpc[c] = "i_test"
    /\ \/ /\ result = "NONE"
          /\ CGoto(c, "i_wait")
          /\ UNCHANGED <<pool, olock, monitor, call, ret, callHistory>>
       \/ result # "NONE" /\ End(c) /\ UNCHANGED crossed

\* ... or the time is over: what it returns is the same.
ResultTimeout(c) ==
    /\ cpc[c] = "i_wait"
    /\ End(c)
    /\ crossed' = TRUE

\* A wake-up without a signal.
SpuriousWake(c) ==
    /\ cpc[c] = "i_wait"
    /\ CGoto(c, "i_test")
    /\ UNCHANGED <<pool, olock, monitor, call, ret, callHistory>>

-----------------------------------------------------------------------------
\* The monitor has created the first workers, or has failed to: it says so
\* under olock and signals.
Created ==
    /\ mstep = "create"
    /\ olock = Nobody
    /\ \/ pstatus' = "READY" /\ mstep' = "lock"
       \/ pstatus' = "UNAVAILABLE" /\ mstep' = "failed"
    /\ cpc' = [cpc EXCEPT ![Creator] = IF @ = "o_wait" THEN "o_test" ELSE @]
    /\ UNCHANGED <<mret, command, iargs, result, olock, call, ret, callHistory>>

\* The monitor gets olock back, when it is signalled and when its wait times out.
MonitorLock ==
    /\ mstep \in {"lock", "wait"}
    /\ olock = Nobody
    /\ olock' = Monitor
    /\ mstep' = IF mstep = "lock" THEN "test" ELSE "load"
    /\ UNCHANGED <<pool, mret, cpc, call, ret, callHistory>>

\* The check of the load, after a time-out.
Load ==
    /\ mstep = "load"
    /\ mstep' = "test"
    /\ UNCHANGED <<pool, mret, olock, cpc, call, ret, callHistory>>

\* Mutant of MonitorTest: the monitor sleeps with olock.
MonitorTestKeepsLock ==
    /\ mstep = "test"
    /\ \/ command = "NONE" /\ mstep' = "wait"
       \/ command # "NONE" /\ mstep' = "execute"
    /\ UNCHANGED <<pool, olock, mret, cpc, call, ret, callHistory>>

\* Waiting on ocond releases olock.
MonitorTest ==
    /\ mstep = "test"
    /\ \/ command = "NONE" /\ olock' = Nobody /\ mstep' = "wait"
       \/ command # "NONE" /\ mstep' = "execute" /\ UNCHANGED olock
    /\ UNCHANGED <<pool, mret, cpc, call, ret, callHistory>>

\* The argument that a size command reads when it begins.
ArgumentGone == mstep = "execute" /\ command = "SIZECTL" /\ iargs = Nobody

\* The monitor reads an argument that was freed: anything can happen.
Wild ==
    /\ ArgumentGone
    /\ mstep' = "wild"
    /\ UNCHANGED <<pool, mret, olock, cpc, call, ret, callHistory>>

\* The command is done, with olock held all the time; a size command may fail.
Execute(r) ==
    /\ mstep = "execute"
    /\ ~ArgumentGone
    /\ command = "DESTROY" => r = "SUCC"
    /\ pstatus' = IF command = "DESTROY" THEN "UNAVAILABLE" ELSE pstatus
    /\ executed' = [executed EXCEPT ![issuer] = r]
    /\ mstep' = "result" /\ mret' = r
    /\ UNCHANGED <<command, iargs, result, olock, cpc, call, ret, issuer, crossed>>

\* The result, under ilock; the signal wakes one of the clients that wait.
Result ==
    /\ mstep = "result"
    /\ result' = mret
    /\ mstep' = "clear"
    /\ LET waiting == {c \in Clients : cpc[c] = "i_wait"}
       IN  \/ waiting = {} /\ UNCHANGED cpc
           \/ \E c \in waiting : CGoto(c, "i_test")
    /\ UNCHANGED <<pstatus, mret, command, iargs, olock, call, ret, callHistory>>

\* Mutant of Clear: the command stays in the pool.
ClearNothing ==
    /\ mstep = "clear"
    /\ mstep' = IF command = "DESTROY" THEN "exit" ELSE "test"
    /\ UNCHANGED <<pool, mret, olock, cpc, call, ret, callHistory>>

\* The command is over.  After Tpool_destroy the monitor ends and keeps olock.
Clear ==
    /\ mstep = "clear"
    /\ command' = "NONE"
    /\ mstep' = IF command = "DESTROY" THEN "exit" ELSE "test"
    /\ UNCHANGED <<pstatus, mret, iargs, result, olock, cpc, call, ret, callHistory>>

Results == {"SUCC", "ERR"}

ClientStep(c) ==
    \/ c = Creator /\ (CreateTest \/ CreateTimeout)
    \/ SetCommand(c) \/ AwaitResult(c) \/ ResultTimeout(c)

MonitorStep ==
    \/ Created \/ MonitorLock \/ Load \/ MonitorTest \/ Wild
    \/ \E r \in Results : Execute(r)
    \/ Result \/ Clear

CommandNext ==
    \/ \E c \in Clients : \/ ClientStep(c) \/ SpuriousWake(c)
                          \/ \E k \in {"sizectl", "destroy"} : Begin(c, k)
    \/ MonitorStep

CommandSpec == CommandInit("o_test", "create") /\ [][CommandNext]_commandVars

\* Fairness: threads that can go on do, the mutex does not starve a thread for
\* ever, the monitor's work ends, and a wait does not go on, through any number of
\* wake-ups, when its deadline is over.
CommandFairness ==
    /\ SF_commandVars(MonitorStep)
    /\ \A c \in Clients : SF_commandVars(ClientStep(c)) /\ SF_commandVars(ResultTimeout(c))

-----------------------------------------------------------------------------
CommandTypeOK ==
    /\ pstatus \in {"INIT", "READY", "UNAVAILABLE"}
    /\ olock \in {Monitor, Nobody}
    /\ command \in {"NONE", "SIZECTL", "DESTROY"}
    /\ iargs \in Clients \cup {Nobody}
    /\ result \in Results \cup {"NONE"}
    /\ mstep \in {"create", "lock", "load", "test", "wait", "execute", "result",
                "clear", "exit", "failed", "wild"}
    /\ mret \in Results
    /\ cpc \in [Clients -> {"idle", "o_test", "o_wait", "o_lock", "i_test", "i_wait"}]
    /\ call \in [Clients -> {"create", "sizectl", "destroy"}]
    /\ ret \in [Clients -> {"none", "SUCCESS", "SYSERROR"}]
    /\ issuer \in Clients \cup {Nobody}
    /\ executed \in [Clients -> Results \cup {"no"}]
    /\ crossed \in BOOLEAN

\* A call that the pool accepted is done when it returns: no call takes the
\* result of another, and none returns on a result that was left over.  This
\* holds as long as calls are made one at a time and none has timed out.
DoneOnReturn ==
    ~crossed => \A c \in Clients :
        cpc[c] = "idle" /\ call[c] # "create" /\ ret[c] = "SUCCESS" => executed[c] # "no"

\* The size that the monitor reads has not been freed by the call it belongs to,
\* as long as calls are made one at a time and none has timed out.
ArgumentAlive == ~crossed => ~ArgumentGone

\* A command is executed once: what the monitor does with olock held, and the
\* reset of the command before it lets go, is never repeated for the same call, as long as
\* calls are made one at a time and none has timed out.
ExecutedOnce ==
    [][~crossed' => \A c \in Clients : executed[c] # "no" => executed'[c] \in {executed[c], "no"}]_commandVars

\* Every call returns, whatever overlaps and times out, but for one that read
\* the status before the pool was destroyed and wants the olock that the monitor
\* has taken with it, or that the monitor lost its way with a freed argument.
CallReturns ==
    \A c \in Clients :
        cpc[c] # "idle" ~>
            \/ cpc[c] = "idle"
            \/ cpc[c] = "o_lock" /\ mstep \in {"exit", "wild"}

\* A call to the monitor returns with its command carried out and its argument
\* alive until then, as long as calls neither overlap nor time out.
CommandSound == CommandTypeOK /\ DoneOnReturn /\ ArgumentAlive

\* A command is carried out once, and its call returns.
CommandsServed == ExecutedOnce /\ CallReturns

=============================================================================
