------------------------------- MODULE PipcMsg -------------------------------
(***************************************************************************)
(* POSIX message queues: the second half of fram/module/ipc/src/ipcmsg.c.  *)
(*                                                                         *)
(* A descriptor has a flag, O_NONBLOCK, that all its users share.  Each    *)
(* function saves it, sets it, works and puts it back, so that threads     *)
(* with one descriptor change it under each other.  As in BlockShm a       *)
(* function is a program, the sequence of its steps.  The queue is used    *)
(* with pipc_msg_notify_thread, whose threads take what arrives, or with   *)
(* receivers that are told of its end by messages of priority 31.          *)
(***************************************************************************)
EXTENDS Naturals, Sequences, FiniteSets, SequencesExt

CONSTANTS Threads,    \* threads that call the functions
          DescOf,     \* the descriptor each of them uses
          Handlers,   \* the threads that notifications start
          Shared,     \* the descriptor that notifications were asked for with
          PCap,       \* messages the queue has room for
          MaxMsgs,    \* bound: messages sent in all
          Receivers,  \* bound: the threads that receive
          Senders,    \* bound: those that send; receivers only to notifications
          Enders      \* bound: those that end the queue, which no receiver does

ASSUME PipcAssumption ==
    /\ PCap \in Nat /\ MaxMsgs \in Nat \ {0}
    /\ Receivers \cup Senders \cup Enders \subseteq Threads /\ Receivers \cap Enders = {}
    /\ Receivers # {} /\ IsFiniteSet(Receivers) /\ Handlers \cap Threads = {}

VARIABLES
    use,         \* "receive" or "notify", how the queue is used
    nonblock,    \* nonblock[d]: the flag of descriptor d
    open,        \* the descriptors that are open
    linked,      \* the name of the queue exists
    pqueue,      \* the messages, greatest priority first
    registered,  \* a notification is asked for
    job,         \* job[t]: what thread t has to do and has read
    sent,        \* messages sent; a message is named by its number
    got,         \* history: messages given to the user
    alone,       \* history: threads that nobody with their descriptor crosses
    wild         \* history: the parameters of a notification were gone

pipcVars == <<use, nonblock, open, linked, pqueue, registered, job, sent, got, alone, wild>>

Poison == 0
All == Threads \cup Handlers
Desc(t) == IF t \in Handlers THEN Shared ELSE DescOf[t]
NoJob == [pc |-> <<>>, fn |-> "none", old |-> FALSE, msg |-> <<>>, left |-> 0]

\* Mutant of pipc_msg_recv: the flag is left as it is.
RecvAsIs == <<"receive", "deliver">>
pipc_msg_recv == <<"clear", "receive", "restore", "deliver">>
pipc_msg_recv_nowait == <<"set", "receive", "restore", "deliver">>
\* The same for pipc_msg_send_nowait.
pipc_msg_send == <<"set", "send", "restore">>
pipc_msg_destory == <<"set", "clean", "restore", "poison", "close", "unlink">>
\* Mutant of pipc_msg_thread_func: the notification is asked for at the end.
ThreadFuncRearmsLast == <<"set", "take", "restore", "rearm">>
pipc_msg_thread_func == <<"rearm", "set", "take", "restore">>

Program == [recv |-> pipc_msg_recv, recv_nowait |-> pipc_msg_recv_nowait,
            send |-> pipc_msg_send, destory |-> pipc_msg_destory]

\* pipc_msg_create and, for its notifications, pipc_msg_notify_thread.
PipcInit(budget) ==
    /\ use \in {"receive", "notify"}
    /\ nonblock = [d \in {Shared} \cup {DescOf[t] : t \in Threads} |-> FALSE]
    /\ open = DOMAIN nonblock /\ linked = (budget > 0)
    /\ pqueue = <<>> /\ registered = (use = "notify")
    /\ job = [t \in All |-> NoJob]
    /\ sent = MaxMsgs - budget /\ got = {} /\ alone = {} /\ wild = FALSE

Does(t, s) == job[t].pc # <<>> /\ Head(job[t].pc) = s
Busy(t) == job[t] # NoJob
After(r, steps) == IF steps = <<>> THEN NoJob ELSE [r EXCEPT !.pc = steps]
Goto(t, r, steps) == job' = [job EXCEPT ![t] = After(r, steps)]
Go(t, r) == Goto(t, r, Tail(r.pc))
Return(t) == Goto(t, job[t], <<>>)
Waiting == {t \in All : Does(t, "wait")}
Flag(t) == nonblock[Desc(t)]

\* The descriptors open for receiving: as many as pipc_msg_destory is to tell.
Opened == {DescOf[r] : r \in Receivers}

\* Thread t begins a function: it is alone, or nobody with its descriptor is.
Company(t) == {u \in All \ {t} : Busy(u) /\ Desc(u) = Desc(t)}
AloneAfter(t) == IF Company(t) = {} THEN alone \cup {t} ELSE alone \ (Company(t) \cup {t})

-----------------------------------------------------------------------------
Call(t, fn) ==
    /\ ~Busy(t) /\ Desc(t) \in open /\ linked
    /\ job' = [job EXCEPT ![t] = [NoJob EXCEPT !.pc = Program[fn], !.fn = fn,
                                               !.left = Cardinality(Opened)]]
    /\ alone' = AloneAfter(t)
    /\ UNCHANGED <<use, nonblock, open, linked, pqueue, registered, sent, got, wild>>

\* Who does what: a receiver only receives; the number that pipc_msg_destory
\* is given is that of the open descriptors (its comment, ipcmsg.c:475).
Calls ==
    \/ use = "receive" /\ sent < MaxMsgs /\
       \E t \in Receivers : Call(t, "recv") \/ Call(t, "recv_nowait")
    \/ sent < MaxMsgs /\ \E t \in Senders : (use = "notify" \/ t \notin Receivers) /\ Call(t, "send")
    \/ use = "receive" /\ sent > 0 /\ \E t \in Enders : Call(t, "destory")

\* pipc_msg_setattr: the flag is saved and set, and put back at the end; a
\* descriptor that another thread has closed ends the function, and what was
\* received is lost.
SetAttr(t) ==
    /\ Does(t, "set") \/ Does(t, "clear") \/ Does(t, "restore")
    /\ \/ /\ Desc(t) \in open
          /\ nonblock' = [nonblock EXCEPT ![Desc(t)] =
                CASE Does(t, "set") -> TRUE [] Does(t, "clear") -> FALSE [] OTHER -> job[t].old]
          /\ Go(t, [job[t] EXCEPT !.old = Flag(t)])
       \/ Desc(t) \notin open /\ Return(t) /\ UNCHANGED nonblock
    /\ UNCHANGED <<use, open, linked, pqueue, registered, sent, got, alone, wild>>

\* mq_send puts message m by its priority, or hands it to a thread that waits;
\* on an empty queue it uses the notification up, which starts a thread.
Put(t, m, r) ==
    \/ \E w \in Waiting :
          /\ job' = [job EXCEPT ![t] = r, ![w] = [job[w] EXCEPT !.pc = Tail(@), !.msg = <<m>>]]
          /\ UNCHANGED <<pqueue, registered, alone>>
    \/ /\ Waiting = {}
       /\ pqueue' = IF m = Poison THEN <<Poison>> \o pqueue ELSE Append(pqueue, m)
       /\ \/ /\ registered /\ pqueue = <<>> /\ registered' = FALSE
             /\ \E h \in Handlers :
                   /\ ~Busy(h)
                   /\ job' = [job EXCEPT ![t] = r, ![h] = [NoJob EXCEPT !.pc = pipc_msg_thread_func]]
                   /\ alone' = AloneAfter(h)
          \/ /\ ~(registered /\ pqueue = <<>>)
             /\ job' = [job EXCEPT ![t] = r]
             /\ UNCHANGED <<registered, alone>>

\* Mutant of Send: a full queue is not noticed.
SendFull(t) ==
    /\ Does(t, "send") /\ sent < MaxMsgs
    /\ sent' = sent + 1 /\ Put(t, sent + 1, After(job[t], Tail(job[t].pc)))
    /\ UNCHANGED <<use, nonblock, open, linked, got, wild>>

\* A full queue: EAGAIN, and pipc_msg_send, too, returns with the flag set.
Send(t) ==
    /\ Does(t, "send") /\ sent < MaxMsgs
    /\ \/ /\ Len(pqueue) < PCap /\ sent' = sent + 1
          /\ Put(t, sent + 1, After(job[t], Tail(job[t].pc)))
       \/ /\ Len(pqueue) = PCap /\ Flag(t) /\ Return(t)
          /\ UNCHANGED <<pqueue, registered, alone, sent>>
    /\ UNCHANGED <<use, nonblock, open, linked, got, wild>>

\* mq_receive: whether it waits is decided by the flag as it is then.  EAGAIN
\* ends both functions without putting the flag back.
MqReceive(t) ==
    /\ Does(t, "receive")
    /\ \/ /\ pqueue # <<>>
          /\ pqueue' = Tail(pqueue) /\ Go(t, [job[t] EXCEPT !.msg = <<Head(pqueue)>>])
       \/ pqueue = <<>> /\ Flag(t) /\ Return(t) /\ UNCHANGED pqueue
       \/ /\ pqueue = <<>> /\ ~Flag(t)
          /\ Goto(t, job[t], <<"wait">> \o Tail(job[t].pc)) /\ UNCHANGED pqueue
    /\ UNCHANGED <<use, nonblock, open, linked, registered, sent, got, alone, wild>>

\* A message of priority 31 closes the descriptor, others go to the user.
Deliver(t) ==
    /\ Does(t, "deliver")
    /\ \/ job[t].msg = <<Poison>> /\ open' = open \ {Desc(t)} /\ UNCHANGED got
       \/ job[t].msg # <<Poison>> /\ got' = got \cup ToSet(job[t].msg) /\ UNCHANGED open
    /\ Go(t, job[t])
    /\ UNCHANGED <<use, nonblock, linked, pqueue, registered, sent, alone, wild>>

\* pipc_msg_clean receives until the queue is empty.
Clean(t) ==
    /\ Does(t, "clean")
    /\ \/ pqueue # <<>> /\ pqueue' = Tail(pqueue) /\ UNCHANGED job
       \/ pqueue = <<>> /\ Go(t, job[t]) /\ UNCHANGED pqueue
    /\ UNCHANGED <<use, nonblock, open, linked, registered, sent, got, alone, wild>>

\* Mutant of Tell: one message less.
TellOneLess(t) ==
    /\ Does(t, "poison")
    /\ LET r == [job[t] EXCEPT !.left = @ - 1]
       IN  IF r.left = 0 THEN Go(t, r) /\ UNCHANGED <<pqueue, registered, alone>>
           ELSE /\ Len(pqueue) < PCap /\ Put(t, Poison, r)
    /\ UNCHANGED <<use, nonblock, open, linked, sent, got, wild>>

\* pipc_msg_destory tells num times; when the queue is full it gives up,
\* with the name and the messages it has sent left behind.
Tell(t) ==
    /\ Does(t, "poison")
    /\ LET r == [job[t] EXCEPT !.left = @ - 1]
       IN  \/ /\ Len(pqueue) < PCap
              /\ Put(t, Poison, IF r.left > 0 THEN r ELSE After(r, Tail(r.pc)))
           \/ Len(pqueue) = PCap /\ Return(t) /\ UNCHANGED <<pqueue, registered, alone>>
    /\ UNCHANGED <<use, nonblock, open, linked, sent, got, wild>>

pipc_msg_close(t) ==
    /\ Does(t, "close")
    /\ open' = open \ {Desc(t)} /\ Go(t, job[t])
    /\ UNCHANGED <<use, nonblock, linked, pqueue, registered, sent, got, alone, wild>>

__pipc_msg_destory(t) ==
    /\ Does(t, "unlink")
    /\ linked' = FALSE /\ Go(t, job[t])
    /\ UNCHANGED <<use, nonblock, open, pqueue, registered, sent, got, alone, wild>>

-----------------------------------------------------------------------------
\* The thread of a notification asks for the next one first.  Its parameters
\* are in the frame of pipc_msg_notify_thread, which has returned: they may
\* still be there, or the thread ends on what it finds.
Rearm(h) ==
    /\ Does(h, "rearm")
    /\ \/ registered' = TRUE /\ Go(h, job[h]) /\ UNCHANGED wild
       \/ wild' = TRUE /\ Return(h) /\ UNCHANGED registered
    /\ UNCHANGED <<use, nonblock, open, linked, pqueue, sent, got, alone>>

\* It takes messages until EAGAIN; with the flag cleared under it, it waits.
Take(h) ==
    /\ Does(h, "take")
    /\ \/ /\ job[h].msg # <<>>
          /\ got' = got \cup ToSet(job[h].msg)
          /\ job' = [job EXCEPT ![h].msg = <<>>] /\ UNCHANGED pqueue
       \/ /\ job[h].msg = <<>> /\ pqueue # <<>>
          /\ pqueue' = Tail(pqueue) /\ got' = got \cup {Head(pqueue)} /\ UNCHANGED job
       \/ /\ job[h].msg = <<>> /\ pqueue = <<>> /\ Flag(h)
          /\ Go(h, job[h]) /\ UNCHANGED <<pqueue, got>>
       \/ /\ job[h].msg = <<>> /\ pqueue = <<>> /\ ~Flag(h)
          /\ Goto(h, job[h], <<"wait">> \o job[h].pc) /\ UNCHANGED <<pqueue, got>>
    /\ UNCHANGED <<use, nonblock, open, linked, registered, sent, alone, wild>>

Step(t) ==
    \/ SetAttr(t) \/ Send(t) \/ MqReceive(t) \/ Deliver(t) \/ Clean(t)
    \/ Tell(t) \/ pipc_msg_close(t) \/ __pipc_msg_destory(t) \/ Rearm(t) \/ Take(t)

PipcNext == Calls \/ \E t \in All : Step(t)

\* The threads run.
PipcFairness == \A t \in All : WF_pipcVars(Step(t))

PipcSpec == PipcInit(MaxMsgs) /\ [][PipcNext]_pipcVars /\ PipcFairness

-----------------------------------------------------------------------------
PipcTypeOK ==
    /\ Len(pqueue) <= PCap /\ ToSet(pqueue) \subseteq 0..MaxMsgs /\ sent \in 0..MaxMsgs
    /\ got \subseteq 1..sent /\ registered \in BOOLEAN /\ DOMAIN job = All

\* The flag a thread has set is there when it counts, unless another function
\* with its descriptor has crossed its own: what earlier calls left behind,
\* the flag after an EAGAIN too, does no harm.
ModeIsOwn ==
    \A t \in alone :
        /\ Does(t, "receive") \/ Does(t, "send") => Flag(t) = (job[t].fn # "recv")
        /\ Does(t, "wait") => job[t].fn = "recv"

\* Once pipc_msg_destory has succeeded, it has stopped as many receivers as it was given
\* descriptors: nobody waits for what never comes if each receiver has its own, and of
\* those that share them no more than were not counted.
EndTold == ~linked => Cardinality(Waiting) + Cardinality(Opened) <= Cardinality(Receivers)

\* Whatever arrives while the threads of notifications come and go is taken by
\* one of them, as long as their parameters are there.
NotifiedServed ==
    use = "notify" /\ got # 1..sent ~> got = 1..sent \/ wild

\* Who is alone on a descriptor works in the mode it asked for, and the end of a queue
\* reaches as many of those who wait for it as there are descriptors.
PosixSound == PipcTypeOK /\ ModeIsOwn /\ EndTold

=============================================================================
