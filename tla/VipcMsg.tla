------------------------------- MODULE VipcMsg -------------------------------
(***************************************************************************)
(* System V message queues: the first half of fram/module/ipc/src/ipcmsg.c.*)
(*                                                                         *)
(* Clients send a request with vipc_msg_send_recv and wait for its answer, *)
(* of a type of their own, until an alarm goes off; a server, as a user of *)
(* the library would write it, takes the requests and answers them.  The   *)
(* queue can be cleaned, removed and made again meanwhile.                 *)
(***************************************************************************)
EXTENDS Integers, Sequences, FiniteSets, SequencesExt

CONSTANTS Clients,    \* processes with one thread
          MsgCap,     \* messages a queue has room for
          MaxCalls,   \* bound: requests in all
          MaxQueues   \* bound: queues made under the key

ASSUME VipcAssumption ==
    /\ Clients \cap {"request", "none"} = {}
    /\ MsgCap \in Nat /\ MaxCalls \in Nat /\ MaxQueues \in Nat \ {0}

VARIABLES
    qid,       \* the queue the key names, 0 when there is none
    queues,    \* queues made
    queue,     \* its messages
    calls,     \* requests made so far; a request is named by its number
    call,      \* call[c]: where client c is in vipc_msg_send_recv
    overtime,  \* overtime[c]: i_vmsg_overtime_flag
    armed,     \* armed[c]: an alarm is to come
    request,   \* the request the server works on, or NoMessage
    ended,     \* history: how a request ended and which answer it got
    early      \* history: clients whose alarm came before they waited

vipcVars == <<qid, queues, queue, calls, call, overtime, armed, request, ended, early>>
queueVars == <<qid, queues, queue>>
alarmVars == <<overtime, armed, early>>

NoMessage == [type |-> "none", from |-> "none", of |-> 0]
AtRest == [pc |-> "idle", id |-> 0, of |-> 0, msg |-> NoMessage]

\* Somebody has made the queue; bound: so many requests are to come.
VipcInit(budget) ==
    /\ qid = 1 /\ queues = (IF budget = 0 THEN MaxQueues ELSE 1) /\ queue = <<>>
    /\ calls = MaxCalls - budget
    /\ call = [c \in Clients |-> AtRest]
    /\ overtime = [c \in Clients |-> FALSE] /\ armed = [c \in Clients |-> FALSE]
    /\ request = NoMessage
    /\ ended = {} /\ early = {}

\* The first message of a type, which msgrcv takes.
OfType(t) == {i \in DOMAIN queue : queue[i].type = t}
\* Mutant of First: the last one.
Latest(t) == CHOOSE i \in OfType(t) : \A j \in OfType(t) : j <= i
First(t) == CHOOSE i \in OfType(t) : \A j \in OfType(t) : i <= j
Room(id) == id = qid /\ Len(queue) < MsgCap

Set(c, pc) == call' = [call EXCEPT ![c].pc = pc]
EndCall(c, how, answer) ==
    /\ call' = [call EXCEPT ![c] = AtRest]
    /\ ended' = ended \cup {[from |-> c, of |-> call[c].of, how |-> how, answer |-> answer]}

-----------------------------------------------------------------------------
vipc_msg_create ==
    /\ qid = 0 /\ queues < MaxQueues /\ calls < MaxCalls
    /\ queues' = queues + 1 /\ qid' = queues + 1 /\ queue' = <<>>
    /\ UNCHANGED <<calls, call, alarmVars, request, ended>>

\* Mutant of vipc_msg_destory: the messages stay.
DestoryKeeps ==
    /\ qid # 0 /\ calls > 0 /\ queues < MaxQueues
    /\ qid' = 0
    /\ UNCHANGED <<queues, queue, calls, call, alarmVars, request, ended>>

\* Whoever waits for the queue returns with EIDRM (SendFails, ReceiveFails).
vipc_msg_destory ==
    /\ qid # 0 /\ calls > 0 /\ queues < MaxQueues
    /\ qid' = 0 /\ queue' = <<>>
    /\ UNCHANGED <<queues, calls, call, alarmVars, request, ended>>

\* vipc_msg_clean: a client removes its late answers, one at a time; bound: it
\* begins when there is one.
VipcClean(c) ==
    /\ call[c] = AtRest /\ OfType(c) # {}
    /\ call' = [call EXCEPT ![c].pc = "clean", ![c].id = qid]
    /\ UNCHANGED <<calls, queueVars, alarmVars, request, ended>>

VipcCleanNext(c) ==
    /\ call[c].pc = "clean" /\ call[c].id = qid /\ OfType(c) # {}
    /\ queue' = RemoveAt(queue, First(c))
    /\ UNCHANGED <<qid, queues, calls, call, alarmVars, request, ended>>

\* ENOMSG, or the queue is gone.
VipcCleanEnds(c) ==
    /\ call[c].pc = "clean" /\ (call[c].id # qid \/ OfType(c) = {})
    /\ call' = [call EXCEPT ![c] = AtRest]
    /\ UNCHANGED <<calls, queueVars, alarmVars, request, ended>>

-----------------------------------------------------------------------------
\* vipc_msg_send_recv begins: the flag is reset, the alarm of an earlier call
\* may still be to come.
Begin(c) ==
    /\ call[c] = AtRest /\ calls < MaxCalls /\ qid # 0
    /\ calls' = calls + 1
    /\ call' = [call EXCEPT ![c] = [AtRest EXCEPT !.pc = "send", !.id = qid, !.of = calls + 1]]
    /\ overtime' = [overtime EXCEPT ![c] = FALSE]
    /\ early' = early \ {c}
    /\ UNCHANGED <<armed, queueVars, request, ended>>

\* vipc_msg_send waits for room.
SendRequest(c) ==
    /\ call[c].pc = "send" /\ Room(call[c].id)
    /\ queue' = Append(queue, [type |-> "request", from |-> c, of |-> call[c].of])
    /\ Set(c, "alarm")
    /\ UNCHANGED <<qid, queues, calls, alarmVars, request, ended>>

SendFails(c) ==
    /\ call[c].pc = "send" /\ call[c].id # qid
    /\ EndCall(c, "error", NoMessage)
    /\ UNCHANGED <<calls, queueVars, alarmVars, request>>

\* alarm(time) replaces what is left of an earlier alarm.
SetAlarm(c) ==
    /\ call[c].pc = "alarm"
    /\ armed' = [armed EXCEPT ![c] = TRUE]
    /\ Set(c, "enter")
    /\ UNCHANGED <<calls, overtime, early, queueVars, request, ended>>

\* Malloc: without memory the call ends and leaves the alarm on.
NoMemory(c) ==
    /\ call[c].pc = "enter"
    /\ EndCall(c, "error", NoMessage)
    /\ UNCHANGED <<calls, queueVars, alarmVars, request>>

Enter(c) ==
    /\ call[c].pc = "enter"
    /\ Set(c, "wait")
    /\ UNCHANGED <<calls, queueVars, alarmVars, request, ended>>

\* SIGALRM: vmsg_alram sets the flag.  It interrupts msgsnd, which is an error,
\* and msgrcv; nothing remembers it when it comes before.
AlarmRings(c) ==
    /\ armed[c]
    /\ armed' = [armed EXCEPT ![c] = FALSE]
    /\ overtime' = [overtime EXCEPT ![c] = TRUE]
    /\ early' = IF call[c].pc \in {"alarm", "enter"} THEN early \cup {c} ELSE early
    /\ \/ call[c].pc = "send" /\ EndCall(c, "error", NoMessage)
       \/ call[c].pc = "wait" /\ Set(c, "test") /\ UNCHANGED ended
       \/ call[c].pc \notin {"send", "wait"} /\ UNCHANGED <<call, ended>>
    /\ UNCHANGED <<calls, queueVars, request>>

\* Mutant of Receive: the first answer to anybody.
ReceiveAny(c) ==
    /\ call[c].pc = "wait" /\ call[c].id = qid
    /\ \E i \in DOMAIN queue :
          /\ queue[i].type # "request"
          /\ call' = [call EXCEPT ![c].pc = "test", ![c].msg = queue[i]]
          /\ queue' = RemoveAt(queue, i)
    /\ UNCHANGED <<qid, queues, calls, alarmVars, request, ended>>

Receive(c) ==
    /\ call[c].pc = "wait" /\ call[c].id = qid /\ OfType(c) # {}
    /\ call' = [call EXCEPT ![c].pc = "test", ![c].msg = queue[First(c)]]
    /\ queue' = RemoveAt(queue, First(c))
    /\ UNCHANGED <<qid, queues, calls, alarmVars, request, ended>>

\* EIDRM: the call ends and leaves the alarm on.
ReceiveFails(c) ==
    /\ call[c].pc = "wait" /\ call[c].id # qid
    /\ EndCall(c, "error", NoMessage)
    /\ UNCHANGED <<calls, queueVars, alarmVars, request>>

\* Mutant of Test: an interrupted call waits again, whatever interrupted it.
TestAgain(c) ==
    /\ call[c].pc = "test"
    /\ \/ call[c].msg # NoMessage /\ EndCall(c, "answer", call[c].msg)
       \/ call[c].msg = NoMessage /\ Set(c, "wait") /\ UNCHANGED ended
    /\ UNCHANGED <<calls, queueVars, alarmVars, request>>

\* The flag decides: an answer that came after the alarm is lost.
Test(c) ==
    /\ call[c].pc = "test"
    /\ \/ overtime[c] /\ EndCall(c, "overtime", call[c].msg) /\ UNCHANGED armed
       \/ /\ ~overtime[c]
          /\ EndCall(c, "answer", call[c].msg)
          /\ armed' = [armed EXCEPT ![c] = FALSE]
    /\ UNCHANGED <<calls, overtime, early, queueVars, request>>

-----------------------------------------------------------------------------
\* The server takes the oldest request, with any of the three functions.
vipc_msg_recv ==
    /\ request = NoMessage /\ OfType("request") # {}
    /\ request' = queue[First("request")]
    /\ queue' = RemoveAt(queue, First("request"))
    /\ UNCHANGED <<qid, queues, calls, call, alarmVars, ended>>

\* The answer waits for room; the key may name another queue by now.
vipc_msg_send_masksig ==
    /\ request # NoMessage /\ qid # 0 /\ Room(qid)
    /\ queue' = Append(queue, [request EXCEPT !.type = request.from])
    /\ request' = NoMessage
    /\ UNCHANGED <<qid, queues, calls, call, alarmVars, ended>>

\* Without room, or without a queue, the answer is given up.
vipc_msg_send_nowait ==
    /\ request # NoMessage /\ ~Room(qid)
    /\ request' = NoMessage
    /\ UNCHANGED <<calls, call, queueVars, alarmVars, ended>>

CallStep(c) ==
    \/ SendRequest(c) \/ SendFails(c) \/ SetAlarm(c) \/ NoMemory(c) \/ Enter(c)
    \/ Receive(c) \/ ReceiveFails(c) \/ Test(c) \/ VipcCleanNext(c) \/ VipcCleanEnds(c)

VipcNext ==
    \/ vipc_msg_create \/ vipc_msg_destory
    \/ vipc_msg_recv \/ vipc_msg_send_masksig \/ vipc_msg_send_nowait
    \/ \E c \in Clients : Begin(c) \/ VipcClean(c) \/ CallStep(c) \/ AlarmRings(c)

VipcSpec == (\E budget \in {0, MaxCalls} : VipcInit(budget)) /\ [][VipcNext]_vipcVars

\* A process goes on when it can, and time passes; nobody has to serve.
VipcFairness == \A c \in Clients : WF_vipcVars(CallStep(c)) /\ WF_vipcVars(AlarmRings(c))

-----------------------------------------------------------------------------
VipcTypeOK ==
    /\ qid \in 0..queues /\ Len(queue) <= MsgCap /\ calls \in 0..MaxCalls
    /\ \A c \in Clients : call[c].pc \in {"idle", "clean", "send", "alarm", "enter", "wait", "test"}
    /\ qid = 0 => queue = <<>>

\* The answer a call returns is its own, unless an earlier request of the same
\* client was given up, in time or in error: its late answer stays, and from
\* then on each call may get that of the call before.  Never is it the answer
\* of another client, nor is one returned twice.
AnswersNotMixed ==
    \A e \in ended : e.how = "answer" =>
        /\ e.answer.from = e.from
        /\ e.answer.of = e.of \/ \E f \in ended : f.from = e.from /\ f.of < e.of /\ f.how # "answer"
        /\ \A f \in ended : f.answer = e.answer => f = e

\* An answer can only be late, never ahead of an older one: the answers a
\* client gets come in the order of its requests.
AnswersInOrder ==
    \A e, f \in ended :
        e.from = f.from /\ e.answer # NoMessage /\ f.answer # NoMessage /\ e.of < f.of
            => e.answer.of < f.answer.of

\* A call ends, whatever the server does, unless it waits for room, which no
\* alarm bounds, or its alarm went off before it waited for the answer.
CallsEnd ==
    \A c \in Clients :
        call[c].pc # "idle" ~> \/ call[c].pc = "idle"
                               \/ call[c].pc = "send" /\ ~Room(qid)
                               \/ call[c].pc = "wait" /\ c \in early

\* A client never takes the answer to a call of another, nor its own out of order.
AnswersRight == VipcTypeOK /\ AnswersNotMixed /\ AnswersInOrder

=============================================================================
