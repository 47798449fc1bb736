------------------------------ MODULE MCIpcMsg ------------------------------
(***************************************************************************)
(* Model checking of both kinds of message queues: a behaviour is one of   *)
(* VipcMsg, with none of the calls of PipcMsg left, or the other way round.*)
(***************************************************************************)
EXTENDS VipcMsg, PipcMsg, TLC

CONSTANTS t1, t2, t3, d1, d2

MCInit ==
    \/ VipcInit(MaxCalls) /\ PipcInit(0) /\ use = "receive"
    \/ VipcInit(0) /\ PipcInit(MaxMsgs)

MCNext ==
    \/ VipcNext /\ UNCHANGED pipcVars
    \/ PipcNext /\ UNCHANGED vipcVars

MCSpec == MCInit /\ [][MCNext]_<<vipcVars, pipcVars>> /\ VipcFairness /\ PipcFairness

\* Two receivers share a descriptor, which sends, too; the third thread ends the queue.
TwoShareOne == (t1 :> d1 @@ t2 :> d1 @@ t3 :> d2)

=============================================================================
