--------------------------- MODULE MCTpoolControl ---------------------------
(***************************************************************************)
(* Model checking of what the monitor is told and of what it does by       *)
(* itself: a behaviour is one of TpoolLoad or one of TpoolCommand.         *)
(***************************************************************************)
EXTENDS TpoolLoad, TpoolCommand

VARIABLE part    \* which of the two it is

\* Commands that shrink and grow the pool by one.
OneMoreOneLess == {-1, 1}

MCInit ==
    \/ part = "load" /\ Init /\ CommandInit("idle", "exit")
    \/ part = "command" /\ Init /\ CommandInit("o_test", "create")

MCNext ==
    \/ part = "load" /\ Next /\ UNCHANGED <<commandVars, part>>
    \/ part = "command" /\ CommandNext /\ UNCHANGED <<vars, part>>

\* Fairness of TpoolLoad: the monitor's wait ends, by a command or, when none comes for
\* five seconds, by the timer, and the monitor goes on.
LoadFairness == WF_vars(part = "load" /\ (Loadcal \/ Control \/ SomeCommand))

MCSpec ==
    /\ MCInit /\ [][MCNext]_<<vars, commandVars, part>>
    /\ LoadFairness
    /\ CommandFairness

=============================================================================
