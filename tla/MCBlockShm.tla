----------------------------- MODULE MCBlockShm -----------------------------
(***************************************************************************)
(* Model checking of shared memory and of the lock around it: a behaviour  *)
(* is one of RWLock, or one of BlockShm over the abstract lock that RWLock *)
(* is shown to implement.                                                  *)
(***************************************************************************)
EXTENDS RWLock, BlockShm, TLC

VARIABLE part             \* which of them it is

\* A block that has to be sorted and small ones; all of them do not fit.
ThreeBlocks == [a |-> <<2, 1>>, b |-> <<1>>, c |-> <<1>>]

JustA == {"a"}
JustC == {"c"}

MCInit ==
    /\ part \in {"lock", "blocks"} /\ Init /\ BsInit
    /\ part = "lock" => mode = "safe"

MCNext ==
    \/ part = "lock" /\ Next /\ UNCHANGED <<bsVars, part>>
    \/ part = "blocks" /\ BsNext /\ UNCHANGED <<vars, part>>

MCSpec == MCInit /\ [][MCNext]_<<vars, bsVars, part>>

\* Processes are interchangeable.
Symmetry == Permutations(Procs) \cup Permutations(Users)

=============================================================================
