------------------------------- MODULE RWGate -------------------------------
(***************************************************************************)
(* What the callers of the read-write lock of ipcsem.c can count on, and   *)
(* no more: one writer at a time, and no reader admitted while somebody    *)
(* writes.  A writer may be admitted while others read.                    *)
(***************************************************************************)
CONSTANTS Procs, Locks

VARIABLES
    writing,     \* the pairs <<p, l>>: p has the write lock l
    reading      \* the pairs <<p, l>>: p has the read lock l

gateVars == <<writing, reading>>

Open(l) == \A q \in Procs : <<q, l>> \notin writing

GateInit == writing = {} /\ reading = {}

\* Mutant of Wlocked: a writer is admitted next to another one.
WlockedShut(p, l) == writing' = writing \cup {<<p, l>>} /\ UNCHANGED reading

Wlocked(p, l) == Open(l) /\ writing' = writing \cup {<<p, l>>} /\ UNCHANGED reading

Wunlock(p, l) == writing' = writing \ {<<p, l>>} /\ UNCHANGED reading

\* Mutant of Rlocked: a reader is admitted while somebody writes.
RlockedShut(p, l) == reading' = reading \cup {<<p, l>>} /\ UNCHANGED writing

Rlocked(p, l) == Open(l) /\ reading' = reading \cup {<<p, l>>} /\ UNCHANGED writing

Runlock(p, l) == reading' = reading \ {<<p, l>>} /\ UNCHANGED writing

GateNext ==
    \E p \in Procs, l \in Locks :
        Wlocked(p, l) \/ Wunlock(p, l) \/ Rlocked(p, l) \/ Runlock(p, l)

GateSpec == GateInit /\ [][GateNext]_gateVars

=============================================================================
