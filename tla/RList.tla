------------------------------- MODULE RList -------------------------------
(***************************************************************************)
(* The ring lists of public/src/rlist.c: a head and its nodes are linked   *)
(* both ways, a node by itself is its own ring.  A node is made with the   *)
(* copy of one byte of the caller's data, which is left out.               *)
(*                                                                         *)
(* A position is a head or a node in a list.  Callers do not use nodes     *)
(* that are gone, replace by nodes in a list, or splice a list into        *)
(* itself: nothing here looks for that.                                    *)
(***************************************************************************)
EXTENDS Integers, Sequences, FiniteSets, SequencesExt

CONSTANTS
    RlHeads,              \* the heads
    RlCells               \* the nodes there is memory for

VARIABLES
    ring,                 \* next and prev of every head and node
    inUse                 \* the nodes that are allocated

rlVars == <<ring, inUse>>

Ring(x) == [next |-> x, prev |-> x]

\* INIT_LIST_HEAD
Self(l, x) == [l EXCEPT ![x] = Ring(x)]

RlInit ==
    /\ ring = [x \in RlHeads \cup RlCells |-> Ring(x)]
    /\ inUse = {}

Alone == {n \in inUse : ring[n].next = n}
InList == inUse \ Alone
Positions == RlHeads \cup InList

\* Mutant of __Rlist_add: the node behind still points to the one before.
AddOneWay(l, new, prev, next) ==
    [l EXCEPT ![new] = [next |-> next, prev |-> prev], ![prev].next = new]

__Rlist_add(l, new, prev, next) ==
    [l EXCEPT ![next].prev = new, ![new] = [next |-> next, prev |-> prev], ![prev].next = new]

__Rlist_del(l, prev, next) == [l EXCEPT ![next].prev = prev, ![prev].next = next]

Unlinked(n) == __Rlist_del(ring, ring[n].prev, ring[n].next)

\* Mutant of AfterPos: the wrong side.
AfterPosBefore(l, n, p) == __Rlist_add(l, n, l[p].prev, p)

AfterPos(l, n, p) == __Rlist_add(l, n, p, l[p].next)
BeforePos(l, n, p) == __Rlist_add(l, n, l[p].prev, p)

Build_Dlist(n) ==
    /\ n \in RlCells \ inUse
    /\ inUse' = inUse \cup {n} /\ ring' = Self(ring, n)

RList_add_head(n, p) ==
    /\ n \in RlCells \ inUse
    /\ inUse' = inUse \cup {n} /\ ring' = AfterPos(Self(ring, n), n, p)

RList_add_tail(n, p) ==
    /\ n \in RlCells \ inUse
    /\ inUse' = inUse \cup {n} /\ ring' = BeforePos(ring, n, p)

\* Mutant of RList_del: the node is freed where it is.
DelLinked(n) == inUse' = inUse \ {n} /\ UNCHANGED ring

RList_del(n) ==
    /\ inUse' = inUse \ {n} /\ ring' = Self(Unlinked(n), n)

\* Assignment by assignment: each one sees those before it.
Replaced(old, new) ==
    LET a == [ring EXCEPT ![new].next = ring[old].next]
        b == [a EXCEPT ![a[new].next].prev = new]
        c == [b EXCEPT ![new].prev = b[old].prev]
        d == [c EXCEPT ![c[new].prev].next = new]
    IN  Self(d, old)

Rlist_replace(old, new) ==
    /\ old \in InList /\ new \in Alone
    /\ ring' = Replaced(old, new) /\ UNCHANGED inUse

Rlist_replace_del(old, new) ==
    /\ old \in InList /\ new \in Alone
    /\ ring' = Replaced(old, new) /\ inUse' = inUse \ {old}

Rlist_move_head(n, p) ==
    /\ n # p /\ ring' = AfterPos(Unlinked(n), n, p) /\ UNCHANGED inUse

Rlist_move_tail(n, p) ==
    /\ n # p /\ ring' = BeforePos(Unlinked(n), n, p) /\ UNCHANGED inUse

Rlist_empty(h) == ring[h] = Ring(h)

__Rlist_splice(l, list, prev, next) ==
    LET first == l[list].next
        last == l[list].prev
    IN  [l EXCEPT ![first].prev = prev, ![prev].next = first, ![last].next = next, ![next].prev = last]

\* The list a position belongs to.
Meets(h) ==
    LET Go[k \in 0 .. Cardinality(RlCells), x \in RlHeads \cup RlCells] ==
            IF x = h \/ k = 0 THEN <<>> ELSE <<x>> \o Go[k - 1, ring[x].next]
    IN  Go[Cardinality(RlCells), ring[h].next]
HomeOf(p) == CHOOSE h \in RlHeads : p = h \/ Contains(Meets(h), p)

\* Mutant of Emptied: the head of the spliced list keeps its nodes.
NotEmptied(l, h) == l

Emptied(l, h) == Self(l, h)

Rlist_splice_head(h, p) ==
    /\ HomeOf(p) # h /\ UNCHANGED inUse
    /\ ring' = IF Rlist_empty(h) THEN ring
                ELSE Emptied(__Rlist_splice(ring, h, p, ring[p].next), h)

Rlist_splice_tail(h, p) ==
    /\ HomeOf(p) # h /\ UNCHANGED inUse
    /\ ring' = IF Rlist_empty(h) THEN ring
                ELSE Emptied(__Rlist_splice(ring, h, ring[p].prev, p), h)

RlNext ==
    \/ \E n \in RlCells : Build_Dlist(n)
    \/ \E n \in RlCells, p \in Positions : RList_add_head(n, p) \/ RList_add_tail(n, p)
    \/ \E n \in inUse : RList_del(n)
    \/ \E old, new \in inUse : Rlist_replace(old, new) \/ Rlist_replace_del(old, new)
    \/ \E n \in inUse, p \in Positions : Rlist_move_head(n, p) \/ Rlist_move_tail(n, p)
    \/ \E h \in RlHeads, p \in Positions : Rlist_splice_head(h, p) \/ Rlist_splice_tail(h, p)

RlSpec == RlInit /\ [][RlNext]_rlVars

----------------------------------------------------------------------------
(* Properties *)

\* What is linked is allocated, or a head, and what is not is its own ring.
RlTypeOK ==
    /\ inUse \subseteq RlCells
    /\ \A x \in RlHeads \cup inUse : {ring[x].next, ring[x].prev} \subseteq RlHeads \cup inUse
    /\ \A x \in RlCells \ inUse : ring[x] = Ring(x)

\* Next and prev agree for every node and head, in a list or by itself.
BothWays == \A x \in RlHeads \cup RlCells : ring[ring[x].next].prev = x /\ ring[ring[x].prev].next = x

\* The rings are the sequences of RListSeq, every call that changes a ring or what is
\* allocated is one of its steps: a node or a list comes behind its place in the calls
\* for the head, before it in those for the tail.
Abstract == INSTANCE RListSeq WITH
    Heads <- RlHeads, Cells <- RlCells,
    lists <- [h \in RlHeads |-> Meets(h)],
    single <- Alone
InPlace ==
    /\ \A n \in RlCells, p \in Positions :
        /\ RList_add_head(n, p) => Abstract!AddBehind(n, p)
        /\ RList_add_tail(n, p) => Abstract!AddBefore(n, p)
    /\ \A n \in inUse, p \in Positions :
        /\ Rlist_move_head(n, p) => Abstract!MoveBehind(n, p)
        /\ Rlist_move_tail(n, p) => Abstract!MoveBefore(n, p)
    /\ \A h \in RlHeads, p \in Positions :
        /\ Rlist_splice_head(h, p) => Abstract!SpliceBehind(h, p)
        /\ Rlist_splice_tail(h, p) => Abstract!SpliceBefore(h, p)
RingsAreLists == Abstract!SeqInit /\ [][UNCHANGED rlVars \/ (Abstract!SeqNext /\ InPlace)]_rlVars

=============================================================================
