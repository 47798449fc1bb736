----------------------------- MODULE SearchTree -----------------------------
(***************************************************************************)
(* The binary search tree of fram/module/ds/src/stree.c.  A node is known  *)
(* by its key, a missing child, parent or root is None.  Following NULL    *)
(* ends the program: nothing happens any more when stDead is set.          *)
(***************************************************************************)
EXTENDS Naturals, Sequences, FiniteSets

CONSTANTS StKeys,        \* numbers from 1 on
          StMaxChanges   \* bound: insertions and deletions in a behaviour

ASSUME SearchTreeAssumption == StKeys \subseteq Nat \ {0} /\ StMaxChanges \in Nat

None == 0

VARIABLES
    stNode,      \* the nodes: up, l and r
    stRoot,      \* *stree_root
    stDead,
    stKept,      \* the keys that were inserted and not deleted (not in the code)
    stChanges

stVars == <<stNode, stRoot, stDead, stKept, stChanges>>

StInit ==
    /\ stNode = [y \in {} |-> None] /\ stRoot = None /\ stDead = FALSE
    /\ stKept = {} /\ stChanges = 0

StSide(k, parent) == IF k < parent THEN "l" ELSE "r"

\* The node that has the key, or the one under which it belongs.
StPlace(k) ==
    LET down[y \in DOMAIN stNode] ==
            IF y = k \/ stNode[y][StSide(k, y)] = None THEN y ELSE down[stNode[y][StSide(k, y)]]
    IN  down[stRoot]

StFound(k) == stRoot # None /\ StPlace(k) = k

\* stree_insert; a key that is there is refused, and what was allocated is lost.
StInsert(k) ==
    /\ ~stDead /\ stChanges < StMaxChanges /\ ~StFound(k)
    /\ LET place == IF stRoot = None THEN None ELSE StPlace(k)
           grown == [y \in DOMAIN stNode \cup {k} |->
                        IF y = k THEN [up |-> place, l |-> None, r |-> None] ELSE stNode[y]]
       IN  /\ stNode' = IF place = None THEN grown ELSE [grown EXCEPT ![place][StSide(k, place)] = k]
           /\ stRoot' = IF place = None THEN k ELSE stRoot
    /\ stKept' = stKept \cup {k} /\ stChanges' = stChanges + 1
    /\ UNCHANGED stDead

\* Mutant of Hang: the child does not learn its new parent.
HangDownOnly(n, d, y) ==
    IF n[d].up = None THEN n ELSE [n EXCEPT ![n[d].up][StSide(d, n[d].up)] = y]

\* Mutant of Hang: the parent keeps its link.
HangUpOnly(n, d, y) == IF y = None THEN n ELSE [n EXCEPT ![y].up = n[d].up]

\* y (or nothing) comes to where d was, under d's parent.
Hang(n, d, y) ==
    LET hung == IF y = None THEN n ELSE [n EXCEPT ![y].up = n[d].up]
    IN  IF n[d].up = None THEN hung ELSE [hung EXCEPT ![n[d].up][StSide(d, n[d].up)] = y]

\* _stree_successor_node
StSuccessor(d) ==
    LET down[y \in DOMAIN stNode] == IF stNode[y].l = None THEN y ELSE down[stNode[y].l]
    IN  down[stNode[d].r]

\* Mutant of Heir: the successor's right subtree stays where it is.
HeirAlone(d) ==
    LET here == stNode[d] s == StSuccessor(d)
    IN  [n |-> [stNode EXCEPT ![s].l = here.l, ![here.l].up = s,
                              ![s].r = here.r, ![here.r].up = s], y |-> s]

\* The links as the successor of a node with two children takes its place,
\* that of its own taken by its right subtree.
Heir(d) ==
    LET here == stNode[d] s == StSuccessor(d) cut == Hang(stNode, s, stNode[s].r)
    IN  [n |-> [cut EXCEPT ![s].l = here.l, ![here.l].up = s,
                           ![s].r = here.r, ![here.r].up = s], y |-> s]

\* The key of the parent's left child is read to learn on which side the node
\* is: the program ends when there is no left child.
StDeleteDies(d) ==
    /\ ~stDead /\ stChanges < StMaxChanges /\ StFound(d)
    /\ stNode[d].up # None /\ stNode[stNode[d].up].l = None
    /\ stDead' = TRUE
    /\ UNCHANGED <<stNode, stRoot, stKept, stChanges>>

\* stree_delete
StDelete(d) ==
    LET here == stNode[d]
        taken ==
            IF here.l = None \/ here.r = None
            THEN [n |-> stNode, y |-> IF here.l # None THEN here.l ELSE here.r]
            ELSE IF stNode[here.r].l = None
            THEN [n |-> [stNode EXCEPT ![here.r].l = here.l, ![here.l].up = here.r], y |-> here.r]
            ELSE Heir(d)
        hung == Hang(taken.n, d, taken.y)
    IN
    /\ ~stDead /\ stChanges < StMaxChanges /\ StFound(d)
    /\ here.up # None => stNode[here.up].l # None
    /\ stNode' = [y \in DOMAIN stNode \ {d} |-> hung[y]]
    /\ stRoot' = IF here.up = None THEN taken.y ELSE stRoot
    /\ stKept' = stKept \ {d} /\ stChanges' = stChanges + 1
    /\ UNCHANGED stDead

\* stree_LDR, which stree_destory follows with the node last, from y on.
StVisits(y) ==
    LET walk[d \in Nat] ==
            [z \in DOMAIN stNode \cup {None} |->
                IF z = None \/ d = 0 THEN <<>>
                ELSE walk[d - 1][stNode[z].l] \o <<z>> \o walk[d - 1][stNode[z].r]]
    IN  walk[Cardinality(DOMAIN stNode)][y]

\* stree_destory: every node is freed once, the links are not reset, nor is the
\* root: the user has to.
StDestroy ==
    /\ ~stDead /\ stRoot # None /\ stChanges < StMaxChanges
    /\ stNode' = [y \in {} |-> None] /\ stRoot' = None
    /\ stKept' = {} /\ stChanges' = stChanges + 1
    /\ UNCHANGED stDead

StNext ==
    \/ \E k \in StKeys : StInsert(k)
    \/ \E d \in StKeys : StDelete(d)
    \/ \E d \in StKeys : StDeleteDies(d)
    \/ StDestroy

-----------------------------------------------------------------------------
StTypeOK ==
    /\ stRoot \in DOMAIN stNode \cup {None} /\ stDead \in BOOLEAN
    /\ \A y \in DOMAIN stNode :
           stNode[y] \in [up : DOMAIN stNode \cup {None}, l : DOMAIN stNode \cup {None},
                          r : DOMAIN stNode \cup {None}]
    /\ stKept \subseteq StKeys /\ stChanges \in 0..StMaxChanges

\* A walk of the tree, as stree_LDR makes it, meets every key that was inserted and not
\* deleted, once and in order: no deletion cuts a subtree off, hangs it twice
\* (it would be freed twice by stree_destory) or out of order.
WalkMeetsKept ==
    LET walk == IF stRoot = None THEN <<>> ELSE StVisits(stRoot)
    IN  /\ {walk[i] : i \in DOMAIN walk} = stKept
        /\ \A i \in DOMAIN walk : \A j \in DOMAIN walk : i < j => walk[i] < walk[j]

\* A child knows its parent, and the root has none: the deletion of any node but the
\* root changes the link that leads to it, and never *stree_root.
StParents ==
    /\ stRoot # None => stNode[stRoot].up = None
    /\ \A y \in DOMAIN stNode, s \in {"l", "r"} :
           stNode[y][s] # None => stNode[stNode[y][s]].up = y

=============================================================================
