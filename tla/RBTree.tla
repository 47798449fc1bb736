------------------------------- MODULE RBTree -------------------------------
(***************************************************************************)
(* The red-black tree of fram/module/ds/src/rbtree.c, one round of a       *)
(* fix-up a step.  A node is known by its key; Leaf is _rb_leaf_node, a    *)
(* real node that can be coloured and whose own pointers are NULL.         *)
(* Following NULL ends the program: the tree is "dead" from then on.       *)
(***************************************************************************)
EXTENDS Integers, FiniteSets

CONSTANTS Keys,        \* numbers from 1 on
          MaxChanges,  \* bound: insertions and deletions in a behaviour
          MaxDeletes   \* bound: deletions among them

ASSUME RBAssumption == Keys \subseteq Nat \ {0} /\ MaxChanges \in Nat

Null == -1
Leaf == 0

VARIABLES
    node,     \* the nodes that are linked, and the leaf: up, l, r and red
    root,     \* *rbtree_root
    rpc,      \* "idle", "insert" or "delete" (in a fix-up), "unlink", "dead"
    self,     \* rbtree_tmp or rbtree_self of the fix-up
    side,     \* the side that _rbtree_insert_fixup has decided for
    gone,     \* the node that rbtree_delete unlinks after the fix-up, or Leaf
    keys,     \* the keys inserted and not deleted (not in the code)
    swayed,   \* a fix-up met a grandparent on the other side, or a deletion
              \* was made (not in the code)
    changes, deletes

rbVars == <<node, root, rpc, self, side, gone, keys, swayed, changes, deletes>>

RBInit ==
    /\ node = [y \in {Leaf} |-> [up |-> Null, l |-> Null, r |-> Null, red |-> FALSE]]
    /\ root = Null /\ rpc = "idle" /\ self = Leaf /\ side = "none" /\ gone = Leaf
    /\ keys = {} /\ swayed = FALSE /\ changes = 0 /\ deletes = 0

Other(s) == IF s = "l" THEN "r" ELSE "l"
SideOf(y, parent) == IF y < parent THEN "l" ELSE "r"    \* RB_PARENT_LR
IsNode(y) == y \notin {Null, Leaf}
Paint(n, y, isRed) == [n EXCEPT ![y].red = isRed]

\* Mutant of Rotate: the subtree in between does not learn its new parent.
RotateNoParent(n, y, s) ==
    LET t == n[y][Other(s)]
        linked == [n EXCEPT ![t].up = n[y].up, ![t][s] = y, ![y].up = t, ![y][Other(s)] = n[t][s]]
    IN  IF n[y].up = Leaf THEN linked ELSE [linked EXCEPT ![n[y].up][SideOf(y, n[y].up)] = t]

\* Mutant of Rotate: the subtree in between is forgotten.
RotateForgets(n, y, s) ==
    LET t == n[y][Other(s)]
        linked == [n EXCEPT ![t].up = n[y].up, ![t][s] = y, ![y].up = t, ![y][Other(s)] = Leaf]
    IN  IF n[y].up = Leaf THEN linked ELSE [linked EXCEPT ![n[y].up][SideOf(y, n[y].up)] = t]

\* _rbtree_l_rotate (s = "l") and _rbtree_r_rotate, of a node whose other
\* child is a node
Rotate(n, y, s) ==
    LET t == n[y][Other(s)]
        inner == n[t][s]
        linked == [n EXCEPT ![t].up = n[y].up, ![t][s] = y, ![y].up = t, ![y][Other(s)] = inner]
        hung == IF inner = Leaf THEN linked ELSE [linked EXCEPT ![inner].up = y]
    IN  IF n[y].up = Leaf THEN hung ELSE [hung EXCEPT ![n[y].up][SideOf(y, n[y].up)] = t]

\* The loop with which a rotation and a fix-up end: up to the root.
Top(n, y) ==
    LET top[z \in DOMAIN n] == IF n[z].up = Leaf THEN z ELSE top[n[z].up]
    IN  top[y]

Dead == rpc' = "dead" /\ UNCHANGED <<node, root, self, side, gone, keys, changes, deletes>>

-----------------------------------------------------------------------------
\* The node under which a key is linked, or the node that has it.
Place(k) ==
    LET down[y \in DOMAIN node] ==
            IF y = k \/ node[y][SideOf(k, y)] = Leaf THEN y ELSE down[node[y][SideOf(k, y)]]
    IN  down[root]

\* _rbtree_search
Found(k) == IsNode(root) /\ Place(k) = k

\* rbtree_insert up to the fix-up.  A tree that was emptied has the leaf for a
\* root, whose key does not exist.
Insert(k) ==
    /\ rpc = "idle" /\ changes < MaxChanges /\ k \notin keys
    /\ IF root = Leaf THEN Dead /\ UNCHANGED swayed
       ELSE LET new == [up |-> IF root = Null THEN Leaf ELSE Place(k),
                        l |-> Leaf, r |-> Leaf, red |-> TRUE]
                grown == [y \in DOMAIN node \cup {k} |-> IF y = k THEN new ELSE node[y]]
                grand == node[new.up].up
            IN  /\ node' = IF new.up = Leaf THEN grown
                           ELSE [grown EXCEPT ![new.up][SideOf(k, new.up)] = k]
                /\ root' = IF root = Null THEN k ELSE root
                /\ rpc' = "insert" /\ self' = k /\ keys' = keys \cup {k} /\ changes' = changes + 1
                /\ side' = IF IsNode(new.up) /\ IsNode(grand)
                           THEN SideOf(new.up, grand) ELSE "none"
                /\ UNCHANGED <<gone, swayed, deletes>>

\* Mutant of InsertDone: the root keeps its colour.
InsertDoneAsIs ==
    /\ rpc = "insert" /\ (side = "none" \/ ~node[node[self].up].red)
    /\ rpc' = "idle" /\ root' = Top(node, self) /\ self' = Leaf /\ side' = "none"
    /\ UNCHANGED <<node, gone, keys, swayed, changes, deletes>>

\* _rbtree_insert_fixup: without a grandparent, or with a black parent, it is done.
InsertDone ==
    /\ rpc = "insert" /\ (side = "none" \/ ~node[node[self].up].red)
    /\ rpc' = "idle" /\ root' = Top(node, self) /\ self' = Leaf /\ side' = "none"
    /\ node' = Paint(node, root', FALSE)
    /\ UNCHANGED <<gone, keys, swayed, changes, deletes>>

\* One round of its loop.  The side of the first grandparent is taken for
\* that of the others, too.
InsertFixup ==
    LET p == node[self].up
        g == node[p].up
        red(y) == node[y].red
        isRight == node[p].l = Leaf \/ node[p].r = self
    IN
    /\ rpc = "insert" /\ side # "none" /\ red(p)
    /\ swayed' = (swayed \/ (IsNode(g) /\ SideOf(p, g) # side))
    /\ \/ /\ ~IsNode(g) /\ Dead
       \/ /\ IsNode(g) /\ red(node[g].l) /\ red(node[g].r)
          /\ node' = Paint(Paint(Paint(node, g, TRUE), node[g].l, FALSE), node[g].r, FALSE)
          /\ self' = g /\ UNCHANGED <<root, rpc, side, gone, keys, changes, deletes>>
       \/ /\ IsNode(g) /\ ~(red(node[g].l) /\ red(node[g].r)) /\ isRight = (side = "l")
          /\ node' = Rotate(node, p, side) /\ self' = p
          /\ UNCHANGED <<root, rpc, side, gone, keys, changes, deletes>>
       \/ /\ IsNode(g) /\ ~(red(node[g].l) /\ red(node[g].r)) /\ isRight # (side = "l")
          /\ IF IsNode(node[g][side])
             THEN /\ node' = Rotate(Paint(Paint(node, p, FALSE), g, TRUE), g, Other(side))
                  /\ UNCHANGED <<root, rpc, self, side, gone, keys, changes, deletes>>
             ELSE Dead

-----------------------------------------------------------------------------
\* Mutant of Replace: the parent is not told.
ReplaceUpOnly(n, d, y) == IF y = Leaf THEN n ELSE [n EXCEPT ![y].up = n[d].up]

\* y takes the place of its former ancestor d under the parent of d.
Replace(n, d, y) ==
    LET up == n[d].up
        hung == IF y = Leaf THEN n ELSE [n EXCEPT ![y].up = up]
    IN  IF up = Leaf THEN hung ELSE [hung EXCEPT ![up][SideOf(d, up)] = y]

NewRoot(d, y) == IF node[d].up = Leaf THEN y ELSE root
Without(n, d) == [y \in DOMAIN n \ {d} |-> n[y]]

\* _rbtree_successor
Successor(d) ==
    LET down[y \in DOMAIN node] == IF node[y].l = Leaf THEN y ELSE down[node[y].l]
    IN  down[node[d].r]

\* rbtree_delete up to the fix-up: after it there is only a leaf to unlink,
\* which is done first when the node has no children.
Delete(d) ==
    LET here == node[d]
        s == Successor(d)
        fixup(bench, black) ==
            IF black THEN rpc' = "delete" /\ self' = bench ELSE UNCHANGED <<rpc, self>>
    IN
    /\ rpc = "idle" /\ changes < MaxChanges /\ deletes < MaxDeletes /\ Found(d)
    /\ \/ /\ here.l = Leaf /\ here.r = Leaf
          /\ rpc' = "delete" /\ self' = d /\ gone' = d /\ UNCHANGED <<node, root>>
       \/ /\ (here.l = Leaf) # (here.r = Leaf)
          /\ LET c == IF here.l = Leaf THEN here.r ELSE here.l IN
             /\ node' = Without(Replace(node, d, c), d) /\ root' = NewRoot(d, c)
             /\ fixup(c, ~here.red)
          /\ UNCHANGED gone
       \/ /\ here.l # Leaf /\ here.r # Leaf /\ node[here.r].l = Leaf
          /\ node' = Without(Replace([node EXCEPT ![here.r].l = here.l, ![here.l].up = here.r],
                                     d, here.r), d)
          /\ root' = NewRoot(d, here.r)
          /\ fixup(here.r, ~here.red)
          /\ UNCHANGED gone
       \/ /\ here.l # Leaf /\ here.r # Leaf /\ node[here.r].l # Leaf
          /\ LET cut == Replace(node, s, node[s].r)
                 moved == [cut EXCEPT ![s].l = here.l, ![here.l].up = s,
                                      ![s].r = here.r, ![here.r].up = s, ![s].red = here.red]
             IN  node' = Without(Replace(moved, d, s), d)
          /\ root' = NewRoot(d, s)
          /\ fixup(node[s].r, ~node[s].red)
          /\ UNCHANGED gone
    /\ keys' = keys \ {d} /\ changes' = changes + 1 /\ deletes' = deletes + 1 /\ swayed' = TRUE
    /\ UNCHANGED side

\* The last line of _rbtree_delete_fixup; a leaf that was deleted is unlinked.
FixedBy(n, y) ==
    /\ LET black == Paint(n, y, FALSE) IN
       IF gone = Leaf THEN node' = black /\ root' = IF IsNode(y) THEN Top(n, y) ELSE root
       ELSE /\ node' = Without(Replace(black, gone, Leaf), gone)
            /\ root' = IF n[gone].up = Leaf THEN Leaf ELSE Top(n, gone)
    /\ rpc' = "idle" /\ gone' = Leaf /\ self' = Leaf
    /\ UNCHANGED <<side, keys, swayed, changes, deletes>>

Fixing == self # root /\ IsNode(self) /\ ~node[self].red

DeleteDone == rpc = "delete" /\ ~Fixing /\ FixedBy(node, self)

\* Mutant of Goes: the loop does not go on to the next node.
GoesNowhere(n, y) == node' = n /\ root' = Top(n, y)
                     /\ UNCHANGED <<rpc, self, side, gone, keys, swayed, changes, deletes>>

Goes(n, y) == node' = n /\ self' = y /\ root' = Top(n, y)
              /\ UNCHANGED <<rpc, side, gone, keys, swayed, changes, deletes>>

\* One round of the loop of _rbtree_delete_fixup.  The two sides differ: on the
\* right a brother with black children keeps its colour, and the third case
\* turns to the wrong side and goes on with the node itself for a brother.
DeleteFixup ==
    LET p == node[self].up
        s == IF node[p].l = self THEN "l" ELSE "r"
        b == node[p][Other(s)]
        black(y) == ~node[y].red
        up(n, c) == Rotate(Paint(Paint([n EXCEPT ![c].red = n[p].red], p, FALSE), n[c].r, FALSE), p, s)
        turned == Rotate(Paint(Paint(node, b, TRUE), node[b].l, FALSE), b, Other(s))
    IN
    /\ rpc = "delete" /\ Fixing
    /\ \/ /\ (node[p].l = Leaf \/ b = Leaf) /\ Dead /\ UNCHANGED swayed
       \/ /\ IsNode(node[p].l) /\ IsNode(b) /\ node[b].red
          /\ Goes(Rotate(Paint(Paint(node, b, FALSE), p, TRUE), p, s), self)
       \/ /\ IsNode(node[p].l) /\ IsNode(b) /\ black(b) /\ black(node[b].l) /\ black(node[b].r)
          /\ Goes(IF s = "l" THEN Paint(node, b, TRUE) ELSE node, p)
       \/ /\ IsNode(node[p].l) /\ IsNode(b) /\ black(b) /\ ~(black(node[b].l) /\ black(node[b].r))
          /\ IF node[b].r = Leaf \/ node[node[b].r].red THEN FixedBy(up(node, b), self)
             ELSE FixedBy(up(turned, turned[p].r), self)

RBNext ==
    \/ \E k \in Keys : Insert(k)
    \/ InsertDone
    \/ InsertFixup
    \/ \E k \in Keys : Delete(k)
    \/ DeleteDone
    \/ DeleteFixup

-----------------------------------------------------------------------------
Linked == DOMAIN node \ {Leaf}

RBTypeOK ==
    /\ rpc \in {"idle", "insert", "delete", "dead"} /\ keys \subseteq Keys
    /\ root \in {Null, Leaf} \cup Linked /\ self \in DOMAIN node
    /\ \A y \in Linked : node[y] \in [up : DOMAIN node, l : DOMAIN node, r : DOMAIN node, red : BOOLEAN]

\* Between two calls a search finds the keys that were inserted and not
\* deleted, whatever the fix-ups turned, and every child knows its parent,
\* without which the next rotation would hang its subtree in the wrong place.
RBFinds == rpc = "idle" => \A k \in Keys : Found(k) <=> k \in keys
RBParents ==
    rpc = "idle" => \A y \in Linked, s \in {"l", "r"} :
                        IsNode(node[y][s]) => node[node[y][s]].up = y

\* The number of black nodes on every path down from y, if it is the same on
\* all of them and no red node has a red child; 0 otherwise.
BlackHeight(y) ==
    LET h[z \in DOMAIN node] ==
            IF z = Leaf THEN 1
            ELSE LET n == node[z] IN
                 IF h[n.l] # h[n.r] \/ h[n.l] = 0 \/ (n.red /\ (node[n.l].red \/ node[n.r].red))
                 THEN 0 ELSE h[n.l] + (IF n.red THEN 0 ELSE 1)
    IN  h[y]

\* As long as no fix-up has met a grandparent on the other side than its
\* first, and nothing has been deleted, the tree is a red-black tree between
\* two calls, and no call has followed NULL.
RBBalanced == ~swayed => rpc # "dead" /\ (rpc = "idle" /\ root # Null => BlackHeight(root) # 0)

\* A fix-up ends: its rounds neither go round in circles nor stop half-way,
\* even where they work on a tree that is no longer balanced.
RBCallsEnd == (rpc \in {"insert", "delete"}) ~> (rpc \in {"idle", "dead"})

=============================================================================
