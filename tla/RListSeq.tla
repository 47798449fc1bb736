------------------------------ MODULE RListSeq ------------------------------
(***************************************************************************)
(* What the ring lists of public/src/rlist.c promise: the lists are        *)
(* sequences, a node is in one of them, by itself, or does not exist.      *)
(***************************************************************************)
EXTENDS Integers, Sequences, SequencesExt

CONSTANTS Heads, Cells

VARIABLES
    lists,                \* the nodes of every list, in order
    single                \* the nodes in no list

Listed == UNION {ToSet(lists[h]) : h \in Heads}
Fresh == Cells \ (Listed \cup single)

SeqInit == lists = [h \in Heads |-> <<>>] /\ single = {}

\* A list without n, and with n as its element i.
Without(l, n) == SelectSeq(l, LAMBDA x : x # n)
AllWithout(n) == [h \in Heads |-> Without(lists[h], n)]

\* A list with n, or with all of the list m, behind or before the place p: one of its
\* nodes, or its head, which is before the first and behind the last of them.
Behind(l, h, p, m) ==
    LET i == IF p = h THEN 0 ELSE SelectInSeq(l, LAMBDA x : x = p)
    IN  SubSeq(l, 1, i) \o m \o SubSeq(l, i + 1, Len(l))
Before(l, h, p, m) ==
    LET i == IF p = h THEN Len(l) + 1 ELSE SelectInSeq(l, LAMBDA x : x = p)
    IN  SubSeq(l, 1, i - 1) \o m \o SubSeq(l, i, Len(l))
HomeIn(ls, p) == CHOOSE h \in Heads : p = h \/ Contains(ls[h], p)
PutBehind(ls, p, m) == LET h == HomeIn(ls, p) IN [ls EXCEPT ![h] = Behind(@, h, p, m)]
PutBefore(ls, p, m) == LET h == HomeIn(ls, p) IN [ls EXCEPT ![h] = Before(@, h, p, m)]
Places == Heads \cup Listed

Build(n) == n \in Fresh /\ single' = single \cup {n} /\ UNCHANGED lists

\* A new node comes behind or before a place.  (The comments of the two calls name
\* them the other way round.)
AddBehind(n, p) == n \in Fresh /\ UNCHANGED single /\ lists' = PutBehind(lists, p, <<n>>)
AddBefore(n, p) == n \in Fresh /\ UNCHANGED single /\ lists' = PutBefore(lists, p, <<n>>)

Delete(n) ==
    /\ n \in Listed \cup single
    /\ lists' = AllWithout(n) /\ single' = single \ {n}

\* A single node takes the place of a listed one, which is single or gone then.
Takes(old, new) ==
    /\ old \in Listed /\ new \in single
    /\ lists' = [h \in Heads |-> [i \in DOMAIN lists[h] |-> IF lists[h][i] = old THEN new ELSE lists[h][i]]]
Replace(old, new) == Takes(old, new) /\ single' = (single \ {new}) \cup {old}
ReplaceDel(old, new) == Takes(old, new) /\ single' = single \ {new}

\* A node leaves its place and comes behind or before another one.
MoveBehind(n, p) ==
    /\ n \in (Listed \cup single) \ {p} /\ single' = single \ {n}
    /\ lists' = PutBehind(AllWithout(n), p, <<n>>)
MoveBefore(n, p) ==
    /\ n \in (Listed \cup single) \ {p} /\ single' = single \ {n}
    /\ lists' = PutBefore(AllWithout(n), p, <<n>>)

\* All of a list goes, in its order, behind or before a place of another one.
Others(h) == [lists EXCEPT ![h] = <<>>]
SpliceBehind(h, p) ==
    p \notin {h} \cup ToSet(lists[h]) /\ UNCHANGED single /\ lists' = PutBehind(Others(h), p, lists[h])
SpliceBefore(h, p) ==
    p \notin {h} \cup ToSet(lists[h]) /\ UNCHANGED single /\ lists' = PutBefore(Others(h), p, lists[h])

SeqNext ==
    \/ \E n \in Cells : Build(n) \/ Delete(n)
    \/ \E n \in Cells, p \in Places : AddBehind(n, p) \/ AddBefore(n, p)
    \/ \E n \in Cells, p \in Places : MoveBehind(n, p) \/ MoveBefore(n, p)
    \/ \E old, new \in Cells : Replace(old, new) \/ ReplaceDel(old, new)
    \/ \E h \in Heads, p \in Places : SpliceBehind(h, p) \/ SpliceBefore(h, p)

SeqSpec == SeqInit /\ [][SeqNext]_<<lists, single>>

=============================================================================
