------------------------------ MODULE TrieTree ------------------------------
(***************************************************************************)
(* The trie of fram/module/ds/src/trietree.c.  A node is the path of slots *)
(* that leads to it, the top is <<>>.  The walks read the first letter of  *)
(* the key at every level, so a key is what they make of it: its first     *)
(* letter and its length.                                                  *)
(***************************************************************************)
EXTENDS Naturals, Sequences, FiniteSets, SequencesExt

CONSTANTS Letters,       \* letters that have a slot
          Odd,           \* a letter without one: _trietree_slot_offset is -1
          MaxKey,        \* bound: the length of a key
          TrieMaxCalls   \* bound

ASSUME TrieAssumption == Odd \notin Letters /\ MaxKey \in Nat

NoData == 0
TrieKeys == [first : Letters \cup {Odd}, len : 1..MaxKey] \cup {[first |-> Odd, len |-> 0]}

VARIABLES
    slots,      \* the nodes that were allocated and not freed
    filled,     \* for each node its data: NoData, or other data than it had before
    children,   \* count of each node
    trieCount,  \* count of the root
    trieDead,   \* a call followed UNKNOWKEY, or NULL, as a pointer
    meant,      \* the data that a path was given last (not in the code)
    stumps,     \* the nodes without data in which an insertion ended: it had none, or
                \* found no memory for the next node (not in the code)
    trieCalls

trieVars == <<slots, filled, children, trieCount, trieDead, meant, stumps, trieCalls>>

TrieInit ==
    /\ slots = {} /\ filled = [p \in {} |-> NoData] /\ children = [p \in {} |-> 0]
    /\ trieCount = 0 /\ trieDead = FALSE /\ meant = [p \in {} |-> NoData] /\ stumps = {} /\ trieCalls = 0

\* The nodes that a key's walk passes, and the one in which it ends.
Path(k) == [i \in 1..k.len |-> k.first]
PathUp(k) == {Path([k EXCEPT !.len = i]) : i \in 0..k.len}
Reaches(k) == k.len = 0 \/ k.first # Odd

\* trietree_search: "none", "odd" or the path
Search(k) ==
    IF slots = {} THEN "none"
    ELSE IF ~Reaches(k) THEN "odd"
    ELSE IF PathUp(k) \subseteq slots /\ filled[Path(k)] # NoData THEN "found" ELSE "none"

\* The data of a call: it differs from what the key has.
Given(k) == IF Path(k) \in slots /\ filled[Path(k)] = 1 THEN 2 ELSE 1

Calls(k) == ~trieDead /\ trieCalls < TrieMaxCalls /\ trieCalls' = trieCalls + 1

\* Mutant of Grown: a node does not count a child.
GrownUncounted(new) ==
    [p \in slots \cup new |-> IF p \in slots THEN children[p] ELSE 0]

\* count, once the new nodes hang below each other
Grown(new) ==
    [p \in slots \cup new |->
        (IF p \in slots THEN children[p] ELSE 0)
        + Cardinality({q \in new : q # <<>> /\ Front(q) = p})]

\* The new nodes hang in the tree, without data.
Hung(new) == slots' = slots \cup new /\ children' = Grown(new)
Filled(new) == [p \in slots \cup new |-> IF p \in slots THEN filled[p] ELSE NoData]

\* trietree_insert comes to its last node.  Data of length 0 is not stored, so that
\* the key has what it had, and is counted all the same.
InsertData(k, new) ==
    /\ Hung(new) /\ trieCount' = trieCount + 1
    /\ \/ /\ filled' = [Filled(new) EXCEPT ![Path(k)] = Given(k)]
          /\ meant' = [p \in DOMAIN meant \cup {Path(k)} |->
                          IF p = Path(k) THEN Given(k) ELSE meant[p]]
          /\ stumps' = stumps \ {Path(k)}
       \/ /\ filled' = Filled(new) /\ UNCHANGED meant
          /\ stumps' = IF Filled(new)[Path(k)] = NoData THEN stumps \cup {Path(k)} ELSE stumps

\* There is no memory for one of the nodes: those above it stay.
InsertStops(new) == \E cut \in new :
    LET made == {q \in new : Len(q) < Len(cut)}
    IN  /\ Hung(made) /\ filled' = Filled(made)
        /\ stumps' = stumps \cup {q \in slots \cup made : cut # <<>> /\ q = Front(cut)}
        /\ UNCHANGED <<trieCount, meant>>

\* trietree_insert: the top is allocated first, so even a key with an odd letter
\* leaves a tree.  A key that is there gets the new data, the old is lost, and
\* the root counts it again.
TrieInsert(k) ==
    /\ Calls(k) /\ UNCHANGED trieDead
    /\ LET new == (IF Reaches(k) THEN PathUp(k) ELSE {<<>>}) \ slots
       IN  \/ Reaches(k) /\ InsertData(k, new)
           \/ /\ ~Reaches(k) /\ Hung(new) /\ filled' = Filled(new)
              /\ UNCHANGED <<trieCount, meant, stumps>>
           \/ InsertStops(new)

\* Mutant of Pruned: a node is taken away that has data of its own.
PrunedWithData(k) ==
    {Path([k EXCEPT !.len = n]) : n \in {m \in 1..k.len : \A j \in m..k.len :
        children[Path([k EXCEPT !.len = j])] = IF j = k.len THEN 0 ELSE 1}}

\* What a deletion takes away: the key's node when it has no children, and the
\* nodes above it that have no data and lose their only child.
Pruned(k) ==
    {Path([k EXCEPT !.len = n]) : n \in {m \in 1..k.len : \A j \in m..k.len :
        LET q == Path([k EXCEPT !.len = j])
        IN  /\ children[q] = IF j = k.len THEN 0 ELSE 1
            /\ j = k.len \/ filled[q] = NoData}}

\* Mutant of TrieDelete: a key that is not there is taken off the count.
TrieDeleteUnseen(k) ==
    /\ Calls(k) /\ Search(k) = "none"
    /\ trieCount' = trieCount - 1
    /\ UNCHANGED <<slots, filled, children, trieDead, meant, stumps>>

\* trietree_delete
TrieDelete(k) ==
    /\ Calls(k) /\ Search(k) = "found"
    /\ LET gone == Pruned(k) IN
       /\ slots' = slots \ gone
       /\ filled' = [p \in slots \ gone |-> IF p = Path(k) THEN NoData ELSE filled[p]]
       /\ children' = [p \in slots \ gone |->
                          IF \E q \in gone : Front(q) = p THEN children[p] - 1 ELSE children[p]]
    /\ trieCount' = trieCount - 1
    /\ meant' = [p \in DOMAIN meant \ {Path(k)} |-> meant[p]]
    /\ stumps' = stumps \ Pruned(k)
    /\ UNCHANGED trieDead

\* trietree_update
TrieUpdate(k) ==
    /\ Calls(k) /\ Search(k) = "found"
    /\ filled' = [filled EXCEPT ![Path(k)] = Given(k)]
    /\ meant' = [meant EXCEPT ![Path(k)] = Given(k)]
    /\ UNCHANGED <<slots, children, trieCount, trieDead, stumps>>

\* Deletion and update follow UNKNOWKEY as if it were a node, insertion and update
\* follow the NULL they get for data; and the root goes on pointing to what
\* trietree_destory has freed.
TrieDies(k) ==
    /\ Calls(k) /\ (Reaches(k) \/ Search(k) = "odd")
    /\ trieDead' = TRUE
    /\ UNCHANGED <<slots, filled, children, trieCount, meant, stumps>>

TrieDestroy ==
    /\ ~trieDead /\ trieDead' = TRUE
    /\ slots' = {} /\ filled' = [p \in {} |-> NoData] /\ children' = [p \in {} |-> 0]
    /\ meant' = [p \in {} |-> NoData] /\ stumps' = {}
    /\ UNCHANGED <<trieCount, trieCalls>>

TrieNext ==
    \/ \E k \in TrieKeys : TrieInsert(k)
    \/ \E k \in TrieKeys : TrieDelete(k)
    \/ \E k \in TrieKeys : TrieUpdate(k)
    \/ \E k \in TrieKeys : TrieDies(k)
    \/ TrieDestroy

-----------------------------------------------------------------------------
TrieTypeOK ==
    /\ DOMAIN filled = slots /\ DOMAIN children = slots
    /\ trieCount \in 0..TrieMaxCalls /\ trieDead \in BOOLEAN

\* A search finds exactly the keys that were given data and not deleted, with the
\* last data given to a key of this first letter and length, whatever the
\* deletions of shorter and longer keys have taken away; the root counts them all,
\* and more when a key came twice or without data.
SearchFindsMeant ==
    /\ ~trieDead => trieCount >= Cardinality(DOMAIN meant)
    /\ \A k \in TrieKeys :
        /\ Search(k) = "found" <=> Path(k) \in DOMAIN meant
        /\ Search(k) = "found" => filled[Path(k)] = meant[Path(k)]

\* The trie has no dead wood but what an insertion without data or memory left:
\* below the top, another node without children has data, and every node counts its
\* children, so that a deletion stops where it must.
NoDeadWood ==
    \A p \in slots :
        /\ children[p] = Cardinality({q \in slots : q # <<>> /\ Front(q) = p})
        /\ p \notin stumps \cup {<<>>} /\ children[p] = 0 => filled[p] # NoData

=============================================================================
