---------------------------- MODULE MCLibraries ----------------------------
(***************************************************************************)
(* Model checking of the libraries of data structures: a behaviour is one  *)
(* of one of them.                                                         *)
(***************************************************************************)
EXTENDS RBTree, SearchTree, TrieTree, MemPool, ArrShm, HashTable, BlockSort, RList, IniFile, TLC

VARIABLE part             \* which of them it is

\* The hashes of the keys: with 1 and 2, then 4 and 8 slots they clash and part.
Hashes == 1 :> 0 @@ 2 :> 1 @@ 3 :> 2 @@ 4 :> 4 @@ 5 :> 6

MCInit ==
    /\ part \in {"rbtree", "stree", "trie", "mempool", "arrshm", "hash", "sort",
                "rlist", "ini"}
    /\ RBInit /\ StInit /\ TrieInit /\ PoolInit /\ ShmInit /\ HtInit /\ SortInit /\ RlInit /\ IniInit
    /\ part # "sort" => \A i \in 0 .. Num + 1 : Key(i) = CHOOSE k \in OutKeys \cap SortKeys : TRUE

MCNext ==
    \/ /\ part = "rbtree" /\ RBNext
       /\ UNCHANGED <<stVars, trieVars, mpVars, shmVars, htVars, sortVars, rlVars, iniVars, part>>
    \/ /\ part = "stree" /\ StNext
       /\ UNCHANGED <<rbVars, trieVars, mpVars, shmVars, htVars, sortVars, rlVars, iniVars, part>>
    \/ /\ part = "trie" /\ TrieNext
       /\ UNCHANGED <<rbVars, stVars, mpVars, shmVars, htVars, sortVars, rlVars, iniVars, part>>
    \/ /\ part = "mempool" /\ PoolNext
       /\ UNCHANGED <<rbVars, stVars, trieVars, shmVars, htVars, sortVars, rlVars, iniVars, part>>
    \/ /\ part = "arrshm" /\ ShmNext
       /\ UNCHANGED <<rbVars, stVars, trieVars, mpVars, htVars, sortVars, rlVars, iniVars, part>>
    \/ /\ part = "hash" /\ HtNext
       /\ UNCHANGED <<rbVars, stVars, trieVars, mpVars, shmVars, sortVars, rlVars, iniVars, part>>
    \/ /\ part = "sort" /\ SortNext
       /\ UNCHANGED <<rbVars, stVars, trieVars, mpVars, shmVars, htVars, rlVars, iniVars, part>>
    \/ /\ part = "rlist" /\ RlNext
       /\ UNCHANGED <<rbVars, stVars, trieVars, mpVars, shmVars, htVars, sortVars, iniVars, part>>
    \/ /\ part = "ini" /\ IniNext
       /\ UNCHANGED <<rbVars, stVars, trieVars, mpVars, shmVars, htVars, sortVars, rlVars, part>>

MCSpec ==
    /\ MCInit /\ [][MCNext]_<<rbVars, stVars, trieVars, mpVars, shmVars, htVars, sortVars, rlVars, iniVars, part>>
    /\ WF_rbVars(part = "rbtree" /\ (InsertDone \/ InsertFixup \/ DeleteDone \/ DeleteFixup))

\* The trees hold the keys that were put into them and not removed, where a search looks
\* for them; links up agree with links down; the red-black tree is balanced as long as
\* no insertion took the wrong side (rbtree.c, stree.c, trietree.c).
TreesSound ==
    /\ RBTypeOK /\ RBFinds /\ RBParents /\ RBBalanced
    /\ StTypeOK /\ WalkMeetsKept /\ StParents
    /\ TrieTypeOK /\ SearchFindsMeant /\ NoDeadWood

\* Pool, shared array, hash table, linked list and ini file keep what they were given,
\* and their lists and counters agree (mem_pool.c, arrshm.c, zc_hashtable.c, rlist.c,
\* parserINI.c, itemlist.c, sectionlist.c); at every step of a sort of the blocks what is
\* outside the partitions that wait is in its place, these fit their stack, and a
\* selection finds what fits (blockshm.c).
StoresSound ==
    /\ PoolTypeOK /\ PagesListed /\ PagesCount /\ BlocksApart
    /\ ShmTypeOK /\ ShmKept /\ CountDrifts /\ NothingPast
    /\ HtTypeOK /\ HtFinds /\ HtWalkMeetsAll
    /\ RlTypeOK /\ BothWays
    /\ IniTypeOK /\ AllAccounted /\ LoadedAsWritten
    /\ SortTypeOK /\ Parted /\ StackShort /\ FlagTrue /\ AsManyAsFit

\* A sort loses no record, a list operation does what it does to a sequence, a deleted
\* item is gone and the others stay, and the repairs of the red-black tree end.
LibrarySteps == RecordsStay /\ RingsAreLists /\ DeletedIsGone /\ RBCallsEnd

=============================================================================
