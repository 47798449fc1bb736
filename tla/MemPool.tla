------------------------------ MODULE MemPool ------------------------------
(***************************************************************************)
(* The memory pool of fram/module/mempool/src/mem_pool.c: pages from which *)
(* blocks are cut one after the other, and large blocks of their own.      *)
(*                                                                         *)
(* Places are in bytes.  The first block of a page is Header * Header      *)
(* bytes after its beginning, and a block takes Word times its size,       *)
(* because the code adds bytes to pointers to a struct and to a long.  A   *)
(* step that leaves what the language defines (a link of a freed block, a  *)
(* pointer that malloc did not give) or that never ends leaves the pool    *)
(* "lost": nothing is said of it from there on.                            *)
(***************************************************************************)
EXTENDS Integers, Sequences, FiniteSets

CONSTANTS PageSize, Header, Word, AlignBit,   \* the sizes of mem_pool.h
          FailLimit,      \* 8: searches in vain after which a page is passed by
          CountMod,       \* the width of count, as a modulus
          PoolSizes,      \* the sizes that are asked for
          MaxPages, MaxLarges, MaxAllocs   \* bounds; beyond the first two malloc fails

ASSUME MemPoolAssumption ==
    /\ PageSize \in Nat /\ Header \in Nat /\ Header < PageSize
    /\ Word \in Nat \ {0} /\ AlignBit \in Nat \ {0} /\ PoolSizes \subseteq Nat \ {0}

NoPage == 0

VARIABLES
    page,       \* the pages, by the place where malloc put them, in pages: count,
                \* free, fail (fail_num, as far as FailLimit), at (pfree), next, prev
    pageList, pageCurrent,   \* the pool's list of pages and where a search begins
    large,      \* the list of large blocks, in its order
    dangling,   \* lpage_list points to a block that was freed
    pool,       \* "ok" or "lost"
    live,       \* the blocks the user has: page, place, size (not in the code)
    misled,     \* a block was given back to another page (not in the code)
    allocs

mpVars == <<page, pageList, pageCurrent, large, dangling, pool, live, misled, allocs>>
links == <<page, pageList, pageCurrent>>

First == Header * Header

\* Mutant of Fresh: the header is forgotten.
FreshWhole(prev) == [count |-> 0, free |-> PageSize, fail |-> 0, at |-> First,
                     next |-> NoPage, prev |-> prev]

Fresh(prev) == [count |-> 0, free |-> PageSize - Header, fail |-> 0, at |-> First,
                next |-> NoPage, prev |-> prev]
Align(n) == ((n + AlignBit - 1) \div AlignBit) * AlignBit

\* mem_pool_init
PoolInit ==
    /\ page = [p \in {1} |-> Fresh(NoPage)] /\ pageList = 1 /\ pageCurrent = 1
    /\ large = <<>> /\ dangling = FALSE /\ pool = "ok"
    /\ live = {} /\ misled = FALSE /\ allocs = 0

\* The pages from p on, along next.
Chain(p) ==
    LET from[n \in Nat] ==
            [q \in DOMAIN page \cup {NoPage} |->
                IF q = NoPage \/ n = 0 THEN <<>> ELSE <<q>> \o from[n - 1][page[q].next]]
    IN  from[MaxPages + 1][p]

Lost == pool' = "lost" /\ UNCHANGED <<links, large, dangling, live, misled, allocs>>

-----------------------------------------------------------------------------
\* Mutant of Cut: the page does not count the block.
CutUncounted(pages, p, size) ==
    [pages EXCEPT ![p].free = @ - size, ![p].at = @ + Word * size]

Cut(pages, p, size) ==
    [pages EXCEPT ![p].free = @ - size, ![p].at = @ + Word * size,
                  ![p].count = (@ + 1) % CountMod]

\* Where the next search begins: at the first page that has not failed too often.
NextCurrent(pages, chain) ==
    LET fit == {i \in DOMAIN chain : pages[chain[i]].fail < FailLimit \/ i = Len(chain)}
    IN  chain[CHOOSE i \in fit : \A j \in fit : i <= j]

\* _mem_pool_alloc_block: the pages in which the size does not fit have failed once
\* more; after the last one a new page is hung, if malloc gives one.
AllocBlock(size) ==
    LET chain == Chain(pageCurrent)
        fits == {i \in DOMAIN chain : page[chain[i]].free >= size}
        last == IF fits = {} THEN Len(chain) ELSE (CHOOSE i \in fits : \A j \in fits : i <= j) - 1
        failed == [p \in DOMAIN page |->
                      IF \E i \in 1..last : chain[i] = p THEN [page[p] EXCEPT !.fail = IF @ < FailLimit THEN @ + 1 ELSE @]
                      ELSE page[p]]
        tail == chain[Len(chain)]
        give(pages, links1, p) ==
            /\ page' = Cut(pages, p, size)
            /\ pageCurrent' = NextCurrent(pages, links1)
            /\ live' = live \cup {[page |-> p, at |-> pages[p].at, size |-> size]}
    IN
    /\ size < PageSize - Header
    /\ \/ fits # {} /\ give(failed, chain, chain[last + 1])
       \/ /\ fits = {}
          /\ \E new \in 1..MaxPages \ DOMAIN page :
                give([p \in DOMAIN page \cup {new} |->
                         IF p = new THEN Fresh(tail)
                         ELSE IF p = tail THEN [failed[p] EXCEPT !.next = new] ELSE failed[p]],
                     Append(chain, new), new)
       \/ /\ fits = {} /\ DOMAIN page = 1..MaxPages
          /\ page' = failed /\ UNCHANGED <<pageCurrent, live>>
    /\ UNCHANGED <<pageList, large, dangling, pool, misled>>

\* _mem_pool_alloc_large: the list is walked to its end.
AllocLarge(size) ==
    /\ size >= PageSize - Header
    /\ IF dangling THEN pool' = "lost" /\ UNCHANGED large
       ELSE /\ \E new \in 1..MaxLarges \ {large[i] : i \in DOMAIN large} : large' = Append(large, new)
            /\ UNCHANGED pool
    /\ UNCHANGED <<links, dangling, live, misled>>

\* mem_pool_palloc (aligned) and mem_pool_pnalloc
Alloc(n, aligned) ==
    /\ pool = "ok" /\ allocs < MaxAllocs
    /\ LET size == IF aligned THEN Align(n) ELSE n IN AllocBlock(size) \/ AllocLarge(size)
    /\ allocs' = allocs + 1

-----------------------------------------------------------------------------
\* The page that is taken for the block's: the first one, in the order of the
\* list, that begins at most PageSize words before it.
Owners(b) ==
    LET chain == Chain(pageList)
        dist(p) == ((b.page - p) * PageSize + b.at) \div Word
        near == {i \in DOMAIN chain : dist(chain[i]) > 0 /\ dist(chain[i]) <= PageSize}
    IN  IF near = {} THEN {} ELSE {chain[CHOOSE i \in near : \A j \in near : i <= j]}

\* Mutant of Recycled: the first page of the list keeps its link.
RecycledAsFirst(p) ==
    LET clean == [page EXCEPT ![p] = [Fresh(@.prev) EXCEPT !.next = page[p].next]]
        chain == Chain(p)
        tail == chain[Len(chain)]
    IN  IF page[p].next = NoPage THEN clean
        ELSE [clean EXCEPT ![tail].next = p, ![p].prev = tail]

\* A page without blocks that has failed often enough is emptied and becomes
\* the last of the list.  The page that is then the first keeps its prev.
Recycled(p) ==
    LET clean == [page EXCEPT ![p] = [Fresh(@.prev) EXCEPT !.next = page[p].next]]
        chain == Chain(p)
        tail == chain[Len(chain)]
        cut == IF page[p].prev = NoPage THEN clean
               ELSE [clean EXCEPT ![page[p].next].prev = page[p].prev,
                                  ![page[p].prev].next = page[p].next]
    IN  IF page[p].next = NoPage THEN clean
        ELSE [cut EXCEPT ![tail].next = p, ![p].prev = tail, ![p].next = NoPage]

\* The last page of several cannot be recycled, it has no next to follow; and
\* the first one, when its prev is left over from the page before it, closes the
\* list to a ring, round which the walk to its end goes for ever.
Misplaced(p) ==
    page[p].prev # NoPage /\ (page[p].next = NoPage \/ p = pageList)

\* Mutant of Empty: the last block but one empties the page.
EmptyTooSoon(p, count) == count <= 1 /\ page[p].fail >= FailLimit

Empty(p, count) == count = 0 /\ page[p].fail >= FailLimit

\* mem_pool_pfree of a block, down _mem_pool_free_block.  As long as there are
\* large blocks it is taken for one of them.
FreeBlock(b) ==
    /\ pool = "ok" /\ b \in live
    /\ IF large # <<>> \/ dangling \/ Owners(b) = {} THEN Lost
       ELSE \E p \in Owners(b) :
            LET count == (page[p].count - 1) % CountMod IN
            IF Empty(p, count) /\ Misplaced(p) THEN Lost
            ELSE /\ page' = IF Empty(p, count) THEN Recycled(p)
                            ELSE [page EXCEPT ![p].count = count]
                 /\ pageList' = IF Empty(p, count) /\ p = pageList /\ page[p].next # NoPage
                                THEN page[p].next ELSE pageList
                 /\ live' = live \ {b} /\ misled' = (misled \/ p # b.page)
                 /\ UNCHANGED <<pageCurrent, large, dangling, pool, allocs>>

\* mem_pool_pfree of a large block, _mem_pool_free_large
FreeLarge(n) ==
    /\ pool = "ok" /\ ~dangling
    /\ \E i \in DOMAIN large : large[i] = n
    /\ large' = SelectSeq(large, LAMBDA m : m # n)
    /\ UNCHANGED <<links, dangling, pool, live, misled, allocs>>

\* mem_pool_reset: the loop over the pages has its condition the wrong way round,
\* so only the search begins anew; the large blocks are freed, and the list
\* goes on pointing to the first of them.
Reset ==
    /\ pool = "ok"
    /\ IF dangling THEN Lost
       ELSE /\ pageCurrent' = pageList
            /\ large' = <<>> /\ dangling' = (large # <<>>)
            /\ UNCHANGED <<page, pageList, pool, live, misled, allocs>>

\* mem_pool_destory, and mem_pool_init again
Renew(place) ==
    /\ pool = "ok"
    /\ IF dangling THEN Lost
       ELSE /\ page' = [p \in {place} |-> Fresh(NoPage)]
            /\ pageList' = place /\ pageCurrent' = place
            /\ large' = <<>> /\ live' = {} /\ misled' = FALSE
            /\ UNCHANGED <<dangling, pool, allocs>>

PoolNext ==
    \/ \E n \in PoolSizes, aligned \in BOOLEAN : Alloc(n, aligned)
    \/ \E b \in live : FreeBlock(b)
    \/ \E n \in 1..MaxLarges : FreeLarge(n)
    \/ Reset
    \/ \E place \in 1..MaxPages : Renew(place)

-----------------------------------------------------------------------------
PoolTypeOK ==
    /\ pageList \in DOMAIN page /\ pageCurrent \in DOMAIN page
    /\ \A p \in DOMAIN page :
           /\ page[p].count \in 0..CountMod - 1 /\ page[p].free \in 0..PageSize - Header
           /\ page[p].next \in DOMAIN page \cup {NoPage} /\ page[p].prev \in DOMAIN page \cup {NoPage}
    /\ pool \in {"ok", "lost"} /\ dangling \in BOOLEAN /\ misled \in BOOLEAN

\* Every page is found from the beginning of the list, once, and the list ends:
\* recycling the first page or one in the middle loses none and closes no ring.
PagesListed ==
    pool = "ok" =>
        LET chain == Chain(pageList)
        IN  Len(chain) = Cardinality(DOMAIN page) /\ {chain[i] : i \in DOMAIN chain} = DOMAIN page

\* As long as every block went back to its own page, a page counts the blocks the user
\* has of it ...
PagesCount ==
    ~misled => \A p \in DOMAIN page : page[p].count = Cardinality({b \in live : b.page = p})

\* ... and no two of them overlap, though the page was emptied and cut anew.
BlocksApart ==
    ~misled => \A b, c \in live :
        b.page = c.page /\ b # c => b.at + b.size <= c.at \/ c.at + c.size <= b.at

=============================================================================
