----------------------------- MODULE BlockSort -----------------------------
(***************************************************************************)
(* Sorting a block of records in shared memory and selecting from it       *)
(* (ipc/src/blockshm.c): the quicksort on a stack of partitions, which     *)
(* hands every small partition to a sort of the WHOLE block, the binary    *)
(* search, and the selection that walks from a hit to both sides without   *)
(* looking where the block ends.  The caller holds the lock, or is alone.  *)
(*                                                                         *)
(* A record has the bytes of its index, one number `key`, and others, one  *)
(* number `val`; 0 in a condition is a byte that is not asked for.  The    *)
(* cells 0 and Num + 1 are what lies before and behind the block.          *)
(***************************************************************************)
EXTENDS Integers, Sequences, FiniteSets, FiniteSetsExt

CONSTANTS
    Num,                  \* records of the block
    Cutoff,               \* the size from which a partition is sorted by _shm_ssort
    SortKeys,             \* the indexes of records
    OutKeys               \* the indexes of what lies around the block

ASSUME SortAssumption == Num \in Nat \ {0, 1} /\ Cutoff \in Nat \ {0} /\ SortKeys \cup OutKeys \subseteq Nat \ {0}

VARIABLES
    cells,                \* the memory: the block and a cell on both sides
    sorted,               \* the block's sortflag
    span,                 \* lo, hi, mid, loguy and higuy of _shm_qsort
    stack,                \* lostk and histk
    sortPc,               \* where _shm_qsort is
    asked,                \* the condition of the last selection
    got                   \* what it gave

sortVars == <<cells, sorted, span, stack, sortPc, asked, got>>

Block == 1 .. Num
Key(i) == cells[i].key
NoPart == [lo |-> 1, hi |-> Num, mid |-> 0, loguy |-> 0, higuy |-> 0]
NotAsked == [way |-> "none", key |-> 0, val |-> 0]

SortInit ==
    /\ \E ks \in [Block -> SortKeys], around \in OutKeys :
          cells = [i \in 0 .. Num + 1 |->
                      IF i \in Block THEN [key |-> ks[i], val |-> 1 + (i % 2)]
                      ELSE [key |-> around, val |-> 1]]
    /\ sorted = FALSE /\ span = NoPart /\ stack = <<>> /\ sortPc = "idle"
    /\ asked = NotAsked /\ got = <<>>

\* Mutant of Swap: what is overwritten is not kept.
SwapOver(c, i, j) == [c EXCEPT ![i] = c[j]]

Swap(c, i, j) == [c EXCEPT ![i] = c[j], ![j] = c[i]]
SwapIf(c, i, j) == IF c[i].key > c[j].key THEN Swap(c, i, j) ELSE c

----------------------------------------------------------------------------
(* _shm_qsort, a step for every round of its loops *)

shm_qsort_start ==
    /\ sortPc = "idle" /\ ~sorted
    /\ span' = NoPart /\ stack' = <<>> /\ sortPc' = "recurse" /\ asked' = NotAsked /\ got' = <<>>
    /\ UNCHANGED <<cells, sorted>>

\* The first of the largest records up to h goes to h.
PutMax(c, h) ==
    LET top == CHOOSE i \in 1 .. h : /\ \A j \in 1 .. h : c[j].key <= c[i].key
                                     /\ \A j \in 1 .. i - 1 : c[j].key < c[i].key
    IN  Swap(c, top, h)

\* Mutant of _shm_ssort: the last record is left out.
SsortShort(c) ==
    LET Pass[h \in 1 .. Num - 1] == IF h = Num - 1 THEN PutMax(c, h) ELSE PutMax(Pass[h + 1], h)
    IN  IF Num > 2 THEN Pass[2] ELSE c

_shm_ssort(c) ==
    LET Pass[h \in 1 .. Num] == IF h = Num THEN PutMax(c, h) ELSE PutMax(Pass[h + 1], h)
    IN  Pass[2]

SmallPart ==
    /\ sortPc = "recurse" /\ span.hi - span.lo + 1 <= Cutoff
    /\ cells' = _shm_ssort(cells) /\ sortPc' = "pop"
    /\ UNCHANGED <<sorted, span, stack, asked, got>>

\* The middle record becomes the median of the first, the middle and the last.
Median ==
    LET lo == span.lo
        hi == span.hi
        mid == lo + (hi - lo + 1) \div 2
    IN  /\ sortPc = "recurse" /\ hi - lo + 1 > Cutoff
        /\ cells' = SwapIf(SwapIf(SwapIf(cells, lo, mid), lo, hi), mid, hi)
        /\ span' = [span EXCEPT !.mid = mid, !.loguy = lo, !.higuy = hi]
        /\ sortPc' = "scan"
        /\ UNCHANGED <<sorted, stack, asked, got>>

\* Mutant of NextLarger: the end of the partition is not looked at.
NextLargerPast ==
    Min({l \in span.loguy + 1 .. Num + 1 : l > Num \/ Key(l) > Key(span.mid)})

\* The next record from the left that is larger than the middle one, past it.
NextLarger ==
    LET m == span.mid
        l1 == IF m > span.loguy
              THEN Min({l \in span.loguy + 1 .. m : l = m \/ Key(l) > Key(m)})
              ELSE span.loguy
    IN  IF m <= l1
        THEN Min({l \in l1 + 1 .. span.hi + 1 : l > span.hi \/ Key(l) > Key(m)})
        ELSE l1

\* Mutant of NextNotLarger: larger ones are taken.
NextLargerToo == Max({h \in span.lo - 1 .. span.higuy - 1 :
                         h <= span.mid \/ Key(h) <= Key(span.mid) + 1})

\* The next one from the right that is not.
NextNotLarger == Max({h \in span.lo - 1 .. span.higuy - 1 :
                         h <= span.mid \/ Key(h) <= Key(span.mid)})

Scan ==
    LET l == NextLarger
        h == NextNotLarger
    IN  /\ sortPc = "scan"
        /\ IF h < l
           THEN /\ sortPc' = "split" /\ UNCHANGED cells
                /\ span' = [span EXCEPT !.loguy = l, !.higuy = h]
           ELSE /\ cells' = Swap(cells, l, h) /\ UNCHANGED sortPc
                /\ span' = [span EXCEPT !.loguy = l, !.higuy = h,
                                          !.mid = IF @ = h THEN l ELSE @]
        /\ UNCHANGED <<sorted, stack, asked, got>>

\* The end of the left partition, without the records equal to the middle one.
LeftEnd ==
    LET m == span.mid
        h1 == IF m < span.higuy + 1
              THEN Max({h \in m .. span.higuy : h = m \/ Key(h) # Key(m)})
              ELSE span.higuy + 1
    IN  IF m >= h1
        THEN Max({h \in span.lo - 1 .. h1 - 1 : h <= span.lo \/ Key(h) # Key(m)})
        ELSE h1

\* Mutant of LeftLarger: the larger one is next.
LeftSmaller == LeftEnd - span.lo < span.hi - span.loguy

\* The larger partition waits on the stack, the smaller one is next.
LeftLarger == LeftEnd - span.lo >= span.hi - span.loguy

Split ==
    LET left == <<span.lo, LeftEnd>>
        right == <<span.loguy, span.hi>>
        wait == IF LeftLarger THEN left ELSE right
        next == IF LeftLarger THEN right ELSE left
    IN  /\ sortPc = "split"
        /\ stack' = IF wait[1] < wait[2] THEN Append(stack, wait) ELSE stack
        /\ IF next[1] < next[2]
           THEN /\ span' = [NoPart EXCEPT !.lo = next[1], !.hi = next[2]]
                /\ sortPc' = "recurse"
           ELSE /\ sortPc' = "pop" /\ UNCHANGED span
        /\ UNCHANGED <<cells, sorted, asked, got>>

\* The last partition of the stack, or the end: the block is marked as sorted.
Pop ==
    /\ sortPc = "pop"
    /\ IF stack = <<>>
       THEN /\ sorted' = TRUE /\ sortPc' = "idle" /\ span' = NoPart /\ UNCHANGED stack
       ELSE /\ span' = [NoPart EXCEPT !.lo = stack[Len(stack)][1], !.hi = stack[Len(stack)][2]]
            /\ stack' = SubSeq(stack, 1, Len(stack) - 1)
            /\ sortPc' = "recurse" /\ UNCHANGED sorted
    /\ UNCHANGED <<cells, asked, got>>

----------------------------------------------------------------------------
(* Selection *)

\* Mutant of shm_bsearch: the last record is never looked at.
BsearchShort(k) ==
    LET Go[s \in 0 .. Num, e \in 0 .. Num] ==
            LET mid == s + (e - s) \div 2
            IN  IF s >= e THEN 0
                ELSE IF k < Key(mid + 1) THEN Go[s, mid]
                ELSE IF k > Key(mid + 1) THEN Go[mid + 1, e]
                ELSE mid + 1
    IN  Go[0, Num - 1]

\* The record the binary search meets, 0 if none has the key.
shm_bsearch(k) ==
    LET Go[s \in 0 .. Num, e \in 0 .. Num] ==
            LET mid == s + (e - s) \div 2
            IN  IF s >= e THEN 0
                ELSE IF k < Key(mid + 1) THEN Go[s, mid]
                ELSE IF k > Key(mid + 1) THEN Go[mid + 1, e]
                ELSE mid + 1
    IN  Go[0, Num]

\* cmp: a zero of the condition fits every byte.
cmp(c, k, v) == (k = 0 \/ c.key = k) /\ (v = 0 \/ c.val = v)

\* Record by record, in the order of the block.
Matching(k, v) == SelectSeq([i \in Block |-> cells[i]], LAMBDA c : cmp(c, k, v))

\* How many cells that follow i to one side have the key, the block's or not:
\* behind the cells of the model the key ends.
Run(i, step, k) ==
    LET Far[d \in 0 .. Num + 2] ==
            LET j == i + step * (d + 1)
            IN  IF j \in 0 .. Num + 1 /\ Key(j) = k THEN 1 + Far[d + 1] ELSE 0
    IN  Far[0]

\* The hit, and a copy of the HIT for every neighbour with its key.
Indexed(k) ==
    IF sorted
    THEN LET hit == shm_bsearch(k)
         IN  IF hit = 0 THEN <<>>
             ELSE [n \in 1 .. 1 + Run(hit, -1, k) + Run(hit, 1, k) |-> cells[hit]]
    ELSE Matching(k, 0)

\* shm_download and shm_download_safe: the index only, whatever the rest says.
shm_download_cond ==
    /\ sortPc = "idle" /\ asked = NotAsked
    /\ \E k \in SortKeys :
          /\ asked' = [way |-> "download", key |-> k, val |-> 0]
          /\ got' = Indexed(k)
    /\ UNCHANGED <<cells, sorted, span, stack, sortPc>>

\* shm_select and shm_select_safe: by index if only the index is asked for.
shm_select_cond ==
    /\ sortPc = "idle" /\ asked = NotAsked
    /\ \E k \in SortKeys \cup {0}, v \in 0 .. 2 :
          /\ asked' = [way |-> "select", key |-> k, val |-> v]
          /\ got' = IF k = 0 \/ v # 0 THEN Matching(k, v) ELSE Indexed(k)
    /\ UNCHANGED <<cells, sorted, span, stack, sortPc>>

Answered ==
    /\ asked # NotAsked
    /\ asked' = NotAsked /\ got' = <<>>
    /\ UNCHANGED <<cells, sorted, span, stack, sortPc>>

SortNext ==
    \/ shm_qsort_start \/ SmallPart \/ Median \/ Scan \/ Split \/ Pop
    \/ shm_download_cond \/ shm_select_cond \/ Answered

SortSpec == SortInit /\ [][SortNext]_sortVars

----------------------------------------------------------------------------
(* Properties *)

\* The pointers stay in their partition, or one record beside it, and the
\* partitions on the stack are parts of the block of two records or more.
SortTypeOK ==
    /\ DOMAIN cells = 0 .. Num + 1 /\ sorted \in BOOLEAN
    /\ sortPc \in {"idle", "recurse", "scan", "split", "pop"}
    /\ 1 <= span.lo /\ span.lo <= span.hi /\ span.hi <= Num
    /\ sortPc \in {"scan", "split"} =>
          /\ span.mid \in span.lo .. span.hi
          /\ span.loguy \in span.lo .. span.hi + 1
          /\ span.higuy \in span.lo - 1 .. span.hi
    /\ \A n \in 1 .. Len(stack) : 1 <= stack[n][1] /\ stack[n][1] < stack[n][2] /\ stack[n][2] <= Num

\* No record is lost or doubled by the swaps of a sort, at any of its steps.
RecordsStay ==
    [][\A r \in [key : SortKeys \cup OutKeys, val : 1 .. 2] :
          Cardinality({i \in Block : cells'[i] = r}) = Cardinality({i \in Block : cells[i] = r})]_sortVars

\* The partitions still to be sorted, and what is in order: two records that
\* are in no partition together are where they belong.
Pending == {stack[n] : n \in 1 .. Len(stack)} \cup
           (IF sortPc = "recurse" THEN {<<span.lo, span.hi>>} ELSE {})
Parted ==
    sortPc \in {"recurse", "pop"} =>
        \A i, j \in Block :
            i < j /\ ~(\E p \in Pending : p[1] <= i /\ j <= p[2]) => Key(i) <= Key(j)

\* A partition that is worked on is at most half of what the one below it on
\* the stack came from: STKSIZ entries are enough for any block.
StackShort ==
    (sortPc = "recurse" /\ Len(stack) > 0) => (span.hi - span.lo + 1) * 2 ^ Len(stack) <= Num

\* What carries the flag is in order.
FlagTrue == sorted => \A i \in 1 .. Num - 1 : Key(i) <= Key(i + 1)

\* A selection finds as many records as there are that fit, sorted or not, by
\* the index or not, and gives nothing else, if what lies around the block does
\* not carry the index that is looked for.
Around(k) == k \in {Key(0), Key(Num + 1)}
AsManyAsFit ==
    (asked # NotAsked /\ ~(sorted /\ Around(asked.key))) =>
        /\ Len(got) = Cardinality({i \in Block : cmp(cells[i], asked.key, asked.val)})
        /\ \A n \in 1 .. Len(got) : cmp(got[n], asked.key, asked.val)

=============================================================================
