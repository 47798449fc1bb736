----------------------------- MODULE HashTable -----------------------------
(***************************************************************************)
(* The hash table of the logging library                                   *)
(* (fram/module/log/src/zc_hashtable.c), in which it keeps categories,     *)
(* records and the diagnostic context of each thread: buckets of doubly    *)
(* linked entries, in a table that doubles.                                *)
(***************************************************************************)
EXTENDS Integers, FiniteSets, SequencesExt

CONSTANTS HtKeys, HtHash,   \* the keys and a_table->hash
          HtValues,
          HtSize,           \* a_size: how many buckets there are at first
          HtMaxCalls        \* bound: calls

ASSUME HashAssumption == HtHash \in [HtKeys -> Nat] /\ HtSize \in Nat \ {0}

VARIABLES
    table,      \* tab (the first entry of each bucket, 0 for none), entry (key, value,
                \* next and prev of each entry, by the place calloc gave it), nelem
    mapped,     \* what was put and not removed (not in the code)
    htCalls

htVars == <<table, mapped, htCalls>>

TabSize(t) == Cardinality(DOMAIN t.tab)
Bucket(t, k) == HtHash[k] % TabSize(t)
Buckets(n) == [i \in 0 .. n - 1 |-> 0]

HtInit ==
    /\ table = [tab |-> Buckets(HtSize), entry |-> <<>>, nelem |-> 0]
    /\ mapped = <<>> /\ htCalls = 0

\* The entries from p on.
EntriesFrom(t, p) ==
    LET from[n \in Nat] ==
            [q \in DOMAIN t.entry \cup {0} |->
                IF q = 0 \/ n = 0 THEN <<>> ELSE <<q>> \o from[n - 1][t.entry[q].next]]
    IN  from[Cardinality(DOMAIN t.entry) + 1][p]

\* zc_hashtable_get_entry, 0 for NULL
GetEntry(t, k) ==
    LET found == SelectSeq(EntriesFrom(t, t.tab[Bucket(t, k)]), LAMBDA p : t.entry[p].key = k)
    IN  IF found = <<>> THEN 0 ELSE found[1]

\* Mutant of Link: the entry that was first is not told.
LinkOneWay(t, p) ==
    LET i == Bucket(t, t.entry[p].key)
    IN  [t EXCEPT !.entry[p].next = t.tab[i], !.entry[p].prev = 0, !.tab[i] = p]

\* p becomes the first entry of its bucket.
Link(t, p) ==
    LET i == Bucket(t, t.entry[p].key)
        first == t.tab[i]
        told == IF first = 0 THEN t.entry ELSE [t.entry EXCEPT ![first].prev = p]
    IN  [t EXCEPT !.entry = [told EXCEPT ![p].next = first, ![p].prev = 0], !.tab[i] = p]

\* The entries of all buckets, in the order of the table.
AllEntries(t) == FlattenSeq([i \in 1 .. TabSize(t) |-> EntriesFrom(t, t.tab[i - 1])])

\* zc_hashtable_rehash
Rehash(t) == FoldLeft(Link, [t EXCEPT !.tab = Buckets(2 * TabSize(t))], AllEntries(t))

NewEntry(t) == CHOOSE p \in 1 .. Cardinality(DOMAIN t.entry) + 1 : p \notin DOMAIN t.entry
HtCall == htCalls < HtMaxCalls /\ htCalls' = htCalls + 1

\* zc_hashtable_put: the value of a key that is there is changed, otherwise an
\* entry is linked, after the table was doubled if it is full.
HtPut(k, v) ==
    /\ HtCall /\ mapped' = [c \in DOMAIN mapped \cup {k} |-> IF c = k THEN v ELSE mapped[c]]
    /\ LET old == GetEntry(table, k)
           roomy == IF 10 * table.nelem > 13 * TabSize(table) THEN Rehash(table) ELSE table
           p == NewEntry(roomy)
           t == [roomy EXCEPT !.entry = [q \in DOMAIN @ \cup {p} |->
                     IF q = p THEN [key |-> k, value |-> v, next |-> 0, prev |-> 0] ELSE @[q]]]
       IN  table' = IF old # 0 THEN [table EXCEPT !.entry[old].value = v]
                    ELSE [Link(t, p) EXCEPT !.nelem = @ + 1]

\* An allocation fails, of the new buckets or of the entry when the table has doubled.
HtPutFails(k) ==
    /\ HtCall /\ GetEntry(table, k) = 0
    /\ \/ UNCHANGED table
       \/ 10 * table.nelem > 13 * TabSize(table) /\ table' = Rehash(table)
    /\ UNCHANGED mapped

\* zc_hashtable_remove
HtRemove(k) ==
    /\ HtCall /\ k \in DOMAIN mapped /\ mapped' = [c \in DOMAIN mapped \ {k} |-> mapped[c]]
    /\ LET p == GetEntry(table, k)
           e == table.entry[p]
           after == [q \in DOMAIN table.entry \ {p} |->
                        CASE q = e.next -> [table.entry[q] EXCEPT !.prev = e.prev]
                          [] q = e.prev -> [table.entry[q] EXCEPT !.next = e.next]
                          [] OTHER -> table.entry[q]]
       IN  table' = [tab |-> IF e.prev # 0 THEN table.tab
                             ELSE [table.tab EXCEPT ![Bucket(table, k)] = e.next],
                     entry |-> after, nelem |-> table.nelem - 1]

\* Mutant of HtClean: the elements are still counted.
HtCleanCounted ==
    /\ HtCall /\ mapped # <<>> /\ mapped' = <<>>
    /\ table' = [table EXCEPT !.tab = Buckets(TabSize(table)), !.entry = <<>>]

\* zc_hashtable_clean: the table keeps its size.
HtClean ==
    /\ HtCall /\ mapped # <<>> /\ mapped' = <<>>
    /\ table' = [tab |-> Buckets(TabSize(table)), entry |-> <<>>, nelem |-> 0]

HtNext ==
    \/ \E k \in HtKeys, v \in HtValues : HtPut(k, v)
    \/ \E k \in HtKeys : HtPutFails(k)
    \/ \E k \in HtKeys : HtRemove(k)
    \/ HtClean

-----------------------------------------------------------------------------
\* zc_hashtable_begin and zc_hashtable_next: the first entry of the first
\* bucket from i on that has one.
FirstFrom(t, i) ==
    LET some == {j \in DOMAIN t.tab : j >= i /\ t.tab[j] # 0}
    IN  IF some = {} THEN 0 ELSE t.tab[CHOOSE j \in some : \A k \in some : j <= k]
\* Mutant of NextEntry: the bucket of the entry is looked through again.
NextAgain(t, p) ==
    IF t.entry[p].next # 0 THEN t.entry[p].next ELSE FirstFrom(t, Bucket(t, t.entry[p].key))
NextEntry(t, p) ==
    IF t.entry[p].next # 0 THEN t.entry[p].next ELSE FirstFrom(t, Bucket(t, t.entry[p].key) + 1)

\* What zc_hashtable_foreach meets in n steps.
Foreach(t, n) ==
    LET nth[i \in 1 .. n] == IF i = 1 THEN FirstFrom(t, 0)
                             ELSE IF nth[i - 1] = 0 THEN 0 ELSE NextEntry(t, nth[i - 1])
    IN  [i \in 1 .. n |-> nth[i]]

HtTypeOK ==
    /\ DOMAIN table.tab = 0 .. TabSize(table) - 1
    /\ \A i \in DOMAIN table.tab : table.tab[i] \in DOMAIN table.entry \cup {0}
    /\ \A p \in DOMAIN table.entry :
          table.entry[p] \in [key : HtKeys, value : HtValues,
                              next : DOMAIN table.entry \cup {0}, prev : DOMAIN table.entry \cup {0}]
    /\ table.nelem = Cardinality(DOMAIN mapped)

\* After any puts, removals, cleanings and doublings, an allocation that failed
\* in between or not, every key gives what was last put for it.
HtFinds ==
    \A k \in HtKeys :
        IF k \in DOMAIN mapped THEN GetEntry(table, k) # 0 /\ table.entry[GetEntry(table, k)].value = mapped[k]
        ELSE GetEntry(table, k) = 0

\* A walk over the table, as zlog_category_table_update_rules makes it, meets
\* every key once and ends, whatever the doublings did to the order.
HtWalkMeetsAll ==
    LET n == Cardinality(DOMAIN mapped)
        met == Foreach(table, n + 1)
    IN  /\ met[n + 1] = 0
        /\ \A i \in 1 .. n : met[i] # 0
        /\ {table.entry[met[i]].key : i \in 1 .. n} = DOMAIN mapped

=============================================================================
