------------------------------ MODULE IniFile ------------------------------
(***************************************************************************)
(* Configuration files (ini/src): the lines of a file become a list of     *)
(* sections, each with a list of items, while any allocation may fail; and *)
(* the calls that look items up, add and delete them and free it all.      *)
(*                                                                         *)
(* A line is what fgets gives: a section, an item, one of the two without  *)
(* its sign, or one that is skipped.  A line longer than the buffer comes  *)
(* in pieces; the pieces but the last, and a last line without an end of   *)
(* line, have no character to drop, and an item there loses one of its own.*)
(***************************************************************************)
EXTENDS Integers, Sequences, FiniteSets, SequencesExt

CONSTANTS
    Sections, ItemKeys,   \* names
    MaxLines,             \* lines of a file
    MaxEdits,          \* calls that change what was loaded
    MaxFails              \* allocations that fail

VARIABLES
    file,                 \* the lines
    line,                 \* how many of them are read
    head,                 \* the sections: sequence of [name, items]
    curr,                 \* INIcurr: none, the last section, or SYSERROR taken for one
    status,               \* loading, loaded, failed, freed, wild (a bad pointer) or died
    blocks,               \* allocations that are not freed
    fails,                \* allocations that failed
    lostBlocks,           \* allocations nobody points to: names of sections, for the most part
    edits                 \* calls so far

iniVars == <<file, line, head, curr, status, blocks, fails, lostBlocks, edits>>

Values == {<<>>, <<"v">>}
SecLine(n) == [kind |-> "section", name |-> n]
ItemLine(k, v, e) == [kind |-> "item", key |-> k, value |-> v, end |-> e]
Lines == {SecLine(n) : n \in Sections} \cup
         {ItemLine(k, v, e) : k \in ItemKeys, v \in Values, e \in BOOLEAN} \cup
         {[kind |-> "skip"], [kind |-> "open"], [kind |-> "plain"]}

IniInit ==
    /\ file = <<>> /\ line = 0 /\ head = <<>> /\ curr = "none" /\ status = "loading"
    /\ blocks = 0 /\ fails = 0 /\ lostBlocks = 0 /\ edits = 0

\* What an item and a section hold: themselves, the key, a value that is not
\* empty; themselves and the name.
ItemBlocks(i) == IF i.value = <<>> THEN 2 ELSE 3
Held(items) == LET Sum[n \in 0 .. Len(items)] == IF n = 0 THEN 0 ELSE Sum[n - 1] + ItemBlocks(items[n])
               IN  Sum[Len(items)]
Items(secs) == FlattenSeq([n \in 1 .. Len(secs) |-> secs[n].items])

----------------------------------------------------------------------------
(* The lists *)

\* The section list: a section whose name finds no memory is never freed, and
\* the error is handed back as a pointer.
SectionADD(n) ==
    \/ /\ head' = Append(head, [name |-> n, items |-> <<>>]) /\ blocks' = blocks + 2
       /\ curr' = "last" /\ UNCHANGED <<fails, lostBlocks, status>>
    \/ /\ fails < MaxFails /\ fails' = fails + 1
       /\ \E nodes \in {0, 1} : blocks' = blocks + nodes /\ lostBlocks' = lostBlocks + nodes
       /\ curr' = "error" /\ UNCHANGED <<head, status>>

\* An item of section s; memory for the item or its key is missing, or for the
\* value: then the item is freed and its key read from it once more.
ItemADD(s, k, v) ==
    \/ /\ head' = [head EXCEPT ![s].items = Append(@, [key |-> k, value |-> v])]
       /\ blocks' = blocks + ItemBlocks([value |-> v]) /\ UNCHANGED <<fails, lostBlocks, status>>
    \/ /\ fails < MaxFails /\ fails' = fails + 1 /\ UNCHANGED <<head, blocks, lostBlocks, status>>
    \/ /\ fails < MaxFails /\ fails' = fails + 1 /\ v # <<>> /\ UNCHANGED head
       /\ \/ blocks' = blocks + 1 /\ lostBlocks' = lostBlocks + 1 /\ UNCHANGED status
          \/ status' = "died" /\ UNCHANGED <<blocks, lostBlocks>>

\* Mutant of ItemDestroy: empty values are freed too.
DestroyEmptyToo(items) == 3 * Len(items)

\* Mutant of ItemDestroy: values are kept.
DestroyNoValues(items) == 2 * Len(items)

\* The blocks freed with the items.
ItemDestroy(items) == Held(items)

\* Sections go with their items, but not with their names.
Destroyed(secs) ==
    /\ blocks' = blocks - Len(secs) - ItemDestroy(Items(secs))
    /\ lostBlocks' = lostBlocks + Len(secs)

----------------------------------------------------------------------------
(* LoadINI *)

\* The sections read so far are freed; the error for a list is walked into.
Failed ==
    /\ UNCHANGED <<curr, fails>>
    /\ IF head = <<>> /\ curr = "error"
       THEN status' = "died" /\ UNCHANGED <<head, blocks, lostBlocks>>
       ELSE head' = <<>> /\ Destroyed(head) /\ status' = "failed"

ReadSection(l) ==
    /\ l.kind = "section"
    /\ IF head = <<>> /\ curr = "error"
       THEN status' = "died" /\ UNCHANGED <<head, blocks, curr, fails, lostBlocks>>
       ELSE SectionADD(l.name)

\* Mutant of Stored: one character too many is left.
StoredAll(l) == l.value

\* The value without its last character, the end of line if there is one.
Stored(l) == IF l.end THEN l.value ELSE Front(l.value)

\* An item before the first section is passed over.  The value of an empty item
\* without an end of line is as long as -1 bytes.
ReadItem(l) ==
    /\ l.kind = "item" /\ UNCHANGED curr
    /\ IF curr = "none" THEN UNCHANGED <<head, blocks, fails, lostBlocks, status>>
       ELSE IF curr = "error" \/ (~l.end /\ l.value = <<>>)
       THEN status' = "died" /\ UNCHANGED <<head, blocks, fails, lostBlocks>>
       ELSE ItemADD(Len(head), l.key, Stored(l))

ReadOther(l) ==
    \/ l.kind = "open" /\ Failed
    \/ l.kind = "plain" /\ curr # "none" /\ Failed
    \/ /\ l.kind = "skip" \/ (l.kind = "plain" /\ curr = "none")
       /\ UNCHANGED <<head, curr, status, blocks, fails, lostBlocks>>

\* fgets: the next line of a file that is any file.
ReadLine ==
    /\ status = "loading" /\ line < MaxLines
    /\ \E l \in Lines :
          /\ file' = Append(file, l) /\ line' = line + 1
          /\ ReadSection(l) \/ ReadItem(l) \/ ReadOther(l)
    /\ UNCHANGED edits

\* The end of the file.  If the first section found no memory, the pointer that
\* LoadINI returns is the error.
LoadINI ==
    /\ status = "loading" /\ status' = IF head = <<>> /\ curr = "error" THEN "wild" ELSE "loaded"
    /\ UNCHANGED <<file, line, head, curr, blocks, fails, lostBlocks, edits>>

----------------------------------------------------------------------------
(* What the caller does with it *)

SectionOf(n) == SelectInSeq(head, LAMBDA s : s.name = n)
GetSection(n) == IF SectionOf(n) = 0 THEN <<>> ELSE <<head[SectionOf(n)]>>
GetItemByKey(items, k) == LET i == SelectInSeq(items, LAMBDA x : x.key = k)
                          IN  IF i = 0 THEN <<>> ELSE <<items[i]>>
GetSectionItem(n, k) == IF SectionOf(n) = 0 THEN <<>> ELSE GetItemByKey(head[SectionOf(n)].items, k)

Change == status = "loaded" /\ edits < MaxEdits /\ edits' = edits + 1 /\ UNCHANGED <<file, line>>

SectionItemADD ==
    /\ Change /\ UNCHANGED curr
    /\ \E n \in Sections, k \in ItemKeys : SectionOf(n) # 0 /\ ItemADD(SectionOf(n), k, <<"v">>)

\* Mutant of ItemDEL: the item behind a deleted one is passed over.
DelNext(items, k) ==
    LET Kept[i \in 0 .. Len(items)] ==
            IF i = 0 THEN <<>>
            ELSE IF items[i].key = k /\ (i = 1 \/ items[i - 1].key # k) THEN Kept[i - 1]
            ELSE Append(Kept[i - 1], items[i])
    IN  Kept[Len(items)]

\* All items with the key.
ItemDEL(items, k) == SelectSeq(items, LAMBDA i : i.key # k)

DeleteItems ==
    /\ Change
    /\ \E n \in Sections, k \in ItemKeys :
          /\ SectionOf(n) # 0
          /\ LET items == head[SectionOf(n)].items
                 kept == ItemDEL(items, k)
             IN  /\ head' = [head EXCEPT ![SectionOf(n)].items = kept]
                 /\ blocks' = blocks - (Held(items) - Held(kept))
    /\ UNCHANGED <<curr, status, fails, lostBlocks>>

\* All sections with the name.
SectionDEL ==
    /\ Change
    /\ \E n \in Sections :
          /\ head' = SelectSeq(head, LAMBDA s : s.name # n)
          /\ Destroyed(SelectSeq(head, LAMBDA s : s.name = n))
    /\ UNCHANGED <<curr, status, fails>>

FreeINI ==
    /\ status = "loaded" /\ status' = "freed"
    /\ head' = <<>> /\ Destroyed(head)
    /\ UNCHANGED <<file, line, curr, fails, edits>>

IniNext == ReadLine \/ LoadINI \/ SectionItemADD \/ DeleteItems \/ SectionDEL \/ FreeINI

IniSpec == IniInit /\ [][IniNext]_iniVars

----------------------------------------------------------------------------
(* Properties *)

IniTypeOK ==
    /\ file \in Seq(Lines) /\ line = Len(file)
    /\ head \in Seq([name : Sections, items : Seq([key : ItemKeys, value : Values])])
    /\ curr \in {"none", "last", "error"}
    /\ status \in {"loading", "loaded", "failed", "freed", "wild", "died"}
    /\ {blocks, fails, lostBlocks, edits} \subseteq Nat

\* Every allocation is in the lists or is one of those known to be lost: the
\* name of a section that is gone, and what a failed allocation leaves behind.
AllAccounted == status # "died" => blocks = 2 * Len(head) + Held(Items(head)) + lostBlocks

\* What was loaded without a failed allocation is what the file says: for a
\* section and a key, the first such line behind the first line of the section
\* and before the next section, and no other one.
SectionAt(i) == file[i].kind = "section"
FirstOf(n) == SelectInSeq(file, LAMBDA l : l.kind = "section" /\ l.name = n)
Says(n, k) ==
    LET from == FirstOf(n)
        Of(i) == /\ from # 0 /\ i > from /\ file[i].kind = "item" /\ file[i].key = k
                 /\ \A j \in from + 1 .. i : ~SectionAt(j)
    IN  {i \in 1 .. Len(file) : Of(i) /\ \A j \in 1 .. i - 1 : ~Of(j)}
LoadedAsWritten ==
    (status = "loaded" /\ edits = 0 /\ fails = 0) =>
        \A n \in Sections, k \in ItemKeys :
            LET found == GetSectionItem(n, k)
            IN  /\ (found = <<>>) = (Says(n, k) = {})
                /\ \A i \in Says(n, k) :
                      found[1].value = (IF file[i].end THEN file[i].value
                                        ELSE SubSeq(file[i].value, 1, Len(file[i].value) - 1))

\* A deletion that edits a section takes a key out of it whole, so that no other
\* value of the key, which the deleted one hid, appears; every other item of this and
\* of the other sections stays, in its order.
ItemsOf(s, k) == SelectSeq(s.items, LAMBDA i : i.key = k)
DeletedIsGone ==
    [][DeleteItems /\ head' # head =>
          /\ Len(head') = Len(head)
          /\ \E n \in Sections, k \in ItemKeys :
                \A s \in DOMAIN head, other \in ItemKeys :
                    ItemsOf(head'[s], other) =
                        IF s = SectionOf(n) /\ other = k THEN <<>> ELSE ItemsOf(head[s], other)]_iniVars

=============================================================================
