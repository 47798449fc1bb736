------------------------------ MODULE JsonDoc ------------------------------
(***************************************************************************)
(* cJSON.c, and a caller of it.                                            *)
(*                                                                         *)
(* What it computes comes first, as operators: the two printers, the       *)
(* parser and the deletion of an item, with every allocation they ask for. *)
(* A text is a sequence of lexemes; a string is its characters, of which   *)
(* there are three: one printed as it is, one that takes a backslash and   *)
(* one that takes six characters.  A meter goes through every call: it     *)
(* counts the allocations asked for, one of which may fail, and the blocks *)
(* that are live, and says whether all that was written fitted.            *)
(*                                                                         *)
(* The caller holds a document, at most one other item and at most one     *)
(* printed text, builds the document item by item, takes it apart again,   *)
(* copies it, prints it in each of the ways there are and parses the text  *)
(* it got, or the first part of it, while any one allocation of a call may *)
(* fail.  References to items of other documents and constant names, which *)
(* nothing in the program uses, are left out.                              *)
(***************************************************************************)
EXTENDS Integers, Sequences, FiniteSets, SequencesExt, Functions

CONSTANTS
    Scalars,              \* items without children
    JsonNames,            \* names of members
    Prebuffers,           \* first sizes of the growing buffer
    MaxItems,             \* items of the document and the other one together
    MaxJsonFails          \* allocations that fail

VARIABLES
    doc, other,           \* the two items, None when there is none
    text,                 \* [lex, of, fmt]: what was printed, of which item and how
    heap,                 \* blocks that are not freed
    jsonFails,            \* allocations that failed
    unnamed,              \* names and blocks nobody points to
    jsonDied              \* a null pointer was read

jsonVars == <<doc, other, text, heap, jsonFails, unnamed, jsonDied>>

NULL == <<"NULL">>                 \* no string, and no text
Chars == {"a", "\"", "^A"}
Escaped == [c \in Chars |-> CASE c = "a" -> <<"a">> [] c = "\"" -> <<"\\", "\"">> [] OTHER -> <<"\\", "u0001">>]
Integral == {"0", "-2147483648"}
Spaces == {" ", "\t", "\n"}

Blank == [type |-> "new", val |-> NULL, name |-> NULL, kids |-> <<>>]
None == [Blank EXCEPT !.type = "none"]

Width(lex) ==
    LET of(l) == CASE l = "-2147483648" -> 11 [] l = "0.333333" -> 8 [] l \in {"u0001", "false"} -> 5
                   [] l \in {"null", "true"} -> 4 [] OTHER -> 1
    IN  FoldLeft(LAMBDA n, l : n + of(l), 0, lex)
Times(n, l) == [k \in 1 .. n |-> l]

\* Allocations: the one numbered m.fails finds no memory.
Meter(f) == [asked |-> 0, fails |-> f, live |-> 0, fits |-> TRUE, died |-> FALSE]
cJSON_malloc(m) == [m EXCEPT !.asked = @ + 1, !.live = @ + IF m.asked + 1 = m.fails THEN 0 ELSE 1]
Given(m) == m.asked # m.fails
cJSON_free(m, n) == [m EXCEPT !.live = @ - n]
Writes(m, used, size) == [m EXCEPT !.fits = @ /\ used <= size]

\* The blocks cJSON_Delete frees: the item, its string, its name, its children.
RECURSIVE Blocks(_)
Blocks(it) == (IF it.type = "none" THEN 0 ELSE 1)
              + (IF it.type = "string" /\ it.val # NULL THEN 1 ELSE 0)
              + (IF it.name # NULL THEN 1 ELSE 0)
              + FoldLeft(LAMBDA n, k : n + Blocks(k), 0, it.kids)
cJSON_Delete(it, m) == cJSON_free(m, Blocks(it))

----------------------------------------------------------------------------
(* Scalars, for both printers: what is printed and how much room is asked  *)

\* A number that is not an integer keeps six digits of its fraction.
SixDigits(v) == IF v = "1/3" THEN "0.333333" ELSE v
print_number(v) ==
    [lex |-> <<SixDigits(v)>>, room |-> IF v = "0" THEN 2 ELSE IF v \in Integral THEN 21 ELSE 64]

Quoted(s) == <<"\"">> \o FlattenSeq([k \in 1 .. Len(s) |-> Escaped[s[k]]]) \o <<"\"">>
\* Mutant of print_string_ptr: a control character is counted like a quote.
RoomTwo(s) ==
    [lex |-> Quoted(s), room |-> FoldLeft(LAMBDA n, c : n + (IF c = "a" THEN 1 ELSE 2), 0, s) + 3]
\* len counts every character, one more for an escape, five more for a code.
print_string_ptr(s) ==
    [lex |-> Quoted(s),
     room |-> FoldLeft(LAMBDA n, c : n + (CASE c = "a" -> 1 [] c = "\"" -> 2 [] OTHER -> 6), 0, s) + 3]

Scalar(it) ==
    CASE it.type = "number" -> print_number(it.val[1])
      [] it.type = "string" -> print_string_ptr(it.val)
      [] OTHER -> [lex |-> <<it.type>>, room |-> Width(<<it.type>>) + 1]

----------------------------------------------------------------------------
(* Printing into blocks of their own *)

Alone(s, m) ==
    LET a == cJSON_malloc(m)
    IN  IF Given(a) THEN [lex |-> s.lex, m |-> Writes(a, Width(s.lex) + 1, s.room)] ELSE [lex |-> NULL, m |-> a]

\* A null string is read before the test for it.
NullString(m) == [lex |-> NULL, m |-> [m EXCEPT !.died = TRUE]]
Name(s, m) == IF s = NULL THEN NullString(m) ELSE Alone(print_string_ptr(s), m)

\* Mutant of Compose: a failure frees the tables only.
ComposeTables(r, tables, lex, len) ==
    LET out == IF r.fail THEN r.m ELSE cJSON_malloc(r.m)
    IN  IF r.fail \/ ~Given(out) THEN [lex |-> NULL, m |-> cJSON_free(out, tables)]
        ELSE [lex |-> lex, m |-> Writes(cJSON_free(out, r.pieces + tables), Width(lex) + 1, len)]
\* The block for the result is asked for when every piece was printed; the pieces
\* and the `tables` that hold them are freed whatever comes of it.
Compose(r, tables, lex, len) ==
    LET out == IF r.fail THEN r.m ELSE cJSON_malloc(r.m)
        freed == cJSON_free(out, r.pieces + tables)
    IN  IF r.fail \/ ~Given(out) THEN [lex |-> NULL, m |-> freed]
        ELSE [lex |-> lex, m |-> Writes(freed, Width(lex) + 1, len)]

RECURSIVE print_value(_, _, _, _)
print_array(it, depth, fmt, m) ==
    LET table == cJSON_malloc(m)
        Element(r, kid) ==
          IF r.fail THEN r
          ELSE LET p == print_value(kid, depth + 1, fmt, r.m)
               IN  IF p.lex = NULL THEN [r EXCEPT !.m = p.m, !.fail = TRUE]
                   ELSE [r EXCEPT !.m = p.m, !.pieces = @ + 1, !.len = @ + Width(p.lex) + (IF fmt THEN 3 ELSE 2),
                         !.lex = @ \o (IF r.pieces = 0 THEN <<>> ELSE IF fmt THEN <<",", " ">> ELSE <<",">>) \o p.lex]
        all == FoldLeft(Element, [m |-> table, fail |-> FALSE, pieces |-> 0, len |-> 5, lex |-> <<"[">>], it.kids)
    IN  IF it.kids = <<>> THEN Alone([lex |-> <<"[", "]">>, room |-> 3], m)
        ELSE IF ~Given(table) THEN [lex |-> NULL, m |-> table]
        ELSE Compose(all, 1, Append(all.lex, "]"), all.len)

\* An empty object is laid out one tab short; a failed member does not stop the
\* walk over the others.
print_object(it, depth, fmt, m) ==
    LET bare == <<"{">> \o (IF fmt THEN <<"\n">> \o Times(depth - 1, "\t") ELSE <<>>) \o <<"}">>
        entries == cJSON_malloc(m)
        names == cJSON_malloc(entries)
        d == depth + 1
        Member(r, kid) ==
          LET s == Name(kid.name, r.m)
              p == print_value(kid, d, fmt, s.m)
              got == (IF s.lex = NULL THEN 0 ELSE 1) + (IF p.lex = NULL THEN 0 ELSE 1)
          IN  [m |-> p.m, fail |-> r.fail \/ got < 2, pieces |-> r.pieces + got, n |-> r.n + 1,
               len |-> IF got < 2 THEN r.len
                       ELSE r.len + Width(p.lex) + Width(s.lex) + 2 + (IF fmt THEN 2 + d ELSE 0),
               lex |-> r.lex \o (IF fmt THEN Times(d, "\t") ELSE <<>>) \o s.lex \o <<":">>
                       \o (IF fmt THEN <<"\t">> ELSE <<>>) \o p.lex
                       \o (IF r.n < Len(it.kids) THEN <<",">> ELSE <<>>) \o (IF fmt THEN <<"\n">> ELSE <<>>)]
        all == FoldLeft(Member, [m |-> names, fail |-> FALSE, pieces |-> 0, n |-> 1,
                                 len |-> IF fmt THEN 7 + d ELSE 7,
                                 lex |-> IF fmt THEN <<"{", "\n">> ELSE <<"{">>], it.kids)
    IN  IF it.kids = <<>> THEN Alone([lex |-> bare, room |-> IF fmt THEN depth + 4 ELSE 3], m)
        ELSE IF ~Given(entries) THEN [lex |-> NULL, m |-> entries]
        ELSE IF ~Given(names) THEN [lex |-> NULL, m |-> cJSON_free(names, 1)]
        ELSE Compose(all, 2, all.lex \o (IF fmt THEN Times(d - 1, "\t") ELSE <<>>) \o <<"}">>, all.len)

print_value(it, depth, fmt, m) ==
    CASE it.type = "array" -> print_array(it, depth, fmt, m)
      [] it.type = "object" -> print_object(it, depth, fmt, m)
      [] it.type = "string" /\ it.val = NULL -> NullString(m)
      [] OTHER -> Alone(Scalar(it), m)

----------------------------------------------------------------------------
(* Printing into one buffer that grows (cJSON_PrintBuffered) *)

pow2gt(n) == CHOOSE p \in {2 ^ k : k \in 0 .. 12} : p >= n /\ (p = 1 \/ p \div 2 < n)

\* Put `lex` at the offset: `needed` characters are asked for and z zeros follow it.
\* A buffer that cannot grow is freed, and nothing more is written.
ensure(b, needed, lex, z) ==
    LET end == Width(b.lex) + needed
        a == cJSON_malloc(b.m)
        put == [b EXCEPT !.lex = @ \o lex]
        used == Width(lex) + z
    IN  IF ~b.alive THEN b
        ELSE IF end <= b.length THEN [put EXCEPT !.m = Writes(@, used, needed)]
        ELSE IF Given(a) THEN [put EXCEPT !.m = Writes(cJSON_free(a, 1), used, needed), !.length = pow2gt(end)]
        ELSE [b EXCEPT !.m = cJSON_free(a, 1), !.alive = FALSE]

RECURSIVE print_buffered(_, _, _, _)
print_array_buffered(it, depth, fmt, b) ==
    LET n == Len(it.kids)
        Element(r, kid) ==
          LET v == print_buffered(kid, depth + 1, fmt, r.b)
          IN  [k |-> r.k + 1,
               b |-> IF r.k = n THEN v ELSE ensure(v, IF fmt THEN 3 ELSE 2, IF fmt THEN <<",", " ">> ELSE <<",">>, 1)]
        all == FoldLeft(Element, [k |-> 1, b |-> ensure(b, 1, <<"[">>, 0)], it.kids)
    IN  IF n = 0 THEN ensure(b, 3, <<"[", "]">>, 1) ELSE ensure(all.b, 2, <<"]">>, 1)

\* Mutant of print_object_buffered: the end of a member is asked for without its zero,
\* and the comma is written after the last one too.
CommaAlways(it, depth, fmt, b) ==
    LET d == depth + 1
        Member(r, kid) ==
          LET tabs == IF fmt THEN ensure(r, d, Times(d, "\t"), 0) ELSE r
              name == ensure(tabs, print_string_ptr(kid.name).room, print_string_ptr(kid.name).lex, 1)
              colon == IF fmt THEN ensure(name, 2, <<":", "\t">>, 0) ELSE ensure(name, 1, <<":">>, 0)
          IN  ensure(print_buffered(kid, d, fmt, colon), 2, <<",">>, 1)
    IN  ensure(FoldLeft(Member, ensure(b, 2, <<"{">>, 1), it.kids), 2, <<"}">>, 1)
print_object_buffered(it, depth, fmt, b) ==
    LET n == Len(it.kids)
        d == depth + 1
        Tabs(c) == IF fmt THEN ensure(c, d, Times(d, "\t"), 0) ELSE c
        Named(c, s) == IF s = NULL THEN [c EXCEPT !.m = NullString(@).m]
                       ELSE ensure(c, print_string_ptr(s).room, print_string_ptr(s).lex, 1)
        Colon(c) == ensure(c, IF fmt THEN 2 ELSE 1, IF fmt THEN <<":", "\t">> ELSE <<":">>, 0)
        Ended(c, end) == ensure(c, Width(end) + 1, end, 1)
        Member(r, kid) ==
          [k |-> r.k + 1,
           b |-> Ended(print_buffered(kid, d, fmt, Colon(Named(Tabs(r.b), kid.name))),
                       (IF r.k < n THEN <<",">> ELSE <<>>) \o (IF fmt THEN <<"\n">> ELSE <<>>))]
        open == IF fmt THEN ensure(b, 3, <<"{", "\n">>, 1) ELSE ensure(b, 2, <<"{">>, 1)
        all == FoldLeft(Member, [k |-> 1, b |-> open], it.kids)
        short == IF fmt THEN <<"{", "\n">> \o Times(depth - 1, "\t") \o <<"}">> ELSE <<"{", "}">>
    IN  IF n = 0 THEN ensure(b, IF fmt THEN depth + 4 ELSE 3, short, 1)
        ELSE ensure(all.b, IF fmt THEN d + 1 ELSE 2, (IF fmt THEN Times(d - 1, "\t") ELSE <<>>) \o <<"}">>, 1)

print_buffered(it, depth, fmt, b) ==
    CASE it.type = "array" -> print_array_buffered(it, depth, fmt, b)
      [] it.type = "object" -> print_object_buffered(it, depth, fmt, b)
      [] it.type = "string" /\ it.val = NULL -> [b EXCEPT !.m = NullString(@).m]
      [] OTHER -> ensure(b, Scalar(it).room, Scalar(it).lex, 1)

cJSON_Print(it, fmt, m) == print_value(it, 0, fmt, m)
cJSON_PrintBuffered(it, prebuffer, fmt, m) ==
    LET a == cJSON_malloc(m)
        Result(b) == [lex |-> IF b.alive THEN b.lex ELSE NULL, m |-> b.m]
    IN  Result(print_buffered(it, 0, fmt, [lex |-> <<>>, length |-> prebuffer, m |-> a, alive |-> Given(a)]))

----------------------------------------------------------------------------
(* The parser: an item, the place after its text (0 when it is refused) and *)
(* the meter; a refused item has what was built of it                       *)

LOCAL At(lex, i) == IF i <= Len(lex) THEN lex[i] ELSE ""
RECURSIVE skip(_, _)
skip(lex, i) == IF At(lex, i) \in Spaces THEN skip(lex, i + 1) ELSE i
RECURSIVE StringEnd(_, _)
StringEnd(lex, i) ==
    CASE At(lex, i) \in {"\"", ""} -> i
      [] At(lex, i) = "\\" -> StringEnd(lex, i + 2)
      [] OTHER -> StringEnd(lex, i + 1)
Unescaped(lex) ==
    LET s == SelectSeq(lex, LAMBDA l : l # "\\")
    IN  [k \in 1 .. Len(s) |-> IF s[k] = "u0001" THEN "^A" ELSE s[k]]

\* Mutant of parse_string: what was escaped stays so.
KeptEscapes(lex, i, m) ==
    LET a == cJSON_malloc(m)
        end == StringEnd(lex, i + 1)
        s == SelectSeq(SubSeq(lex, i + 1, end - 1), LAMBDA l : l # "\\")
    IN  IF At(lex, i) # "\"" THEN [it |-> Blank, at |-> 0, m |-> m]
        ELSE IF ~Given(a) THEN [it |-> Blank, at |-> 0, m |-> a]
        ELSE [it |-> [Blank EXCEPT !.type = "string", !.val = s], m |-> a,
              at |-> IF end <= Len(lex) THEN end + 1 ELSE end]
\* A string needs no closing quote: the end of the text ends it too.
parse_string(lex, i, m) ==
    LET a == cJSON_malloc(m)
        end == StringEnd(lex, i + 1)
    IN  IF At(lex, i) # "\"" THEN [it |-> Blank, at |-> 0, m |-> m]
        ELSE IF ~Given(a) THEN [it |-> Blank, at |-> 0, m |-> a]
        ELSE [it |-> [Blank EXCEPT !.type = "string", !.val = Unescaped(SubSeq(lex, i + 1, end - 1))], m |-> a,
              at |-> IF end <= Len(lex) THEN end + 1 ELSE end]

RECURSIVE parse_value(_, _, _)
\* The children from place i on, to the one no comma follows.
RECURSIVE Elements(_, _, _, _)
Elements(lex, i, m, kids) ==
    LET a == cJSON_malloc(m)
        v == parse_value(lex, skip(lex, i), a)
        next == skip(lex, v.at)
    IN  IF ~Given(a) THEN [kids |-> kids, at |-> 0, m |-> a]
        ELSE IF v.at = 0 THEN [kids |-> Append(kids, v.it), at |-> 0, m |-> v.m]
        ELSE IF At(lex, next) = "," THEN Elements(lex, next + 1, v.m, Append(kids, v.it))
        ELSE [kids |-> Append(kids, v.it), at |-> next, m |-> v.m]
RECURSIVE Members(_, _, _, _)
Members(lex, i, m, kids) ==
    LET a == cJSON_malloc(m)
        s == parse_string(lex, skip(lex, i), a)
        colon == skip(lex, s.at)
        v == parse_value(lex, skip(lex, colon + 1), s.m)
        kid == [v.it EXCEPT !.name = s.it.val]
        next == skip(lex, v.at)
    IN  IF ~Given(a) THEN [kids |-> kids, at |-> 0, m |-> a]
        ELSE IF s.at = 0 THEN [kids |-> Append(kids, s.it), at |-> 0, m |-> s.m]
        ELSE IF At(lex, colon) # ":" THEN [kids |-> Append(kids, [s.it EXCEPT !.name = s.it.val, !.val = NULL]), at |-> 0, m |-> s.m]
        ELSE IF v.at = 0 THEN [kids |-> Append(kids, kid), at |-> 0, m |-> v.m]
        ELSE IF At(lex, next) = "," THEN Members(lex, next + 1, v.m, Append(kids, kid))
        ELSE [kids |-> Append(kids, kid), at |-> next, m |-> v.m]

\* Mutant of Closed: any character closes it, the end of the text too.
ClosedByAny(lex, r, close, type) ==
    [it |-> [Blank EXCEPT !.type = type, !.kids = r.kids], m |-> r.m, at |-> IF r.at = 0 THEN 0 ELSE r.at + 1]
Closed(lex, r, close, type) ==
    [it |-> [Blank EXCEPT !.type = type, !.kids = r.kids], m |-> r.m,
     at |-> IF r.at # 0 /\ At(lex, r.at) = close THEN r.at + 1 ELSE 0]
parse_array(lex, i, m) ==
    LET first == skip(lex, i + 1)
    IN  Closed(lex, IF At(lex, first) = "]" THEN [kids |-> <<>>, at |-> first, m |-> m] ELSE Elements(lex, first, m, <<>>),
               "]", "array")
parse_object(lex, i, m) ==
    LET first == skip(lex, i + 1)
    IN  Closed(lex, IF At(lex, first) = "}" THEN [kids |-> <<>>, at |-> first, m |-> m] ELSE Members(lex, first, m, <<>>),
               "}", "object")

parse_value(lex, i, m) ==
    LET l == At(lex, i)
    IN  CASE l \in {"null", "false", "true"} -> [it |-> [Blank EXCEPT !.type = l], at |-> i + 1, m |-> m]
          [] l = "\"" -> parse_string(lex, i, m)
          [] l \in Integral \cup {"0.333333"} ->
               [it |-> [Blank EXCEPT !.type = "number", !.val = <<l>>], at |-> i + 1, m |-> m]
          [] l = "[" -> parse_array(lex, i, m)
          [] l = "{" -> parse_object(lex, i, m)
          [] OTHER -> [it |-> Blank, at |-> 0, m |-> m]

\* Mutant of cJSON_ParseWithOpts: a refused value is returned as it is.
ParsedAnyway(lex, m) ==
    LET a == cJSON_malloc(m)
        v == parse_value(lex, skip(lex, 1), a)
    IN  IF ~Given(a) THEN [it |-> None, m |-> a] ELSE [it |-> v.it, m |-> v.m]
\* cJSON_Parse: whatever follows the value is not looked at.
cJSON_ParseWithOpts(lex, m) ==
    LET a == cJSON_malloc(m)
        v == parse_value(lex, skip(lex, 1), a)
    IN  IF ~Given(a) THEN [it |-> None, m |-> a]
        ELSE IF v.at = 0 THEN [it |-> None, m |-> cJSON_Delete(v.it, v.m)]
        ELSE [it |-> v.it, m |-> v.m]

----------------------------------------------------------------------------
(* A caller *)

NoJson == [lex |-> NULL, of |-> None, fmt |-> FALSE]
Containers == {"array", "object"}

RECURSIVE Size(_)
Size(it) == FoldLeft(LAMBDA n, k : n + Size(k), IF it = None THEN 0 ELSE 1, it.kids)

JsonInit ==
    /\ doc = None /\ other = None /\ text = NoJson
    /\ heap = 0 /\ jsonFails = 0 /\ unnamed = 0 /\ jsonDied = FALSE

\* Every call: it may meet a failing allocation, if it asks for that many.
Meters == {Meter(f) : f \in 0 .. IF jsonFails < MaxJsonFails THEN 4 * MaxItems ELSE 0}
Charged(m) ==
    /\ m.fails <= m.asked
    /\ heap' = heap + m.live
    /\ jsonFails' = jsonFails + (IF m.fails = 0 THEN 0 ELSE 1)
    /\ jsonDied' = m.died

\* A caller frees its text before it goes on with the items.
Building == ~jsonDied /\ text = NoJson

----------------------------------------------------------------------------
(* Building *)

\* cJSON_CreateX: a string that finds no memory leaves an item without one.
Created(it, m) ==
    LET a == cJSON_malloc(m)
        s == IF it.type = "string" THEN cJSON_malloc(a) ELSE a
    IN  IF ~Given(a) THEN [it |-> None, m |-> a]
        ELSE [it |-> IF Given(s) THEN it ELSE [it EXCEPT !.val = NULL], m |-> s]
Create ==
    /\ Building /\ other = None /\ Size(doc) < MaxItems
    /\ \E it \in Scalars \cup {[Blank EXCEPT !.type = c] : c \in Containers}, m \in Meters :
         LET c == Created(it, m)
         IN  /\ Charged(c.m)
             /\ IF doc = None THEN doc' = c.it /\ UNCHANGED other ELSE other' = c.it /\ UNCHANGED doc
    /\ UNCHANGED <<text, unnamed>>

\* Either item goes into the other.
Pairs == {<<doc, other>>, <<other, doc>>}
cJSON_AddItemToArray ==
    /\ Building /\ other # None /\ doc # None /\ Size(doc) + Size(other) <= MaxItems
    /\ \E p \in Pairs :
         /\ p[1].type = "array"
         /\ doc' = [p[1] EXCEPT !.kids = Append(@, p[2])]
    /\ other' = None
    /\ UNCHANGED <<text, heap, jsonFails, unnamed, jsonDied>>

\* The name it had is freed; a new one that finds no memory is not noticed.
Renamed(it, n, m) ==
    LET a == cJSON_malloc(IF it.name = NULL THEN m ELSE cJSON_free(m, 1))
    IN  [it |-> [it EXCEPT !.name = IF Given(a) THEN n ELSE NULL], m |-> a]
cJSON_AddItemToObject ==
    /\ Building /\ other # None /\ doc # None /\ Size(doc) + Size(other) <= MaxItems
    /\ \E p \in Pairs, n \in JsonNames, m \in Meters :
         LET r == Renamed(p[2], n, m)
         IN  /\ p[1].type = "object"
             /\ doc' = [p[1] EXCEPT !.kids = Append(@, r.it)]
             /\ Charged(r.m)
    /\ other' = None
    /\ UNCHANGED <<text, unnamed>>

----------------------------------------------------------------------------
(* Taking apart *)

cJSON_DetachItem ==
    /\ Building /\ other = None
    /\ \E i \in DOMAIN doc.kids : other' = doc.kids[i] /\ doc' = [doc EXCEPT !.kids = RemoveAt(@, i)]
    /\ UNCHANGED <<text, heap, jsonFails, unnamed, jsonDied>>

Delete ==
    /\ ~jsonDied
    /\ \/ other # None /\ other' = None /\ Charged(cJSON_Delete(other, Meter(0))) /\ UNCHANGED doc
       \/ doc # None /\ doc' = other /\ other' = None /\ Charged(cJSON_Delete(doc, Meter(0)))
    /\ UNCHANGED <<text, unnamed>>

\* In an object the first member of that name is replaced; the name the new one
\* had is overwritten without being freed.
cJSON_ReplaceItem ==
    /\ Building /\ other # None /\ unnamed = 0
    /\ \E i \in DOMAIN doc.kids, m \in Meters :
         LET r == IF doc.type = "array" THEN [it |-> other, m |-> m]
                  ELSE [it |-> [other EXCEPT !.name = IF Given(cJSON_malloc(m)) THEN doc.kids[i].name ELSE NULL],
                        m |-> cJSON_malloc(m)]
         IN  /\ doc.type = "object" => /\ doc.kids[i].name # NULL
                                       /\ \A k \in 1 .. i - 1 : doc.kids[k].name # doc.kids[i].name
             /\ doc' = [doc EXCEPT !.kids[i] = r.it]
             /\ Charged(cJSON_Delete(doc.kids[i], r.m))
             /\ unnamed' = IF doc.type = "object" /\ other.name # NULL THEN 1 ELSE 0
    /\ other' = None
    /\ UNCHANGED text

\* Mutant of Copied: names are not copied.
RECURSIVE CopiedUnnamed(_, _, _)
CopiedUnnamed(it, recurse, m) ==
    LET a == cJSON_malloc(m)
        v == IF it.type = "string" /\ it.val # NULL THEN cJSON_malloc(a) ELSE a
        Child(r, k) ==
          IF r.it = None THEN r
          ELSE LET c == CopiedUnnamed(k, TRUE, r.m)
               IN  IF c.it = None THEN [it |-> None, m |-> cJSON_Delete(r.it, c.m)]
                   ELSE [it |-> [r.it EXCEPT !.kids = Append(@, c.it)], m |-> c.m]
    IN  IF ~Given(a) THEN [it |-> None, m |-> a]
        ELSE IF ~Given(v) THEN [it |-> None, m |-> cJSON_free(v, 1)]
        ELSE FoldLeft(Child, [it |-> [it EXCEPT !.kids = <<>>, !.name = NULL], m |-> v], IF recurse THEN it.kids ELSE <<>>)
\* A copy fails as a whole: what was copied so far is deleted, child by child.
RECURSIVE Copied(_, _, _)
Copied(it, recurse, m) ==
    LET a == cJSON_malloc(m)
        v == IF it.type = "string" /\ it.val # NULL THEN cJSON_malloc(a) ELSE a
        n == IF it.name # NULL THEN cJSON_malloc(v) ELSE v
        bare == [it EXCEPT !.kids = <<>>]
        Child(r, k) ==
          IF r.it = None THEN r
          ELSE LET c == Copied(k, TRUE, r.m)
               IN  IF c.it = None THEN [it |-> None, m |-> cJSON_Delete(r.it, c.m)]
                   ELSE [it |-> [r.it EXCEPT !.kids = Append(@, c.it)], m |-> c.m]
    IN  IF ~Given(a) THEN [it |-> None, m |-> a]
        ELSE IF ~Given(v) THEN [it |-> None, m |-> cJSON_free(v, 1)]
        ELSE IF ~Given(n) THEN [it |-> None, m |-> cJSON_Delete([bare EXCEPT !.name = NULL], n)]
        ELSE FoldLeft(Child, [it |-> bare, m |-> n], IF recurse THEN it.kids ELSE <<>>)
\* (Bound: a copy may make the two one item larger together.)
cJSON_Duplicate ==
    /\ Building /\ doc # None /\ other = None
    /\ \E recurse \in BOOLEAN, m \in Meters :
         LET c == Copied(doc, recurse, m)
         IN  Size(doc) + Size(c.it) <= MaxItems + 1 /\ other' = c.it /\ Charged(c.m)
    /\ UNCHANGED <<doc, text, unnamed>>

----------------------------------------------------------------------------
(* Texts *)

Printed(p, it, fmt) ==
    /\ text' = IF p.m.died \/ p.lex = NULL THEN NoJson ELSE [lex |-> p.lex, of |-> it, fmt |-> fmt]
    /\ Charged(p.m)
PrintAlone ==
    /\ ~jsonDied /\ doc # None /\ other = None /\ text = NoJson
    /\ \E fmt \in BOOLEAN, m \in Meters : Printed(cJSON_Print(doc, fmt, m), doc, fmt)
    /\ UNCHANGED <<doc, other, unnamed>>
PrintInBuffer ==
    /\ ~jsonDied /\ doc # None /\ other = None /\ text = NoJson
    /\ \E fmt \in BOOLEAN, m \in Meters, pre \in Prebuffers :
         Printed(cJSON_PrintBuffered(doc, pre, fmt, m), doc, fmt)
    /\ UNCHANGED <<doc, other, unnamed>>

\* The text without its last lexemes, but never without the second half of an
\* escape (the reader would go past the end of it).
Cuts(lex) == {SubSeq(lex, 1, n) : n \in {k \in 0 .. Len(lex) : k = 0 \/ lex[k] # "\\"}}
Parse ==
    /\ ~jsonDied /\ text # NoJson /\ doc = None
    /\ \E lex \in Cuts(text.lex), m \in Meters :
         LET p == cJSON_ParseWithOpts(lex, m)
         IN  doc' = p.it /\ Charged(p.m)
    /\ UNCHANGED <<other, text, unnamed>>
FreeText ==
    /\ ~jsonDied /\ text # NoJson /\ text' = NoJson
    /\ heap' = heap - 1
    /\ UNCHANGED <<doc, other, jsonFails, unnamed, jsonDied>>

----------------------------------------------------------------------------
JsonNext ==
    \/ Create \/ cJSON_AddItemToArray \/ cJSON_AddItemToObject
    \/ cJSON_DetachItem \/ Delete \/ cJSON_ReplaceItem \/ cJSON_Duplicate
    \/ PrintAlone \/ PrintInBuffer \/ Parse \/ FreeText

JsonSpec == JsonInit /\ [][JsonNext]_jsonVars

----------------------------------------------------------------------------
(* Properties *)

RECURSIVE IsItem(_)
IsItem(it) ==
    /\ it.type \in {"none", "null", "false", "true", "number", "string"} \cup Containers
    /\ it.type \notin Containers => it.kids = <<>>
    /\ it.name \in JsonNames \cup {NULL}
    /\ \A i \in DOMAIN it.kids : it.kids[i].type # "none" /\ IsItem(it.kids[i])

\* The items are items all through: no child stands where none could be made.
JsonTypeOK ==
    /\ IsItem(doc) /\ IsItem(other)
    /\ jsonDied \in BOOLEAN /\ unnamed \in 0 .. 1 /\ jsonFails \in 0 .. MaxJsonFails

\* Whichever allocation of whichever call finds no memory, every block that is
\* not freed belongs to an item or the text the caller has, or is a name
\* cJSON_ReplaceItemInObject wrote over (:690).
EveryBlockHeld ==
    ~jsonDied => heap = Blocks(doc) + Blocks(other) + (IF text = NoJson THEN 0 ELSE 1) + unnamed

\* Each printer, in each layout, writes what it asked room for and no more, and
\* they all write the same text of an item (:351-660).
RoomForAll ==
    text # NoJson =>
      LET alone == cJSON_Print(text.of, text.fmt, Meter(0))
          grown == {cJSON_PrintBuffered(text.of, pre, text.fmt, Meter(0)) : pre \in Prebuffers}
      IN  \A p \in {alone} \cup grown : p.m.fits /\ p.lex = text.lex

\* What is parsed of a whole text is the item that was printed, but for its own
\* name and the digits a number loses (:170-172).
RECURSIVE Rounded(_)
Rounded(it) ==
    [it EXCEPT !.val = IF it.type = "number" THEN <<SixDigits(@[1])>> ELSE @,
               !.kids = [i \in DOMAIN @ |-> [Rounded(@[i]) EXCEPT !.name = IF it.type = "object" THEN @ ELSE NULL]]]
ReadsBack ==
    text # NoJson => cJSON_ParseWithOpts(text.lex, Meter(0)).it = [Rounded(text.of) EXCEPT !.name = NULL]

\* An array or an object that does not arrive whole is refused, wherever it was
\* cut: the heartbeat's server unpacks what it read of a package.
CutIsRefused ==
    text # NoJson /\ text.of.type \in Containers =>
      \A lex \in Cuts(text.lex) \ {text.lex} : cJSON_ParseWithOpts(lex, Meter(0)).it = None

\* Printing reads a null string or name only when an allocation failed before: the
\* failure of strdup is told to nobody (:673, :698).
DiesAfterFailureOnly == jsonDied => jsonFails > 0

\* A document is printed in the room that was computed for it, reads back as it was,
\* is refused when it was cut, and every block is held once, also when memory ends.
JsonSound ==
    /\ JsonTypeOK /\ EveryBlockHeld /\ RoomForAll
    /\ ReadsBack /\ CutIsRefused /\ DiesAfterFailureOnly

=============================================================================
