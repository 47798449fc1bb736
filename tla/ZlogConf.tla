------------------------------ MODULE ZlogConf ------------------------------
(***************************************************************************)
(* How the logging library reads its configuration and decides what a      *)
(* message goes to (fram/module/log/src/conf.c, rule.c, format.c,          *)
(* level_list.c, category.c): a line at a time, each with what the lines   *)
(* before it have set.                                                     *)
(*                                                                         *)
(* A line is given as what sscanf makes of it; one that has not the form   *)
(* that its section asks for is "bad".  Category names are sequences of    *)
(* characters, since a rule for aa_ is matched with their beginnings.      *)
(***************************************************************************)
EXTENDS Integers, Sequences, FiniteSets

CONSTANTS Width, Bytes,      \* bits of a char, and chars of a level_bitmap: 8 and 32
          DefaultLevels,     \* zlog_level_list_set_default: the names of some levels
          Options,           \* lines of [global]: <<name, value>>
          LevelLines,        \* lines of [levels]: <<name, level>>
          FormatNames,       \* lines of [formats]
          RuleLines,         \* lines of [rules]: category (<<>> if bad), compare, level, format
          Categories,        \* names given to zlog_get_category
          MaxLines           \* bound: lines of a section

ASSUME ConfAssumption ==
    /\ Width \in Nat \ {0} /\ Bytes \in Nat \ {0}
    /\ DOMAIN DefaultLevels \subseteq 0 .. Width * Bytes - 1
    /\ \A o \in Options :
          /\ o[1] \notin {"levels", "formats", "rules"}
          /\ o[1] \in {"strict", "default"} => o[2] \in BOOLEAN
          /\ o[1] \in {"fsync", "reload"} => o[2] \in Nat
    /\ \A line \in RuleLines : line.cmp \in {"=", "!", "*", "."}

Sections == <<"global", "levels", "formats", "rules">>
NoFormat == ""        \* a rule without a format takes the default

VARIABLES
    zconf,     \* the configuration that is built: strict, fsync, reload, default
               \* (whether default_format_line is well formed), levels, formats, rules
    section,   \* where in the file: the number of its section, 0 before the first
    status,    \* "reading", "built" or "failed"
    left,      \* lines of [rules] left out since strict init is off (not in the code)
    inSection  \* lines of the section so far

cfVars == <<zconf, section, status, left, inSection>>
Levels == 0 .. Width * Bytes - 1

-----------------------------------------------------------------------------
(***************************************************************************)
(* zlog_rule_new                                                           *)
(***************************************************************************)
\* Division and remainder of C, which go towards zero: an unknown level is -1.
CharOf(l) == IF l < 0 THEN 0 ELSE l \div Width
BitOf(l) == Width - 1 - (IF l < 0 THEN l ELSE l % Width)

AllBits == (0 .. Bytes - 1) \X (0 .. Width - 1)

\* Mutant of Bitmap: one bit too few for a rule that begins at a level.
BitmapShort(cmp, l) ==
    CASE cmp = "=" -> {<<CharOf(l), BitOf(l)>>}
      [] cmp = "!" -> AllBits \ {<<CharOf(l), BitOf(l)>>}
      [] cmp = "*" -> AllBits
      [] cmp = "." -> {p \in AllBits : p[1] > CharOf(l) \/ (p[1] = CharOf(l) /\ p[2] < BitOf(l))}

\* level_bitmap, as the set of its bits
Bitmap(cmp, l) ==
    AllBits \cap
    CASE cmp = "=" -> {<<CharOf(l), BitOf(l)>>}
      [] cmp = "!" -> AllBits \ {<<CharOf(l), BitOf(l)>>}
      [] cmp = "*" -> AllBits
      [] cmp = "." -> {p \in AllBits : p[1] > CharOf(l) \/ (p[1] = CharOf(l) /\ p[2] <= BitOf(l))}

\* zlog_level_list_atoi: the lowest level of the name
LevelOf(name, levels) ==
    LET found == {l \in DOMAIN levels : levels[l] = name}
    IN  IF found = {} THEN -1 ELSE CHOOSE l \in found : \A k \in found : l <= k

\* The place of the first format of the name, 0 for none.
FormatOf(name, formats) ==
    LET found == {i \in DOMAIN formats : formats[i] = name}
    IN  IF found = {} THEN 0 ELSE CHOOSE i \in found : \A k \in found : i <= k

\* Whether zlog_rule_new takes the line, and the rule it makes.
Makes(c, line) == line.cat # <<>> /\ (line.format = NoFormat \/ FormatOf(line.format, c.formats) # 0)
RuleNew(c, line) ==
    [line |-> line, fsync |-> c.fsync,
     level |-> LevelOf(line.level, c.levels),
     bits |-> Bitmap(line.cmp, LevelOf(line.level, c.levels)),
     format |-> FormatOf(line.format, c.formats)]

-----------------------------------------------------------------------------
(***************************************************************************)
(* zlog_conf_new and zlog_conf_parse_line                                  *)
(***************************************************************************)
EveryMessage == [cat |-> <<"*">>, cmp |-> "*", level |-> "*", format |-> NoFormat]

\* Without a file there is the one rule of zlog_conf_build_without_file.
CfInit ==
    /\ \E fromFile \in BOOLEAN :
          LET c == [strict |-> TRUE, fsync |-> 0, reload |-> 0, default |-> TRUE,
                    levels |-> DefaultLevels, formats |-> <<>>, rules |-> <<>>]
          IN  /\ zconf = IF fromFile THEN c ELSE [c EXCEPT !.rules = <<RuleNew(c, EveryMessage)>>]
              /\ status = IF fromFile THEN "reading" ELSE "built"
    /\ section = 0 /\ left = {} /\ inSection = 0

Fail == status' = "failed" /\ UNCHANGED <<zconf, section, left>>
Leaves(lines) == IF zconf.strict THEN Fail
                 ELSE left' = left \cup lines /\ UNCHANGED <<zconf, section, status>>
Line(s) ==
    /\ status = "reading" /\ section = s /\ inSection < MaxLines
    /\ inSection' = inSection + 1

\* Mutant of ParseSection: sections come in any order, each once or more.
SectionAnywhere(name) ==
    /\ status = "reading"
    /\ \E s \in DOMAIN Sections :
          /\ Sections[s] = name /\ s # section /\ section' = s /\ inSection' = 0
          /\ zconf' = IF s = 4 /\ zconf.reload # 0 /\ zconf.fsync >= zconf.reload
                      THEN [zconf EXCEPT !.fsync = 0] ELSE zconf
    /\ UNCHANGED <<status, left>>
\* Mutant of ParseSection: the periods are not compared.
SectionUncompared(name) ==
    /\ status = "reading"
    /\ \E s \in DOMAIN Sections :
          Sections[s] = name /\ s > section /\ section' = s /\ inSection' = 0
    /\ UNCHANGED <<zconf, status, left>>

\* [name]: the sections come in their order, and before the rules the periods
\* are compared and the default format is made.
ParseSection(name) ==
    /\ status = "reading"
    /\ \/ /\ \E s \in DOMAIN Sections :
                /\ Sections[s] = name /\ s > section
                /\ s = 4 => zconf.default
                /\ section' = s /\ inSection' = 0
                /\ zconf' = IF s = 4 /\ zconf.reload # 0 /\ zconf.fsync >= zconf.reload
                            THEN [zconf EXCEPT !.fsync = 0] ELSE zconf
          /\ UNCHANGED <<status, left>>
       \/ /\ \A s \in DOMAIN Sections : Sections[s] = name => s <= section \/ (s = 4 /\ ~zconf.default)
          /\ Fail /\ UNCHANGED inSection

\* A line of [global].  With ZLOG_STRICT_INIT in the environment the option
\* "strict init" is always true.
ParseGlobal(o) ==
    /\ Line(1)
    /\ IF o[1] \in DOMAIN zconf
       THEN zconf' = [zconf EXCEPT ![o[1]] = o[2]] /\ UNCHANGED <<section, status, left>>
       ELSE Leaves({})

\* Mutant of ParseLevel: the level is not looked at.
ParseLevelAny(o) ==
    /\ Line(2)
    /\ zconf' = [zconf EXCEPT !.levels = [l \in DOMAIN @ \cup {o[2]} |->
                     IF l = o[2] THEN o[1] ELSE @[l]]]
    /\ UNCHANGED <<section, status, left>>

\* A line of [levels]: zlog_level_list_set puts it where its number is.
ParseLevel(o) ==
    /\ Line(2)
    /\ IF o[2] \in Levels
       THEN /\ zconf' = [zconf EXCEPT !.levels = [l \in DOMAIN @ \cup {o[2]} |->
                            IF l = o[2] THEN o[1] ELSE @[l]]]
            /\ UNCHANGED <<section, status, left>>
       ELSE Leaves({})

ParseFormat(name) ==
    /\ Line(3)
    /\ IF name # "bad" THEN zconf' = [zconf EXCEPT !.formats = Append(@, name)] /\ UNCHANGED <<section, status, left>>
       ELSE Leaves({})

ParseRule(line) ==
    /\ Line(4)
    /\ IF Makes(zconf, line)
       THEN zconf' = [zconf EXCEPT !.rules = Append(@, RuleNew(zconf, line))] /\ UNCHANGED <<section, status, left>>
       ELSE Leaves({line})

\* "not in any section"
ParseOutside == Line(0) /\ Fail

\* The end of the file: a configuration without [rules], which has no rotater
\* and no default format, is as good as any.
EndOfFile ==
    /\ status = "reading" /\ status' = "built"
    /\ UNCHANGED <<zconf, section, left, inSection>>

CfNext ==
    \/ \E name \in {Sections[s] : s \in DOMAIN Sections} : ParseSection(name)
    \/ \E o \in Options : ParseGlobal(o)
    \/ \E o \in LevelLines : ParseLevel(o)
    \/ \E name \in FormatNames : ParseFormat(name)
    \/ \E line \in RuleLines : ParseRule(line)
    \/ ParseOutside
    \/ EndOfFile

CfSpec == CfInit /\ [][CfNext]_cfVars

-----------------------------------------------------------------------------
(***************************************************************************)
(* Categories                                                              *)
(***************************************************************************)
Begins(name, s, n) == Len(name) >= n /\ SubSeq(name, 1, n) = SubSeq(s, 1, n)

\* zlog_rule_match_category: "aa_ match aa_xx & aa, but not match aa1_xx"
Matches(r, name) ==
    LET c == r.line.cat
        n == Len(c)
    IN  \/ c = <<"*">> \/ c = name
        \/ c[n] = "_" /\ Begins(name, c, IF Len(name) = n - 1 THEN n - 1 ELSE n)

\* zlog_category_obtain_rules: the rules that match, or else the last wastebin
FitRules(name) ==
    LET fit == {i \in DOMAIN zconf.rules : Matches(zconf.rules[i], name)}
        bins == {i \in DOMAIN zconf.rules : zconf.rules[i].line.cat = <<"!">>}
    IN  IF fit # {} \/ bins = {} THEN fit
        ELSE {CHOOSE i \in bins : \A j \in bins : j <= i}

\* zlog_category_needless_level, from the bits of the rules together
Needless(name, l) ==
    <<l \div Width, Width - 1 - (l % Width)>> \notin UNION {zconf.rules[i].bits : i \in FitRules(name)}

\* zlog_rule_output: whether a message of level l goes out
Outputs(r, l) ==
    CASE r.line.cmp = "*" -> TRUE
      [] r.line.cmp = "." -> l >= r.level
      [] r.line.cmp = "=" -> l = r.level
      [] r.line.cmp = "!" -> l # r.level

-----------------------------------------------------------------------------
CfTypeOK ==
    /\ zconf.strict \in BOOLEAN /\ DOMAIN zconf.levels \subseteq Levels
    /\ section \in 0 .. 4 /\ status \in {"reading", "built", "failed"}
    /\ \A i \in DOMAIN zconf.rules :
          LET r == zconf.rules[i] IN
          r.bits \subseteq AllBits /\ r.format \in 0 .. Len(zconf.formats) /\ r.level \in {-1} \cup Levels

\* A message is thrown away before the lock is taken exactly when no rule of
\* its category would write it, for every level and comparison, levels at the
\* edge of a byte and rules whose level has no name among them.
ShortcutExact ==
    status = "built" => \A name \in Categories, l \in Levels :
        Needless(name, l) <=> ~ \E i \in FitRules(name) : Outputs(zconf.rules[i], l)

\* Nothing that comes later changes what a rule was made from: made from the
\* configuration at the end every rule is the same, and a rule that was left out
\* could still not be made.
RulesAsIfLast ==
    status = "built" =>
        /\ \A i \in DOMAIN zconf.rules : zconf.rules[i] = RuleNew(zconf, zconf.rules[i].line)
        /\ \A line \in left : ~Makes(zconf, line)

\* No rule has a period that it could never reach, since a reload makes it anew:
\* a rule that all messages between two reloads go to is synced among them or is
\* never to be synced (conf.c:373-384).  A rule that fewer go to may wait longer.
PeriodInReach ==
    status = "built" => \A i \in DOMAIN zconf.rules :
        zconf.reload # 0 => zconf.rules[i].fsync < zconf.reload

\* What a rule lets through, when it syncs and which format it uses is what the file
\* says, in whatever order its sections come.
ConfSound == CfTypeOK /\ ShortcutExact /\ RulesAsIfLast /\ PeriodInReach

=============================================================================
