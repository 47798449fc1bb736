----------------------------- MODULE MCLogging -----------------------------
(***************************************************************************)
(* Model checking of the logging library: a behaviour is one of one of its *)
(* parts, which share nothing that a property is about.                    *)
(***************************************************************************)
EXTENDS ZlogRotate, ZlogEnv, ZlogBuf, ZlogConf, ZlogFile, ZlogRule, ZlogEvent, TLC

CONSTANTS w1, w2, w3      \* threads that write to the file

VARIABLE part             \* what the behaviour is one of

\* Two threads of one process, and one of another.
TwoProcesses == w1 :> 1 @@ w2 :> 1 @@ w3 :> 2

\* Conversions of a format: cut to a width, and padded to one.
PlainAndWide == {<<0, 3>>, <<5, 0>>}

\* Of the file: levels in the slots of 4 bits to a char, and lines of each section.
Defaults == 0 :> "*" @@ 2 :> "DEBUG" @@ 5 :> "INFO"
SomeOptions == {<<"strict", FALSE>>, <<"fsync", 1>>, <<"reload", 1>>, <<"default", FALSE>>, <<"none", 0>>}
SomeLevels == {<<"INFO", 3>>, <<"TRACE", 2>>, <<"HIGH", 99>>}
SomeRules ==
    [cat : {<<>>}, cmp : {"*"}, level : {"*"}, format : {""}]
    \cup [cat : {<<"*">>, <<"a", "_">>}, cmp : {"=", "!", "."}, level : {"DEBUG", "INFO"}, format : {""}]
    \cup [cat : {<<"!">>}, cmp : {"*"}, level : {"*"}, format : {"", "simple"}]
    \cup [cat : {<<"a">>}, cmp : {"."}, level : {"TRACE"}, format : {"simple"}]
SomeCategories == {<<"a">>, <<"a", "_", "b">>, <<"a", "b">>}

\* The outputs: a first configuration of one rule and messages enough to spoil its
\* count, and a second one of up to three rules and two messages.
OneThenThree == <<1, 3>>
ManyThenTwo == <<6, 2>>

\* Conversions of messages: two time formats in either order, or one, and a line
\* that is refused.
SomePatterns == {<<"d(%X)", "ms", "d(%F)">>, <<"d(%F)", "p", "ms">>, <<"M", "p", "d(%X)">>, <<"ms", "d(%F">>}

MCInit ==
    /\ part \in {"env", "rotate", "buf", "conf", "file", "rule", "event"}
    /\ EnvInit /\ RotateInit /\ BufInit /\ CfInit /\ FileInit /\ RuleInit /\ ZeInit
    /\ part # "rotate" => mvType = "roll"
    /\ part # "buf" => bufMax = 0
    /\ part # "event" => proc[1].specs = zlog_format_new(<<"M", "p", "d(%X)">>)
    /\ part # "conf" => status = "reading"

MCNext ==
    \/ part = "env" /\ EnvNext /\ UNCHANGED <<rotateVars, bufVars, cfVars, zfVars, zrVars, zeVars, part>>
    \/ part = "rotate" /\ RotateNext /\ UNCHANGED <<envVars, bufVars, cfVars, zfVars, zrVars, zeVars, part>>
    \/ part = "buf" /\ BufNext /\ UNCHANGED <<envVars, rotateVars, cfVars, zfVars, zrVars, zeVars, part>>
    \/ part = "conf" /\ CfNext /\ UNCHANGED <<envVars, rotateVars, bufVars, zfVars, zrVars, zeVars, part>>
    \/ part = "file" /\ FileNext /\ UNCHANGED <<envVars, rotateVars, bufVars, cfVars, zrVars, zeVars, part>>
    \/ part = "rule" /\ RuleNext /\ UNCHANGED <<envVars, rotateVars, bufVars, cfVars, zfVars, zeVars, part>>
    \/ part = "event" /\ ZeNext /\ UNCHANGED <<envVars, rotateVars, bufVars, cfVars, zfVars, zrVars, part>>

MCSpec == MCInit /\ [][MCNext]_<<envVars, rotateVars, bufVars, cfVars, zfVars, zrVars, zeVars, part>>

\* What a message shows of its time is of one moment, from a cache that is its event's
\* (spec.c, event.c), and the messages that wait for an fsync have a limit (rule.c).
MessagesSound == ZeTypeOK /\ OneMoment /\ CacheInside /\ LateBound

\* The files of the rules: one writer rotates at a time and the archives keep their order
\* and number (rotater.c); a rule writes to the file that has its path, on a descriptor
\* of its own, and what is opened is closed (rule.c).
FilesSound == RotateSound /\ FileSound /\ OutputsSound

\* No two reloads come closer than the period (zlog.c:653), and the archive that goes
\* is the oldest (rotater.c:322).
LoggingSteps == ReloadSpaced /\ OldestGoFirst

=============================================================================
