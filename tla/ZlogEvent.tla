----------------------------- MODULE ZlogEvent -----------------------------
(***************************************************************************)
(* The event a thread keeps from message to message (event.c, thread.c,    *)
(* mdc.c) and the conversions that read it (spec.c): a message is written  *)
(* conversion by conversion while the clock goes on, with time strings and *)
(* the process number cached since earlier messages; between messages the  *)
(* configuration may be loaded anew and the process may fork.              *)
(*                                                                         *)
(* The clock has Ticks of half a second.  A process has one thread: the    *)
(* child of a fork has a copy of all its parent has.                       *)
(***************************************************************************)
EXTENDS Integers, Sequences, FiniteSets, SequencesExt

CONSTANTS
    MaxProcesses,         \* processes, numbered in the order of the forks
    Patterns,             \* conversions of the configurations: sequences of what the % is followed by
    MdcValues,
    MaxTick,
    MaxReloads, MaxEvents,  \* of a process and its children: reloads, messages
    MaxEventFails         \* allocations that fail

VARIABLES
    tick,                 \* the clock
    proc,                 \* the processes there are
    events, reloads,      \* so far
    eventFails, lostEvents   \* allocations that failed; events nobody points to

zeVars == <<tick, proc, events, reloads, eventFails, lostEvents>>

Sec(t) == 1 + t \div 2
TimeFormats == {"d", "d(%F)", "d(%X)"}
Cut == {"d(%F"}           \* without its end

\* A time conversion takes the next cache, whatever its format.
zlog_spec_new(specs, pattern) ==
    LET taken == Cardinality({k \in DOMAIN specs : specs[k].conv \in TimeFormats})
    IN  Append(specs, [conv |-> pattern, cache |-> IF pattern \in TimeFormats THEN taken + 1 ELSE 0])
\* The conversions of a configuration, or none when one of them is refused.
zlog_format_new(patterns) ==
    IF \E k \in DOMAIN patterns : patterns[k] \in Cut THEN <<>> ELSE FoldLeft(zlog_spec_new, <<>>, patterns)
time_cache_count(specs) == Cardinality({k \in DOMAIN specs : specs[k].conv \in TimeFormats})

NoCache == [sec |-> 0, fmt |-> "", of |-> 0]
zlog_event_new(specs) ==
    [caches |-> [k \in 1 .. time_cache_count(specs) |-> NoCache], stamp |-> -1, pid |-> 0, last |-> 0]

\* A process: its configuration and the version of it; what its thread keeps and
\* the version that is for; the next conversion; what is written; the ticks since
\* the message began.  `mdc` is 0 when the key has no value.
Process(specs, version) ==
    [specs |-> specs, version |-> version, event |-> zlog_event_new(specs), built |-> version, mdc |-> 0,
     next |-> 0, out |-> <<>>, since |-> {}]

ZeInit ==
    /\ tick = 0 /\ events = 0 /\ reloads = 0 /\ eventFails = 0 /\ lostEvents = 0
    /\ \E c \in Patterns : /\ zlog_format_new(c) # <<>>
                           /\ proc = [p \in {1} |-> Process(zlog_format_new(c), 1)]

Becomes(p, r) == proc' = [proc EXCEPT ![p] = r]
Between(p) == proc[p].next = 0

----------------------------------------------------------------------------
(* Between messages *)

Tick ==
    /\ tick < MaxTick /\ tick' = tick + 1
    /\ proc' = [p \in DOMAIN proc |-> [proc[p] EXCEPT !.since = IF Between(p) THEN {} ELSE @ \cup {tick + 1}]]
    /\ UNCHANGED <<events, reloads, eventFails, lostEvents>>

\* zlog_reload: a refused configuration leaves the old one in use.
ZeReload(p) ==
    /\ Between(p) /\ reloads < MaxReloads /\ reloads' = reloads + 1
    /\ \E c \in Patterns :
         Becomes(p, IF zlog_format_new(c) = <<>> THEN proc[p]
                    ELSE [proc[p] EXCEPT !.specs = zlog_format_new(c), !.version = @ + 1])
    /\ UNCHANGED <<tick, events, eventFails, lostEvents>>

Fork(p) ==
    /\ Between(p) /\ Cardinality(DOMAIN proc) < MaxProcesses
    /\ proc' = [q \in DOMAIN proc \cup {Cardinality(DOMAIN proc) + 1} |-> IF q \in DOMAIN proc THEN proc[q] ELSE proc[p]]
    /\ UNCHANGED <<tick, events, reloads, eventFails, lostEvents>>

\* Mutant of Rebuilt: as for the buffers, nothing is done when the number is the same.
RebuiltIfCount(r) ==
    [r EXCEPT !.built = r.version,
              !.event = IF Len(@.caches) = time_cache_count(r.specs) THEN @ ELSE zlog_event_new(r.specs)]
\* zlog_thread_rebuild_event: the mdc stays as it is.
Rebuilt(r) == [r EXCEPT !.built = r.version, !.event = zlog_event_new(r.specs)]

\* Mutant of Unbuilt: the version is written down first.
UnbuiltMarked(r) == [r EXCEPT !.built = r.version]
\* A rebuild that finds no memory gives the message up and keeps the old event;
\* the next message tries again.
Unbuilt(r) == r
RebuildFails(p) ==
    /\ Between(p) /\ proc[p].built # proc[p].version
    /\ eventFails < MaxEventFails /\ eventFails' = eventFails + 1
    /\ Becomes(p, Unbuilt(proc[p]))
    /\ lostEvents' \in lostEvents .. lostEvents + 1     \* without its caches the event is lost
    /\ UNCHANGED <<tick, events, reloads>>

\* zlog_put_mdc, zlog_remove_mdc and zlog_clean_mdc; a put that finds no memory
\* leaves what was there.
PutMdc(p) ==
    /\ Between(p)
    /\ \E v \in MdcValues \cup {0} : v # proc[p].mdc /\ Becomes(p, [proc[p] EXCEPT !.mdc = v])
    /\ UNCHANGED <<tick, events, reloads, eventFails, lostEvents>>

\* zlog_event_set_fmt and zlog_event_set_hex: what this message did not ask for yet
zlog_event_set_fmt(e) == [e EXCEPT !.stamp = -1, !.pid = 0]

\* zlog_fetch_thread and the setting of the event
SetEvent(p) ==
    /\ Between(p) /\ events < MaxEvents /\ events' = events + 1
    /\ LET r == IF proc[p].built # proc[p].version THEN Rebuilt(proc[p]) ELSE proc[p]
       IN  Becomes(p, [r EXCEPT !.event = zlog_event_set_fmt(@), !.next = 1, !.out = <<>>, !.since = {tick}])
    /\ UNCHANGED <<tick, reloads, eventFails, lostEvents>>

----------------------------------------------------------------------------
(* The conversions: p writes what spec asks for *)

Writing(p, convs) == proc[p].next \in DOMAIN proc[p].specs /\ proc[p].specs[proc[p].next].conv \in convs
Stamped(e) == IF e.stamp = -1 THEN tick ELSE e.stamp
WrittenOut(p, e, piece) ==
    /\ Becomes(p, [proc[p] EXCEPT !.event = e, !.out = Append(@, piece),
                                  !.next = @ + 1])
    /\ UNCHANGED <<tick, events, reloads, eventFails, lostEvents>>

\* The string of a cache for this second: localtime_r and strftime, unless it is there.
Cached(c, spec, sec) == IF c.sec = sec THEN c ELSE [sec |-> sec, fmt |-> spec.conv, of |-> sec]

zlog_spec_write_time(p) ==
    /\ Writing(p, TimeFormats)
    /\ LET e == proc[p].event
           spec == proc[p].specs[proc[p].next]
           sec == Sec(Stamped(e))
           c == Cached(e.caches[spec.cache], spec, sec)
       IN  WrittenOut(p, [e EXCEPT !.stamp = Stamped(e), !.caches[spec.cache] = c], <<c.fmt, c.of>>)

zlog_spec_write_ms(p) ==
    /\ Writing(p, {"ms"})
    /\ WrittenOut(p, [proc[p].event EXCEPT !.stamp = Stamped(proc[p].event)], <<"ms", Stamped(proc[p].event) % 2>>)

\* The number is asked for once in a message, and its string made when it changed.
zlog_spec_write_pid(p) ==
    /\ Writing(p, {"p"})
    /\ LET e == proc[p].event
           pid == IF e.pid = 0 THEN p ELSE e.pid
           string == IF pid # e.last THEN pid ELSE e.last
       IN  WrittenOut(p, [e EXCEPT !.pid = pid, !.last = string], <<"p", string>>)

zlog_spec_write_mdc(p) ==
    /\ Writing(p, {"M"})
    /\ WrittenOut(p, proc[p].event, <<"M", proc[p].mdc>>)

\* The message goes to its outputs.
MessageDone(p) ==
    /\ proc[p].next = Len(proc[p].specs) + 1
    /\ Becomes(p, [proc[p] EXCEPT !.next = 0, !.out = <<>>, !.since = {}])
    /\ UNCHANGED <<tick, events, reloads, eventFails, lostEvents>>

----------------------------------------------------------------------------
ZeNext ==
    \/ Tick
    \/ \E p \in DOMAIN proc :
         \/ ZeReload(p) \/ Fork(p) \/ RebuildFails(p) \/ PutMdc(p) \/ SetEvent(p)
         \/ zlog_spec_write_time(p) \/ zlog_spec_write_ms(p) \/ zlog_spec_write_pid(p) \/ zlog_spec_write_mdc(p)
         \/ MessageDone(p)

ZeSpec == ZeInit /\ [][ZeNext]_zeVars

----------------------------------------------------------------------------
(* Properties *)

\* The caches of an event are as many as the configuration it is for has time
\* conversions, and no event is lost but in a rebuild that failed.
ZeTypeOK ==
    /\ tick \in 0 .. MaxTick /\ lostEvents \in 0 .. eventFails
    /\ \A p \in DOMAIN proc :
         LET r == proc[p]
         IN  /\ r.built <= r.version /\ r.mdc \in MdcValues \cup {0}
             /\ r.next \in 0 .. Len(r.specs) + 1
             /\ r.built = r.version => Len(r.event.caches) = time_cache_count(r.specs)
             /\ r.next # 0 => r.built = r.version

\* All a message shows of its time is of one instant, between its begin and its
\* end, each conversion in its own format; its process number is that of the process
\* that writes it, forks or not, and its mdc the one its thread has (spec.c:48-208).
OneMoment ==
    \A p \in DOMAIN proc :
      LET r == proc[p]
          Meant(t, spec) == CASE spec.conv \in TimeFormats -> <<spec.conv, Sec(t)>>
                              [] spec.conv = "ms" -> <<"ms", t % 2>>
                              [] spec.conv = "p" -> <<"p", p>>
                              [] spec.conv = "M" -> <<"M", r.mdc>>
      IN  r.next > 0 => \E t \in r.since : \A k \in DOMAIN r.out : r.out[k] = Meant(t, r.specs[k])

\* A conversion never reaches past the caches of its event, though the event was
\* made for an earlier configuration until the thread logs again.
CacheInside ==
    \A p \in DOMAIN proc : proc[p].next > 0 =>
      \A k \in DOMAIN proc[p].specs : proc[p].specs[k].cache <= Len(proc[p].event.caches)

=============================================================================
