------------------------------ MODULE ZlogBuf ------------------------------
(***************************************************************************)
(* How the logging library puts a message together                         *)
(* (fram/module/log/src/buf.c, spec.c, format.c): the conversions of a     *)
(* format write one after the other into the buffer of the thread, which   *)
(* grows between buf_size_min and buf_size_max; one with a width goes      *)
(* through a second buffer.                                                *)
(*                                                                         *)
(* The characters of a message are numbered as they are meant to come,     *)
(* Pad is a space or a zero and Mark a character of truncate_str.          *)
(***************************************************************************)
EXTENDS Integers, FiniteSets, SequencesExt

CONSTANTS BufMin, BufMaxes,   \* buffer min, and the values of buffer max (0: no limit)
          MarkLen,            \* truncate_str_len
          TextLens,           \* lengths of what one conversion yields
          Widths,             \* pairs of widths: %in.out
          MaxSpecs, MaxMsgs, MaxReallocs   \* bounds: conversions, messages, reallocs that fail

ASSUME BufAssumption ==
    /\ BufMin \in Nat \ {0}
    /\ \A m \in BufMaxes : m = 0 \/ (m \in Nat /\ m >= BufMin)     \* tested by zlog_buf_new
    /\ MarkLen \in Nat \ {0}                                       \* thread.c:106
    /\ TextLens \subseteq Nat /\ Widths \subseteq Nat \X Nat

Pad == -1
Mark == -2
Junk == -3     \* what lies behind a text that is read too far

VARIABLES
    bufMax,      \* size_max of both buffers
    preBuf, msgBuf,   \* size (size_real), text (start to tail), null (start is NULL)
    result,      \* of the conversions of the message so far: 0, or what ended it: 1 or -1
    bpc,         \* "idle", "specs": where zlog_format_gen_msg is
    wanted,      \* the message as the format means it (not in the code)
    specs, msgs, reallocs

bufVars == <<bufMax, preBuf, msgBuf, result, bpc, wanted, specs, msgs, reallocs>>

\* zlog_buf_new
NewBuf == [size |-> BufMin, text |-> <<>>, null |-> FALSE]

BufInit ==
    /\ bufMax \in BufMaxes
    /\ preBuf = NewBuf /\ msgBuf = NewBuf /\ result = 0 /\ bpc = "idle"
    /\ wanted = <<>> /\ specs = 0 /\ msgs = 0 /\ reallocs = 0

Least(a, b) == IF a < b THEN a ELSE b
\* a_buf->end - a_buf->tail: the last place is kept for the end of the string.
Room(b) == IF b.null THEN 0 ELSE b.size - 1 - Len(b.text)
\* n characters from where s is: a buffer that had lost its memory may think
\* itself full and then have room for more than s.
Taken(s, n) == [i \in 1 .. n |-> IF i <= Len(s) THEN s[i] ELSE Junk]

\* zlog_buf_truncate: the last characters give way to the mark.
Truncated(b) ==
    LET kept == Len(b.text) - Least(MarkLen, Len(b.text))
    IN  [b EXCEPT !.text = [i \in 1 .. Len(b.text) |-> IF i > kept THEN Mark ELSE b.text[i]]]

\* Mutant of Grown: half of what is missing.
GrownHalf(b, inc) == IF bufMax = 0 THEN b.size + (inc + 1) \div 2 ELSE Least(b.size + inc, bufMax)

\* The new size that zlog_buf_resize asks for.
Grown(b, inc) == IF bufMax = 0 THEN b.size + (3 * inc) \div 2 ELSE Least(b.size + inc, bufMax)

\* zlog_buf_resize: the buffer and what is returned; nothing is known of a
\* buffer whose realloc failed but its size.
Resized(b, inc, works) ==
    IF bufMax # 0 /\ b.size >= bufMax THEN [buf |-> b, rc |-> 1]
    ELSE IF ~works THEN [buf |-> [size |-> b.size, text |-> <<>>, null |-> TRUE], rc |-> -1]
    ELSE [buf |-> [size |-> Grown(b, inc), text |-> b.text, null |-> FALSE],
          rc |-> IF bufMax # 0 /\ b.size + inc > bufMax THEN 1 ELSE 0]

Appended(b, s) == [b EXCEPT !.text = @ \o s]

\* Mutant of Filled: what is left out is not marked.
FilledUnmarked(b, s, works) ==
    IF Len(s) <= Room(b) THEN [buf |-> Appended(b, s), rc |-> 0]
    ELSE LET r == Resized(b, Len(s) - Room(b), works)
         IN  IF r.rc < 0 THEN r ELSE [buf |-> Appended(r.buf, Taken(s, Room(r.buf))), rc |-> r.rc]
\* Mutant of Filled: the text that fits exactly is cut already.
FilledTight(b, s, works) ==
    IF Len(s) < Room(b) THEN [buf |-> Appended(b, s), rc |-> 0]
    ELSE LET r == Resized(b, Len(s) - Room(b), works) IN
         IF r.rc < 0 THEN r
         ELSE [buf |-> IF r.rc = 0 THEN Appended(r.buf, s)
                       ELSE Truncated(Appended(r.buf, Taken(s, Room(r.buf)))),
               rc |-> r.rc]

\* Every function that writes into a buffer: s, or as much of s as there is
\* room for, and then the mark.
Filled(b, s, works) ==
    IF Len(s) <= Room(b) THEN [buf |-> Appended(b, s), rc |-> 0]
    ELSE LET r == Resized(b, Len(s) - Room(b), works) IN
         IF r.rc < 0 THEN r
         ELSE [buf |-> IF r.rc = 0 THEN Appended(r.buf, s)
                       ELSE Truncated(Appended(r.buf, Taken(s, Room(r.buf)))),
               rc |-> r.rc]

\* zlog_buf_append does not look whether there is a buffer, zlog_buf_vprintf and
\* zlog_buf_printf_dec32 and their like do.
Written(kind, b, s, works) ==
    IF kind = "printf" /\ b.null THEN [buf |-> b, rc |-> -1] ELSE Filled(b, s, works)

Pads(n) == [i \in 1 .. n |-> Pad]

\* What zlog_buf_adjust_append makes of s: cut to the width out, filled up to the width in.
Source(s, out) == IF out = 0 \/ Len(s) < out THEN s ELSE SubSeq(s, 1, out)
Adjusted(s, left, in, out) ==
    LET source == Source(s, out)
        pads == Pads(IF in = 0 \/ Len(source) >= in THEN 0 ELSE in - Len(source))
    IN  IF left THEN source \o pads ELSE pads \o source

\* zlog_buf_printf_dec32, zlog_buf_printf_dec64 and zlog_buf_printf_hex
Digits(s, width) == Pads(IF width > Len(s) THEN width - Len(s) ELSE 0) \o s

Kinds == {"append", "printf"}
Chars(n) == [i \in 1 .. n |-> 100 * msgs + Len(wanted) + i]

-----------------------------------------------------------------------------
\* zlog_buf_restart of the message, and of a message before: its text is gone.
GenMsg ==
    /\ bpc = "idle" /\ msgs < MaxMsgs
    /\ bpc' = "specs" /\ msgs' = msgs + 1 /\ specs' = 0 /\ result' = 0
    /\ msgBuf' = [msgBuf EXCEPT !.text = <<>>] /\ wanted' = <<>>
    /\ UNCHANGED <<bufMax, preBuf, reallocs>>

\* A realloc of the step works, or fails as long as the bound allows.
Reallocs(works) == works \/ reallocs < MaxReallocs
Convert ==
    /\ bpc = "specs" /\ specs < MaxSpecs /\ specs' = specs + 1
    /\ UNCHANGED <<bufMax, msgs>>
Ends(r) == /\ msgBuf' = r.buf /\ result' = r.rc
           /\ bpc' = IF r.rc = 0 THEN "specs" ELSE "idle"
Failed(r, works) == reallocs' = IF ~works /\ r.rc < 0 THEN reallocs + 1 ELSE reallocs

\* zlog_spec_gen_msg_direct
Direct(kind, s, works) ==
    /\ Convert /\ wanted' = wanted \o s
    /\ LET r == Written(kind, msgBuf, s, works) IN Ends(r) /\ Failed(r, works)
    /\ UNCHANGED preBuf

\* zlog_spec_gen_msg_reformat: that the second buffer was too small is passed over.
Reformat(kind, s, w, left, works) ==
    /\ Convert /\ wanted' = wanted \o Adjusted(s, left, w[1], w[2])
    /\ LET pre == Written(kind, [preBuf EXCEPT !.text = <<>>], s, works)
           text == Adjusted(pre.buf.text, left, w[1], w[2])
           r == Written("printf", msgBuf, text, works)
       IN  /\ preBuf' = pre.buf
           /\ IF pre.rc < 0 THEN /\ result' = -1 /\ bpc' = "idle" /\ Failed(pre, works)
                                 /\ UNCHANGED msgBuf
                            ELSE Ends(r) /\ Failed(r, works)

\* The message is complete, and written.
Done ==
    /\ bpc = "specs" /\ specs > 0 /\ bpc' = "idle"
    /\ UNCHANGED <<bufMax, preBuf, msgBuf, result, wanted, specs, msgs, reallocs>>

BufNext ==
    \/ GenMsg
    \/ \E kind \in Kinds, n \in TextLens, works \in BOOLEAN :
          Reallocs(works) /\ Direct(kind, Chars(n), works)
    \/ \E n \in TextLens, w \in Widths, works \in BOOLEAN :
          Reallocs(works) /\ Direct("printf", Digits(Chars(n), w[1]), works)
    \/ \E kind \in Kinds, n \in TextLens, w \in Widths, left \in BOOLEAN, works \in BOOLEAN :
          Reallocs(works) /\ Reformat(kind, Chars(n), w, left, works)
    \/ Done

BufSpec == BufInit /\ [][BufNext]_bufVars

-----------------------------------------------------------------------------
\* The size that the code keeps is that of the memory, and the end of the
\* string has its place in it.
BufTypeOK ==
    \A b \in {preBuf, msgBuf} :
        /\ b.size >= BufMin /\ (bufMax # 0 => b.size <= bufMax)
        /\ IF b.null THEN b.text = <<>> ELSE Len(b.text) <= b.size - 1

Shows(s, c) == \E i \in DOMAIN s : s[i] = c

\* No cut is silent: a message that is written is the one that the format
\* means, or shows the mark, though the text was cut in the second buffer and
\* again by its width. Only after memory ran out the second buffer may be read
\* past its text (buf.c:518), and the width then cut the mark that follows; and
\* a buffer of one byte has no place for a mark.
NoSilentCut ==
    bpc = "specs" /\ bufMax # 1 =>
        \/ msgBuf.text = wanted \/ Shows(msgBuf.text, Mark)
        \/ reallocs > 0 /\ Shows(msgBuf.text, Junk)

\* A message is given up as too long only when it does not fit into the
\* largest buffer, however the buffer grew until then; once memory ran out the
\* size of the lost buffer is counted as if it were full, and a message that
\* fits may go too.
GivenUpTooLong == result > 0 /\ reallocs = 0 => bufMax # 0 /\ Len(wanted) >= bufMax

\* A message is written whole, or with the mark of a cut, or not at all (buf.c, spec.c).
BufSound == BufTypeOK /\ NoSilentCut /\ GivenUpTooLong

=============================================================================
