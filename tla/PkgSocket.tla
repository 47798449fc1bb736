----------------------------- MODULE PkgSocket -----------------------------
(***************************************************************************)
(* Packages over a stream socket (public/src/Socket.c): eight digits of    *)
(* length, then the package, sent and received by loops over calls that    *)
(* move a part only, with waiting or without.                              *)
(*                                                                         *)
(* The stream carries units: the two halves of a length, and the units of  *)
(* a body.  A call of the kernel moves any part of what it could.  A call  *)
(* without waiting that finds nothing to take, or no room, gives up where  *)
(* it is, and what it had moved is gone.                                   *)
(***************************************************************************)
EXTENDS Integers, Sequences, SequencesExt

CONSTANTS
    Window,                 \* units the socket holds
    BodySizes,            \* sizes of packages
    BufLen,               \* size of the receiver's buffer
    MaxPkgs,              \* packages that are sent
    MaxRecvs              \* calls of PkgRecv

ASSUME PkgAssumption == Window \in Nat \ {0} /\ BodySizes \subseteq Nat /\ BufLen \in Nat

VARIABLES
    stream,               \* the units on their way
    fin,                  \* the sender has closed, or is gone
    reset,                \* and took back what was not received
    sender,               \* the call of PkgSend
    started,              \* the packages whose sending began, by size
    receiver,             \* the call of PkgRecv
    results,              \* what the calls of PkgRecv gave
    gaveUp,               \* a call without waiting stopped inside a package
    refused,              \* the packages that one found no room to begin with
    astray                \* the receiver takes something for a length that is none

pkgVars == <<stream, fin, reset, sender, started, receiver, results, gaveUp, refused, astray>>

Flags == {"block", "nonblock"}
Resting == [pc |-> "idle", flag |-> "block", rest |-> <<>>]
NotReading == [pc |-> "idle", flag |-> "block", need |-> 0, have |-> <<>>, size |-> 0]

PkgInit ==
    /\ stream = <<>> /\ fin = FALSE /\ reset = FALSE
    /\ sender = Resting /\ started = <<>>
    /\ receiver = NotReading /\ results = <<>>
    /\ gaveUp = FALSE /\ refused = {} /\ astray = FALSE

----------------------------------------------------------------------------
(* The sender *)

Digits(p, n) == <<[of |-> p, size |-> n, at |-> -1], [of |-> p, size |-> n, at |-> 0]>>
Package(p, n) == Digits(p, n) \o [i \in 1 .. n |-> [of |-> p, size |-> n, at |-> i]]

PkgSend ==
    /\ sender.pc = "idle" /\ ~fin /\ Len(started) < MaxPkgs
    /\ \E n \in BodySizes, f \in Flags :
          /\ sender' = [pc |-> "sending", flag |-> f, rest |-> Package(Len(started) + 1, n)]
          /\ started' = Append(started, n)
    /\ UNCHANGED <<stream, fin, reset, receiver, results, gaveUp, refused, astray>>

\* Mutant of SendSome: the rest is sent from its beginning.
SendAgain ==
    /\ sender.pc = "sending" /\ sender.rest # <<>>
    /\ \E k \in 1 .. Len(sender.rest) :
          /\ Len(stream) + k <= Window
          /\ stream' = stream \o SubSeq(Package(Len(started), started[Len(started)]), 1, k)
          /\ sender' = [sender EXCEPT !.rest = SubSeq(@, k + 1, Len(@))]
    /\ UNCHANGED <<fin, reset, started, receiver, results, gaveUp, refused, astray>>

\* sendmsg in the loop of SendSocketWait and SendSocketNoWait.  Without
\* waiting the loop ends with a call that has nothing to send.
SendSome ==
    /\ sender.pc = "sending" /\ sender.rest # <<>>
    /\ \E k \in 1 .. Len(sender.rest) :
          /\ Len(stream) + k <= Window
          /\ stream' = stream \o SubSeq(sender.rest, 1, k)
          /\ sender' = [sender EXCEPT !.rest = SubSeq(@, k + 1, Len(@))]
    /\ UNCHANGED <<fin, reset, started, receiver, results, gaveUp, refused, astray>>

SendDone ==
    /\ sender.pc = "sending" /\ sender.rest = <<>>
    /\ sender' = Resting
    /\ UNCHANGED <<stream, fin, reset, started, receiver, results, gaveUp, refused, astray>>

\* EAGAIN: the rest of the package is never sent.
SendGivesUp ==
    /\ sender.pc = "sending" /\ sender.flag = "nonblock" /\ sender.rest # <<>>
    /\ Len(stream) = Window
    /\ IF Head(sender.rest).at = -1
       THEN refused' = refused \union {Len(started)} /\ UNCHANGED gaveUp
       ELSE gaveUp' = TRUE /\ UNCHANGED refused
    /\ sender' = Resting
    /\ UNCHANGED <<stream, fin, reset, started, receiver, results, astray>>

\* CloseTCPSocket, or the end of the process inside a package, or its end with
\* a reset that takes the units on their way with it.
SenderEnds ==
    /\ ~fin /\ fin' = TRUE /\ sender' = Resting
    /\ \/ UNCHANGED <<stream, reset>>
       \/ stream' = <<>> /\ reset' = TRUE
    /\ UNCHANGED <<started, receiver, results, gaveUp, refused, astray>>

----------------------------------------------------------------------------
(* The receiver *)

PkgRecv ==
    /\ receiver.pc = "idle" /\ ~astray /\ Len(results) < MaxRecvs
    /\ \E f \in Flags :
          receiver' = [NotReading EXCEPT !.pc = "length", !.flag = f, !.need = 2]
    /\ UNCHANGED <<stream, fin, reset, sender, started, results, gaveUp, refused, astray>>

Give(ret, body) ==
    /\ results' = Append(results, [ret |-> ret, body |-> body, size |-> receiver.size])
    /\ receiver' = NotReading

\* recvmsg in the loop of RecvSocketWait and RecvSocketNoWait takes a part.
Reading == receiver.pc \in {"length", "body"}

Taken(k) == [receiver EXCEPT !.have = @ \o SubSeq(stream, 1, k), !.need = @ - k]

\* Mutant of TakeSome: a call asks for more than is left.
TakeBeyond ==
    /\ Reading /\ receiver.need > 0
    /\ \E k \in 1 .. Len(stream) :
          receiver' = Taken(k) /\ stream' = SubSeq(stream, k + 1, Len(stream))
    /\ UNCHANGED <<fin, reset, sender, started, results, gaveUp, refused, astray>>

\* Mutant of TakeSome: the first part is taken for the whole.
TakeOnce ==
    /\ Reading /\ stream # <<>>
    /\ \E k \in 1 .. receiver.need :
          /\ k <= Len(stream)
          /\ receiver' = [Taken(k) EXCEPT !.need = 0]
          /\ stream' = SubSeq(stream, k + 1, Len(stream))
    /\ UNCHANGED <<fin, reset, sender, started, results, gaveUp, refused, astray>>

TakeSome ==
    /\ Reading /\ receiver.need > 0
    /\ \E k \in 1 .. receiver.need :
          /\ k <= Len(stream)
          /\ receiver' = Taken(k)
          /\ stream' = SubSeq(stream, k + 1, Len(stream))
    /\ UNCHANGED <<fin, reset, sender, started, results, gaveUp, refused, astray>>

\* The loop has what it wants, or the other side has closed and it has less.  A
\* call for no bytes returns when there is something to read.
Ended == stream = <<>> /\ fin /\ ~reset
LoopEnds == (receiver.need = 0 /\ (receiver.have # <<>> \/ stream # <<>>)) \/ Ended

IsLength(h) == Len(h) = 2 /\ h[1].at = -1 /\ h[2].at = 0 /\ h[1].of = h[2].of

\* The length: none received is the end; a half reads as zero; what is no
\* length at all reads as anything.
LengthRead ==
    /\ receiver.pc = "length" /\ LoopEnds
    /\ LET h == receiver.have
       IN  IF h = <<>> THEN Give("zero", <<>>) /\ UNCHANGED astray
           ELSE IF IsLength(h) \/ (Len(h) = 1 /\ h[1].at = -1)
           THEN LET n == IF IsLength(h) THEN h[1].size ELSE 0
                IN  /\ receiver' = [receiver EXCEPT !.pc = "body", !.need = n, !.size = n, !.have = <<>>]
                    /\ UNCHANGED <<results, astray>>
           ELSE astray' = TRUE /\ receiver' = NotReading /\ UNCHANGED results
    /\ UNCHANGED <<stream, fin, reset, sender, started, gaveUp, refused>>

\* The body: too long for the caller's buffer, none, or what was received, all
\* of it or not.
BodyRead ==
    /\ receiver.pc = "body" /\ LoopEnds
    /\ IF BufLen < receiver.size THEN Give("error", <<>>)
       ELSE IF receiver.have = <<>> THEN Give("zero", <<>>)
       ELSE Give("ok", receiver.have)
    /\ UNCHANGED <<stream, fin, reset, sender, started, gaveUp, refused, astray>>

\* Mutant of RecvGivesUp: the waiting call, too.
RecvGivesUpAny ==
    /\ Reading /\ stream = <<>> /\ ~fin
    /\ Give("ok", receiver.have)
    /\ UNCHANGED <<stream, fin, reset, sender, started, gaveUp, refused, astray>>

\* EAGAIN drops what was received of the package, its length included.
RecvGivesUp ==
    /\ Reading /\ receiver.flag = "nonblock" /\ stream = <<>> /\ ~fin
    /\ receiver.need > 0 \/ receiver.have = <<>>
    /\ gaveUp' = (gaveUp \/ receiver.have # <<>> \/ receiver.pc = "body")
    /\ Give("error", <<>>)
    /\ UNCHANGED <<stream, fin, reset, sender, started, refused, astray>>

\* ECONNRESET, once; then the end.
RecvFails ==
    /\ Reading /\ reset /\ reset' = FALSE
    /\ Give("error", <<>>)
    /\ UNCHANGED <<stream, fin, sender, started, gaveUp, refused, astray>>

SenderSteps == SendSome \/ SendDone \/ SendGivesUp
ReceiverSteps == TakeSome \/ LengthRead \/ BodyRead \/ RecvGivesUp \/ RecvFails

PkgNext ==
    \/ PkgSend \/ SendSome \/ SendDone \/ SendGivesUp \/ SenderEnds
    \/ PkgRecv \/ TakeSome \/ LengthRead \/ BodyRead \/ RecvGivesUp \/ RecvFails

\* A sender that has begun a package goes on or ends, a receiver goes on.
PkgFairness == WF_pkgVars(SenderSteps) /\ WF_pkgVars(ReceiverSteps)

PkgSpec == PkgInit /\ [][PkgNext]_pkgVars /\ PkgFairness

----------------------------------------------------------------------------
(* Properties *)

PkgTypeOK ==
    /\ Len(stream) <= Window /\ fin \in BOOLEAN /\ reset \in BOOLEAN
    /\ gaveUp \in BOOLEAN /\ refused \subseteq 1 .. Len(started) /\ astray \in BOOLEAN
    /\ sender.pc \in {"idle", "sending"} /\ sender.flag \in Flags
    /\ started \in Seq(BodySizes)
    /\ receiver.pc \in {"idle", "length", "body"} /\ receiver.flag \in Flags /\ receiver.need >= 0
    /\ \A i \in 1 .. Len(results) : results[i].ret \in {"ok", "zero", "error"}

\* The packages that PkgRecv gave whole are those that were sent, in their
\* order; what is missing among them was too long or empty, or its sender was
\* told that there was no room.  After a call that gave up inside a package one
\* may hold units of another.
Body(p) == [i \in 1 .. started[p] |-> [of |-> p, size |-> started[p], at |-> i]]
Whole == {i \in 1 .. Len(results) : results[i].ret = "ok" /\ Len(results[i].body) = results[i].size}
PackagesInOrder ==
    ~gaveUp =>
        /\ \A i \in Whole : \E p \in 1 .. Len(started) : results[i].body = Body(p)
        /\ \A i, j \in Whole : i < j => results[i].body[1].of < results[j].body[1].of
        /\ \A i \in Whole : \A p \in 1 .. results[i].body[1].of - 1 :
              (started[p] \in 1 .. BufLen /\ p \notin refused) => \E j \in Whole : results[j].body = Body(p)

\* Lengths and bodies are not mixed up, unless a call without waiting gave up
\* inside a package.
FramingKept == astray => gaveUp

\* A package that is shorter than its length says, though the call succeeds,
\* is the last one of a sender that is gone.
ShortAtTheEnd ==
    \A i \in 1 .. Len(results) :
        results[i].ret = "ok" /\ Len(results[i].body) < results[i].size =>
            fin /\ \A j \in i + 1 .. Len(results) : results[j].ret # "ok"

\* A call that has the beginning of a package ends, if nobody gave up before;
\* but behind an empty package the call for its no bytes waits for the next one.
PackageComes ==
    (receiver.have # <<>> /\ ~gaveUp) ~>
        (gaveUp \/ receiver.pc = "idle" \/ (receiver.pc = "body" /\ receiver.size = 0))

\* Packages come whole, in order and as they were sent while the framing holds, and
\* a short one only where the connection ended.
PackagesSound == PkgTypeOK /\ PackagesInOrder /\ FramingKept /\ ShortAtTheEnd

=============================================================================
