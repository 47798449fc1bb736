----------------------------- MODULE Heartbeat -----------------------------
(***************************************************************************)
(* The heartbeat server (heartbeat/src): one thread that waits with epoll  *)
(* for edges, takes one connection for an edge of its listening socket and *)
(* one package for an edge of a connection, waiting for the whole of it;   *)
(* its clients, which send the same package again and again; and the       *)
(* packing and unpacking of the package.                                   *)
(*                                                                         *)
(* A package comes in three units: its length and the two halves of its    *)
(* text, <<p, 1>>, <<p, 2>> and <<p, 3>>.  Sending and receiving by parts  *)
(* is PkgSocket.                                                           *)
(***************************************************************************)
EXTENDS Integers, Sequences, FiniteSets

CONSTANTS
    Machines,             \* the clients
    MaxSends,             \* packages of each client
    MaxResets             \* connections that end with a reset

ASSUME HbAssumption ==
    MaxSends \in [Machines -> Nat] /\ MaxResets \in Nat /\ {"listen", "none"} \cap Machines = {}

VARIABLES
    client,               \* the process of a machine: down, run or ended
    units,                \* the units it has sent
    conn,                 \* its connection: none, queued, open or closed
    inbox,                \* the units received for it and not read
    over,                 \* how it was ended by its side: no, fin, reset (not told yet) or told
    ready,                \* the descriptors epoll has an edge of
    events,               \* what epoll_wait gave and is not handled to its end
    reading,              \* the connection PkgRecv reads, or "none"
    have,                 \* the units it has of the package
    cache,                \* the text in the server's buffer
    shown,                \* the texts it unpacked, by the connection
    ahead,                \* a machine went on before the server had read what it had sent
    crowd                 \* a machine connected before the server had accepted another

hbVars == <<client, units, conn, inbox, over, ready, events, reading, have, cache, shown, ahead, crowd>>
kernel == <<conn, inbox, over, ready>>

NoText == <<"nobody", 0>>

HbInit ==
    /\ client = [c \in Machines |-> "down"] /\ units = [c \in Machines |-> 0]
    /\ conn = [c \in Machines |-> "none"] /\ inbox = [c \in Machines |-> <<>>]
    /\ over = [c \in Machines |-> "no"]
    /\ ready = {} /\ events = {} /\ reading = "none" /\ have = <<>>
    /\ cache = NoText /\ shown = [c \in Machines |-> <<>>]
    /\ ahead = [c \in Machines |-> FALSE] /\ crowd = FALSE

----------------------------------------------------------------------------
(* The clients *)

\* An edge of a descriptor that epoll has one of already is no other one.
EdgeOf(c) == IF conn[c] = "open" THEN ready \cup {c} ELSE ready
Queued == {c \in Machines : conn[c] = "queued"}

ConnTCPSocket(c) ==
    /\ client[c] = "down" /\ client' = [client EXCEPT ![c] = "run"]
    /\ conn' = [conn EXCEPT ![c] = "queued"]
    /\ ready' = ready \cup {"listen"}
    /\ crowd' = (crowd \/ Queued # {})
    /\ UNCHANGED <<units, inbox, over, events, reading, have, cache, shown, ahead>>

PackagesOf(c) == units[c] \div 3
Unread(c) == inbox[c] # <<>> \/ reading = c

\* PackHBpkg4J has made the package once; PkgSend sends its next unit.
PkgSendUnit(c) ==
    /\ client[c] = "run" /\ PackagesOf(c) < MaxSends[c]
    /\ units' = [units EXCEPT ![c] = @ + 1]
    /\ inbox' = [inbox EXCEPT ![c] = Append(@, <<PackagesOf(c) + 1, (units[c] % 3) + 1>>)]
    /\ ready' = EdgeOf(c)
    /\ ahead' = [ahead EXCEPT ![c] = @ \/ (units[c] % 3 = 0 /\ Unread(c))]
    /\ UNCHANGED <<client, conn, over, events, reading, have, cache, shown, crowd>>

ClientEnds(c) ==
    /\ client[c] = "run" /\ client' = [client EXCEPT ![c] = "ended"]
    /\ over' = [over EXCEPT ![c] = "fin"]
    /\ ready' = EdgeOf(c)
    /\ ahead' = [ahead EXCEPT ![c] = @ \/ Unread(c)]
    /\ UNCHANGED <<units, conn, inbox, events, reading, have, cache, shown, crowd>>

Resets == {c \in Machines : over[c] \in {"reset", "told"}}
ClientReset(c) ==
    /\ client[c] = "run" /\ client' = [client EXCEPT ![c] = "ended"]
    /\ Cardinality(Resets) < MaxResets
    /\ over' = [over EXCEPT ![c] = "reset"] /\ inbox' = [inbox EXCEPT ![c] = <<>>]
    /\ ready' = EdgeOf(c)
    /\ UNCHANGED <<units, conn, events, reading, have, cache, shown, ahead, crowd>>

----------------------------------------------------------------------------
(* The server *)

AtRest == events = {} /\ reading = "none"

\* What epoll_wait finds when it looks at a descriptor of its list again.
Readable(fd) == IF fd = "listen" THEN Queued # {} ELSE inbox[fd] # <<>> \/ over[fd] # "no"
Event(fd) == [fd |-> fd, err |-> fd # "listen" /\ over[fd] \in {"reset", "told"}]

HasEvents == \E fd \in ready : Readable(fd)

\* The events come in an order that nothing fixes.
epoll_wait ==
    /\ AtRest /\ HasEvents
    /\ events' = {Event(fd) : fd \in {d \in ready : Readable(d)}}
    /\ ready' = {}
    /\ UNCHANGED <<client, units, conn, inbox, over, reading, have, cache, shown, ahead, crowd>>

\* One connection for an edge, whoever is first; it joins the queue of epoll.
Accept ==
    /\ reading = "none" /\ \E e \in events : e.fd = "listen"
    /\ \E c \in Queued :
          /\ conn' = [conn EXCEPT ![c] = "open"]
          /\ ready' = IF Readable(c) THEN ready \cup {c} ELSE ready
    /\ events' = {e \in events : e.fd # "listen"}
    /\ UNCHANGED <<client, units, inbox, over, reading, have, cache, shown, ahead, crowd>>

CloseConn(c) ==
    /\ conn' = [conn EXCEPT ![c] = "closed"] /\ inbox' = [inbox EXCEPT ![c] = <<>>]
    /\ ready' = ready \ {c}

\* EPOLLERR or EPOLLHUP.
ErrorEvent ==
    /\ reading = "none"
    /\ \E e \in events : e.err /\ CloseConn(e.fd) /\ events' = events \ {e}
    /\ UNCHANGED <<client, units, over, reading, have, cache, shown, ahead, crowd>>

\* PkgRecv is called and waits until it has the package.
ReadEvent ==
    /\ reading = "none" /\ have' = <<>>
    /\ \E e \in events : e.fd # "listen" /\ ~e.err /\ reading' = e.fd
    /\ UNCHANGED <<client, units, conn, inbox, over, ready, events, cache, shown, ahead, crowd>>

ReadUnit ==
    /\ reading # "none" /\ Len(have) < 3 /\ inbox[reading] # <<>>
    /\ have' = Append(have, Head(inbox[reading]))
    /\ inbox' = [inbox EXCEPT ![reading] = Tail(@)]
    /\ UNCHANGED <<client, units, conn, over, ready, events, reading, cache, shown, ahead, crowd>>

\* Mutant of Handled: the event stays.
HandledNot == UNCHANGED events /\ reading' = "none" /\ have' = <<>>

Handled == events' = {e \in events : e.fd # reading} /\ reading' = "none" /\ have' = <<>>

\* What UnPackHBpkg4J finds in the buffer: a whole text, or one it cannot parse.
\* It shows a name, or an empty one.
UnPackHBpkg4J(text) == shown' = [shown EXCEPT ![reading] = Append(@, text)]

\* Mutant of Complete: one half of the text is enough.
HalfComplete == Len(have) = 2

Complete == Len(have) = 3

\* The text is what came after the length.
Text == IF Len(have) = 3 /\ have[1][2] = 1 /\ have[2] = <<have[1][1], 2>> /\ have[3] = <<have[1][1], 3>>
        THEN <<reading, have[1][1]>> ELSE NoText

PackageRead ==
    /\ reading # "none" /\ Complete
    /\ cache' = Text /\ UnPackHBpkg4J(Text)
    /\ Handled
    /\ UNCHANGED <<client, units, conn, inbox, over, ready, ahead, crowd>>

AtEnd == reading # "none" /\ ~Complete /\ inbox[reading] = <<>>

\* Mutant of EndRead: nothing received is not the end.
EndKept ==
    /\ AtEnd /\ over[reading] \in {"fin", "told"}
    /\ Handled
    /\ UNCHANGED <<client, units, conn, inbox, ready, over, cache, shown, ahead, crowd>>

\* Mutant of EndRead: an end is waited out.
EndUnread ==
    /\ AtEnd /\ over[reading] \in {"fin", "told"} /\ Len(have) = 0
    /\ CloseConn(reading) /\ Handled
    /\ UNCHANGED <<client, units, over, cache, shown, ahead, crowd>>

\* The connection ended before the text: PkgRecv gives zero, and has cleared the
\* buffer if there was a length.  With half of the text it gives what it has,
\* which nobody can unpack, and nothing is closed.
EndRead ==
    /\ AtEnd /\ over[reading] \in {"fin", "told"}
    /\ IF Len(have) < 2
       THEN /\ cache' = IF have = <<>> THEN cache ELSE NoText
            /\ CloseConn(reading) /\ UNCHANGED shown
       ELSE cache' = NoText /\ UnPackHBpkg4J(NoText) /\ UNCHANGED <<conn, inbox, ready>>
    /\ Handled
    /\ UNCHANGED <<client, units, over, ahead, crowd>>

\* PkgRecv fails and leaves the buffer as it was: the text of the package
\* before, whoever sent it, is unpacked once more.
ErrorRead ==
    /\ AtEnd /\ over[reading] = "reset"
    /\ over' = [over EXCEPT ![reading] = "told"]
    /\ UnPackHBpkg4J(cache)
    /\ Handled
    /\ UNCHANGED <<client, units, conn, inbox, ready, cache, ahead, crowd>>

ServerSteps ==
    epoll_wait \/ Accept \/ ErrorEvent \/ ReadEvent \/ ReadUnit \/ PackageRead \/ EndRead \/ ErrorRead

HbNext ==
    \/ \E c \in Machines : ConnTCPSocket(c) \/ PkgSendUnit(c) \/ ClientEnds(c) \/ ClientReset(c)
    \/ epoll_wait \/ Accept \/ ErrorEvent \/ ReadEvent \/ ReadUnit \/ PackageRead \/ EndRead \/ ErrorRead

\* The server runs; a machine that has begun a package goes on with it or ends.
HbFairness ==
    /\ WF_hbVars(ServerSteps)
    /\ \A c \in Machines : WF_hbVars(units[c] % 3 # 0 /\ PkgSendUnit(c))

HbSpec == HbInit /\ [][HbNext]_hbVars /\ HbFairness

----------------------------------------------------------------------------
(* Properties *)

HbTypeOK ==
    /\ client \in [Machines -> {"down", "run", "ended"}] /\ \A c \in Machines : units[c] \in 0 .. 3 * MaxSends[c]
    /\ conn \in [Machines -> {"none", "queued", "open", "closed"}]
    /\ over \in [Machines -> {"no", "fin", "reset", "told"}]
    /\ reading \in Machines \cup {"none"} /\ Len(have) <= 3
    /\ \A fd \in ready : fd = "listen" \/ conn[fd] = "open"
    /\ \A e \in events : e.fd = "listen" \/ conn[e.fd] = "open"

\* What the server shows for a connection is what its machine sent, in the
\* order it was sent and nothing twice; but after a reset the package of another
\* may be shown, once, and an end inside a package shows a machine without a name.
ShownTrue(c, n) == shown[c][n] = <<c, n>> /\ n <= PackagesOf(c)
ShownAsSent ==
    \A c \in Machines :
        /\ over[c] \in {"no", "reset"} => \A n \in 1 .. Len(shown[c]) : ShownTrue(c, n)
        /\ \A n \in 1 .. Len(shown[c]) - 1 : ShownTrue(c, n)

\* While the server rests, every package has been read, every connection that
\* was ended is closed and every machine that connected is accepted, unless two
\* of these came upon one edge.
NothingForgotten ==
    (AtRest /\ ~HasEvents) =>
        /\ crowd \/ Queued = {}
        /\ \A c \in Machines : conn[c] = "open" /\ ~ahead[c] => inbox[c] = <<>> /\ over[c] = "no"

\* The server comes back to epoll_wait, whatever the machine does whose package
\* it waits for, if that goes on or ends.
ServerReturns == ~AtRest ~> AtRest

\* What the server shows was sent, or says that it was not whole, and what it has not
\* read while it rests came on one edge with something that it has.
HeartbeatSound == HbTypeOK /\ ShownAsSent /\ NothingForgotten

=============================================================================
