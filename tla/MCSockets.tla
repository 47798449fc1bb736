----------------------------- MODULE MCSockets -----------------------------
(***************************************************************************)
(* Model checking of what goes over sockets: a behaviour is one of         *)
(* PkgSocket, of Heartbeat or of JsonDoc, and the others do not begin.     *)
(***************************************************************************)
EXTENDS PkgSocket, Heartbeat, JsonDoc, TLC

CONSTANTS m1, m2

VARIABLE part             \* which of them it is

\* Packages of the machines.
FewSends == m1 :> 2 @@ m2 :> 1

\* Items without children: one of each way to be printed, and no true or false.
Scal(t, v) == [Blank EXCEPT !.type = t, !.val = v]
FewScalars == {Scal("null", NULL), Scal("number", <<"0">>), Scal("number", <<"1/3">>),
               Scal("string", <<>>), Scal("string", <<"\"", "^A">>)}
OneName == {<<"a">>}

MCInit == part \in {"socket", "heartbeat", "json"} /\ PkgInit /\ HbInit /\ JsonInit

MCNext ==
    \/ part = "socket" /\ PkgNext /\ UNCHANGED <<hbVars, jsonVars, part>>
    \/ part = "heartbeat" /\ HbNext /\ UNCHANGED <<pkgVars, jsonVars, part>>
    \/ part = "json" /\ JsonNext /\ UNCHANGED <<pkgVars, hbVars, part>>

MCSpec == MCInit /\ [][MCNext]_<<pkgVars, hbVars, jsonVars, part>> /\ PkgFairness /\ HbFairness

\* A package whose beginning was received comes, and the server that waits for one
\* comes back.
SocketsServe == PackageComes /\ ServerReturns

=============================================================================
