------------------------------- MODULE Proxy -------------------------------
(***************************************************************************)
(* A client and the chat server, connected directly or through the proxy.  *)
(* The proxy is the server end of the connection of its victim, and then   *)
(* the client end of one of its own; when both handshakes are over, two    *)
(* threads carry the lines from one Session to the other, each in one      *)
(* direction, and --tamper alters one of them.                             *)
(***************************************************************************)
EXTENDS Handshake, FiniteSets

VARIABLE
    proxy   \* main of mitm, its two pumps, g_tamper_armed

vars == <<creds, client, server, up, down, said, heard, proxy>>

\* The connection of the client, and the one from the proxy to the server.
Front == "front"
Back == "back"
ASSUME ProxyAssumption == {Front, Back} \subseteq Conns

Direct == proxy.at = "none"
\* The one whose server end is the chat server.
Last == IF Direct THEN Front ELSE Back

Init ==
    /\ HandshakeInit
    /\ client[Back].version = VERSION
    /\ \E at \in {"none", "victim"}, tamper \in {"off", "armed"} :
        /\ proxy = [at |-> at, up |-> "run", down |-> "run", tamper |-> tamper]
        /\ at = "none" => creds[Back] = creds[Front] /\ tamper = "off"

-----------------------------------------------------------------------------
(* handshake_as_server *)

VictimAnswered ==
    /\ proxy.at = "victim"
    /\ AnswersHello(Front)
    /\ UNCHANGED proxy

VictimCompletes ==
    /\ proxy.at = "victim"
    /\ Completes(Front)
    /\ proxy' = [proxy EXCEPT !.at = "dial"]

ForgetsVictim ==
    /\ ServerEnds(Front)
    /\ proxy' = [proxy EXCEPT !.at = "accept"]

\* Any other record, or feed fails.
VictimFails ==
    /\ proxy.at = "victim" /\ Reads(Front)
    /\ ForgetsVictim

-----------------------------------------------------------------------------
(* main *)

Dials ==
    /\ proxy.at = "dial"
    /\ proxy' = [proxy EXCEPT !.at = "upstream"]
    /\ UNCHANGED <<creds, ends, up, down, lines>>

DialFails == proxy.at = "dial" /\ ForgetsVictim

Upstream ==
    /\ proxy.at = "upstream"
    /\ ClientGoesOn(Back) \/ (client[Back].at # "up" /\ Leaves(Back))
    /\ UNCHANGED proxy

UpstreamFails ==
    /\ proxy.at = "upstream" /\ client[Back].at = "closed"
    /\ ForgetsVictim

StartsPumps ==
    /\ proxy.at = "upstream" /\ client[Back].at = "up"
    /\ proxy' = [proxy EXCEPT !.at = "pump"]
    /\ UNCHANGED <<creds, ends, up, down, lines>>

\* Both threads have ended.
Joins ==
    /\ proxy.at = "pump" /\ proxy.up = "end" /\ proxy.down = "end"
    /\ client' = [client EXCEPT ![Back].at = "closed"]
    /\ server' = [server EXCEPT ![Front].at = "closed"]
    /\ up' = Shut(up, Back) /\ down' = Shut(down, Front)
    /\ proxy' = [proxy EXCEPT !.at = "accept"]
    /\ UNCHANGED <<creds, lines>>

-----------------------------------------------------------------------------
(* pump *)

\* The first chat record is altered; lines after the login may be other requests.
MayAlter(line) == proxy.tamper = "armed" /\ line > 1

\* Mutant: the counter of the other session.
PumpTxOther == server[Front].tx

PumpTx == client[Back].tx

PumpsUp ==
    LET r == Head(up[Front])
        sealed == Sealed(client[Back].keys, "c2s", PumpTx, r.line)
    IN
    /\ proxy.at = "pump" /\ proxy.up = "run"
    /\ up[Front] # <<>> /\ r # Eof
    /\ IF r.kind = "data"
       THEN /\ ServerOpens(Front)
            /\ client' = [client EXCEPT ![Back].tx = @ + 1]
            /\ server' = [server EXCEPT ![Front].rx = @ + 1]
            /\ said' = [said EXCEPT ![Back].up = Append(@, r.line)]
            /\ \E altered \in {FALSE, MayAlter(r.line)} :
                /\ up' = Put(Rest(up, Front), Back, <<IF altered THEN Unsealed(0) ELSE sealed>>)
                /\ proxy' = IF altered THEN [proxy EXCEPT !.tamper = "done"] ELSE proxy
       ELSE /\ up' = Put(Rest(up, Front), Back, <<r>>)
            /\ UNCHANGED <<ends, lines, proxy>>
    /\ UNCHANGED <<creds, down>>

PumpsDown ==
    LET r == Head(down[Back])
        sealed == Sealed(server[Front].keys, "s2c", server[Front].tx, r.line)
    IN
    /\ proxy.at = "pump" /\ proxy.down = "run"
    /\ down[Back] # <<>> /\ r # Eof
    /\ IF r.kind = "data"
       THEN /\ ClientOpens(Back)
            /\ server' = [server EXCEPT ![Front].tx = @ + 1]
            /\ said' = [said EXCEPT ![Front].down = Append(@, r.line)]
            /\ down' = Put(Rest(down, Back), Front, <<sealed>>)
       ELSE /\ down' = Put(Rest(down, Back), Front, <<r>>)
            /\ UNCHANGED <<ends, lines>>
    /\ UNCHANGED <<creds, up, proxy>>

\* Mutant: the other socket is not shut.
PumpUpEndsQuietly ==
    /\ proxy.at = "pump" /\ proxy.up = "run"
    /\ up[Front] # <<>> /\ Head(up[Front]) = Eof
    /\ proxy' = [proxy EXCEPT !.up = "end"]
    /\ UNCHANGED <<creds, ends, up, down, lines>>

\* recv gives the end, which is also so once the other thread has shut this
\* socket; or the record does not open, or cannot be sent.
PumpUpEnds ==
    /\ proxy.at = "pump" /\ proxy.up = "run"
    /\ \/ IsShut(down[Front])
       \/ /\ up[Front] # <<>>
          /\ \/ Head(up[Front]) = Eof \/ server[Back].at = "closed"
             \/ ~Opens(server[Front].keys, "c2s", server[Front].rx, Head(up[Front]))
    /\ proxy' = [proxy EXCEPT !.up = "end"]
    /\ up' = Shut(up, Back)
    /\ UNCHANGED <<creds, ends, down, lines>>

PumpDownEnds ==
    /\ proxy.at = "pump" /\ proxy.down = "run"
    /\ \/ IsShut(up[Back])
       \/ /\ down[Back] # <<>>
          /\ \/ Head(down[Back]) = Eof \/ client[Front].at = "closed"
             \/ ~Opens(client[Back].keys, "s2c", client[Back].rx, Head(down[Back]))
    /\ proxy' = [proxy EXCEPT !.down = "end"]
    /\ down' = Shut(down, Front)
    /\ UNCHANGED <<creds, ends, up, lines>>

PumpUp == PumpsUp \/ PumpUpEnds
PumpDown == PumpsDown \/ PumpDownEnds

Main ==
    \/ VictimAnswered \/ VictimCompletes \/ VictimFails
    \/ Dials \/ DialFails \/ Upstream \/ UpstreamFails \/ StartsPumps \/ Joins

-----------------------------------------------------------------------------
Client == ClientGoesOn(Front) \/ Hears(Front) \/ HearsNothing(Front)

User == PlainLogin(Front) \/ Says(Front) \/ Leaves(Front)

Server == LoopGoesOn(Last)

Others == SendLine(Last) \/ Stops(Last) \/ \E c \in Conns : Reset(c)

Chat == (Client \/ User \/ Server \/ Others) /\ UNCHANGED proxy

Next == Chat \/ Main \/ PumpUp \/ PumpDown

Spec == Init /\ [][Next]_vars

(***************************************************************************)
(* Every thread runs: the client's, the server's loop, and the proxy's     *)
(* main and pumps.                                                         *)
(***************************************************************************)
FairSpec ==
    /\ Spec
    /\ WF_vars(Client /\ UNCHANGED proxy) /\ WF_vars(Server /\ UNCHANGED proxy)
    /\ WF_vars(Main) /\ WF_vars(PumpUp) /\ WF_vars(PumpDown)

-----------------------------------------------------------------------------
ProxyType ==
    [at : {"none", "victim", "dial", "upstream", "pump", "accept"},
     up : {"run", "end"}, down : {"run", "end"}, tamper : {"off", "armed", "done"}]

(* The ends, the records on the way and the proxy keep their types, and a  *)
(* counter is the number of lines sealed or opened: session.cpp.           *)
TypeOK == HandshakeTypeOK /\ proxy \in ProxyType

(***************************************************************************)
(* When both ends of a connection have a session, it is the same one:      *)
(* each derives it from what it sent and received.                         *)
(***************************************************************************)
SameKeys ==
    \A c \in Conns :
        client[c].keys # None /\ server[c].keys # None => client[c].keys = server[c].keys

(***************************************************************************)
(* A client that meets a server it should not trust has sent neither its   *)
(* public value nor a line: docs/protocol.md, "fail closed, in order".     *)
(***************************************************************************)
NothingRevealed ==
    \A c \in Conns :
        \/ \E i \in DOMAIN up[c] : up[c][i].kind = "clientkex"
        \/ client[c].own # None \/ said[c].up # <<>> \/ server[c].step = "Complete"
        => Genuine(c)

(***************************************************************************)
(* A line on its way opens when its turn comes, whatever else happens to   *)
(* the connection: keys and counters of the two ends never come apart.     *)
(***************************************************************************)
LinesOpen ==
    \A c \in Conns :
        LET InStep(s, keys, dir, n) ==
                \A i \in DOMAIN s :
                    s[i].kind = "data" /\ s[i].key # None =>
                        /\ keys # None => s[i].key = <<keys, dir>>
                        /\ s[i].n = n + Cardinality({j \in 1 .. i - 1 : s[j].kind = "data"})
        IN  /\ InStep(up[c], server[c].keys, "c2s", server[c].rx)
            /\ InStep(down[c], client[c].keys, "s2c", client[c].rx)

(***************************************************************************)
(* From the client to the chat server, and back, through the proxy or not  *)
(* and also when it alters a record.                                       *)
(***************************************************************************)
Upwards == INSTANCE SecureLines WITH
    genuine <- Genuine(Front), said <- said[Front].up, heard <- heard[Last].up
UpLines == Upwards!Spec
Downwards == INSTANCE SecureLines WITH
    genuine <- Genuine(Front), said <- said[Last].down, heard <- heard[Front].down
DownLines == Downwards!Spec

BothWays == UpLines /\ DownLines

(***************************************************************************)
(* A handshake that has begun ends, with a session or without.             *)
(***************************************************************************)
HandshakeEnds ==
    client[Front].at \in {"cert", "kex", "proof", "check", "finish"}
        ~> client[Front].at \in {"up", "closed"}

(***************************************************************************)
(* When the client is gone the server notices, also behind the proxy,      *)
(* whose threads both end.                                                 *)
(***************************************************************************)
DepartureIsNoticed ==
    client[Front].at = "closed" ~>
        IF Direct THEN server[Front].at = "closed"
        ELSE /\ proxy.at = "accept"
             /\ client[Back].at # "start" => server[Back].at = "closed"

(***************************************************************************)
(* An altered record ends the chat on both sides.                          *)
(***************************************************************************)
TamperingIsCaught ==
    proxy.tamper = "done" ~> server[Back].at = "closed" /\ client[Front].at = "closed"

\* Nobody is left at a connection whose other end has gone or was lied to.
EverythingEnds == HandshakeEnds /\ DepartureIsNoticed /\ TamperingIsCaught

-----------------------------------------------------------------------------
(* Why keys agree and nothing is revealed, inductively. *)

ProxyOK ==
    /\ proxy.at \in {"dial", "upstream", "pump"} => server[Front].step = "Complete"
    /\ proxy.at = "pump" => client[Back].at = "up"

ProxyInv == TypeOK /\ (\A c \in Conns : ConnOK(c)) /\ ProxyOK
=============================================================================
