----------------------------- MODULE PlainRoster -----------------------------
(***************************************************************************)
(* The inductive invariant of PlainChat: where a socket may be while a     *)
(* pass goes on, that g_by_name is the inverse of the registered           *)
(* connections, what those have been told of each other, and what stands   *)
(* between a client that has said who it is and its prompt.                *)
(***************************************************************************)
EXTENDS PlainChat

\* What the relay holds for a socket, and where it stands in its pass.
SocketsOK ==
    /\ \A f \in Fds : link[f] # "open" => conns[f] = NoConn /\ ready[f] = {}
    /\ turn.fd # NoFd => link[turn.fd] = "open" /\ turn.fd \notin doomed /\ ready[turn.fd] = {}
    /\ \A f \in doomed : ready[f] = {}
    /\ \A f \in Fds : link[f] = "backlog" => down[f] = <<>>

\* g_by_name is the inverse of the registered connections.
NamesInverse ==
    /\ \A n \in Names : byName[n] # NoFd =>
            conns[byName[n]].reg /\ conns[byName[n]].user = n
    /\ \A f \in Fds : conns[f].reg => conns[f].user \in Names /\ byName[conns[f].user] = f

\* Who has not logged in has been told nothing.
NewsOK == \A f \in Fds : ~conns[f].reg => \A n \in Names : conns[f].news[n] = "none"

\* The client of this repository asks for one name only, and is told OK when it has it.
AsksFor(wire, name) == \A i \in DOMAIN wire : wire[i].verb = "LOGIN" => wire[i].name = name

ToldOk(wire) == \E i \in DOMAIN wire : wire[i].verb = "OK"

LoginOK ==
    \A f \in Fds : link[f] \in {"backlog", "open"} /\ clients[f].st \in {"login", "on"} =>
        /\ clients[f].user \in Names /\ AsksFor(up[f], clients[f].user)
        /\ ToldOk(down[f]) \/ ToldOk(conns[f].out) \/ clients[f].st = "on" =>
                byName[clients[f].user] = f

RosterInv == TypeOK /\ SocketsOK /\ NamesInverse /\ NewsOK /\ NewsAgree /\ LoginOK
=============================================================================
