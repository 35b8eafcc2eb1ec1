------------------------------ MODULE PlainChat ------------------------------
(***************************************************************************)
(* The first version of the system, whole: the relay and its clients, in   *)
(* the clear.  The relay is one thread around poll(); a client is a main   *)
(* thread that takes what the user types and a reader thread that shows    *)
(* what arrives.  Here a message is followed from the keyboard of one user *)
(* to the screen of another, through a socket that holds a few lines in    *)
(* each direction, while clients come, quit and disappear and the relay is *)
(* stopped and started.  A client is named by the descriptor it has at the *)
(* relay; a stranger is a peer that is not the client of this repository   *)
(* and may send any line.                                                  *)
(***************************************************************************)
EXTENDS Naturals, Sequences, FiniteSets

CONSTANTS
    Fds,         \* descriptors, one for each client
    NoFd,        \* no descriptor
    Names,       \* valid usernames
    NoName,      \* anything else that stands for a name
    Strangers,   \* descriptors at which any peer may connect
    StrangeVerbs,\* what a stranger may say
    Rooms,       \* how many descriptors a relay process may have for its clients
    SocketRoom,  \* lines a socket holds that its reader has not taken
    MaxOut,      \* MAX_OUT_QUEUE, in lines
    MaxMessages, \* bound: chat messages typed
    MaxAsks,     \* bound: other lines, over all clients
    MaxRuns      \* bound: starts of the relay

ASSUME PlainChatAssumption ==
    /\ NoFd \notin Fds /\ NoName \notin Names /\ Strangers \subseteq Fds
    /\ Rooms \subseteq Nat
    /\ StrangeVerbs \subseteq {"bad", "LOGIN", "MSG", "WHO", "QUIT", "other"}
    /\ {SocketRoom, MaxOut, MaxMessages, MaxAsks, MaxRuns} \subseteq Nat

VARIABLES
    relay,   \* the relay process: how often it was started, is it running, its limit
    conns,   \* g_conns
    byName,  \* g_by_name
    ready,   \* what poll reported, for the sockets still to be served in this pass
    turn,    \* the socket being served, and whether it is being read
    doomed,  \* sockets to drop at the end of the pass
    link,    \* each socket: unused, in the listener's backlog, open, closed by the relay
    clients, \* the client processes
    up,      \* lines from each client the relay has not handled
    down,    \* lines the relay has written and the client has not read
    fate,    \* what became of each message: the relay's log, and the screens
    asks     \* lines counted for MaxAsks

relayVars == <<relay, conns, byName, ready, turn, doomed>>
vars == <<relayVars, link, clients, up, down, fate, asks>>

Messages == 1 .. MaxMessages

Line(verb, name, msg) == [verb |-> verb, name |-> name, msg |-> msg]
Err == Line("ERR", NoName, 0)

\* news: what INFO lines have told the client of each name (a history variable).
NoConn == [reg |-> FALSE, user |-> NoName, want |-> FALSE, out |-> <<>>,
           news |-> [n \in Names |-> "none"]]

NoClient == [st |-> "off", user |-> NoName, partner |-> NoName]

Open == {f \in Fds : link[f] = "open"}
Backlog == {f \in Fds : link[f] = "backlog"}

Init ==
    /\ relay = [runs |-> 0, on |-> FALSE, room |-> 0]
    /\ conns = [f \in Fds |-> NoConn]
    /\ byName = [n \in Names |-> NoFd]
    /\ ready = [f \in Fds |-> {}]
    /\ turn = [fd |-> NoFd, reads |-> FALSE]
    /\ doomed = {}
    /\ link = [f \in Fds |-> "unused"]
    /\ clients = [f \in Fds |-> NoClient]
    /\ up = [f \in Fds |-> <<>>]
    /\ down = [f \in Fds |-> <<>>]
    /\ fate = [m \in Messages |-> "unsent"]
    /\ asks = 0

-----------------------------------------------------------------------------
(* The relay: its queues. *)

SendLine(c, line) ==
    [c EXCEPT !.out = Append(@, line),
              !.news = IF line.verb \in {"joined", "left"}
                       THEN [@ EXCEPT ![line.name] = line.verb] ELSE @]

Broadcast(cs, line, except) ==
    [f \in Fds |-> IF f # except /\ cs[f].reg THEN SendLine(cs[f], line) ELSE cs[f]]

\* flush_out: how many lines the socket takes, and the write that finds the
\* client gone.
Takes(f) ==
    LET room == SocketRoom - Len(down[f])
        n == Len(conns[f].out)
    IN  IF n < room THEN n ELSE room

\* Mutant: what the socket does not take is thrown away.
FlushAll(f) ==
    /\ Len(conns[f].out) - Takes(f) <= MaxOut
    /\ conns' = [conns EXCEPT ![f].out = <<>>]
    /\ down' = [down EXCEPT ![f] = @ \o SubSeq(conns[f].out, 1, Takes(f))]

Flush(f) ==
    /\ Len(conns[f].out) - Takes(f) <= MaxOut
    /\ conns' = [conns EXCEPT ![f].out = SubSeq(@, Takes(f) + 1, Len(@))]
    /\ down' = [down EXCEPT ![f] = @ \o SubSeq(conns[f].out, 1, Takes(f))]

FlushFails(f) ==
    /\ conns[f].out # <<>>
    /\ Len(conns[f].out) - Takes(f) > MaxOut \/ clients[f].st = "gone"

-----------------------------------------------------------------------------
(* The relay: its life and its passes. *)

PassOver == turn.fd = NoFd /\ \A f \in Fds : ready[f] = {}

StartRelay ==
    /\ ~relay.on /\ relay.runs < MaxRuns
    /\ \E room \in Rooms : relay' = [on |-> TRUE, runs |-> relay.runs + 1, room |-> room]
    /\ UNCHANGED <<conns, byName, ready, turn, doomed, link, clients, up, down, fate, asks>>

\* Every socket is closed, those in the backlog included.
StopRelay ==
    /\ relay.on /\ PassOver /\ doomed = {}
    /\ relay' = [relay EXCEPT !.on = FALSE]
    /\ conns' = [f \in Fds |-> NoConn]
    /\ byName' = [n \in Names |-> NoFd]
    /\ link' = [f \in Fds |-> IF clients[f].st \in {"off", "gone"} THEN "unused" ELSE "closed"]
    /\ clients' = [f \in Fds |-> IF clients[f].st = "gone" THEN NoClient ELSE clients[f]]
    /\ down' = [f \in Fds |-> IF clients[f].st = "gone" THEN <<>> ELSE down[f]]
    /\ up' = [f \in Fds |-> <<>>]
    /\ UNCHANGED <<ready, turn, doomed, fate, asks>>

Events(f) ==
    {e \in {"in", "out"} :
        \/ e = "in" /\ (up[f] # <<>> \/ clients[f].st = "gone")
        \/ e = "out" /\ conns[f].out # <<>> /\ Takes(f) > 0}

\* Mutant: the relay goes on only when everybody could be accepted.
AcceptedAll == {Backlog}

\* accept_new empties the backlog, or stops for want of descriptors.
Accepted ==
    {A \in SUBSET Backlog :
        A = Backlog \/ Cardinality(A) = relay.room - Cardinality(Open)}

Poll ==
    /\ relay.on /\ PassOver /\ doomed = {}
    /\ \E A \in Accepted :
        /\ Cardinality(A) + Cardinality(Open) <= relay.room
        /\ A # {} \/ \E f \in Open : Events(f) # {}
        /\ ready' = [f \in Fds |-> IF f \in Open THEN Events(f) ELSE {}]
        /\ link' = [f \in Fds |-> IF f \in A THEN "open" ELSE link[f]]
    /\ UNCHANGED <<relay, conns, byName, turn, doomed, clients, up, down, fate, asks>>

Doom(f) ==
    /\ doomed' = doomed \cup {f}
    /\ turn' = [fd |-> NoFd, reads |-> FALSE]

\* A reset is reported as POLLERR, and the socket is not read any more.
Serve(f) ==
    /\ turn.fd = NoFd /\ ready[f] # {}
    /\ ready' = [ready EXCEPT ![f] = {}]
    /\ \/ clients[f].st = "gone" /\ Doom(f) /\ UNCHANGED <<conns, down>>
       \/ "out" \in ready[f] /\ FlushFails(f) /\ Doom(f) /\ UNCHANGED <<conns, down>>
       \/ /\ IF "out" \in ready[f] THEN Flush(f) ELSE UNCHANGED <<conns, down>>
          /\ turn' = [fd |-> f, reads |-> "in" \in ready[f]]
          /\ UNCHANGED doomed
    /\ UNCHANGED <<relay, byName, link, clients, up, fate, asks>>

\* on_readable: recv finds nothing more, the end of the stream, or is not called
\* again because the connection is to be closed.
StopsReading(f) == turn.reads => up[f] = <<>> \/ conns[f].want

PeerClosed(f) == turn.reads /\ up[f] = <<>> /\ clients[f].st = "gone"

Finish(f) ==
    /\ turn.fd = f /\ StopsReading(f)
    /\ \/ PeerClosed(f) /\ Doom(f) /\ UNCHANGED <<conns, down>>
       \/ ~PeerClosed(f) /\ FlushFails(f) /\ Doom(f) /\ UNCHANGED <<conns, down>>
       \/ /\ ~PeerClosed(f)
          /\ Flush(f)
          /\ IF conns'[f].want /\ conns'[f].out = <<>>
             THEN Doom(f)
             ELSE turn' = [fd |-> NoFd, reads |-> FALSE] /\ UNCHANGED doomed
    /\ UNCHANGED <<relay, byName, ready, link, clients, up, fate, asks>>

\* Mutant: the others are not told.
DropQuietly(f) ==
    /\ PassOver /\ f \in doomed
    /\ doomed' = doomed \ {f}
    /\ byName' = [n \in Names |-> IF byName[n] = f THEN NoFd ELSE byName[n]]
    /\ conns' = [conns EXCEPT ![f] = NoConn]
    /\ link' = [link EXCEPT ![f] = IF clients[f].st = "gone" THEN "unused" ELSE "closed"]
    /\ clients' = [clients EXCEPT ![f] = IF @.st = "gone" THEN NoClient ELSE @]
    /\ down' = [down EXCEPT ![f] = IF clients[f].st = "gone" THEN <<>> ELSE @]
    /\ up' = [up EXCEPT ![f] = <<>>]
    /\ UNCHANGED <<relay, ready, turn, fate, asks>>

\* drop_conn: what the socket took can still be read, the queue is lost.
Drop(f) ==
    LET c == conns[f] IN
    /\ PassOver /\ f \in doomed
    /\ doomed' = doomed \ {f}
    /\ byName' = [n \in Names |-> IF byName[n] = f THEN NoFd ELSE byName[n]]
    /\ conns' = [(IF c.reg THEN Broadcast(conns, Line("left", c.user, 0), f) ELSE conns)
                    EXCEPT ![f] = NoConn]
    /\ link' = [link EXCEPT ![f] = IF clients[f].st = "gone" THEN "unused" ELSE "closed"]
    /\ clients' = [clients EXCEPT ![f] = IF @.st = "gone" THEN NoClient ELSE @]
    /\ down' = [down EXCEPT ![f] = IF clients[f].st = "gone" THEN <<>> ELSE @]
    /\ up' = [up EXCEPT ![f] = <<>>]
    /\ UNCHANGED <<relay, ready, turn, fate, asks>>

-----------------------------------------------------------------------------
(* The relay: one line. *)

Becomes(f, c) == conns' = [conns EXCEPT ![f] = c] /\ UNCHANGED <<byName, fate>>

\* Mutant: a name may be taken twice.
LoginAnyName(f, name) ==
    LET c == conns[f] IN
    \/ c.reg /\ Becomes(f, SendLine(c, Err))
    \/ /\ ~c.reg /\ name \notin Names
       /\ Becomes(f, [SendLine(c, Err) EXCEPT !.want = TRUE])
    \/ /\ ~c.reg /\ name \in Names
       /\ byName' = [byName EXCEPT ![name] = f]
       /\ conns' = Broadcast([conns EXCEPT ![f] =
                                  [SendLine(c, Line("OK", name, 0)) EXCEPT !.reg = TRUE, !.user = name]],
                              Line("joined", name, 0), f)
       /\ UNCHANGED fate

HandleLogin(f, name) ==
    LET c == conns[f]
        free == name \in Names /\ byName[name] = NoFd
    IN
    \/ c.reg /\ Becomes(f, SendLine(c, Err))
    \/ ~c.reg /\ ~free /\ Becomes(f, [SendLine(c, Err) EXCEPT !.want = TRUE])
    \/ /\ ~c.reg /\ free
       /\ byName' = [byName EXCEPT ![name] = f]
       /\ conns' = Broadcast([conns EXCEPT ![f] =
                                  [SendLine(c, Line("OK", name, 0)) EXCEPT !.reg = TRUE, !.user = name]],
                              Line("joined", name, 0), f)
       /\ UNCHANGED fate

Logs(msg, what) == fate' = [fate EXCEPT ![msg] = what]

\* The RELAY line is written when the message is queued.  A line without text
\* (message 0) is answered with the usage.
HandleMsg(f, to, msg) ==
    LET found == to \in Names /\ byName[to] # NoFd IN
    \/ msg = 0 /\ Becomes(f, SendLine(conns[f], Err))
    \/ /\ msg # 0 /\ found
       /\ conns' = [conns EXCEPT ![byName[to]] = SendLine(@, Line("FROM", conns[f].user, msg))]
       /\ Logs(msg, "relayed")
       /\ UNCHANGED byName
    \/ /\ msg # 0 /\ ~found
       /\ conns' = [conns EXCEPT ![f] = SendLine(@, Err)]
       /\ Logs(msg, "undelivered")
       /\ UNCHANGED byName

HandleWho(f) == Becomes(f, SendLine(conns[f], Line("USERS", NoName, 0)))

HandleLine(f, line) ==
    LET c == conns[f] IN
    \/ /\ ~c.reg /\ line.verb # "LOGIN"
       /\ Becomes(f, [SendLine(c, Err) EXCEPT !.want = TRUE])
    \/ line.verb = "LOGIN" /\ HandleLogin(f, line.name)
    \/ c.reg /\ line.verb = "MSG" /\ HandleMsg(f, line.name, line.msg)
    \/ c.reg /\ line.verb = "WHO" /\ HandleWho(f)
    \/ c.reg /\ line.verb = "QUIT" /\ Becomes(f, [c EXCEPT !.want = TRUE])
    \/ c.reg /\ line.verb = "other" /\ Becomes(f, SendLine(c, Err))

\* drain_records: a record that is malformed, too large or of another type dooms
\* the connection; reading stops once it is to be closed.
DrainRecord(f) ==
    /\ turn.fd = f /\ turn.reads /\ up[f] # <<>>
    /\ up' = [up EXCEPT ![f] = Tail(@)]
    /\ \/ /\ Head(up[f]).verb = "bad"
          /\ Doom(f)
          /\ UNCHANGED <<conns, byName, fate>>
       \/ /\ Head(up[f]).verb # "bad"
          /\ HandleLine(f, Head(up[f]))
          /\ turn' = [turn EXCEPT !.reads = ~conns'[f].want]
          /\ UNCHANGED doomed
    /\ UNCHANGED <<relay, ready, link, clients, down, asks>>

Relay ==
    \/ Poll
    \/ \E f \in Fds : Serve(f) \/ DrainRecord(f) \/ Finish(f) \/ Drop(f)

-----------------------------------------------------------------------------
(* The clients. *)

\* bail: the process ends, and the socket with it.
Ends(f) ==
    /\ clients' = [clients EXCEPT ![f] =
                       IF link[f] = "closed" THEN NoClient ELSE [NoClient EXCEPT !.st = "gone"]]
    /\ link' = [link EXCEPT ![f] = IF @ = "closed" THEN "unused" ELSE @]

Sends(f, line) == up' = [up EXCEPT ![f] = IF link[f] = "closed" THEN @ ELSE Append(@, line)]

Asks == asks < MaxAsks /\ asks' = asks + 1

\* connect_to: the kernel completes the connection before accept is called.
Dials(f) ==
    /\ relay.on /\ link[f] = "unused"
    /\ link' = [link EXCEPT ![f] = "backlog"]
    /\ down' = [down EXCEPT ![f] = <<>>]

Connect(f, name) ==
    /\ Dials(f) /\ Asks
    /\ clients' = [clients EXCEPT ![f] = [NoClient EXCEPT !.st = "login", !.user = name]]
    /\ up' = [up EXCEPT ![f] = <<Line("LOGIN", name, 0)>>]
    /\ UNCHANGED <<relayVars, fate>>

\* main: the first line is the verdict, whatever it says.
Verdict(f) ==
    /\ clients[f].st = "login" /\ down[f] # <<>>
    /\ down' = [down EXCEPT ![f] = Tail(@)]
    /\ IF Head(down[f]).verb = "OK"
       THEN clients' = [clients EXCEPT ![f].st = "on"] /\ UNCHANGED link
       ELSE Ends(f)
    /\ UNCHANGED <<relayVars, up, fate, asks>>

Display(line) == IF line.verb = "FROM" THEN Logs(line.msg, "shown") ELSE UNCHANGED fate

Reads(f) ==
    /\ clients[f].st \in {"on", "strange"} /\ down[f] # <<>>
    /\ down' = [down EXCEPT ![f] = Tail(@)]
    /\ Display(Head(down[f]))
    /\ UNCHANGED <<relayVars, link, clients, up, asks>>

SeesClose(f) ==
    /\ link[f] = "closed" /\ down[f] = <<>>
    /\ Ends(f)
    /\ UNCHANGED <<relayVars, up, down, fate, asks>>

Unsent == {m \in Messages : fate[m] = "unsent"}

SendsMessage(f, to) ==
    \E m \in Unsent :
        /\ \A k \in Unsent : m <= k
        /\ Sends(f, Line("MSG", to, m))
        /\ Logs(m, "sent")
        /\ clients' = [clients EXCEPT ![f].partner = to]
        /\ UNCHANGED <<link, asks>>

Quits(f) == Sends(f, Line("QUIT", NoName, 0)) /\ Ends(f) /\ UNCHANGED <<fate, asks>>

\* @user text; /chat user; text for the partner last selected, if there is one;
\* /who; /quit.
HandleInput(f) ==
    /\ clients[f].st = "on"
    /\ \/ \E to \in Names \cup {NoName} : SendsMessage(f, to)
       \/ \E to \in Names :
            /\ clients' = [clients EXCEPT ![f].partner = to]
            /\ clients' # clients
            /\ UNCHANGED <<link, up, fate, asks>>
       \/ clients[f].partner # NoName /\ SendsMessage(f, clients[f].partner)
       \/ Asks /\ Sends(f, Line("WHO", NoName, 0)) /\ UNCHANGED <<link, clients, fate>>
       \/ Quits(f)
    /\ UNCHANGED <<relayVars, down>>

EndOfInput(f) ==
    /\ clients[f].st = "on" /\ Quits(f)
    /\ UNCHANGED <<relayVars, down>>

\* The process is killed.
Dies(f) ==
    /\ clients[f].st \in {"login", "on", "strange"}
    /\ Ends(f)
    /\ down' = [down EXCEPT ![f] = IF link[f] = "closed" THEN <<>> ELSE @]
    /\ UNCHANGED <<relayVars, up, fate, asks>>

StrangerConnects(f) ==
    /\ f \in Strangers /\ Dials(f)
    /\ clients' = [clients EXCEPT ![f] = [NoClient EXCEPT !.st = "strange"]]
    /\ UNCHANGED <<relayVars, up, fate, asks>>

StrangerSays(f) ==
    /\ clients[f].st = "strange" /\ Asks
    /\ \E verb \in StrangeVerbs, name \in Names \cup {NoName} :
        /\ name = NoName \/ verb = "LOGIN"
        /\ Sends(f, Line(verb, name, 0))
    /\ UNCHANGED <<relayVars, link, clients, down, fate>>

Clients ==
    \E f \in Fds :
        \/ \E name \in Names : Connect(f, name)
        \/ Verdict(f) \/ Reads(f) \/ SeesClose(f) \/ HandleInput(f) \/ EndOfInput(f) \/ Dies(f)
        \/ StrangerConnects(f) \/ StrangerSays(f)

Next == StartRelay \/ StopRelay \/ Relay \/ Clients

Spec == Init /\ [][Next]_vars

\* The relay's loop runs, and each client reads what has arrived.
FairSpec ==
    /\ Spec
    /\ WF_vars(Relay)
    /\ \A f \in Fds : WF_vars(Verdict(f) \/ Reads(f) \/ SeesClose(f))

-----------------------------------------------------------------------------
LineType ==
    [verb : {"LOGIN", "MSG", "WHO", "QUIT", "other", "bad",
             "OK", "ERR", "FROM", "USERS", "joined", "left"},
     name : Names \cup {NoName}, msg : 0 .. MaxMessages]

TypeOK ==
    /\ relay \in [runs : Nat, on : BOOLEAN, room : {0} \cup Rooms]
    /\ conns \in [Fds -> [reg : BOOLEAN, user : Names \cup {NoName}, want : BOOLEAN,
                          out : Seq(LineType), news : [Names -> {"none", "joined", "left"}]]]
    /\ byName \in [Names -> Fds \cup {NoFd}]
    /\ ready \in [Fds -> SUBSET {"in", "out"}]
    /\ turn \in [fd : Fds \cup {NoFd}, reads : BOOLEAN]
    /\ doomed \subseteq Open
    /\ \A f \in Fds : Len(down[f]) <= SocketRoom
    /\ link \in [Fds -> {"unused", "backlog", "open", "closed"}]
    /\ clients \in [Fds -> [st : {"off", "login", "on", "strange", "gone"},
                            user : Names \cup {NoName}, partner : Names \cup {NoName}]]
    /\ up \in [Fds -> Seq(LineType)] /\ down \in [Fds -> Seq(LineType)]
    /\ fate \in [Messages -> {"unsent", "sent", "relayed", "undelivered", "shown"}]
    /\ asks \in Nat

(***************************************************************************)
(* Clients and relay together are the chat service: what a client has been *)
(* written or is queued for it is its inbox, and g_by_name the roster.     *)
(***************************************************************************)
Service ==
    INSTANCE ChatService WITH Slots <- Fds, NoSlot <- NoFd, roster <- byName,
        inbox <- [f \in Fds |-> down[f] \o conns[f].out]

ServiceSpec == Service!Spec

(***************************************************************************)
(* Of any two users who are logged in, the one who was there first has     *)
(* been told of the other, and the INFO lines never leave a user with a    *)
(* wrong idea of who is there: broadcast skips the one the news is about,  *)
(* and a name that comes back is announced again.                          *)
(***************************************************************************)
NewsAgree ==
    \A f \in Fds : conns[f].reg =>
        /\ \A n \in Names :
            /\ conns[f].news[n] = "joined" => byName[n] # NoFd
            /\ conns[f].news[n] = "left" => byName[n] = NoFd
        /\ \A g \in Fds \ {f} : conns[g].reg =>
            conns[f].news[conns[g].user] = "joined" \/ conns[g].news[conns[f].user] = "joined"

(***************************************************************************)
(* A client whose prompt is up is logged in under the name it was started  *)
(* with for as long as its connection lives: client.cpp goes interactive   *)
(* on the first line that says OK, whoever's it is.                        *)
(***************************************************************************)
AdmittedIsRegistered ==
    \A f \in Fds :
        clients[f].st = "on" /\ link[f] = "open" => byName[clients[f].user] = f

(***************************************************************************)
(* No message stays on its way for ever: it is shown, refused, or lost     *)
(* with a connection.  This holds with clients in the backlog for which    *)
(* accept has no descriptor, and with sockets that are full.               *)
(***************************************************************************)
Waits(m) ==
    \E f \in Fds : \E wire \in {up[f], conns[f].out, down[f]} :
        link[f] # "unused" /\ \E i \in DOMAIN wire : wire[i].msg = m

NoneWaits == \A m \in Messages : Waits(m) ~> ~Waits(m)

(***************************************************************************)
(* Once the relay has closed a connection, or stopped, the client notices  *)
(* and ends; and a client that has ended makes room at the relay.          *)
(***************************************************************************)
ClosedIsNoticed ==
    \A f \in Fds :
        /\ link[f] = "closed" ~> link[f] # "closed"
        /\ clients[f].st = "gone" /\ link[f] = "open" ~> clients[f].st # "gone"

\* Whoever speaks, waits or leaves is attended to.
EveryoneIsServed == NoneWaits /\ ClosedIsNoticed

(***************************************************************************)
(* docs/protocol.md: "RELAY is written only after the recipient resolves,  *)
(* so the line means the message was actually delivered."                  *)
(***************************************************************************)
RelayedIsShown == \A m \in Messages : fate[m] = "relayed" ~> fate[m] = "shown"
=============================================================================
