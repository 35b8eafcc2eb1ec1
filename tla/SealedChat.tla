----------------------------- MODULE SealedChat -----------------------------
(***************************************************************************)
(* The second version of the system: every connection begins with a        *)
(* Diffie-Hellman exchange that nobody signs, and every line is sealed     *)
(* under the keys of its connection.  Some clients reach the relay through *)
(* the proxy of the demonstration, which makes one exchange with its       *)
(* victim and another with the relay, reads each line and seals it again,  *)
(* one victim at a time.  A connection carries records; what the relay has *)
(* queued for it and what the socket has taken are one sequence here, and  *)
(* module PlainChat tells them apart.                                      *)
(***************************************************************************)
EXTENDS Integers, Sequences, FiniteSets

CONSTANTS
    Clients,     \* processes that connect, each once
    NoClient,    \* no client
    Victims,     \* the clients that are pointed at the proxy
    Strangers,   \* the ones that need not be the client of this repository
    Names,       \* valid usernames
    NoName,      \* anything else that stands for a name
    NoKeys,      \* the keys of bytes that nobody sealed
    NoPub,       \* a public value that compute_shared refuses
    Tamper,      \* was the proxy started with --tamper?
    KeygenFails, \* may a key pair fail to be generated?
    WhoMax,      \* how many names fit in a record
    MaxLines,    \* bound: lines typed, over all clients
    MaxJunk      \* bound: records strangers send

ASSUME SealedChatAssumption ==
    /\ Victims \subseteq Clients /\ Strangers \subseteq Clients
    /\ NoClient \notin Clients /\ NoName \notin Names
    /\ {Tamper, KeygenFails} \subseteq BOOLEAN
    /\ {WhoMax, MaxLines, MaxJunk} \subseteq Nat

VARIABLES
    ends,     \* each connection: the sides that hold it, or whose kernel does
    up,       \* records towards the side that accepted
    down,     \* records towards the side that dialled
    clients,  \* the client processes
    conns,    \* g_conns, by the client at the far end
    byName,   \* g_by_name
    proxy,    \* main of the proxy, its two sessions and its two pumps
    lines,    \* lines typed so far
    junk      \* records strangers have sent so far

vars == <<ends, up, down, clients, conns, byName, proxy, lines, junk>>

Near(c) == <<c, "near">>
Far(c) == <<c, "far">>
Legs == {Near(c) : c \in Clients} \cup {Far(v) : v \in Victims}

\* The connection of the relay on the way to c.
Last(c) == IF c \in Victims THEN Far(c) ELSE Near(c)

-----------------------------------------------------------------------------
(* Keys, sessions and records. *)

Pub(leg, side) == <<leg, side>>

\* The secret is that of the two pairs; the transcript holds the random value.
Derive(random, server, client) == [random |-> random, pubs |-> <<server, client>>]

\* `skipped' is no part of a Session: it counts what was sealed and then not sent,
\* so that the properties can speak of it, and no action reads it.
NoSession ==
    [up |-> FALSE, keys |-> NoKeys, role |-> "Client", tx |-> 0, rx |-> 0, skipped |-> 0]

Install(keys, role) ==
    [up |-> TRUE, keys |-> keys, role |-> role, tx |-> 0, rx |-> 0, skipped |-> 0]

Line(verb, name, msg) == [verb |-> verb, name |-> name, msg |-> msg]
Err == Line("ERR", NoName, 0)

Hs(kind, val) == [type |-> "handshake", kind |-> kind, val |-> val]
Alert == [type |-> "alert"]

\* Session::seal, whose counter is the nonce.
Sealed(s, line) ==
    [type |-> "appdata", keys |-> s.keys, role |-> s.role, seq |-> s.tx, line |-> line]

Counted(s) == [s EXCEPT !.tx = @ + 1]

Skipped(s) == [Counted(s) EXCEPT !.skipped = @ + 1]

Junk == Sealed(NoSession, Err)

Opens(s, r) ==
    s.up /\ r.type = "appdata" /\ r.keys = s.keys /\ r.role # s.role /\ r.seq = s.rx

Opened(s) == [s EXCEPT !.rx = @ + 1]

(* ServerHandshake: for the relay, and for the proxy towards its victim. *)

NewHandshake == [step |-> "AwaitClientHello", random |-> NoKeys]

FeedAnswers(h, r) == h.step = "AwaitClientHello" /\ r.kind = "ClientHello"

FeedCompletes(h, r) == h.step = "AwaitClientKex" /\ r.kind = "ClientKex" /\ r.val # NoPub

\* Also at a version or a length that is not right.
FeedFails(h, r) ==
    \/ ~FeedAnswers(h, r) /\ ~FeedCompletes(h, r)
    \/ FeedAnswers(h, r) /\ KeygenFails

\* Mutant: the random value of the client is not kept.
AnsweredForgets(r) == [step |-> "AwaitClientKex", random |-> NoKeys]

Answered(r) == [step |-> "AwaitClientKex", random |-> r.val]

ServerKeys(h, leg, r) == Derive(h.random, Pub(leg, "server"), r.val)

(* client_handshake: for a client, and for the proxy towards the relay. *)

Hello(leg) == Hs("ClientHello", leg)

Kex(leg) == Hs("ClientKex", Pub(leg, "client"))

IsServerKex(r) == r.type = "handshake" /\ r.kind = "ServerKex"

ClientKeys(leg, r) == Derive(leg, r.val, Pub(leg, "client"))

Put(wire, leg, r) == [wire EXCEPT ![leg] = Append(@, r)]
Take(wire, leg) == [wire EXCEPT ![leg] = Tail(@)]

-----------------------------------------------------------------------------
NoConn == [st |-> "none", hs |-> NewHandshake, sess |-> NoSession,
           user |-> NoName, want |-> FALSE]

NoProcess == [st |-> "off", user |-> NoName, sess |-> NoSession]

\* The proxy between two victims.
Idle(p) ==
    [p EXCEPT !.st = "accept", !.victim = NoClient, !.hs = NewHandshake,
              !.vsess = NoSession, !.ssess = NoSession, !.pumps = {}]

Init ==
    /\ ends = [l \in Legs |-> {}]
    /\ up = [l \in Legs |-> <<>>]
    /\ down = [l \in Legs |-> <<>>]
    /\ clients = [c \in Clients |-> NoProcess]
    /\ conns = [c \in Clients |-> NoConn]
    /\ byName = [n \in Names |-> NoClient]
    /\ proxy = [st |-> "accept", victim |-> NoClient, hs |-> NewHandshake,
                vsess |-> NoSession, ssess |-> NoSession, pumps |-> {},
                armed |-> Tamper, hit |-> NoClient]
    /\ lines = 0 /\ junk = 0

-----------------------------------------------------------------------------
(* The relay: replies.  st is g_conns with what is on the way from it. *)

Now == [conns |-> conns, down |-> down]

Becomes(st) == conns' = st.conns /\ down' = st.down

\* Mutant: the counter stays.
AfterLineSameCount(conn) == IF conn.sess.up THEN conn ELSE [conn EXCEPT !.want = TRUE]

\* What send_line does to a connection, and what it queues.  Of all lines only a
\* roster can be too long for that: a client's own are cut off at MAX_PLAINTEXT.
AfterLine(conn) ==
    IF conn.sess.up THEN [conn EXCEPT !.sess = Counted(@)] ELSE [conn EXCEPT !.want = TRUE]

Queued(conn, line) == IF conn.sess.up THEN <<Sealed(conn.sess, line)>> ELSE <<>>

SendLines(st, whom, line) ==
    [conns |-> [c \in Clients |-> IF c \in whom THEN AfterLine(st.conns[c]) ELSE st.conns[c]],
     down |-> [l \in Legs |-> IF l[1] \in whom /\ l = Last(l[1])
                              THEN st.down[l] \o Queued(st.conns[l[1]], line)
                              ELSE st.down[l]]]

SendLine(st, c, line) == SendLines(st, {c}, line)

Closing(st, c) == [st EXCEPT !.conns[c].want = TRUE]

\* A connection that failed is told so and closed.
SendAlert(c) == Closing([Now EXCEPT !.down = Put(@, Last(c), Alert)], c)

Registered(c) == conns[c].user # NoName

\* Mutant: nobody is left out.
BroadcastToAll(st, line, except) ==
    SendLines(st, {c \in Clients : st.conns[c].user # NoName}, line)

Broadcast(st, line, except) ==
    SendLines(st, {c \in Clients \ {except} : Registered(c)}, line)

-----------------------------------------------------------------------------
(* The relay: one line. *)

HandleLogin(st, c, name) ==
    LET free == name \in Names /\ byName[name] = NoClient IN
    \/ Registered(c) /\ Becomes(SendLine(st, c, Err)) /\ UNCHANGED byName
    \/ ~Registered(c) /\ ~free /\ Becomes(Closing(SendLine(st, c, Err), c)) /\ UNCHANGED byName
    \/ /\ ~Registered(c) /\ free
       /\ byName' = [byName EXCEPT ![name] = c]
       /\ Becomes(Broadcast(SendLine([st EXCEPT !.conns[c].user = name], c, Line("OK", name, 0)),
                            Line("joined", name, 0), c))

HandleMsg(st, c, to, msg) ==
    LET found == to \in Names /\ byName[to] # NoClient IN
    /\ Becomes(IF found THEN SendLine(st, byName[to], Line("FROM", conns[c].user, msg))
                        ELSE SendLine(st, c, Err))
    /\ UNCHANGED byName

\* A roster above MAX_RECORD is sealed and then not enqueued.
SendUsers(st, c) ==
    IF Cardinality({n \in Names : byName[n] # NoClient}) <= WhoMax
    THEN SendLine(st, c, Line("USERS", NoName, 0))
    ELSE [st EXCEPT !.conns[c].sess = Skipped(@)]

HandleWho(st, c) == Becomes(SendUsers(st, c)) /\ UNCHANGED byName

HandleLine(st, c, line) ==
    \/ /\ ~Registered(c) /\ line.verb # "LOGIN"
       /\ Becomes(Closing(SendLine(st, c, Err), c)) /\ UNCHANGED byName
    \/ line.verb = "LOGIN" /\ HandleLogin(st, c, line.name)
    \/ Registered(c) /\ line.verb = "MSG" /\ HandleMsg(st, c, line.name, line.msg)
    \/ Registered(c) /\ line.verb = "WHO" /\ HandleWho(st, c)
    \/ Registered(c) /\ line.verb = "QUIT" /\ Becomes(Closing(st, c)) /\ UNCHANGED byName

-----------------------------------------------------------------------------
(* The relay: one record, one connection. *)

Dooms(c) == conns' = [conns EXCEPT ![c].st = "doomed"] /\ UNCHANGED <<down, byName>>

\* A handshake record, to the relay.
Negotiates(c, r) ==
    LET conn == conns[c] IN
    /\ ~conn.sess.up
    /\ UNCHANGED byName
    /\ \/ FeedFails(conn.hs, r) /\ Becomes(SendAlert(c))
       \/ /\ FeedAnswers(conn.hs, r)
          /\ conns' = [conns EXCEPT ![c].hs = Answered(r)]
          /\ down' = Put(down, Last(c), Hs("ServerKex", Pub(Last(c), "server")))
       \/ /\ FeedCompletes(conn.hs, r)
          /\ conns' = [conns EXCEPT ![c].hs.step = "Complete",
                                    ![c].sess = Install(ServerKeys(conn.hs, Last(c), r), "Server")]
          /\ UNCHANGED down

\* Another type, a handshake record after completion, a line before it, or a tag
\* that does not match.
Rejected(c, r) ==
    \/ r.type \notin {"handshake", "appdata"}
    \/ r.type = "handshake" /\ conns[c].sess.up
    \/ r.type = "appdata" /\ ~Opens(conns[c].sess, r)

\* A connection that is to be closed is read on while its queue is not empty.
DrainRecord(c) ==
    LET r == Head(up[Last(c)]) IN
    /\ conns[c].st = "open" /\ up[Last(c)] # <<>>
    /\ conns[c].want => down[Last(c)] # <<>>
    /\ up' = Take(up, Last(c))
    /\ \/ Rejected(c, r) /\ Dooms(c)
       \/ r.type = "handshake" /\ Negotiates(c, r)
       \/ /\ Opens(conns[c].sess, r)
          /\ HandleLine([Now EXCEPT !.conns[c].sess = Opened(@)], c, r.line)
    /\ UNCHANGED <<ends, clients, proxy, lines, junk>>

AcceptNew(c) ==
    /\ conns[c].st = "none" /\ "acceptor" \in ends[Last(c)]
    /\ conns' = [conns EXCEPT ![c].st = "open"]
    /\ UNCHANGED <<ends, up, down, clients, byName, proxy, lines, junk>>

\* The other side is gone, which a reset may report before all is read.
PeerClosed(c) ==
    /\ conns[c].st = "open" /\ "dialler" \notin ends[Last(c)]
    /\ Dooms(c)
    /\ UNCHANGED <<ends, up, clients, proxy, lines, junk>>

\* The queue of a connection that is to be closed is out.
Quit(c) ==
    /\ conns[c].st = "open" /\ conns[c].want
    /\ conns' = [conns EXCEPT ![c].st = "flushed"]
    /\ UNCHANGED <<ends, up, down, clients, byName, proxy, lines, junk>>

\* The end of the queue, which the socket has not taken, is lost.
DropConn(c) ==
    LET told == IF Registered(c)
                THEN Broadcast(Now, Line("left", conns[c].user, 0), c) ELSE Now
        most == Len(down[Last(c)])
    IN
    /\ conns[c].st \in {"doomed", "flushed"}
    /\ byName' = [n \in Names |-> IF byName[n] = c THEN NoClient ELSE byName[n]]
    /\ conns' = [told.conns EXCEPT ![c] = NoConn]
    /\ \E k \in (IF conns[c].st = "flushed" THEN {} ELSE 0 .. most) \cup {most} :
        down' = [told.down EXCEPT ![Last(c)] = SubSeq(@, 1, k)]
    /\ ends' = [ends EXCEPT ![Last(c)] = @ \ {"acceptor"}]
    /\ UNCHANGED <<up, clients, proxy, lines, junk>>

Relay ==
    \E c \in Clients :
        AcceptNew(c) \/ DrainRecord(c) \/ PeerClosed(c) \/ Quit(c) \/ DropConn(c)

-----------------------------------------------------------------------------
(* The clients. *)

Ends(c) ==
    /\ clients' = [clients EXCEPT ![c] = [NoProcess EXCEPT !.st = "gone"]]
    /\ ends' = [ends EXCEPT ![Near(c)] = @ \ {"dialler"}]

\* The kernel completes a connection before accept is called.
Dialled(leg) == [ends EXCEPT ![leg] = {"dialler", "acceptor"}]

Connect(c, name) ==
    /\ clients[c].st = "off"
    /\ clients' = [clients EXCEPT ![c].st = "hello", ![c].user = name]
    /\ ends' = Dialled(Near(c))
    /\ up' = Put(up, Near(c), Hello(Near(c)))
    /\ UNCHANGED <<down, conns, byName, proxy, lines, junk>>

\* The public value goes out before the server's is checked.
TakesKex(c) ==
    LET r == Head(down[Near(c)]) IN
    /\ clients[c].st = "hello" /\ down[Near(c)] # <<>>
    /\ down' = Take(down, Near(c))
    /\ \/ /\ ~IsServerKex(r) \/ KeygenFails
          /\ Ends(c) /\ UNCHANGED up
       \/ /\ IsServerKex(r) /\ r.val = NoPub
          /\ Ends(c) /\ up' = Put(up, Near(c), Kex(Near(c)))
       \/ /\ IsServerKex(r) /\ r.val # NoPub
          /\ clients' = [clients EXCEPT ![c].st = "keyed",
                                        ![c].sess = Install(ClientKeys(Near(c), r), "Client")]
          /\ up' = Put(up, Near(c), Kex(Near(c)))
          /\ UNCHANGED ends
    /\ UNCHANGED <<conns, byName, proxy, lines, junk>>

\* send_line of the client, which seals and sends at once.
Says(c, line) ==
    /\ up' = Put(up, Near(c), Sealed(clients[c].sess, line))
    /\ UNCHANGED <<down, conns, byName, proxy, junk>>

Login(c) ==
    /\ clients[c].st = "keyed"
    /\ Says(c, Line("LOGIN", clients[c].user, 0))
    /\ clients' = [clients EXCEPT ![c].st = "login", ![c].sess = Counted(@)]
    /\ UNCHANGED <<ends, lines>>

\* main while it waits for the verdict, then the reader thread.
Reads(c) ==
    LET r == Head(down[Near(c)])
        good == Opens(clients[c].sess, r) /\ (clients[c].st = "login" => r.line.verb = "OK")
    IN
    /\ clients[c].st \in {"login", "on"} /\ down[Near(c)] # <<>>
    /\ down' = Take(down, Near(c))
    /\ IF good
       THEN clients' = [clients EXCEPT ![c].st = "on", ![c].sess = Opened(@)] /\ UNCHANGED ends
       ELSE Ends(c)
    /\ UNCHANGED <<up, conns, byName, proxy, lines, junk>>

SeesClose(c) ==
    /\ clients[c].st \in {"hello", "login", "on"} /\ down[Near(c)] = <<>>
    /\ "acceptor" \notin ends[Near(c)]
    /\ Ends(c)
    /\ UNCHANGED <<up, down, conns, byName, proxy, lines, junk>>

\* @user text, or text for the partner selected before; /who; /quit.
HandleInput(c) ==
    /\ clients[c].st = "on"
    /\ \/ /\ lines < MaxLines /\ lines' = lines + 1
          /\ \/ \E to \in Names \cup {NoName} : Says(c, Line("MSG", to, lines + 1))
             \/ Says(c, Line("WHO", NoName, 0))
          /\ clients' = [clients EXCEPT ![c].sess = Counted(@)]
          /\ UNCHANGED ends
       \/ Says(c, Line("QUIT", NoName, 0)) /\ Ends(c) /\ UNCHANGED lines

\* The process is killed.
Dies(c) ==
    /\ clients[c].st \in {"hello", "keyed", "login", "on", "strange"}
    /\ Ends(c)
    /\ UNCHANGED <<up, down, conns, byName, proxy, lines, junk>>

StrangerConnects(c) ==
    /\ clients[c].st = "off" /\ c \in Strangers
    /\ clients' = [clients EXCEPT ![c].st = "strange"]
    /\ ends' = Dialled(Near(c))
    /\ UNCHANGED <<up, down, conns, byName, proxy, lines, junk>>

StrangerSends(c) ==
    /\ clients[c].st = "strange" /\ junk < MaxJunk
    /\ \E r \in {Hello(Near(c)), Kex(Near(c)), Hs("ClientKex", NoPub), Hs("malformed", NoPub),
                 Alert, Junk} :
        up' = Put(up, Near(c), r)
    /\ junk' = junk + 1
    /\ UNCHANGED <<ends, down, clients, conns, byName, proxy, lines>>

ClientThread(c) == TakesKex(c) \/ Login(c) \/ Reads(c) \/ SeesClose(c)

Users ==
    \E c \in Clients :
        \/ \E name \in Names : Connect(c, name)
        \/ HandleInput(c) \/ Dies(c) \/ StrangerConnects(c) \/ StrangerSends(c)

-----------------------------------------------------------------------------
(* The proxy: main. *)

Victim == proxy.victim

\* close of one or of both sockets, and the next accept.
Forgets(fds) ==
    /\ ends' = [l \in Legs |->
                 IF l \notin fds THEN ends[l]
                 ELSE ends[l] \ {IF l = Near(Victim) THEN "acceptor" ELSE "dialler"}]
    /\ proxy' = Idle(proxy)

ProxyAccepts(v) ==
    /\ proxy.st = "accept" /\ "acceptor" \in ends[Near(v)]
    /\ proxy' = [proxy EXCEPT !.st = "victim", !.victim = v]
    /\ UNCHANGED <<ends, up, down>>

HandshakeAsServer ==
    LET r == Head(up[Near(Victim)]) IN
    /\ proxy.st = "victim" /\ up[Near(Victim)] # <<>>
    /\ up' = Take(up, Near(Victim))
    /\ \/ r.type # "handshake" /\ Forgets({Near(Victim)}) /\ UNCHANGED down
       \/ /\ r.type = "handshake" /\ FeedFails(proxy.hs, r)
          /\ Forgets({Near(Victim)}) /\ UNCHANGED down
       \/ /\ r.type = "handshake" /\ FeedAnswers(proxy.hs, r)
          /\ proxy' = [proxy EXCEPT !.hs = Answered(r)]
          /\ down' = Put(down, Near(Victim), Hs("ServerKex", Pub(Near(Victim), "server")))
          /\ UNCHANGED ends
       \/ /\ r.type = "handshake" /\ FeedCompletes(proxy.hs, r)
          /\ proxy' = [proxy EXCEPT !.st = "dial",
                         !.vsess = Install(ServerKeys(proxy.hs, Near(Victim), r), "Server")]
          /\ UNCHANGED <<ends, down>>

VictimLeaves ==
    /\ proxy.st = "victim" /\ up[Near(Victim)] = <<>> /\ "dialler" \notin ends[Near(Victim)]
    /\ Forgets({Near(Victim)})
    /\ UNCHANGED <<up, down>>

Dials ==
    /\ proxy.st = "dial"
    /\ \/ Forgets({Near(Victim)}) /\ UNCHANGED <<up, down>>
       \/ /\ proxy' = [proxy EXCEPT !.st = "server"]
          /\ ends' = Dialled(Far(Victim))
          /\ up' = Put(up, Far(Victim), Hello(Far(Victim)))
          /\ UNCHANGED down

HandshakeAsClient ==
    LET r == Head(down[Far(Victim)]) IN
    /\ proxy.st = "server" /\ down[Far(Victim)] # <<>>
    /\ down' = Take(down, Far(Victim))
    /\ \/ /\ ~IsServerKex(r) \/ KeygenFails
          /\ Forgets({Near(Victim), Far(Victim)}) /\ UNCHANGED up
       \/ /\ IsServerKex(r)
          /\ proxy' = [proxy EXCEPT !.st = "pump", !.pumps = {"up", "down"},
                         !.ssess = Install(ClientKeys(Far(Victim), r), "Client")]
          /\ up' = Put(up, Far(Victim), Kex(Far(Victim)))
          /\ UNCHANGED ends

ServerLeaves ==
    /\ proxy.st = "server" /\ down[Far(Victim)] = <<>> /\ "acceptor" \notin ends[Far(Victim)]
    /\ Forgets({Near(Victim), Far(Victim)})
    /\ UNCHANGED <<up, down>>

\* Both pumps have ended.
Joins ==
    /\ proxy.st = "pump" /\ proxy.pumps = {}
    /\ Forgets({Near(Victim), Far(Victim)})
    /\ UNCHANGED <<up, down>>

ProxyMain ==
    /\ \/ \E v \in Victims : ProxyAccepts(v)
       \/ HandshakeAsServer \/ VictimLeaves \/ Dials \/ HandshakeAsClient \/ ServerLeaves
       \/ Joins
    /\ UNCHANGED <<clients, conns, byName, lines, junk>>

-----------------------------------------------------------------------------
(* The proxy: its pumps. *)

Pumping(dir) == proxy.st = "pump" /\ dir \in proxy.pumps

\* The first chat record is altered, if the proxy is to do so.
Alters(line) == proxy.armed /\ line.verb = "MSG"

PumpUp ==
    LET r == Head(up[Near(Victim)])
        sealed == Sealed(proxy.ssess, r.line)
        from == Take(up, Near(Victim))
    IN
    /\ Pumping("up") /\ up[Near(Victim)] # <<>>
    /\ \/ r.type # "appdata" /\ up' = Put(from, Far(Victim), r) /\ UNCHANGED proxy
       \/ /\ Opens(proxy.vsess, r) /\ ~Alters(r.line)
          /\ up' = Put(from, Far(Victim), sealed)
          /\ proxy' = [proxy EXCEPT !.vsess = Opened(@), !.ssess = Counted(@)]
       \/ /\ Opens(proxy.vsess, r) /\ Alters(r.line)
          /\ up' = Put(from, Far(Victim), [sealed EXCEPT !.keys = NoKeys])
          /\ proxy' = [proxy EXCEPT !.vsess = Opened(@), !.ssess = Counted(@),
                                    !.armed = FALSE, !.hit = Victim]
    /\ UNCHANGED <<ends, down>>

PumpDown ==
    LET r == Head(down[Far(Victim)])
        from == Take(down, Far(Victim))
    IN
    /\ Pumping("down") /\ down[Far(Victim)] # <<>>
    /\ \/ r.type # "appdata" /\ down' = Put(from, Near(Victim), r) /\ UNCHANGED proxy
       \/ /\ Opens(proxy.ssess, r)
          /\ down' = Put(from, Near(Victim), Sealed(proxy.vsess, r.line))
          /\ proxy' = [proxy EXCEPT !.ssess = Opened(@), !.vsess = Counted(@)]
    /\ UNCHANGED <<ends, up>>

\* What a pump reads has ended, or does not open, or what it writes to is gone.
PumpBreaks(wire, from, to, s) ==
    \/ wire[from] = <<>> /\ ends[from] # {"dialler", "acceptor"}
    \/ /\ wire[from] # <<>> /\ Head(wire[from]).type = "appdata"
       /\ ~Opens(s, Head(wire[from])) \/ ends[to] # {"dialler", "acceptor"}

\* A pump that ends shuts the socket it writes to, on which the other one reads.
PumpUpEnds ==
    /\ Pumping("up") /\ PumpBreaks(up, Near(Victim), Far(Victim), proxy.vsess)
    /\ proxy' = [proxy EXCEPT !.pumps = @ \ {"up"}]
    /\ ends' = [ends EXCEPT ![Far(Victim)] = @ \ {"dialler"}]
    /\ UNCHANGED <<up, down>>

PumpDownEnds ==
    /\ Pumping("down") /\ PumpBreaks(down, Far(Victim), Near(Victim), proxy.ssess)
    /\ proxy' = [proxy EXCEPT !.pumps = @ \ {"down"}]
    /\ ends' = [ends EXCEPT ![Near(Victim)] = @ \ {"acceptor"}]
    /\ UNCHANGED <<up, down>>

Pumps == (PumpUp \/ PumpUpEnds \/ PumpDown \/ PumpDownEnds)
         /\ UNCHANGED <<clients, conns, byName, lines, junk>>

-----------------------------------------------------------------------------
Next == Relay \/ (\E c \in Clients : ClientThread(c)) \/ Users \/ ProxyMain \/ Pumps

Spec == Init /\ [][Next]_vars

\* The relay's loop, the threads of each client, and those of the proxy, run.
FairSpec ==
    /\ Spec
    /\ WF_vars(Relay) /\ WF_vars(ProxyMain) /\ WF_vars(Pumps)
    /\ \A c \in Clients : WF_vars(ClientThread(c))

-----------------------------------------------------------------------------
ServerPubs == Legs \X {"server"}
ClientPubs == Legs \X {"client"}
KeysType == [random : Legs, pubs : ServerPubs \X ClientPubs]

\* What nobody has derived or generated is something else.
ASSUME NothingAssumption == NoKeys \notin KeysType \cup Legs /\ NoPub \notin ClientPubs

SessionType ==
    [up : BOOLEAN, role : {"Client", "Server"}, tx : Nat, rx : Nat,
     keys : {NoKeys} \cup KeysType, skipped : Nat]

HandshakeType ==
    [step : {"AwaitClientHello", "AwaitClientKex", "Complete"}, random : Legs \cup {NoKeys}]

TypeOK ==
    /\ ends \in [Legs -> SUBSET {"dialler", "acceptor"}]
    /\ DOMAIN up = Legs /\ DOMAIN down = Legs
    /\ clients \in [Clients -> [st : {"off", "hello", "keyed", "login", "on", "strange", "gone"},
                                user : Names \cup {NoName}, sess : SessionType]]
    /\ conns \in [Clients -> [st : {"none", "open", "doomed", "flushed"}, hs : HandshakeType,
                              sess : SessionType, user : Names \cup {NoName}, want : BOOLEAN]]
    /\ byName \in [Names -> Clients \cup {NoClient}]
    /\ proxy \in [st : {"accept", "victim", "dial", "server", "pump"},
                  victim : Victims \cup {NoClient}, hs : HandshakeType,
                  vsess : SessionType, ssess : SessionType, pumps : SUBSET {"up", "down"},
                  armed : BOOLEAN, hit : Victims \cup {NoClient}]
    /\ \A c \in Clients :
        conns[c].sess.up => conns[c].sess.keys.pubs[1] = Pub(Last(c), "server")
    /\ lines \in 0 .. MaxLines /\ junk \in 0 .. MaxJunk

(***************************************************************************)
(* The fingerprints tell whether somebody is in between: a client and the  *)
(* relay that are connected hold the same keys, and the proxy holds with   *)
(* each side the keys that side holds.                                     *)
(***************************************************************************)
FingerprintsTell ==
    /\ \A c \in Clients :
        clients[c].sess.up /\ conns[c].sess.up =>
            (clients[c].sess.keys = conns[c].sess.keys <=> c \notin Victims)
    /\ proxy.vsess.up /\ clients[Victim].sess.up => clients[Victim].sess.keys = proxy.vsess.keys
    /\ proxy.ssess.up /\ conns[Victim].sess.up => conns[Victim].sess.keys = proxy.ssess.keys

(***************************************************************************)
(* docs/protocol.md: "the two counters stay in lockstep".  Every line on   *)
(* its way is under the keys that its reader has, and is the next but so   *)
(* many that its reader expects, on both legs of a victim and in both      *)
(* directions, apart from the record that the proxy altered.  The one      *)
(* thing that puts a reader out of step is a roster that was too long: its *)
(* writer, the relay, is then ahead by no more than it skipped on this     *)
(* connection, so whoever was spared that is in step, whatever happened to *)
(* the others.  When the relay has closed the connection it no longer      *)
(* knows how much it skipped; it has not used a counter twice.             *)
(***************************************************************************)
IsSealed(r) == r.type = "appdata" /\ r.keys # NoKeys

Before(wire, i) == Cardinality({j \in 1 .. i - 1 : IsSealed(wire[j])})

InStep(wire, s, skips) ==
    \A i \in DOMAIN wire :
        IsSealed(wire[i]) =>
            wire[i].keys = s.keys /\ wire[i].seq - (s.rx + Before(wire, i)) \in skips

\* What the relay may have skipped towards c.
Skips(c) == IF "acceptor" \in ends[Last(c)] THEN 0 .. conns[c].sess.skipped ELSE Nat

LinesInStep ==
    /\ \A c \in Clients :
        /\ clients[c].sess.up =>
            InStep(down[Near(c)], clients[c].sess, IF c \in Victims THEN {0} ELSE Skips(c))
        /\ conns[c].sess.up /\ proxy.hit # c => InStep(up[Last(c)], conns[c].sess, {0})
    /\ proxy.vsess.up => InStep(up[Near(Victim)], proxy.vsess, {0})
    /\ proxy.ssess.up => InStep(down[Far(Victim)], proxy.ssess, Skips(Victim))

(***************************************************************************)
(* All of it together is still the chat service, for the victims too: the  *)
(* proxy loses no line, doubles none and keeps their order, and a record   *)
(* that it alters is not taken for another message.                        *)
(***************************************************************************)
\* How much of what is on the way belongs to the exchange: the lines come after it.
Exchange(wire) ==
    CHOOSE m \in 0 .. Len(wire) : \A i \in DOMAIN wire : wire[i].type = "appdata" <=> i > m

Lines(wire) ==
    [i \in 1 .. Len(wire) - Exchange(wire) |-> wire[Exchange(wire) + i].line]

Online(c) == \E n \in Names : byName[n] = c

Carried(c) == Victim = c /\ "down" \in proxy.pumps

Inbox(c) ==
    IF clients[c].st \in {"off", "strange", "gone"} /\ ~Online(c) THEN <<>>
    ELSE Lines(down[Near(c)])
         \o IF c \in Victims /\ (Online(c) \/ Carried(c)) THEN Lines(down[Far(c)]) ELSE <<>>

Service ==
    INSTANCE ChatService WITH Slots <- Clients, NoSlot <- NoClient, roster <- byName,
        inbox <- [c \in Clients |-> Inbox(c)], Messages <- 1 .. MaxLines

ServiceSpec == Service!Spec

(***************************************************************************)
(* A client that connects to the relay is not held up by anybody, and one  *)
(* that connects to the proxy waits only while the proxy has another       *)
(* victim.                                                                 *)
(***************************************************************************)
HandshakeEnds ==
    \A c \in Clients :
        clients[c].st = "hello" ~>
            clients[c].st # "hello" \/ (c \in Victims /\ Victim \notin {c, NoClient})

(***************************************************************************)
(* When a client is gone its name is free again, however far away the      *)
(* relay is.                                                               *)
(***************************************************************************)
NameIsFreed == \A c \in Clients : clients[c].st = "gone" ~> ~Online(c)

(***************************************************************************)
(* An altered record ends the chat on both sides.                          *)
(***************************************************************************)
TamperingIsCaught ==
    \A v \in Victims :
        proxy.hit = v ~> clients[v].st = "gone" /\ conns[v].st = "none"
=============================================================================
