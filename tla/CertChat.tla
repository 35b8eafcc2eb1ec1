------------------------------ MODULE CertChat ------------------------------
(***************************************************************************)
(* The third version of the system: the relay presents a certificate and   *)
(* signs its half of the exchange, and a client checks both before it      *)
(* contributes anything.  Servers stop and start again with other          *)
(* credentials, certificates run out while servers use them, and some of   *)
(* the servers that clients dial are not the one they mean: the program is *)
(* the same, its credentials are not.  Module Handshake looks at one       *)
(* exchange record by record, Proxy at the proxy; here many clients go     *)
(* through the exchange on their way into the chat.                        *)
(***************************************************************************)
EXTENDS Naturals, Sequences, FiniteSets

CONSTANTS
    Clients,     \* processes that connect, each once
    NoClient,    \* no client
    Strangers,   \* the ones that need not be the client of this repository
    Home,        \* the server whose service is looked at
    Servers,     \* server processes, by address
    Creds,       \* the credentials each server may be started with
    Expected,    \* the identity clients require
    Names,       \* valid usernames
    NoName,      \* anything else that stands for a name
    None,        \* no keys, no value, or one that is not right
    WhoMax,      \* how many names fit in a record
    KeygenFails, \* may a key pair fail to be generated?
    MaxLines,    \* bound: lines typed, over all clients
    MaxJunk,     \* bound: records strangers send
    MaxStarts,   \* bound: starts of each server
    MaxTime      \* bound: the days that pass

ASSUME CertChatAssumption ==
    /\ Strangers \subseteq Clients
    /\ NoClient \notin Clients /\ NoName \notin Names
    /\ Home \in Servers /\ KeygenFails \in BOOLEAN
    /\ {WhoMax, MaxLines, MaxJunk, MaxStarts, MaxTime} \subseteq Nat

VARIABLES
    servers,  \* each server process and its g_creds
    ends,     \* each connection: the sides that hold it, or whose kernel does
    up,       \* records towards the server
    down,     \* records towards the client
    clients,  \* the client processes
    conns,    \* g_conns of the server that a client dialled
    byName,   \* g_by_name of each server
    today,
    lines,    \* lines typed so far
    junk      \* records strangers have sent so far

vars == <<servers, ends, up, down, clients, conns, byName, today, lines, junk>>

Site(c) == clients[c].site

-----------------------------------------------------------------------------
(* Certificates, keys, sessions and records. *)

\* Mutant: the validity period is not looked at.
AcceptsOld(cert) == cert.trusted /\ cert.host = Expected

\* validate_cert: chain, validity period and identity.
Accepts(cert) == cert.trusted /\ today <= cert.until /\ cert.host = Expected

Signed(key, random, cert, pub) == [key |-> key, of |-> <<random, cert, pub>>]

Verifies(cert, sig, random, pub) == sig = Signed(cert.key, random, cert, pub)

Pub(c, side) == <<c, side>>

Derive(random, cert, server, client) == [th |-> <<random, cert>>, pubs |-> <<server, client>>]

NoSession == [up |-> FALSE, keys |-> None, role |-> "Client", tx |-> 0, rx |-> 0]

Install(keys, role) == [up |-> TRUE, keys |-> keys, role |-> role, tx |-> 0, rx |-> 0]

Line(verb, name, msg) == [verb |-> verb, name |-> name, msg |-> msg]
Err == Line("ERR", NoName, 0)

Hs(kind, val) == [type |-> "handshake", kind |-> kind, val |-> val]
Alert == [type |-> "alert"]

\* Session::seal, whose counter is the nonce, and Session::open.
Counted(s) == [s EXCEPT !.tx = @ + 1]

Sealed(s, line) ==
    [type |-> "appdata", keys |-> s.keys, role |-> s.role, seq |-> s.tx, line |-> line]

Opens(s, r) ==
    s.up /\ r.type = "appdata" /\ r.keys = s.keys /\ r.role # s.role /\ r.seq = s.rx

Opened(s) == [s EXCEPT !.rx = @ + 1]

Put(wire, c, records) == [wire EXCEPT ![c] = @ \o records]
Take(wire, c) == [wire EXCEPT ![c] = Tail(@)]

-----------------------------------------------------------------------------
NewHandshake == [step |-> "AwaitClientHello", random |-> None]

NoConn == [st |-> "none", hs |-> NewHandshake, sess |-> NoSession,
           user |-> NoName, want |-> FALSE]

NoProcess == [st |-> "off", site |-> None, user |-> NoName, sess |-> NoSession,
              cert |-> None, pub |-> None]

Init ==
    /\ servers = [s \in Servers |-> [on |-> FALSE, creds |-> None, starts |-> 0]]
    /\ ends = [c \in Clients |-> {}]
    /\ up = [c \in Clients |-> <<>>]
    /\ down = [c \in Clients |-> <<>>]
    /\ clients = [c \in Clients |-> NoProcess]
    /\ conns = [c \in Clients |-> NoConn]
    /\ byName = [s \in Servers |-> [n \in Names |-> NoClient]]
    /\ today = 0 /\ lines = 0 /\ junk = 0

-----------------------------------------------------------------------------
(* The server: ServerHandshake. *)

FeedAnswers(h, r) == h.step = "AwaitClientHello" /\ r.kind = "ClientHello" /\ r.val # None

FeedCompletes(h, r) == h.step = "AwaitClientKex" /\ r.kind = "ClientKex" /\ r.val # None

\* Also at a version or a length that is not right, and when signing fails.
FeedFails(h, r) ==
    \/ ~FeedAnswers(h, r) /\ ~FeedCompletes(h, r)
    \/ FeedAnswers(h, r) /\ KeygenFails

Answered(r) == [step |-> "AwaitClientKex", random |-> r.val]

\* Certificate, public value and proof of possession.
Flight(c, r) ==
    LET creds == servers[Site(c)].creds
        pub == Pub(c, "server")
    IN  <<Hs("ServerCert", creds.cert), Hs("ServerKex", pub),
          Hs("ServerProof", Signed(creds.key, r.val, creds.cert, pub))>>

ServerKeys(c, r) ==
    Derive(conns[c].hs.random, servers[Site(c)].creds.cert, Pub(c, "server"), r.val)

-----------------------------------------------------------------------------
(* The server: replies.  st is g_conns with what is on the way from it. *)

Now == [conns |-> conns, down |-> down]

Becomes(st) == conns' = st.conns /\ down' = st.down

\* What send_line does to a connection, and what it queues.  Of all lines only a
\* roster can be too long for that: a client's own are cut off at MAX_PLAINTEXT.
AfterLine(conn) ==
    IF conn.sess.up THEN [conn EXCEPT !.sess = Counted(@)] ELSE [conn EXCEPT !.want = TRUE]

Queued(conn, line) == IF conn.sess.up THEN <<Sealed(conn.sess, line)>> ELSE <<>>

SendLines(st, whom, line) ==
    [conns |-> [c \in Clients |-> IF c \in whom THEN AfterLine(st.conns[c]) ELSE st.conns[c]],
     down |-> [c \in Clients |-> IF c \in whom THEN st.down[c] \o Queued(st.conns[c], line)
                                             ELSE st.down[c]]]

SendLine(st, c, line) == SendLines(st, {c}, line)

Closing(st, c) == [st EXCEPT !.conns[c].want = TRUE]

\* A connection that failed is told so and closed.
SendAlert(c) == Closing([Now EXCEPT !.down = Put(@, c, <<Alert>>)], c)

Registered(c) == conns[c].user # NoName

Broadcast(st, line, except) ==
    SendLines(st, {c \in Clients \ {except} : Registered(c) /\ Site(c) = Site(except)}, line)

-----------------------------------------------------------------------------
(* The server: one line. *)

Roster(c) == byName[Site(c)]

HandleLogin(st, c, name) ==
    LET free == name \in Names /\ Roster(c)[name] = NoClient IN
    \/ Registered(c) /\ Becomes(SendLine(st, c, Err)) /\ UNCHANGED byName
    \/ ~Registered(c) /\ ~free /\ Becomes(Closing(SendLine(st, c, Err), c)) /\ UNCHANGED byName
    \/ /\ ~Registered(c) /\ free
       /\ byName' = [byName EXCEPT ![Site(c)][name] = c]
       /\ Becomes(Broadcast(SendLine([st EXCEPT !.conns[c].user = name], c, Line("OK", name, 0)),
                            Line("joined", name, 0), c))

HandleMsg(st, c, to, msg) ==
    LET found == to \in Names /\ Roster(c)[to] # NoClient IN
    /\ Becomes(IF found THEN SendLine(st, Roster(c)[to], Line("FROM", conns[c].user, msg))
                        ELSE SendLine(st, c, Err))
    /\ UNCHANGED byName

\* A roster above MAX_RECORD is sealed and then not enqueued.
SendUsers(st, c) ==
    IF Cardinality({n \in Names : Roster(c)[n] # NoClient}) <= WhoMax
    THEN SendLine(st, c, Line("USERS", NoName, 0))
    ELSE [st EXCEPT !.conns[c].sess = Counted(@)]

HandleWho(st, c) == Becomes(SendUsers(st, c)) /\ UNCHANGED byName

HandleLine(st, c, line) ==
    \/ /\ ~Registered(c) /\ line.verb # "LOGIN"
       /\ Becomes(Closing(SendLine(st, c, Err), c)) /\ UNCHANGED byName
    \/ line.verb = "LOGIN" /\ HandleLogin(st, c, line.name)
    \/ Registered(c) /\ line.verb = "MSG" /\ HandleMsg(st, c, line.name, line.msg)
    \/ Registered(c) /\ line.verb = "WHO" /\ HandleWho(st, c)
    \/ Registered(c) /\ line.verb = "QUIT" /\ Becomes(Closing(st, c)) /\ UNCHANGED byName

-----------------------------------------------------------------------------
(* The server: one record, one connection. *)

Dooms(c) == conns' = [conns EXCEPT ![c].st = "doomed"] /\ UNCHANGED <<down, byName>>

Negotiates(c, r) ==
    LET conn == conns[c] IN
    /\ ~conn.sess.up
    /\ UNCHANGED byName
    /\ \/ FeedFails(conn.hs, r) /\ Becomes(SendAlert(c))
       \/ /\ FeedAnswers(conn.hs, r)
          /\ conns' = [conns EXCEPT ![c].hs = Answered(r)]
          /\ down' = Put(down, c, Flight(c, r))
       \/ /\ FeedCompletes(conn.hs, r)
          /\ conns' = [conns EXCEPT ![c].hs.step = "Complete",
                                    ![c].sess = Install(ServerKeys(c, r), "Server")]
          /\ UNCHANGED down

\* Another type, a handshake record after completion, a line before it, or a tag
\* that does not match.
Rejected(c, r) ==
    \/ r.type \notin {"handshake", "appdata"}
    \/ r.type = "handshake" /\ conns[c].sess.up
    \/ r.type = "appdata" /\ ~Opens(conns[c].sess, r)

\* A connection that is to be closed is read on while its queue is not empty.
DrainRecord(c) ==
    LET r == Head(up[c]) IN
    /\ conns[c].st = "open" /\ up[c] # <<>>
    /\ conns[c].want => down[c] # <<>>
    /\ up' = Take(up, c)
    /\ \/ Rejected(c, r) /\ Dooms(c)
       \/ r.type = "handshake" /\ Negotiates(c, r)
       \/ /\ Opens(conns[c].sess, r)
          /\ HandleLine([Now EXCEPT !.conns[c].sess = Opened(@)], c, r.line)
    /\ UNCHANGED <<servers, ends, clients, today, lines, junk>>

AcceptNew(c) ==
    /\ conns[c].st = "none" /\ "acceptor" \in ends[c]
    /\ conns' = [conns EXCEPT ![c].st = "open"]
    /\ UNCHANGED <<servers, ends, up, down, clients, byName, today, lines, junk>>

\* The other side is gone, which a reset may report before all is read.
PeerClosed(c) ==
    /\ conns[c].st = "open" /\ "dialler" \notin ends[c]
    /\ Dooms(c)
    /\ UNCHANGED <<servers, ends, up, clients, today, lines, junk>>

\* The queue of a connection that is to be closed is out.
Quit(c) ==
    /\ conns[c].st = "open" /\ conns[c].want
    /\ conns' = [conns EXCEPT ![c].st = "flushed"]
    /\ UNCHANGED <<servers, ends, up, down, clients, byName, today, lines, junk>>

\* Mutant: the name is not erased.
DropConnKeepsName(c) ==
    LET told == IF Registered(c)
                THEN Broadcast(Now, Line("left", conns[c].user, 0), c) ELSE Now
        most == Len(down[c])
    IN
    /\ conns[c].st \in {"doomed", "flushed"}
    /\ UNCHANGED byName
    /\ conns' = [told.conns EXCEPT ![c] = NoConn]
    /\ \E k \in (IF conns[c].st = "flushed" THEN {} ELSE 0 .. most) \cup {most} :
        down' = [told.down EXCEPT ![c] = SubSeq(@, 1, k)]
    /\ ends' = [ends EXCEPT ![c] = @ \ {"acceptor"}]
    /\ UNCHANGED <<servers, up, clients, today, lines, junk>>

\* The end of the queue, which the socket has not taken, is lost.
DropConn(c) ==
    LET told == IF Registered(c)
                THEN Broadcast(Now, Line("left", conns[c].user, 0), c) ELSE Now
        most == Len(down[c])
    IN
    /\ conns[c].st \in {"doomed", "flushed"}
    /\ byName' = [s \in Servers |-> [n \in Names |->
                    IF byName[s][n] = c THEN NoClient ELSE byName[s][n]]]
    /\ conns' = [told.conns EXCEPT ![c] = NoConn]
    /\ \E k \in (IF conns[c].st = "flushed" THEN {} ELSE 0 .. most) \cup {most} :
        down' = [told.down EXCEPT ![c] = SubSeq(@, 1, k)]
    /\ ends' = [ends EXCEPT ![c] = @ \ {"acceptor"}]
    /\ UNCHANGED <<servers, up, clients, today, lines, junk>>

Relay(c) == AcceptNew(c) \/ DrainRecord(c) \/ PeerClosed(c) \/ Quit(c) \/ DropConn(c)

\* load_server_creds does not ask whether the key is the certificate's.
StartServer(s) ==
    /\ ~servers[s].on /\ servers[s].starts < MaxStarts
    /\ \E creds \in Creds[s] :
        servers' = [servers EXCEPT ![s] = [on |-> TRUE, creds |-> creds, starts |-> @.starts + 1]]
    /\ UNCHANGED <<ends, up, down, clients, conns, byName, today, lines, junk>>

\* A signal: every connection is closed, with what the sockets have not taken.
StopServer(s) ==
    LET here == {c \in Clients : Site(c) = s} IN
    /\ servers[s].on
    /\ servers' = [servers EXCEPT ![s].on = FALSE]
    /\ conns' = [c \in Clients |-> IF c \in here THEN NoConn ELSE conns[c]]
    /\ byName' = [byName EXCEPT ![s] = [n \in Names |-> NoClient]]
    /\ ends' = [c \in Clients |-> IF c \in here THEN ends[c] \ {"acceptor"} ELSE ends[c]]
    /\ \E k \in {0} \cup {Len(down[c]) : c \in here} :
        down' = [c \in Clients |-> IF c \in here /\ Len(down[c]) > k THEN SubSeq(down[c], 1, k)
                                   ELSE down[c]]
    /\ UNCHANGED <<up, clients, today, lines, junk>>

-----------------------------------------------------------------------------
(* The clients: client_handshake. *)

Ends(c) ==
    /\ clients' = [clients EXCEPT ![c] = [NoProcess EXCEPT !.st = "gone", !.site = Site(c)]]
    /\ ends' = [ends EXCEPT ![c] = @ \ {"dialler"}]

\* The kernel completes a connection before accept is called.
Dials(c, s) ==
    /\ clients[c].st = "off" /\ servers[s].on
    /\ ends' = [ends EXCEPT ![c] = {"dialler", "acceptor"}]
    /\ UNCHANGED <<servers, down, conns, byName, today, lines, junk>>

\* connect_to, and the ClientHello.
Connect(c, s, name) ==
    /\ Dials(c, s)
    /\ clients' = [clients EXCEPT ![c].st = "cert", ![c].site = s, ![c].user = name]
    /\ up' = Put(up, c, <<Hs("ClientHello", c)>>)

Due == [cert |-> "ServerCert", kex |-> "ServerKex", proof |-> "ServerProof"]

IsDue(c, r) == r.type = "handshake" /\ r.kind = Due[clients[c].st]

\* One recv_hs of client_handshake.
Receives(c, r) ==
    /\ IsDue(c, r)
    /\ \/ /\ clients[c].st = "cert"
          /\ clients' = [clients EXCEPT ![c].st = "kex", ![c].cert = r.val]
          /\ UNCHANGED <<up, ends>>
       \/ /\ clients[c].st = "kex"
          /\ clients' = [clients EXCEPT ![c].st = "proof", ![c].pub = r.val]
          /\ UNCHANGED <<up, ends>>

\* Mutant: the public value goes out before the proof is looked at.
JudgesLate(c, r) ==
    LET me == clients[c] IN
    /\ me.st = "proof" /\ IsDue(c, r)
    /\ \/ /\ ~Accepts(me.cert)
          /\ up' = Put(up, c, <<Alert>>) /\ Ends(c)
       \/ /\ Accepts(me.cert)
          /\ up' = Put(up, c, <<Hs("ClientKex", Pub(c, "client"))>>)
          /\ IF Verifies(me.cert, r.val, c, me.pub)
             THEN /\ clients' = [clients EXCEPT ![c].st = "keyed",
                        ![c].sess = Install(Derive(c, me.cert, me.pub, Pub(c, "client")), "Client")]
                  /\ UNCHANGED ends
             ELSE Ends(c)

\* The third: everything is checked before anything is contributed.
Judges(c, r) ==
    LET me == clients[c]
        good == Accepts(me.cert) /\ Verifies(me.cert, r.val, c, me.pub)
    IN
    /\ me.st = "proof" /\ IsDue(c, r)
    /\ \/ ~good /\ up' = Put(up, c, <<Alert>>) /\ Ends(c)
       \/ good /\ KeygenFails /\ Ends(c) /\ UNCHANGED up
       \/ /\ good
          /\ up' = Put(up, c, <<Hs("ClientKex", Pub(c, "client"))>>)
          /\ clients' = [clients EXCEPT ![c].st = "keyed",
                ![c].sess = Install(Derive(c, me.cert, me.pub, Pub(c, "client")), "Client")]
          /\ UNCHANGED ends

ClientHandshake(c) ==
    LET r == Head(down[c]) IN
    /\ clients[c].st \in DOMAIN Due /\ down[c] # <<>>
    /\ down' = Take(down, c)
    /\ \/ ~IsDue(c, r) /\ Ends(c) /\ UNCHANGED up
       \/ Receives(c, r)
       \/ Judges(c, r)
    /\ UNCHANGED <<servers, conns, byName, today, lines, junk>>

-----------------------------------------------------------------------------
(* The clients: main and the reader. *)

\* send_line of the client, which seals and sends at once.
Says(c, line) ==
    /\ up' = Put(up, c, <<Sealed(clients[c].sess, line)>>)
    /\ UNCHANGED <<servers, down, conns, byName, today, junk>>

Login(c) ==
    /\ clients[c].st = "keyed"
    /\ Says(c, Line("LOGIN", clients[c].user, 0))
    /\ clients' = [clients EXCEPT ![c].st = "login", ![c].sess = Counted(@)]
    /\ UNCHANGED <<ends, lines>>

\* main while it waits for the verdict, then the reader thread.
Reads(c) ==
    LET r == Head(down[c])
        good == Opens(clients[c].sess, r) /\ (clients[c].st = "login" => r.line.verb = "OK")
    IN
    /\ clients[c].st \in {"login", "on"} /\ down[c] # <<>>
    /\ down' = Take(down, c)
    /\ IF good
       THEN clients' = [clients EXCEPT ![c].st = "on", ![c].sess = Opened(@)] /\ UNCHANGED ends
       ELSE Ends(c)
    /\ UNCHANGED <<servers, up, conns, byName, today, lines, junk>>

SeesClose(c) ==
    /\ clients[c].st \in DOMAIN Due \cup {"login", "on"} /\ down[c] = <<>>
    /\ "acceptor" \notin ends[c]
    /\ Ends(c)
    /\ UNCHANGED <<servers, up, down, conns, byName, today, lines, junk>>

\* @user text, or text for the partner selected before; /who; /quit.
HandleInput(c) ==
    /\ clients[c].st = "on"
    /\ \/ /\ lines < MaxLines /\ lines' = lines + 1
          /\ \/ \E to \in Names \cup {NoName} : Says(c, Line("MSG", to, lines + 1))
             \/ Says(c, Line("WHO", NoName, 0))
          /\ clients' = [clients EXCEPT ![c].sess = Counted(@)]
          /\ UNCHANGED ends
       \/ Says(c, Line("QUIT", NoName, 0)) /\ Ends(c) /\ UNCHANGED lines

\* The process is killed.
Dies(c) ==
    /\ clients[c].st \notin {"off", "gone"}
    /\ Ends(c)
    /\ UNCHANGED <<servers, up, down, conns, byName, today, lines, junk>>

StrangerConnects(c, s) ==
    /\ c \in Strangers
    /\ Dials(c, s)
    /\ clients' = [clients EXCEPT ![c].st = "strange", ![c].site = s]
    /\ UNCHANGED up

StrangerSends(c) ==
    /\ clients[c].st = "strange" /\ junk < MaxJunk
    /\ \E r \in {Hs("ClientHello", c), Hs("ClientHello", None), Hs("ClientKex", Pub(c, "client")),
                 Hs("ClientKex", None), Alert, Sealed(NoSession, Err)} :
        up' = Put(up, c, <<r>>)
    /\ junk' = junk + 1
    /\ UNCHANGED <<servers, ends, down, clients, conns, byName, today, lines>>

ClientThread(c) == ClientHandshake(c) \/ Login(c) \/ Reads(c) \/ SeesClose(c)

DayPasses ==
    /\ today < MaxTime /\ today' = today + 1
    /\ UNCHANGED <<servers, ends, up, down, clients, conns, byName, lines, junk>>

World ==
    \/ \E c \in Clients, s \in Servers :
        StrangerConnects(c, s) \/ \E name \in Names : Connect(c, s, name)
    \/ \E c \in Clients : HandleInput(c) \/ Dies(c) \/ StrangerSends(c)
    \/ \E s \in Servers : StartServer(s) \/ StopServer(s)
    \/ DayPasses

Next == World \/ \E c \in Clients : Relay(c) \/ ClientThread(c)

Spec == Init /\ [][Next]_vars

\* The loop of every server and the threads of every client run.
FairSpec ==
    /\ Spec
    /\ \A s \in Servers : WF_vars(\E c \in Clients : Site(c) = s /\ Relay(c))
    /\ \A c \in Clients : WF_vars(ClientThread(c))

-----------------------------------------------------------------------------
SessionType ==
    [up : BOOLEAN, role : {"Client", "Server"}, tx : Nat, rx : Nat,
     keys : {None} \cup [th : Clients \X {cr.cert : cr \in UNION {Creds[s] : s \in Servers}},
                        pubs : (Clients \X {"server"}) \X (Clients \X {"client"})]]

TypeOK ==
    /\ \A s \in Servers :
        servers[s].on => servers[s].creds \in Creds[s] /\ servers[s].starts \in 1 .. MaxStarts
    /\ ends \in [Clients -> SUBSET {"dialler", "acceptor"}]
    /\ \A c \in Clients :
        /\ clients[c].sess \in SessionType /\ conns[c].sess \in SessionType
        /\ clients[c].site \in Servers \cup {None}
        /\ conns[c].st \in {"none", "open", "doomed", "flushed"}
        /\ conns[c].st # "none" => servers[Site(c)].on /\ "acceptor" \in ends[c]
        /\ conns[c].sess.up <=> conns[c].hs.step = "Complete"
    /\ byName \in [Servers -> [Names -> Clients \cup {NoClient}]]
    /\ today \in 0 .. MaxTime /\ lines \in 0 .. MaxLines /\ junk \in 0 .. MaxJunk

(***************************************************************************)
(* A client contributes nothing, neither its public value nor a line,      *)
(* unless the server at the other end holds the key of a certificate that  *)
(* the trusted CA has issued for the expected identity: at a server that   *)
(* copies a certificate, or whose operator paired it with another key, it  *)
(* only ever says hello.                                                   *)
(***************************************************************************)
Genuine(creds) ==
    creds.cert.trusted /\ creds.cert.host = Expected /\ creds.key = creds.cert.key

Contribution(r) ==
    r.type = "appdata" \/ (r.type = "handshake" /\ r.kind = "ClientKex")

NothingBeforeProof ==
    \A c \in Clients \ Strangers :
        /\ "acceptor" \in ends[c]
        /\ conns[c].sess.up \/ \E i \in DOMAIN up[c] : Contribution(up[c][i])
        => Genuine(servers[Site(c)].creds)

(***************************************************************************)
(* A server that runs on with a certificate that has run out gets no new   *)
(* client.                                                                 *)
(***************************************************************************)
NobodyJoinsExpired ==
    [][\A c \in Clients :
        clients[c].st = "proof" /\ clients'[c].st = "keyed" /\ "acceptor" \in ends[c] =>
            today <= servers[Site(c)].creds.cert.until]_vars

(***************************************************************************)
(* Each server is the chat service to those that dialled it: it ends for   *)
(* all of them when the server stops, and begins with nobody.              *)
(***************************************************************************)
\* How much of what is on the way belongs to the exchange: the lines come after it.
Exchange(wire) ==
    CHOOSE m \in 0 .. Len(wire) : \A i \in DOMAIN wire : wire[i].type = "appdata" <=> i > m

Lines(wire) ==
    [i \in 1 .. Len(wire) - Exchange(wire) |-> wire[Exchange(wire) + i].line]

Online(c) == \E s \in Servers, n \in Names : byName[s][n] = c

Inbox(c) ==
    IF Site(c) # Home \/ (clients[c].st \in {"off", "strange", "gone"} /\ ~Online(c))
    THEN <<>> ELSE Lines(down[c])

Service ==
    INSTANCE ChatService WITH Slots <- Clients, NoSlot <- NoClient, roster <- byName[Home],
        inbox <- [c \in Clients |-> Inbox(c)], Messages <- 1 .. MaxLines

ServiceSpec == Service!Spec

(***************************************************************************)
(* No client is left waiting in the exchange: whatever the server is, and  *)
(* if it stops, the client gets on or ends.                                *)
(***************************************************************************)
HandshakeEnds == \A c \in Clients : clients[c].st \in DOMAIN Due ~> clients[c].st \notin DOMAIN Due

(***************************************************************************)
(* When a client is gone, or has refused the server, the server forgets it *)
(* and its name.                                                           *)
(***************************************************************************)
GoneIsForgotten == \A c \in Clients : clients[c].st = "gone" ~> conns[c].st = "none" /\ ~Online(c)
=============================================================================
