---------------------------- MODULE CertExchange ----------------------------
(***************************************************************************)
(* The inductive invariant of CertChat: what a connection that its server  *)
(* still holds says about the server's credentials, what a client has said *)
(* at each step of the exchange, that the lines on the way come after it,  *)
(* and that g_by_name is the inverse of the registered connections.        *)
(***************************************************************************)
EXTENDS CertChat

Certs == {cr.cert : cr \in UNION {Creds[s] : s \in Servers}}
Secrets == {cr.key : cr \in UNION {Creds[s] : s \in Servers}}
ServerPubs == Clients \X {"server"}
ClientPubs == Clients \X {"client"}

\* The lines that travel each way.
Asked ==
    [verb : {"LOGIN"}, name : Names, msg : {0}]
        \cup [verb : {"MSG"}, name : Names \cup {NoName}, msg : 1 .. MaxLines]
        \cup [verb : {"WHO", "QUIT", "ERR"}, name : {NoName}, msg : {0}]

Told ==
    [verb : {"OK", "ERR", "USERS", "FROM", "joined", "left"},
     name : Names \cup {NoName}, msg : 0 .. MaxLines]

KeysType == [th : Clients \X Certs, pubs : ServerPubs \X ClientPubs]

Data(lines_) ==
    [type : {"appdata"}, keys : {None} \cup KeysType, role : {"Client", "Server"},
     seq : Nat, line : lines_]

UpRecord ==
    [type : {"handshake"}, kind : {"ClientHello"}, val : Clients \cup {None}]
        \cup [type : {"handshake"}, kind : {"ClientKex"}, val : ClientPubs \cup {None}]
        \cup {Alert} \cup Data(Asked)

Proofs == [key : Secrets, of : (Clients \X Certs \X ServerPubs)]

DownRecord ==
    [type : {"handshake"}, kind : {"ServerCert"}, val : Certs]
        \cup [type : {"handshake"}, kind : {"ServerKex"}, val : ServerPubs]
        \cup [type : {"handshake"}, kind : {"ServerProof"}, val : Proofs]
        \cup {Alert} \cup Data(Told)

ServerType ==
    [on : BOOLEAN, creds : {None} \cup UNION {Creds[s] : s \in Servers}, starts : 0 .. MaxStarts]

HandshakeType ==
    [step : {"AwaitClientHello", "AwaitClientKex", "Complete"}, random : Clients \cup {None}]

ConnType ==
    [st : {"none", "open", "doomed", "flushed"}, hs : HandshakeType, sess : SessionType,
     user : Names \cup {NoName}, want : BOOLEAN]

ProcessType ==
    [st : {"off", "cert", "kex", "proof", "keyed", "login", "on", "strange", "gone"},
     site : Servers \cup {None}, user : Names \cup {NoName}, sess : SessionType,
     cert : Certs \cup {None}, pub : ServerPubs \cup {None}]

TypesOK ==
    /\ servers \in [Servers -> ServerType]
    /\ ends \in [Clients -> SUBSET {"dialler", "acceptor"}]
    /\ up \in [Clients -> Seq(UpRecord)] /\ down \in [Clients -> Seq(DownRecord)]
    /\ clients \in [Clients -> ProcessType] /\ conns \in [Clients -> ConnType]
    /\ byName \in [Servers -> [Names -> Clients \cup {NoClient}]]
    /\ today \in 0 .. MaxTime /\ lines \in 0 .. MaxLines /\ junk \in 0 .. MaxJunk

ServerOK(s) ==
    servers[s].on => servers[s].creds \in Creds[s] /\ servers[s].starts \in 1 .. MaxStarts

\* What a client has by the time it is at each step.
ProcessOK(p) ==
    /\ p.st # "off" => p.site \in Servers
    /\ p.st \in {"kex", "proof"} => p.cert \in Certs
    /\ p.st = "proof" => p.pub \in ServerPubs
    /\ p.st \notin {"off", "strange", "gone"} => p.user \in Names

\* What the relay holds of a connection.
ConnOK(p) ==
    /\ p.st = "none" => p = NoConn
    /\ p.sess.up <=> p.hs.step = "Complete"
    /\ p.hs.step = "AwaitClientKex" => p.hs.random \in Clients
    /\ p.user # NoName => p.sess.up

\* Where a connection is held, and whose it may be.
SiteOK(c) ==
    /\ clients[c].st = "strange" => c \in Strangers
    /\ clients[c].st = "off" =>
            ends[c] = {} /\ up[c] = <<>> /\ down[c] = <<>> /\ conns[c] = NoConn
    /\ "acceptor" \in ends[c] => Site(c) \in Servers /\ servers[Site(c)].on
    /\ conns[c].st # "none" => "acceptor" \in ends[c]

\* g_by_name of each server is the inverse of its registered connections.
NamesInverse ==
    /\ \A s \in Servers, n \in Names : byName[s][n] # NoClient =>
            conns[byName[s][n]].user = n /\ Site(byName[s][n]) = s
    /\ \A c \in Clients : Registered(c) =>
            conns[c].user \in Names /\ byName[Site(c)][conns[c].user] = c

-----------------------------------------------------------------------------
(* The exchange, as long as the server holds the connection. *)

\* What is on the way from a server with these credentials.
ShownBy(r, creds) ==
    /\ r.type = "handshake" /\ r.kind = "ServerCert" => r.val = creds.cert
    /\ r.type = "handshake" /\ r.kind = "ServerProof" => r.val.key = creds.key

\* Has a client gone past hello?
Contributes(c) ==
    \/ conns[c].sess.up \/ clients[c].st \in {"keyed", "login", "on"}
    \/ \E i \in DOMAIN up[c] : Contribution(up[c][i])

ProofOK(c) ==
    "acceptor" \in ends[c] =>
        LET creds == servers[Site(c)].creds IN
        /\ \A i \in DOMAIN down[c] : ShownBy(down[c][i], creds)
        /\ clients[c].st \in {"kex", "proof"} => clients[c].cert = creds.cert
        /\ c \notin Strangers /\ Contributes(c) => Genuine(creds)

-----------------------------------------------------------------------------
(* The lines: after the exchange, and LOGIN before all of them. *)

NoData(wire) == \A i \in DOMAIN wire : wire[i].type # "appdata"

DataLast(wire) ==
    \E m \in 0 .. Len(wire) : \A i \in DOMAIN wire : wire[i].type = "appdata" <=> i > m

IsLogin(r) == r.type = "appdata" /\ r.line.verb = "LOGIN"

HasLogin(wire) == \E i \in DOMAIN wire : IsLogin(wire[i])

LoginFirst(wire) ==
    \A i, j \in DOMAIN wire : IsLogin(wire[i]) /\ j < i => wire[j].type # "appdata"

BeforeLogin == {"cert", "kex", "proof", "keyed"}

\* A client that still has to log in has been told nothing.
LinesOK(c) ==
    /\ DataLast(down[c]) /\ LoginFirst(up[c])
    /\ clients[c].st \in BeforeLogin => NoData(up[c])
    /\ "acceptor" \in ends[c] /\ ~conns[c].sess.up => NoData(down[c])
    /\ /\ "acceptor" \in ends[c] /\ ~Registered(c)
       /\ clients[c].st \in BeforeLogin \/ HasLogin(up[c])
       => NoData(down[c])

CertInv ==
    /\ TypesOK /\ NamesInverse
    /\ \A s \in Servers : ServerOK(s)
    /\ \A c \in Clients : ProcessOK(clients[c]) /\ ConnOK(conns[c])
    /\ \A c \in Clients : SiteOK(c) /\ ProofOK(c) /\ LinesOK(c)
=============================================================================
