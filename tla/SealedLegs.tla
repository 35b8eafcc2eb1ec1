----------------------------- MODULE SealedLegs -----------------------------
(***************************************************************************)
(* The inductive invariant of SealedChat.  A leg is one connection, with   *)
(* an end that dialled and an end that accepts; the two ends of the proxy  *)
(* are ends of two legs.  For every leg: which keys its ends may have,     *)
(* that the records on it are numbered from what the reader expects to     *)
(* what the writer uses next, with no gaps but those the relay made, and,  *)
(* for the relay, that nobody who still has to log in was told anything.   *)
(***************************************************************************)
EXTENDS SealedChat

\* The lines that travel each way.
Asked ==
    [verb : {"LOGIN"}, name : Names, msg : {0}]
        \cup [verb : {"MSG"}, name : Names \cup {NoName}, msg : 1 .. MaxLines]
        \cup [verb : {"WHO"}, name : {NoName}, msg : {0}]
        \cup [verb : {"QUIT", "ERR"}, name : {NoName}, msg : {0}]

Told ==
    [verb : {"OK", "ERR", "USERS", "FROM", "joined", "left"},
     name : Names \cup {NoName}, msg : 0 .. MaxLines]

Data(said) ==
    [type : {"appdata"}, keys : {NoKeys} \cup KeysType, role : {"Client", "Server"},
     seq : Nat, line : said]

UpRecord ==
    [type : {"handshake"}, kind : {"ClientHello"}, val : Legs]
        \cup [type : {"handshake"}, kind : {"ClientKex"}, val : ClientPubs \cup {NoPub}]
        \cup {Hs("malformed", NoPub), Alert} \cup Data(Asked)

DownRecord ==
    [type : {"handshake"}, kind : {"ServerKex"}, val : ServerPubs] \cup {Alert} \cup Data(Told)

ConnType ==
    [st : {"none", "open", "doomed", "flushed"}, hs : HandshakeType,
     sess : SessionType, user : Names \cup {NoName}, want : BOOLEAN]

ProcessType ==
    [st : {"off", "hello", "keyed", "login", "on", "strange", "gone"},
     user : Names \cup {NoName}, sess : SessionType]

ProxyType ==
    [st : {"accept", "victim", "dial", "server", "pump"},
     victim : Victims \cup {NoClient}, hs : HandshakeType,
     vsess : SessionType, ssess : SessionType, pumps : SUBSET {"up", "down"},
     armed : BOOLEAN, hit : Victims \cup {NoClient}]

TypesOK ==
    /\ ends \in [Legs -> SUBSET {"dialler", "acceptor"}]
    /\ up \in [Legs -> Seq(UpRecord)] /\ down \in [Legs -> Seq(DownRecord)]
    /\ clients \in [Clients -> ProcessType] /\ conns \in [Clients -> ConnType]
    /\ byName \in [Names -> Clients \cup {NoClient}]
    /\ proxy \in ProxyType
    /\ lines \in 0 .. MaxLines /\ junk \in 0 .. MaxJunk

-----------------------------------------------------------------------------
(* The two ends of a leg. *)

Owner(l) == l[1]

\* Is it the relay that accepts it, or the proxy?
AtRelay(l) == l = Last(Owner(l))

\* Is it dialled by its client, or by the proxy?
IsNear(l) == l = Near(Owner(l))

Running == {"hello", "keyed", "login", "on"}

Acceptor(l) ==
    IF AtRelay(l) THEN conns[Owner(l)].sess
    ELSE IF Victim = Owner(l) THEN proxy.vsess ELSE NoSession

AcceptorStep(l) ==
    IF AtRelay(l) THEN conns[Owner(l)].hs
    ELSE IF Victim = Owner(l) THEN proxy.hs ELSE NewHandshake

\* The acceptor reads the leg, or will once it has called accept.
Held(l) == "acceptor" \in ends[l] \/ (~AtRelay(l) /\ Victim = Owner(l))

Dialler(l) ==
    IF IsNear(l) THEN clients[Owner(l)].sess
    ELSE IF Victim = Owner(l) THEN proxy.ssess ELSE NoSession

\* The dialler keeps to the protocol, and reads.
Runs(l) ==
    IF IsNear(l) THEN clients[Owner(l)].st \in Running
    ELSE Victim = Owner(l) /\ proxy.st \in {"server", "pump"}

Strange(l) == IsNear(l) /\ clients[Owner(l)].st = "strange"

\* The proxy has altered a record that was to go this way.
Altered(l) == ~IsNear(l) /\ proxy.hit = Owner(l)

\* What is sent to the acceptor is or will be opened: no line was given up unread.
Hears(l) ==
    /\ Held(l) /\ ~Altered(l)
    /\ AtRelay(l) => conns[Owner(l)].st \in {"none", "open"} \/ conns[Owner(l)].sess.up

-----------------------------------------------------------------------------
(* What is on a leg.  a and d are the sessions of the acceptor and the     *)
(* dialler.                                                                *)

KeysOf(l) == Derive(l, Pub(l, "server"), Pub(l, "client"))

\* The exchange, then sealed lines that bring the reader from rx to tx, but for up to n
\* that were skipped.
Stream(wire, keys, role, rx, tx, n) ==
    \E m \in 0 .. Len(wire) :
        /\ tx \in rx + (Len(wire) - m) .. rx + (Len(wire) - m) + n /\ (m > 0 => rx = 0)
        /\ \A i \in DOMAIN wire : wire[i].type = "appdata" <=> i > m
        /\ \A i \in DOMAIN wire : i > m =>
            /\ wire[i].keys = keys /\ wire[i].role = role
            /\ wire[i].seq \in rx + (i - m) - 1 .. rx + (i - m) - 1 + n

NoneSealed(wire) == \A i \in DOMAIN wire : ~IsSealed(wire[i])

DownFits(l, wire, held, a, runs, d) ==
    \E rx, tx, n \in Nat :
        /\ runs => rx = d.rx
        /\ held => tx = a.tx /\ n = a.skipped
        /\ ~AtRelay(l) => n = 0
        /\ Stream(wire, KeysOf(l), "Server", rx, tx, n)

\* One that does not keep to the protocol has no keys to seal anything with.
UpFits(l, wire, hears, a, runs, d, strange) ==
    hears =>
        \/ ~runs /\ IsNear(l) /\ a.rx = 0 /\ NoneSealed(wire)
        \/ /\ ~strange
           /\ \E tx \in Nat :
                (runs => tx = d.tx) /\ Stream(wire, KeysOf(l), "Client", a.rx, tx, 0)

\* Whose values the records of the exchange carry.
DownVals(l, wire) ==
    \A i \in DOMAIN wire : wire[i].type = "handshake" => wire[i].val = Pub(l, "server")

UpVal(l, r) ==
    r.type = "handshake" =>
        /\ r.kind = "ClientHello" => r.val = l
        /\ r.kind = "ClientKex" => r.val \in {Pub(l, "client"), NoPub}

UpVals(l, wire) == IsNear(l) => \A i \in DOMAIN wire : UpVal(l, wire[i])

KeysFit(l, a, step, d) ==
    /\ a # NoSession => a.up /\ a.keys = KeysOf(l) /\ a.role = "Server"
    /\ d # NoSession => d.up /\ d.keys = KeysOf(l) /\ d.role = "Client"
    /\ step.step = "AwaitClientKex" => step.random = l

DownOK(l) == DownFits(l, down[l], Held(l), Acceptor(l), Runs(l), Dialler(l))
UpOK(l) == UpFits(l, up[l], Hears(l), Acceptor(l), Runs(l), Dialler(l), Strange(l))
ValsOK(l) == DownVals(l, down[l]) /\ UpVals(l, up[l])
KeysOK(l) == KeysFit(l, Acceptor(l), AcceptorStep(l), Dialler(l))

LegOK(l) == DownOK(l) /\ UpOK(l) /\ ValsOK(l) /\ KeysOK(l)

-----------------------------------------------------------------------------
(* The processes. *)

ProcessOK(c) ==
    /\ clients[c].st \notin {"keyed", "login", "on"} => clients[c].sess = NoSession
    /\ clients[c].st \in {"keyed", "login", "on"} => clients[c].sess.up
    /\ clients[c].st \in Running => clients[c].user \in Names
    /\ clients[c].st = "off" =>
        /\ ends[Near(c)] = {} /\ up[Near(c)] = <<>> /\ down[Near(c)] = <<>>
        /\ conns[c] = NoConn /\ Victim # c

ConnOK(c) ==
    /\ conns[c].st = "none" => conns[c] = NoConn
    /\ conns[c].st # "none" => "acceptor" \in ends[Last(c)]
    /\ conns[c].sess.up <=> conns[c].hs.step = "Complete"
    /\ conns[c].user # NoName => conns[c].sess.up

ProxyOK ==
    /\ proxy.st = "accept" <=> Victim = NoClient
    /\ proxy.st = "accept" => proxy.vsess = NoSession
    /\ proxy.st \in {"accept", "victim"} => proxy.vsess = NoSession
    /\ proxy.st \in {"accept", "victim", "dial", "server"} =>
        proxy.ssess = NoSession /\ proxy.pumps = {}
    /\ proxy.st \in {"dial", "server", "pump"} => proxy.vsess.up
    /\ proxy.st = "accept" => proxy.hs = NewHandshake
    /\ proxy.st = "pump" => proxy.ssess.up
    /\ proxy.ssess.tx = proxy.vsess.rx /\ proxy.vsess.tx = proxy.ssess.rx
    /\ proxy.armed => proxy.hit = NoClient

\* The proxy dials once for each victim.
Undialled(v) ==
    \/ clients[v].st = "off"
    \/ "acceptor" \in ends[Near(v)] /\ Victim # v
    \/ Victim = v /\ proxy.st \in {"victim", "dial"}

\* What the proxy passes on comes after its own exchange.
FarOK(v) ==
    /\ Undialled(v) =>
        ends[Far(v)] = {} /\ up[Far(v)] = <<>> /\ down[Far(v)] = <<>> /\ conns[v] = NoConn
    /\ "acceptor" \in ends[Far(v)] =>
        /\ conns[v].hs.step = "AwaitClientHello" =>
            /\ \A i \in DOMAIN down[Far(v)] : down[Far(v)][i].type # "handshake"
            /\ up[Far(v)] # <<>> => up[Far(v)] = <<Hello(Far(v))>> /\ down[Far(v)] = <<>>
            /\ Victim = v => proxy.st # "pump"
        /\ conns[v].hs.step = "AwaitClientKex" =>
            /\ up[Far(v)] # <<>> => Head(up[Far(v)]) = Kex(Far(v))
            /\ Victim = v /\ proxy.st = "server" => up[Far(v)] = <<>>
            /\ Victim = v /\ proxy.st = "pump" => up[Far(v)] # <<>>
        /\ conns[v].hs.step = "Complete" => ~(Victim = v /\ proxy.st = "server")
    /\ Victim = v => \A i \in DOMAIN down[Far(v)] :
        down[Far(v)][i].type = "handshake" => i = 1 /\ proxy.st = "server"

\* g_by_name is the inverse of the registered connections.
NamesInverse ==
    /\ \A n \in Names : byName[n] # NoClient => conns[byName[n]].user = n
    /\ \A c \in Clients : Registered(c) => conns[c].user \in Names /\ byName[conns[c].user] = c

SealedInv ==
    /\ TypesOK /\ ProxyOK /\ NamesInverse
    /\ \A l \in Legs : LegOK(l)
    /\ \A c \in Clients : ProcessOK(c) /\ ConnOK(c)
    /\ \A v \in Victims : FarOK(v)

-----------------------------------------------------------------------------
(* LOGIN comes before all other lines, and before whatever a client is     *)
(* told.                                                                   *)

NoData(wire) == \A i \in DOMAIN wire : wire[i].type # "appdata"

IsLogin(r) == r.type = "appdata" /\ r.line.verb = "LOGIN"

HasLogin(wire) == \E i \in DOMAIN wire : IsLogin(wire[i])

LoginFirst(wire) ==
    \A i, j \in DOMAIN wire : IsLogin(wire[i]) /\ j < i => wire[j].type # "appdata"

BeforeLogin == {"hello", "keyed"}

\* Up to the relay: what the client has sent, and what the proxy has passed on.
LegsOf(c) == {Near(c), Last(c)}

StillToLogIn(c) ==
    clients[c].st \in BeforeLogin \/ \E l \in LegsOf(c) : HasLogin(up[l])

\* A client asks to be let in before it says anything else.
AsksInOrder(c) ==
    /\ \A l \in LegsOf(c) : LoginFirst(up[l])
    /\ clients[c].st \in BeforeLogin => \A l \in LegsOf(c) : NoData(up[l])
    /\ c \in Victims /\ HasLogin(up[Near(c)]) => NoData(up[Far(c)])

\* Until the relay has seen that, it tells the client nothing.
ToldNothing(c) ==
    /\ ~Registered(c) /\ StillToLogIn(c) /\ "acceptor" \in ends[Last(c)] =>
        \A l \in LegsOf(c) : NoData(down[l])
    /\ Victim = c /\ proxy.st = "server" => NoData(down[Far(c)])

LoginInv == \A c \in Clients : AsksInOrder(c) /\ ToldNothing(c)
=============================================================================
