----------------------------- MODULE Handshake -----------------------------
(***************************************************************************)
(* The handshake of a connection and the sealed lines after it.  The       *)
(* client end is client_handshake and what follows it; the server end is a *)
(* ServerHandshake, driven by the chat server's loop here and by the proxy *)
(* in module Proxy.  Both ends then have a Session.                        *)
(*                                                                         *)
(* up and down hold the records that one end sent and the other has not    *)
(* read, and end with Eof once the sender has shut them.  A random value   *)
(* and a key pair are fresh, and named after their connection.             *)
(***************************************************************************)
EXTENDS Naturals, Sequences

CONSTANTS
    Conns,     \* connections
    Creds,     \* certificates, with the keys that servers hold beside them
    Versions,  \* proto::VERSION in the builds of the clients
    VERSION,   \* and in this one
    None,      \* no value yet
    MaxLines   \* bound: lines each end says

ASSUME HandshakeAssumption ==
    /\ VERSION \in Versions
    /\ MaxLines \in Nat

VARIABLES
    creds,       \* set_credentials, by connection
    client,      \* the client end: client_handshake, then the Session
    server,      \* the server end: ServerHandshake and Session
    up, down,
    said, heard  \* lines sealed, and lines opened, in each direction

ends == <<client, server>>
lines == <<said, heard>>

-----------------------------------------------------------------------------
(* What the records carry and what is computed from it. *)

\* Mutant: the validity period is not looked at.
AcceptsOld(cert) == cert.faults \subseteq {"Expired"}

\* validate_cert: nothing is wrong with it.
Accepts(cert) == cert.faults = {}

Sign(key, data) == [key |-> key, data |-> data]

\* Mutant: whose key it is does not matter.
VerifiesAny(cert, data, sig) == sig.data = data

Verifies(cert, data, sig) == sig = Sign(cert.key, data)

\* What a client is to find out: the certificate is good, and the server's own.
Genuine(c) == creds[c].cert.faults = {} /\ creds[c].key = creds[c].cert.key

ProofTranscript(version, random, cert, pub) == <<version, random, cert, pub>>

Pair(c, end) == <<c, end>>

\* Mutant: the transcript begins with the own public value.
DeriveOwnFirst(own, peer, version, random, cert, serverPub, clientPub) ==
    [z |-> {own, peer}, th |-> <<version, random, cert, own, peer>>]

\* derive_keys of compute_shared and transcript_hash.
Derive(own, peer, version, random, cert, serverPub, clientPub) ==
    [z |-> {own, peer}, th |-> <<version, random, cert, serverPub, clientPub>>]

Alert == [kind |-> "alert"]
Eof == [kind |-> "eof"]

\* A sealed line, its key, and the counter that is its nonce.
Sealed(keys, dir, n, line) ==
    [kind |-> "data", key |-> <<keys, dir>>, n |-> n, line |-> line]
\* A record that no key opens.
Unsealed(line) == [kind |-> "data", key |-> None, n |-> 0, line |-> line]

\* Mutant: the tag is not compared.
OpensAny(keys, dir, n, r) == keys # None /\ r.kind = "data"

Opens(keys, dir, n, r) ==
    /\ keys # None
    /\ r.kind = "data" /\ r.key = <<keys, dir>> /\ r.n = n

Put(w, c, records) == [w EXCEPT ![c] = @ \o records]
Rest(w, c) == [w EXCEPT ![c] = Tail(@)]
IsShut(s) == s # <<>> /\ s[Len(s)] = Eof
Shut(w, c) == IF IsShut(w[c]) THEN w ELSE Put(w, c, <<Eof>>)

-----------------------------------------------------------------------------
NewClient(version) ==
    [at |-> "start", version |-> version, cert |-> None, pub |-> None,
     sig |-> None, own |-> None, keys |-> None, tx |-> 0, rx |-> 0]

NewServer ==
    [at |-> "on", step |-> "AwaitClientHello", random |-> None, own |-> None,
     keys |-> None, tx |-> 0, rx |-> 0, want |-> FALSE]

HandshakeInit ==
    /\ creds \in [Conns -> Creds]
    /\ \E v \in [Conns -> Versions] : client = [c \in Conns |-> NewClient(v[c])]
    /\ server = [c \in Conns |-> NewServer]
    /\ up = [c \in Conns |-> <<>>] /\ down = [c \in Conns |-> <<>>]
    /\ said = [c \in Conns |-> [up |-> <<>>, down |-> <<>>]]
    /\ heard = [c \in Conns |-> [up |-> <<>>, down |-> <<>>]]

-----------------------------------------------------------------------------
(* The client: client_handshake, then main and the reader. *)

Hello(c) ==
    /\ client[c].at = "start"
    /\ client' = [client EXCEPT ![c].at = "cert"]
    /\ up' = Put(up, c, <<[kind |-> "hello", version |-> client[c].version, random |-> c]>>)
    /\ UNCHANGED <<creds, server, down, lines>>

\* The client of phase 1: it logs in at once, in the clear.
PlainLogin(c) ==
    /\ client[c].at = "start"
    /\ client' = [client EXCEPT ![c].at = "other"]
    /\ up' = Put(up, c, <<Unsealed(1)>>)
    /\ UNCHANGED <<creds, server, down, lines>>

Waits(c) == client[c].at \in {"cert", "kex", "proof"} /\ down[c] # <<>>

\* The next record is the one that is due.
Due(c) ==
    /\ Head(down[c]).kind = client[c].at
    /\ client[c].at = "kex" => Head(down[c]).version = client[c].version

Receives(c, kind) ==
    /\ Waits(c) /\ client[c].at = kind /\ Due(c)
    /\ down' = Rest(down, c)
    /\ UNCHANGED <<creds, server, up, lines>>

ReadCert(c) ==
    /\ Receives(c, "cert")
    /\ client' = [client EXCEPT ![c].at = "kex", ![c].cert = Head(down[c]).cert]

ReadKex(c) ==
    /\ Receives(c, "kex")
    /\ client' = [client EXCEPT ![c].at = "proof", ![c].pub = Head(down[c]).pub]

ReadProof(c) ==
    /\ Receives(c, "proof")
    /\ client' = [client EXCEPT ![c].at = "check", ![c].sig = Head(down[c]).sig]

ClientEnds(c) ==
    /\ client' = [client EXCEPT ![c].at = "closed"]
    /\ up' = Shut(up, c)
    /\ UNCHANGED <<creds, server, down, lines>>

\* An alert, the end, or a record out of turn.
GivesUp(c) == Waits(c) /\ ~Due(c) /\ ClientEnds(c)

Proven(c) ==
    /\ Accepts(client[c].cert)
    /\ Verifies(client[c].cert,
                ProofTranscript(client[c].version, c, client[c].cert, client[c].pub),
                client[c].sig)

\* abort_handshake
Rejects(c) ==
    /\ client[c].at = "check" /\ ~Proven(c)
    /\ client' = [client EXCEPT ![c].at = "closed"]
    /\ up' = Put(up, c, <<Alert, Eof>>)
    /\ UNCHANGED <<creds, server, down, lines>>

Contributes(c) ==
    /\ client[c].at = "check" /\ Proven(c)
    /\ client' = [client EXCEPT ![c].at = "finish", ![c].own = Pair(c, "client")]
    /\ up' = Put(up, c, <<[kind |-> "clientkex", pub |-> Pair(c, "client")]>>)
    /\ UNCHANGED <<creds, server, down, lines>>

Installs(c) ==
    LET e == client[c] IN
    /\ e.at = "finish"
    /\ client' = [client EXCEPT ![c].at = "up",
                    ![c].keys = Derive(e.own, e.pub, e.version, c, e.cert, e.pub, e.own)]
    /\ UNCHANGED <<creds, server, up, down, lines>>

\* An operation fails, the user quits, or the process is killed.
Leaves(c) == client[c].at # "closed" /\ ClientEnds(c)

ClientSeals(c, line, record) ==
    /\ client' = [client EXCEPT ![c].tx = @ + 1]
    /\ up' = Put(up, c, <<record>>)
    /\ said' = [said EXCEPT ![c].up = Append(@, line)]

\* LOGIN, and the verdict before anything else.
Says(c) ==
    /\ client[c].at = "up"
    /\ said[c].up = <<>> \/ heard[c].down # <<>>
    /\ Len(said[c].up) < MaxLines
    /\ LET line == Len(said[c].up) + 1
       IN  ClientSeals(c, line, Sealed(client[c].keys, "c2s", client[c].tx, line))
    /\ UNCHANGED <<creds, server, down, heard>>

ClientOpens(c) ==
    /\ down[c] # <<>>
    /\ Opens(client[c].keys, "s2c", client[c].rx, Head(down[c]))
    /\ client' = [client EXCEPT ![c].rx = @ + 1]
    /\ heard' = [heard EXCEPT ![c].down = Append(@, Head(down[c]).line)]

Hears(c) ==
    /\ client[c].at = "up"
    /\ ClientOpens(c)
    /\ down' = Rest(down, c)
    /\ UNCHANGED <<creds, server, up, said>>

\* The end, or a record that does not open.
HearsNothing(c) ==
    /\ client[c].at = "up"
    /\ down[c] # <<>>
    /\ ~Opens(client[c].keys, "s2c", client[c].rx, Head(down[c]))
    /\ ClientEnds(c)

ClientGoesOn(c) ==
    \/ Hello(c) \/ ReadCert(c) \/ ReadKex(c) \/ ReadProof(c) \/ GivesUp(c)
    \/ Rejects(c) \/ Contributes(c) \/ Installs(c)

-----------------------------------------------------------------------------
(* The server end: ServerHandshake::feed. *)

Reads(c) ==
    /\ server[c].at = "on"
    /\ up[c] # <<>>

AnswersHello(c) ==
    LET r == Head(up[c])
        pub == Pair(c, "server")
        cert == creds[c].cert
        sig == Sign(creds[c].key, ProofTranscript(VERSION, r.random, cert, pub))
    IN
    /\ Reads(c)
    /\ server[c].step = "AwaitClientHello"
    /\ r.kind = "hello" /\ r.version = VERSION
    /\ server' = [server EXCEPT ![c].step = "AwaitClientKex", ![c].random = r.random,
                                ![c].own = pub]
    /\ up' = Rest(up, c)
    /\ down' = Put(down, c, <<[kind |-> "cert", cert |-> cert],
                              [kind |-> "kex", version |-> VERSION, pub |-> pub],
                              [kind |-> "proof", sig |-> sig]>>)
    /\ UNCHANGED <<creds, client, lines>>

Completes(c) ==
    LET r == Head(up[c])
        e == server[c]
    IN
    /\ Reads(c)
    /\ e.step = "AwaitClientKex" /\ r.kind = "clientkex"
    /\ server' = [server EXCEPT ![c].step = "Complete",
            ![c].keys = Derive(e.own, r.pub, VERSION, e.random, creds[c].cert, e.own, r.pub)]
    /\ up' = Rest(up, c)
    /\ UNCHANGED <<creds, client, down, lines>>

IsHandshake(r) == r.kind \in {"hello", "clientkex"}

-----------------------------------------------------------------------------
(* The chat server: drain_records. *)

\* feed fails: the record is not the one that is due, or an operation fails.
FeedFails(c) ==
    /\ Reads(c)
    /\ server[c].keys = None /\ IsHandshake(Head(up[c]))
    /\ server' = [server EXCEPT ![c].want = TRUE]
    /\ up' = Rest(up, c)
    /\ down' = Put(down, c, <<Alert>>)
    /\ UNCHANGED <<creds, client, lines>>

ServerOpens(c) ==
    /\ Opens(server[c].keys, "c2s", server[c].rx, Head(up[c]))
    /\ heard' = [heard EXCEPT ![c].up = Append(@, Head(up[c]).line)]

HandlesLine(c) ==
    /\ Reads(c)
    /\ ServerOpens(c)
    /\ \E want \in {server[c].want, TRUE} :
        server' = [server EXCEPT ![c].rx = @ + 1, ![c].want = want]
    /\ up' = Rest(up, c)
    /\ UNCHANGED <<creds, client, down, said>>

ServerEnds(c) ==
    /\ server' = [server EXCEPT ![c].at = "closed"]
    /\ down' = Shut(down, c)
    /\ UNCHANGED <<creds, client, up, lines>>

\* The client is gone, or its record is out of place or does not open.
Drops(c) ==
    /\ Reads(c)
    /\ ~(server[c].keys = None /\ IsHandshake(Head(up[c])))
    /\ ~Opens(server[c].keys, "c2s", server[c].rx, Head(up[c]))
    /\ ServerEnds(c)

\* want_close, and everything is sent.
Closes(c) == server[c].at = "on" /\ server[c].want /\ ServerEnds(c)

LoopGoesOn(c) ==
    AnswersHello(c) \/ Completes(c) \/ FeedFails(c) \/ HandlesLine(c) \/ Drops(c) \/ Closes(c)

ServerSeals(c, line, record) ==
    /\ server' = [server EXCEPT ![c].tx = @ + 1]
    /\ down' = Put(down, c, <<record>>)
    /\ said' = [said EXCEPT ![c].down = Append(@, line)]

\* send_line: the answer to a line, or what others say.
SendLine(c) ==
    /\ server[c].at = "on"
    /\ heard[c].up # <<>> /\ Len(said[c].down) < MaxLines
    /\ LET line == Len(said[c].down) + 1
       IN  ServerSeals(c, line, Sealed(server[c].keys, "s2c", server[c].tx, line))
    /\ UNCHANGED <<creds, client, up, heard>>

\* The server is stopped.
Stops(c) == server[c].at = "on" /\ ServerEnds(c)

\* A socket that was closed with data unread may take back what it sent.
Reset(c) ==
    /\ \/ /\ IsShut(up[c]) /\ up' = [up EXCEPT ![c] = <<Eof>>]
          /\ UNCHANGED down
       \/ /\ IsShut(down[c]) /\ down' = [down EXCEPT ![c] = <<Eof>>]
          /\ UNCHANGED up
    /\ UNCHANGED <<creds, ends, lines>>
-----------------------------------------------------------------------------
Certs == {x.cert : x \in Creds}
PublicValues == Conns \X {"client", "server"}
Signatures == [key : {x.key : x \in Creds}, data : Versions \X Conns \X Certs \X PublicValues]
Keys == [z : SUBSET PublicValues,
         th : Versions \X Conns \X Certs \X PublicValues \X PublicValues]
Maybe(S) == S \cup {None}

\* What no key opens is not sealed with a key.
ASSUME NoneAssumption == None \notin Keys \X {"c2s", "s2c"}

ClientType ==
    [at : {"start", "cert", "kex", "proof", "check", "finish", "up", "closed", "other"},
     version : Versions, cert : Maybe(Certs), pub : Maybe(PublicValues),
     sig : Maybe(Signatures), own : Maybe(PublicValues), keys : Maybe(Keys),
     tx : Nat, rx : Nat]

ServerType ==
    [at : {"on", "closed"}, step : {"AwaitClientHello", "AwaitClientKex", "Complete"},
     random : Maybe(Conns), own : Maybe(PublicValues), keys : Maybe(Keys),
     tx : Nat, rx : Nat, want : BOOLEAN]

RecordType ==
    [kind : {"hello"}, version : Versions, random : Conns]
    \cup [kind : {"cert"}, cert : Certs]
    \cup [kind : {"kex"}, version : Versions, pub : PublicValues]
    \cup [kind : {"proof"}, sig : Signatures]
    \cup [kind : {"clientkex"}, pub : PublicValues]
    \cup [kind : {"data"}, key : Maybe(Maybe(Keys) \X {"c2s", "s2c"}), n : Nat, line : Nat]
    \cup {Alert, Eof}

HandshakeTypeOK ==
    /\ creds \in [Conns -> Creds]
    /\ client \in [Conns -> ClientType] /\ server \in [Conns -> ServerType]
    /\ up \in [Conns -> Seq(RecordType)] /\ down \in [Conns -> Seq(RecordType)]
    /\ said \in [Conns -> [up : Seq(Nat), down : Seq(Nat)]]
    /\ heard \in [Conns -> [up : Seq(Nat), down : Seq(Nat)]]
    /\ \A c \in Conns :
        /\ client[c].tx = Len(said[c].up) /\ client[c].rx = Len(heard[c].down)
        /\ server[c].tx = Len(said[c].down) /\ server[c].rx = Len(heard[c].up)

-----------------------------------------------------------------------------
(* What holds of a connection, inductively: the records of the handshake   *)
(* are on the way once, in order, and say what the ends hold.              *)

ServerSignature(c) ==
    Sign(creds[c].key, ProofTranscript(VERSION, c, creds[c].cert, Pair(c, "server")))

SessionKeys(c) ==
    LET pub == Pair(c, "server")
        own == Pair(c, "client")
    IN  Derive(own, pub, VERSION, c, creds[c].cert, pub, own)

UpOK(c) ==
    \A i \in DOMAIN up[c] :
        /\ up[c][i].kind = "hello" =>
            /\ i = 1
            /\ up[c][i].version = client[c].version /\ up[c][i].random = c
            /\ server[c].step = "AwaitClientHello"
            /\ server[c].at = "on" => down[c] = <<>>
        /\ up[c][i].kind = "clientkex" =>
            /\ up[c][i].pub = Pair(c, "client") /\ Genuine(c)
            /\ server[c].step = "AwaitClientKex"
            /\ \A j \in DOMAIN up[c] : IsHandshake(up[c][j]) => j = i

Place == [cert |-> 1, kex |-> 2, proof |-> 3]

DownOK(c) ==
    \A i \in DOMAIN down[c] :
        LET r == down[c][i] IN
        r.kind \in DOMAIN Place =>
            /\ server[c].step # "AwaitClientHello"
            /\ client[c].at \in DOMAIN Place \cup {"closed", "other"}
            /\ client[c].at \in DOMAIN Place => Place[r.kind] = Place[client[c].at] + i - 1
            /\ r.kind = "cert" => r.cert = creds[c].cert
            /\ r.kind = "kex" => r.version = VERSION /\ r.pub = Pair(c, "server")
            /\ r.kind = "proof" => r.sig = ServerSignature(c)

ClientOK(c) ==
    LET e == client[c] IN
    /\ e.at = "start" => up[c] = <<>> /\ (server[c].at = "on" => down[c] = <<>>)
    /\ e.at = "start" => server[c].step = "AwaitClientHello"
    /\ e.at \in {"kex", "proof", "check", "finish", "up"} =>
        server[c].step # "AwaitClientHello" /\ e.cert = creds[c].cert
    /\ e.at \in {"proof", "check", "finish", "up"} =>
        e.pub = Pair(c, "server") /\ e.version = VERSION
    /\ e.at \in {"check", "finish", "up"} => e.sig = ServerSignature(c)
    /\ e.at \in {"start", "cert", "kex", "proof", "check"} =>
        /\ server[c].step # "Complete"
        /\ \A i \in DOMAIN up[c] : up[c][i].kind # "clientkex"
    /\ e.at \in {"finish", "up"} => e.own = Pair(c, "client") /\ Genuine(c)
    /\ e.own # None \/ said[c].up # <<>> => Genuine(c)
    /\ e.keys # None => e.keys = SessionKeys(c)

ServerOK(c) ==
    LET e == server[c] IN
    /\ e.step # "AwaitClientHello" => e.random = c /\ e.own = Pair(c, "server")
    /\ e.step = "Complete" => e.keys = SessionKeys(c) /\ Genuine(c)
    /\ e.keys # None \/ heard[c].up # <<>> => e.step = "Complete"

ConnOK(c) == UpOK(c) /\ DownOK(c) /\ ClientOK(c) /\ ServerOK(c)
=============================================================================
