----------------------------- MODULE ProxyProofs -----------------------------
(***************************************************************************)
(* Proofs about Proxy: whatever the client, the server, the proxy and the  *)
(* network do, the two ends of a connection hold the same keys, a client   *)
(* gives nothing to a server whose certificate is not good or not its own, *)
(* and, from the invariant of ProxyLines, the lines of the chat go through *)
(* unchanged, once and in order, in both directions.                       *)
(***************************************************************************)
EXTENDS ProxyLines, TLAPS, FiniteSetTheorems

-----------------------------------------------------------------------------
(* Sequences of records. *)

\* The records of s \o t are those of s and then those of t.
LEMMA Concatenated ==
    ASSUME NEW S, NEW s \in Seq(S), NEW t \in Seq(S)
    PROVE  /\ s \o t \in Seq(S) /\ Len(s \o t) = Len(s) + Len(t)
           /\ DOMAIN (s \o t) = 1 .. Len(s) + Len(t)
           /\ \A i \in 1 .. Len(s) : (s \o t)[i] = s[i]
           /\ \A i \in 1 .. Len(t) : (s \o t)[Len(s) + i] = t[i]
OBVIOUS

\* One record more is at the end.
LEMMA OneAdded ==
    ASSUME NEW S, NEW s \in Seq(S), NEW r \in S
    PROVE  /\ s \o <<r>> = Append(s, r)
           /\ \A i \in DOMAIN Append(s, r) :
                \/ i \in DOMAIN s /\ Append(s, r)[i] = s[i]
                \/ i = Len(s) + 1 /\ Append(s, r)[i] = r
<1>1. s \o <<r>> = Append(s, r)
  OBVIOUS
<1>2. \A i \in DOMAIN Append(s, r) :
        \/ i \in DOMAIN s /\ Append(s, r)[i] = s[i]
        \/ i = Len(s) + 1 /\ Append(s, r)[i] = r
  OBVIOUS
<1> QED BY <1>1, <1>2

\* The first record, and the rest.
LEMMA TailOf ==
    ASSUME NEW S, NEW s \in Seq(S), s # <<>>
    PROVE  /\ Head(s) \in S /\ Head(s) = s[1] /\ 1 \in DOMAIN s
           /\ Tail(s) \in Seq(S)
           /\ \A i \in DOMAIN Tail(s) :
                i \in Nat \ {0} /\ i + 1 \in DOMAIN s /\ Tail(s)[i] = s[i + 1]
OBVIOUS

\* A wire with records put on it for c.
LEMMA PutType ==
    ASSUME NEW w \in [Conns -> Seq(RecordType)], NEW c \in Conns,
           NEW records \in Seq(RecordType)
    PROVE  /\ Put(w, c, records) \in [Conns -> Seq(RecordType)]
           /\ Put(w, c, records)[c] = w[c] \o records
           /\ \A d \in Conns \ {c} : Put(w, c, records)[d] = w[d]
<1>1. w[c] \in Seq(RecordType)
  OBVIOUS
<1> DEFINE s == w[c] \o records
<1>2. s \in Seq(RecordType)
  BY <1>1, Concatenated
<1>3. Put(w, c, records) = [w EXCEPT ![c] = s]
  BY DEF Put
<1> HIDE DEF s
<1>4. [w EXCEPT ![c] = s] \in [Conns -> Seq(RecordType)]
  BY <1>2
<1>5. [w EXCEPT ![c] = s][c] = s
  OBVIOUS
<1>6. \A d \in Conns \ {c} : [w EXCEPT ![c] = s][d] = w[d]
  OBVIOUS
<1> QED BY <1>3, <1>4, <1>5, <1>6 DEF s

\* A wire without the first record of c.
LEMMA RestType ==
    ASSUME NEW w \in [Conns -> Seq(RecordType)], NEW c \in Conns, w[c] # <<>>
    PROVE  /\ Rest(w, c) \in [Conns -> Seq(RecordType)]
           /\ Rest(w, c)[c] = Tail(w[c])
           /\ \A d \in Conns \ {c} : Rest(w, c)[d] = w[d]
<1>1. Tail(w[c]) \in Seq(RecordType)
  BY TailOf
<1> QED BY <1>1 DEF Rest

\* A wire that c's sender has shut.
LEMMA ShutType ==
    ASSUME NEW w \in [Conns -> Seq(RecordType)], NEW c \in Conns
    PROVE  /\ Shut(w, c) \in [Conns -> Seq(RecordType)]
           /\ Shut(w, c)[c] = w[c] \/ Shut(w, c)[c] = w[c] \o <<Eof>>
           /\ \A d \in Conns \ {c} : Shut(w, c)[d] = w[d]
<1>1. Eof \in RecordType
  BY DEF RecordType
<1>2. <<Eof>> \in Seq(RecordType)
  BY <1>1
<1>3. CASE IsShut(w[c])
  BY <1>3 DEF Shut
<1>4. CASE ~IsShut(w[c])
  <2> DEFINE t == <<Eof>>
  <2>1. Shut(w, c) = Put(w, c, t)
    BY <1>4 DEF Shut
  <2>2. t \in Seq(RecordType)
    BY <1>2
  <2> HIDE DEF t
  <2>3. /\ Put(w, c, t) \in [Conns -> Seq(RecordType)]
        /\ Put(w, c, t)[c] = w[c] \o t
        /\ \A d \in Conns \ {c} : Put(w, c, t)[d] = w[d]
    BY <2>2, PutType
  <2> QED BY <2>1, <2>3 DEF t
<1> QED BY <1>3, <1>4

-----------------------------------------------------------------------------
(* What the ends send and hold are records, certificates and keys. *)

\* Everything the ends send is a record.
LEMMA Sendable ==
    /\ Alert \in RecordType /\ Eof \in RecordType
    /\ \A line \in Nat : Unsealed(line) \in RecordType
    /\ \A keys \in Maybe(Keys), dir \in {"c2s", "s2c"}, n \in Nat, line \in Nat :
        Sealed(keys, dir, n, line) \in RecordType
    /\ \A version \in Versions, c \in Conns :
        [kind |-> "hello", version |-> version, random |-> c] \in RecordType
    /\ \A cert \in Certs : [kind |-> "cert", cert |-> cert] \in RecordType
    /\ \A version \in Versions, pub \in PublicValues :
        [kind |-> "kex", version |-> version, pub |-> pub] \in RecordType
    /\ \A sig \in Signatures : [kind |-> "proof", sig |-> sig] \in RecordType
    /\ \A pub \in PublicValues : [kind |-> "clientkex", pub |-> pub] \in RecordType
<1>1. Alert \in RecordType /\ Eof \in RecordType
  BY DEF RecordType
<1>2. \A line \in Nat : Unsealed(line) \in RecordType
  BY DEF RecordType, Unsealed, Maybe
<1>3. \A keys \in Maybe(Keys), dir \in {"c2s", "s2c"}, n \in Nat, line \in Nat :
        Sealed(keys, dir, n, line) \in RecordType
  <2> SUFFICES ASSUME NEW keys \in Maybe(Keys), NEW dir \in {"c2s", "s2c"}, NEW n \in Nat,
                      NEW line \in Nat
               PROVE  Sealed(keys, dir, n, line) \in RecordType
    OBVIOUS
  <2>1. <<keys, dir>> \in Maybe(Maybe(Keys) \X {"c2s", "s2c"})
    BY DEF Maybe
  <2> QED BY <2>1 DEF Sealed, RecordType
<1>4. \A version \in Versions, c \in Conns :
        [kind |-> "hello", version |-> version, random |-> c] \in RecordType
  BY DEF RecordType
<1>5. \A cert \in Certs : [kind |-> "cert", cert |-> cert] \in RecordType
  BY DEF RecordType
<1>6. \A version \in Versions, pub \in PublicValues :
        [kind |-> "kex", version |-> version, pub |-> pub] \in RecordType
  BY DEF RecordType
<1>7. \A sig \in Signatures : [kind |-> "proof", sig |-> sig] \in RecordType
  BY DEF RecordType
<1>8. \A pub \in PublicValues : [kind |-> "clientkex", pub |-> pub] \in RecordType
  BY DEF RecordType
<1> QED BY <1>1, <1>2, <1>3, <1>4, <1>5, <1>6, <1>7, <1>8

\* What a record carries, by its kind.
LEMMA Received ==
    ASSUME NEW r \in RecordType
    PROVE  /\ r.kind = "hello" => r.version \in Versions /\ r.random \in Conns
           /\ r.kind = "cert" => r.cert \in Certs
           /\ r.kind = "kex" => r.version \in Versions /\ r.pub \in PublicValues
           /\ r.kind = "proof" => r.sig \in Signatures
           /\ r.kind = "clientkex" => r.pub \in PublicValues
           /\ r.kind = "data" => r.line \in Nat
BY DEF RecordType, Alert, Eof

\* derive_keys gives keys.
LEMMA Derived ==
    ASSUME NEW own \in PublicValues, NEW peer \in PublicValues, NEW version \in Versions,
           NEW random \in Conns, NEW cert \in Certs, NEW p \in PublicValues,
           NEW q \in PublicValues
    PROVE  Derive(own, peer, version, random, cert, p, q) \in Keys
<1>1. {own, peer} \in SUBSET PublicValues
  OBVIOUS
<1>2. <<version, random, cert, p, q>>
        \in Versions \X Conns \X Certs \X PublicValues \X PublicValues
  OBVIOUS
<1> QED BY <1>1, <1>2 DEF Derive, Keys

\* The proof is a signature.
LEMMA Signed ==
    ASSUME NEW x \in Creds, NEW version \in Versions, NEW random \in Conns,
           NEW cert \in Certs, NEW pub \in PublicValues
    PROVE  Sign(x.key, ProofTranscript(version, random, cert, pub)) \in Signatures
<1>1. <<version, random, cert, pub>> \in Versions \X Conns \X Certs \X PublicValues
  OBVIOUS
<1> QED BY <1>1 DEF Sign, ProofTranscript, Signatures

-----------------------------------------------------------------------------
(* Each action keeps the types. *)

\* One end of a connection is replaced by another of its type.
LEMMA ClientReplaced ==
    ASSUME HandshakeTypeOK, NEW c \in Conns, NEW e \in ClientType
    PROVE  /\ [client EXCEPT ![c] = e] \in [Conns -> ClientType]
           /\ [client EXCEPT ![c] = e][c] = e
           /\ \A d \in Conns \ {c} : [client EXCEPT ![c] = e][d] = client[d]
BY DEF HandshakeTypeOK

\* The same of the server end.
LEMMA ServerReplaced ==
    ASSUME HandshakeTypeOK, NEW c \in Conns, NEW e \in ServerType
    PROVE  /\ [server EXCEPT ![c] = e] \in [Conns -> ServerType]
           /\ [server EXCEPT ![c] = e][c] = e
           /\ \A d \in Conns \ {c} : [server EXCEPT ![c] = e][d] = server[d]
BY DEF HandshakeTypeOK

(***************************************************************************)
(* An action that leaves the lines alone keeps the types when it puts      *)
(* records on the wires and replaces one end, or both, without touching    *)
(* their counters.                                                         *)
(***************************************************************************)
LEMMA QuietType ==
    ASSUME HandshakeTypeOK, UNCHANGED <<creds, lines>>, NEW c \in Conns,
           NEW e \in ClientType, client' = [client EXCEPT ![c] = e],
           e.tx = client[c].tx, e.rx = client[c].rx,
           NEW f \in ServerType, server' = [server EXCEPT ![c] = f],
           f.tx = server[c].tx, f.rx = server[c].rx,
           up' \in [Conns -> Seq(RecordType)], down' \in [Conns -> Seq(RecordType)]
    PROVE  HandshakeTypeOK'
<1>1. client' \in [Conns -> ClientType] /\ server' \in [Conns -> ServerType]
  BY ClientReplaced, ServerReplaced
<1>2. ASSUME NEW d \in Conns
      PROVE  /\ client'[d].tx = client[d].tx /\ client'[d].rx = client[d].rx
             /\ server'[d].tx = server[d].tx /\ server'[d].rx = server[d].rx
  BY ClientReplaced, ServerReplaced
<1> QED BY <1>1, <1>2 DEF HandshakeTypeOK, lines

\* The types hold at the start.
LEMMA InitType == HandshakeInit => HandshakeTypeOK
<1> SUFFICES ASSUME HandshakeInit
             PROVE  HandshakeTypeOK
  OBVIOUS
<1>1. \A v \in Versions : NewClient(v) \in ClientType
  BY DEF NewClient, ClientType, Maybe
<1>2. NewServer \in ServerType
  BY DEF NewServer, ServerType, Maybe
<1>3. client \in [Conns -> ClientType] /\ \A c \in Conns : client[c].tx = 0 /\ client[c].rx = 0
  BY <1>1 DEF HandshakeInit, NewClient
<1>4. server \in [Conns -> ServerType] /\ \A c \in Conns : server[c].tx = 0 /\ server[c].rx = 0
  BY <1>2 DEF HandshakeInit, NewServer
<1>5. up \in [Conns -> Seq(RecordType)] /\ down \in [Conns -> Seq(RecordType)]
  BY DEF HandshakeInit
<1>6. /\ said \in [Conns -> [up : Seq(Nat), down : Seq(Nat)]]
      /\ heard \in [Conns -> [up : Seq(Nat), down : Seq(Nat)]]
      /\ \A c \in Conns : /\ Len(said[c].up) = 0 /\ Len(said[c].down) = 0
                          /\ Len(heard[c].up) = 0 /\ Len(heard[c].down) = 0
  BY DEF HandshakeInit
<1>7. creds \in [Conns -> Creds]
  BY DEF HandshakeInit
<1> QED BY <1>3, <1>4, <1>5, <1>6, <1>7 DEF HandshakeTypeOK

\* A sequence of one record, and of two.
LEMMA Records ==
    ASSUME NEW r \in RecordType
    PROVE  /\ <<r>> \in Seq(RecordType)
           /\ \A q \in RecordType : <<r, q>> \in Seq(RecordType)
           /\ \A q, p \in RecordType : <<r, q, p>> \in Seq(RecordType)
OBVIOUS

-----------------------------------------------------------------------------
(* ConnOK, where nothing of the handshake happens. *)

Offers(r) == r.kind \in DOMAIN Place

\* t has no records of the handshake but those of s, at their places.
KeepsHs(s, t) == \A i \in DOMAIN t : IsHandshake(t[i]) => i \in DOMAIN s /\ t[i] = s[i]
KeepsOffers(s, t) == \A i \in DOMAIN t : Offers(t[i]) => i \in DOMAIN s /\ t[i] = s[i]

\* The same of t, one place further on in s.
DropsFirst(s, t) ==
    /\ s # <<>>
    /\ \A i \in DOMAIN t : IsHandshake(t[i]) =>
        i \in Nat \ {0} /\ i + 1 \in DOMAIN s /\ t[i] = s[i + 1]

SameClient(c) ==
    LET d == client'[c]
        e == client[c]
    IN  /\ d.version = e.version /\ d.cert = e.cert /\ d.pub = e.pub /\ d.sig = e.sig
        /\ d.own = e.own /\ d.keys = e.keys
        /\ d.at \in {e.at, "closed", "other"}

SameServer(c) ==
    LET d == server'[c]
        e == server[c]
    IN  /\ d.step = e.step /\ d.random = e.random /\ d.own = e.own /\ d.keys = e.keys
        /\ d.at = "on" => e.at = "on"

Quiet(c) ==
    /\ creds' = creds
    /\ SameClient(c) /\ SameServer(c)
    /\ KeepsHs(up[c], up'[c]) \/ DropsFirst(up[c], up'[c])
    /\ KeepsOffers(down[c], down'[c])
    /\ client'[c].at = "start" => up'[c] = up[c]
    /\ \/ server'[c].at # "on" \/ down'[c] = down[c] \/ server[c].step # "AwaitClientHello"
       \/ down[c] # <<>> \/ DropsFirst(up[c], up'[c])
    /\ said'[c].up # <<>> => said[c].up # <<>> \/ client[c].at = "up"
    /\ heard'[c].up # <<>> => heard[c].up # <<>> \/ server[c].keys # None

\* Where nothing of the handshake happens, ConnOK stays.
LEMMA QuietOK ==
    ASSUME NEW c \in Conns, ConnOK(c), Quiet(c)
    PROVE  ConnOK(c)'
<1> DEFINE e == client[c]
           f == server[c]
<1>1. SameClient(c) /\ SameServer(c) /\ creds' = creds
  BY DEF Quiet
<1>2. Genuine(c)' = Genuine(c) /\ ServerSignature(c)' = ServerSignature(c)
      /\ SessionKeys(c)' = SessionKeys(c)
  BY <1>1 DEF Genuine, ServerSignature, SessionKeys
<1>3. UpOK(c)'
  <2> SUFFICES ASSUME NEW i \in DOMAIN up'[c], IsHandshake(up'[c][i])
               PROVE  /\ up'[c][i].kind = "hello" =>
                          /\ i = 1
                          /\ up'[c][i].version = client'[c].version /\ up'[c][i].random = c
                          /\ server'[c].step = "AwaitClientHello"
                          /\ server'[c].at = "on" => down'[c] = <<>>
                      /\ up'[c][i].kind = "clientkex" =>
                          /\ up'[c][i].pub = Pair(c, "client") /\ Genuine(c)'
                          /\ server'[c].step = "AwaitClientKex"
                          /\ \A j \in DOMAIN up'[c] : IsHandshake(up'[c][j]) => j = i
    BY DEF UpOK, IsHandshake
  <2>1. CASE KeepsHs(up[c], up'[c]) /\ ~DropsFirst(up[c], up'[c])
    <3>1. i \in DOMAIN up[c] /\ up'[c][i] = up[c][i]
      BY <2>1 DEF KeepsHs
    <3>2. \A j \in DOMAIN up'[c] : IsHandshake(up'[c][j]) =>
            j \in DOMAIN up[c] /\ IsHandshake(up[c][j])
      BY <2>1 DEF KeepsHs
    <3>3. f.step = "AwaitClientHello" /\ server'[c].at = "on" =>
            f.at = "on" /\ (down[c] # <<>> \/ down'[c] = down[c])
      BY <1>1, <2>1 DEF Quiet, SameServer
    <3> QED BY <1>1, <1>2, <3>1, <3>2, <3>3 DEF ConnOK, UpOK, SameClient, SameServer
  <2>2. CASE DropsFirst(up[c], up'[c])
    <3>1. i \in Nat \ {0} /\ i + 1 \in DOMAIN up[c] /\ up'[c][i] = up[c][i + 1]
      BY <2>2 DEF DropsFirst
    <3>2. up'[c][i].kind # "hello"
      BY <3>1 DEF ConnOK, UpOK
    <3>3. \A j \in DOMAIN up'[c] : IsHandshake(up'[c][j]) =>
            j \in Nat /\ j + 1 \in DOMAIN up[c] /\ IsHandshake(up[c][j + 1])
      BY <2>2 DEF DropsFirst
    <3>4. ASSUME up'[c][i].kind = "clientkex", NEW j \in DOMAIN up'[c], IsHandshake(up'[c][j])
          PROVE  j = i
      <4>1. j + 1 = i + 1
        BY <3>1, <3>3, <3>4 DEF ConnOK, UpOK
      <4> QED BY <3>1, <3>3, <3>4, <4>1
    <3> QED BY <1>1, <1>2, <3>1, <3>2, <3>4 DEF ConnOK, UpOK, SameServer
  <2> QED BY <2>1, <2>2 DEF Quiet
<1>4. DownOK(c)'
  <2> SUFFICES ASSUME NEW i \in DOMAIN down'[c], Offers(down'[c][i])
               PROVE  LET r == down'[c][i] IN
                      /\ server'[c].step # "AwaitClientHello"
                      /\ client'[c].at \in DOMAIN Place \cup {"closed", "other"}
                      /\ client'[c].at \in DOMAIN Place =>
                            Place[r.kind] = Place[client'[c].at] + i - 1
                      /\ r.kind = "cert" => r.cert = creds[c].cert
                      /\ r.kind = "kex" => r.version = VERSION /\ r.pub = Pair(c, "server")
                      /\ r.kind = "proof" => r.sig = ServerSignature(c)
    BY <1>1, <1>2 DEF DownOK, Offers
  <2>1. i \in DOMAIN down[c] /\ down'[c][i] = down[c][i]
    BY DEF Quiet, KeepsOffers
  <2>2. client'[c].at \in {e.at, "closed", "other"} /\ server'[c].step = f.step
    BY <1>1 DEF SameClient, SameServer
  <2>3. DOMAIN Place = {"cert", "kex", "proof"}
    BY DEF Place
  <2> QED BY <2>1, <2>2, <2>3 DEF ConnOK, DownOK, Offers
<1>5. ClientOK(c)'
  <2>1. client'[c].at = "start" =>
          /\ up'[c] = <<>> /\ server'[c].step = "AwaitClientHello"
          /\ server'[c].at = "on" => down'[c] = <<>>
    BY <1>1 DEF Quiet, ConnOK, ClientOK, SameClient, SameServer, DropsFirst
  <2>2. (\A i \in DOMAIN up[c] : up[c][i].kind # "clientkex")
          => \A i \in DOMAIN up'[c] : up'[c][i].kind # "clientkex"
    BY DEF Quiet, KeepsHs, DropsFirst, IsHandshake
  <2> QED BY <1>1, <1>2, <2>1, <2>2 DEF Quiet, ConnOK, ClientOK, SameClient, SameServer
<1>6. ServerOK(c)'
  BY <1>1, <1>2 DEF Quiet, ConnOK, ServerOK, SameServer
<1> QED BY <1>3, <1>4, <1>5, <1>6 DEF ConnOK

\* A wire that is not touched keeps its handshake records.
LEMMA KeepsSame ==
    ASSUME NEW s
    PROVE  KeepsHs(s, s) /\ KeepsOffers(s, s)
BY DEF KeepsHs, KeepsOffers

\* So does one with other records put on it.
LEMMA KeepsPut ==
    ASSUME NEW s \in Seq(RecordType), NEW t \in Seq(RecordType)
    PROVE  /\ (\A i \in DOMAIN t : ~IsHandshake(t[i])) => KeepsHs(s, s \o t)
           /\ (\A i \in DOMAIN t : ~Offers(t[i])) => KeepsOffers(s, s \o t)
<1>1. /\ DOMAIN (s \o t) = 1 .. Len(s) + Len(t) /\ DOMAIN s = 1 .. Len(s)
      /\ DOMAIN t = 1 .. Len(t) /\ Len(s) \in Nat /\ Len(t) \in Nat
      /\ \A i \in 1 .. Len(s) : (s \o t)[i] = s[i]
      /\ \A i \in 1 .. Len(t) : (s \o t)[Len(s) + i] = t[i]
  BY Concatenated
<1>2. ASSUME NEW i \in DOMAIN (s \o t), i \notin DOMAIN s
      PROVE  i - Len(s) \in DOMAIN t /\ (s \o t)[i] = t[i - Len(s)]
  <2>1. i - Len(s) \in 1 .. Len(t) /\ Len(s) + (i - Len(s)) = i
    BY <1>1, <1>2
  <2> QED BY <1>1, <2>1
<1>3. \A i \in DOMAIN s : (s \o t)[i] = s[i]
  BY <1>1
<1> QED BY <1>2, <1>3 DEF KeepsHs, KeepsOffers

\* The wire v is w with r put on it for connection c.
OneMore(w, c, r, v) ==
    /\ v \in [Conns -> Seq(RecordType)]
    /\ \A d \in Conns \ {c} : v[d] = w[d]
    /\ \A i \in DOMAIN v[c] :
        \/ i \in DOMAIN w[c] /\ v[c][i] = w[c][i]
        \/ i = Len(w[c]) + 1 /\ v[c][i] = r
    /\ w[c] = <<>> => v[c] = <<r>>
    /\ ~IsHandshake(r) => KeepsHs(w[c], v[c])
    /\ ~Offers(r) => KeepsOffers(w[c], v[c])

\* Put of one record.
LEMMA PutOne ==
    ASSUME NEW w \in [Conns -> Seq(RecordType)], NEW c \in Conns, NEW r \in RecordType
    PROVE  OneMore(w, c, r, Put(w, c, <<r>>))
<1> DEFINE t == <<r>>
           s == w[c]
<1>1. t \in Seq(RecordType) /\ s \in Seq(RecordType)
  OBVIOUS
<1>2. /\ ~IsHandshake(r) => \A i \in DOMAIN t : ~IsHandshake(t[i])
      /\ ~Offers(r) => \A i \in DOMAIN t : ~Offers(t[i])
  OBVIOUS
<1>3. <<>> \o t = t
  BY <1>1
<1>4. \A i \in DOMAIN (s \o t) :
        \/ i \in DOMAIN s /\ (s \o t)[i] = s[i]
        \/ i = Len(s) + 1 /\ (s \o t)[i] = r
  <2> HIDE DEF s
  <2> QED BY <1>1, OneAdded
<1> HIDE DEF t
<1>5. Put(w, c, t) \in [Conns -> Seq(RecordType)] /\ Put(w, c, t)[c] = w[c] \o t
      /\ \A d \in Conns \ {c} : Put(w, c, t)[d] = w[d]
  BY <1>1, PutType
<1> DEFINE v == Put(w, c, t)
<1>6. v[c] = s \o t
  BY <1>5
<1> HIDE DEF s, v
<1>7. /\ ~IsHandshake(r) => KeepsHs(s, s \o t)
      /\ ~Offers(r) => KeepsOffers(s, s \o t)
  BY <1>1, <1>2, KeepsPut
<1>8. s = <<>> => v[c] = t
  BY <1>3, <1>6
<1>9. OneMore(w, c, r, v)
  BY <1>4, <1>5, <1>6, <1>7, <1>8 DEF OneMore, s, t, v
<1> QED BY <1>9 DEF v, t

\* A wire whose first record is read.
LEMMA DropsTail ==
    ASSUME NEW s \in Seq(RecordType), s # <<>>
    PROVE  /\ DropsFirst(s, Tail(s))
           /\ (\A i \in DOMAIN s : ~Offers(s[i])) => KeepsOffers(s, Tail(s))
BY TailOf DEF DropsFirst, KeepsOffers

\* A wire that is shut keeps its handshake records.
LEMMA KeepsShut ==
    ASSUME NEW w \in [Conns -> Seq(RecordType)], NEW c \in Conns
    PROVE  KeepsHs(w[c], Shut(w, c)[c]) /\ KeepsOffers(w[c], Shut(w, c)[c])
<1> DEFINE t == <<Eof>>
<1>1. t \in Seq(RecordType) /\ \A i \in DOMAIN t : ~IsHandshake(t[i]) /\ ~Offers(t[i])
  BY Sendable, Records DEF Eof, IsHandshake, Offers, Place
<1>2. w[c] \in Seq(RecordType)
  OBVIOUS
<1>3. Shut(w, c)[c] = w[c] \/ Shut(w, c)[c] = w[c] \o t
  BY ShutType
<1> HIDE DEF t
<1> QED BY <1>1, <1>2, <1>3, KeepsSame, KeepsPut

-----------------------------------------------------------------------------
(* The actions, one by one: each keeps the types, leaves the other         *)
(* connections alone and keeps ConnOK.                                     *)

Elsewhere(c) ==
    /\ creds' = creds
    /\ \A d \in Conns \ {c} :
        /\ client'[d] = client[d] /\ server'[d] = server[d]
        /\ up'[d] = up[d] /\ down'[d] = down[d]
        /\ said'[d] = said[d] /\ heard'[d] = heard[d]

\* A step of one connection keeps ConnOK of every other.
LEMMA ElsewhereOK ==
    ASSUME NEW c \in Conns, Elsewhere(c), NEW d \in Conns, d # c, ConnOK(d)
    PROVE  ConnOK(d)'
<1>1. /\ creds' = creds /\ client'[d] = client[d] /\ server'[d] = server[d]
      /\ up'[d] = up[d] /\ down'[d] = down[d]
      /\ said'[d] = said[d] /\ heard'[d] = heard[d]
  BY DEF Elsewhere
<1>2. Quiet(d)
  BY <1>1, KeepsSame DEF Quiet, SameClient, SameServer
<1> QED BY <1>2, QuietOK

\* The client's hello, on a wire that was empty.
LEMMA HelloOK ==
    ASSUME HandshakeTypeOK, NEW c \in Conns, ConnOK(c), Hello(c)
    PROVE  HandshakeTypeOK' /\ Elsewhere(c) /\ ConnOK(c)'
<1> DEFINE e == [client[c] EXCEPT !.at = "cert"]
           r == [kind |-> "hello", version |-> client[c].version, random |-> c]
<1>1. client[c] \in ClientType /\ server[c] \in ServerType
  BY DEF HandshakeTypeOK
<1>2. e \in ClientType /\ e.tx = client[c].tx /\ e.rx = client[c].rx
  BY <1>1 DEF ClientType
<1>3. r \in RecordType
  BY <1>1, Sendable DEF ClientType
<1>4. client' = [client EXCEPT ![c] = e] /\ server' = [server EXCEPT ![c] = server[c]]
  BY DEF Hello, HandshakeTypeOK
<1>5. up' = Put(up, c, <<r>>) /\ down' = down /\ UNCHANGED <<creds, lines>>
  BY DEF Hello
<1>6. e.at = "cert" /\ e.version = client[c].version /\ e.own = client[c].own
      /\ e.keys = client[c].keys /\ client[c].at = "start"
  BY <1>1 DEF ClientType, Hello
<1>7. r.kind = "hello" /\ r.version = client[c].version /\ r.random = c
  OBVIOUS
<1> HIDE DEF e, r
<1>8. up' \in [Conns -> Seq(RecordType)] /\ down' \in [Conns -> Seq(RecordType)]
      /\ \A d \in Conns \ {c} : up'[d] = up[d]
  <2>1. up \in [Conns -> Seq(RecordType)] /\ down \in [Conns -> Seq(RecordType)]
    BY DEF HandshakeTypeOK
  <2>2. OneMore(up, c, r, up')
    BY <1>3, <1>5, <2>1, PutOne
  <2> QED BY <1>5, <2>1, <2>2 DEF OneMore
<1>9. HandshakeTypeOK'
  BY <1>1, <1>2, <1>4, <1>5, <1>8, QuietType
<1>10. client'[c] = e /\ server' = server /\ \A d \in Conns \ {c} : client'[d] = client[d]
  BY <1>2, <1>4, ClientReplaced DEF Hello
<1>11. up[c] = <<>> /\ up'[c] = <<r>>
  <2>1. up[c] = <<>>
    BY <1>6 DEF ConnOK, ClientOK
  <2>2. OneMore(up, c, r, up')
    BY <1>3, <1>5, PutOne DEF HandshakeTypeOK
  <2> QED BY <2>1, <2>2 DEF OneMore
<1>12. ConnOK(c)'
  <2>1. creds' = creds /\ said' = said /\ heard' = heard
    BY <1>5 DEF lines
  <2>2. Genuine(c)' = Genuine(c) /\ ServerSignature(c)' = ServerSignature(c)
        /\ SessionKeys(c)' = SessionKeys(c)
    BY <2>1 DEF Genuine, ServerSignature, SessionKeys
  <2>3. UpOK(c)'
    BY <1>5, <1>6, <1>7, <1>10, <1>11 DEF ConnOK, ClientOK, UpOK
  <2>4. DownOK(c)'
    BY <1>5, <1>6, <1>10, <2>1, <2>2 DEF ConnOK, ClientOK, DownOK
  <2>5. ClientOK(c)'
    BY <1>5, <1>6, <1>7, <1>10, <1>11, <2>1, <2>2 DEF ConnOK, ClientOK
  <2>6. ServerOK(c)'
    BY <1>10, <2>1, <2>2 DEF ConnOK, ServerOK
  <2> QED BY <2>3, <2>4, <2>5, <2>6 DEF ConnOK
<1> QED BY <1>5, <1>8, <1>9, <1>10, <1>12 DEF Elsewhere, lines

\* The client closes its socket.
LEMMA ClientEndsOK ==
    ASSUME HandshakeTypeOK, NEW c \in Conns, ConnOK(c), ClientEnds(c)
    PROVE  HandshakeTypeOK' /\ Elsewhere(c) /\ ConnOK(c)'
<1> DEFINE e == [client[c] EXCEPT !.at = "closed"]
<1>1. client[c] \in ClientType /\ server[c] \in ServerType
  BY DEF HandshakeTypeOK
<1>2. e \in ClientType /\ e.tx = client[c].tx /\ e.rx = client[c].rx /\ e.at = "closed"
      /\ e.version = client[c].version /\ e.cert = client[c].cert /\ e.pub = client[c].pub
      /\ e.sig = client[c].sig /\ e.own = client[c].own /\ e.keys = client[c].keys
  BY <1>1 DEF ClientType
<1>3. client' = [client EXCEPT ![c] = e] /\ server' = [server EXCEPT ![c] = server[c]]
  BY DEF ClientEnds, HandshakeTypeOK
<1>4. up' = Shut(up, c) /\ down' = down /\ UNCHANGED <<creds, lines>>
  BY DEF ClientEnds
<1>5. up \in [Conns -> Seq(RecordType)] /\ down \in [Conns -> Seq(RecordType)]
  BY DEF HandshakeTypeOK
<1> HIDE DEF e
<1>6. up' \in [Conns -> Seq(RecordType)] /\ \A d \in Conns \ {c} : up'[d] = up[d]
  BY <1>4, <1>5, ShutType
<1>7. HandshakeTypeOK'
  BY <1>1, <1>2, <1>3, <1>4, <1>5, <1>6, QuietType
<1>8. client'[c] = e /\ server' = server /\ \A d \in Conns \ {c} : client'[d] = client[d]
  BY <1>2, <1>3, ClientReplaced DEF ClientEnds
<1>9. KeepsHs(up[c], up'[c]) /\ KeepsOffers(down[c], down'[c])
  BY <1>4, <1>5, KeepsShut, KeepsSame
<1>10. Quiet(c)
  BY <1>2, <1>4, <1>8, <1>9 DEF Quiet, SameClient, SameServer, lines
<1> QED BY <1>4, <1>6, <1>7, <1>8, <1>10, QuietOK DEF Elsewhere, lines

\* abort_handshake: an alert, and the end.
LEMMA RejectsOK ==
    ASSUME HandshakeTypeOK, NEW c \in Conns, ConnOK(c), Rejects(c)
    PROVE  HandshakeTypeOK' /\ Elsewhere(c) /\ ConnOK(c)'
<1> DEFINE e == [client[c] EXCEPT !.at = "closed"]
           t == <<Alert, Eof>>
<1>1. client[c] \in ClientType /\ server[c] \in ServerType
  BY DEF HandshakeTypeOK
<1>2. e \in ClientType /\ e.tx = client[c].tx /\ e.rx = client[c].rx /\ e.at = "closed"
      /\ e.version = client[c].version /\ e.cert = client[c].cert /\ e.pub = client[c].pub
      /\ e.sig = client[c].sig /\ e.own = client[c].own /\ e.keys = client[c].keys
  BY <1>1 DEF ClientType
<1>3. client' = [client EXCEPT ![c] = e] /\ server' = [server EXCEPT ![c] = server[c]]
  BY DEF Rejects, HandshakeTypeOK
<1>4. up' = Put(up, c, t) /\ down' = down /\ UNCHANGED <<creds, lines>>
  BY DEF Rejects
<1>5. up \in [Conns -> Seq(RecordType)] /\ down \in [Conns -> Seq(RecordType)]
      /\ up[c] \in Seq(RecordType)
  BY DEF HandshakeTypeOK
<1>6. t \in Seq(RecordType) /\ \A i \in DOMAIN t : ~IsHandshake(t[i])
  BY Sendable, Records DEF Alert, Eof, IsHandshake
<1> HIDE DEF e, t
<1>7. up' \in [Conns -> Seq(RecordType)] /\ up'[c] = up[c] \o t
      /\ \A d \in Conns \ {c} : up'[d] = up[d]
  <2>1. Put(up, c, t) \in [Conns -> Seq(RecordType)] /\ Put(up, c, t)[c] = up[c] \o t
        /\ \A d \in Conns \ {c} : Put(up, c, t)[d] = up[d]
    BY <1>5, <1>6, PutType
  <2> QED BY <1>4, <2>1
<1>8. HandshakeTypeOK'
  BY <1>1, <1>2, <1>3, <1>4, <1>5, <1>7, QuietType
<1>9. client'[c] = e /\ server' = server /\ \A d \in Conns \ {c} : client'[d] = client[d]
  BY <1>2, <1>3, ClientReplaced DEF Rejects
<1>10. KeepsHs(up[c], up'[c]) /\ KeepsOffers(down[c], down'[c])
  BY <1>4, <1>5, <1>6, <1>7, KeepsPut, KeepsSame
<1>11. Quiet(c)
  BY <1>2, <1>4, <1>9, <1>10 DEF Quiet, SameClient, SameServer, lines
<1> QED BY <1>4, <1>7, <1>8, <1>9, <1>11, QuietOK DEF Elsewhere, lines

\* A client of phase 1 logs in in the clear.
LEMMA PlainLoginOK ==
    ASSUME HandshakeTypeOK, NEW c \in Conns, ConnOK(c), PlainLogin(c)
    PROVE  HandshakeTypeOK' /\ Elsewhere(c) /\ ConnOK(c)'
<1> DEFINE e == [client[c] EXCEPT !.at = "other"]
           r == Unsealed(1)
<1>1. client[c] \in ClientType /\ server[c] \in ServerType
  BY DEF HandshakeTypeOK
<1>2. e \in ClientType /\ e.tx = client[c].tx /\ e.rx = client[c].rx /\ e.at = "other"
      /\ e.version = client[c].version /\ e.cert = client[c].cert /\ e.pub = client[c].pub
      /\ e.sig = client[c].sig /\ e.own = client[c].own /\ e.keys = client[c].keys
  BY <1>1 DEF ClientType
<1>3. client' = [client EXCEPT ![c] = e] /\ server' = [server EXCEPT ![c] = server[c]]
  BY DEF PlainLogin, HandshakeTypeOK
<1>4. up' = Put(up, c, <<r>>) /\ down' = down /\ UNCHANGED <<creds, lines>>
  BY DEF PlainLogin
<1>5. up \in [Conns -> Seq(RecordType)] /\ down \in [Conns -> Seq(RecordType)]
  BY DEF HandshakeTypeOK
<1>6. r \in RecordType /\ ~IsHandshake(r)
  BY Sendable DEF Unsealed, IsHandshake
<1> HIDE DEF e, r
<1>7. OneMore(up, c, r, up')
  BY <1>4, <1>5, <1>6, PutOne
<1>8. HandshakeTypeOK'
  BY <1>1, <1>2, <1>3, <1>4, <1>5, <1>7, QuietType DEF OneMore
<1>9. client'[c] = e /\ server' = server /\ \A d \in Conns \ {c} : client'[d] = client[d]
  BY <1>2, <1>3, ClientReplaced DEF PlainLogin
<1>10. KeepsHs(up[c], up'[c]) /\ KeepsOffers(down[c], down'[c])
  BY <1>4, <1>6, <1>7, KeepsSame DEF OneMore
<1>11. Quiet(c)
  BY <1>2, <1>4, <1>9, <1>10 DEF Quiet, SameClient, SameServer, lines
<1> QED BY <1>4, <1>7, <1>8, <1>9, <1>11, QuietOK DEF Elsewhere, lines, OneMore

(***************************************************************************)
(* A record the client waits for is taken from the wire: the others move   *)
(* up by one place.                                                        *)
(***************************************************************************)
LEMMA TakesRecord ==
    ASSUME HandshakeTypeOK, NEW c \in Conns, ConnOK(c), NEW kind \in DOMAIN Place,
           Receives(c, kind), NEW e \in ClientType, client' = [client EXCEPT ![c] = e],
           e.tx = client[c].tx, e.rx = client[c].rx
    PROVE  /\ HandshakeTypeOK' /\ Elsewhere(c)
           /\ client[c].at = kind /\ Head(down[c]) \in RecordType
           /\ Head(down[c]) = down[c][1] /\ 1 \in DOMAIN down[c]
           /\ Head(down[c]).kind = kind
           /\ kind = "kex" => Head(down[c]).version = client[c].version
           /\ \A i \in DOMAIN down'[c] :
                i \in Nat \ {0} /\ i + 1 \in DOMAIN down[c] /\ down'[c][i] = down[c][i + 1]
           /\ client'[c] = e /\ server' = server /\ up' = up /\ creds' = creds
           /\ said' = said /\ heard' = heard
<1>1. client[c].at = kind /\ down[c] # <<>> /\ Head(down[c]).kind = kind
      /\ (kind = "kex" => Head(down[c]).version = client[c].version)
      /\ down' = Rest(down, c) /\ server' = server /\ up' = up /\ creds' = creds
      /\ said' = said /\ heard' = heard
  BY DEF Receives, Waits, Due, lines
<1>2. down \in [Conns -> Seq(RecordType)] /\ down[c] \in Seq(RecordType)
      /\ server[c] \in ServerType /\ up \in [Conns -> Seq(RecordType)]
      /\ server = [server EXCEPT ![c] = server[c]]
  BY DEF HandshakeTypeOK
<1>3. Rest(down, c) \in [Conns -> Seq(RecordType)] /\ Rest(down, c)[c] = Tail(down[c])
      /\ \A d \in Conns \ {c} : Rest(down, c)[d] = down[d]
  BY <1>1, <1>2, RestType
<1>4. HandshakeTypeOK'
  BY <1>1, <1>2, <1>3, QuietType DEF lines
<1>5. client'[c] = e /\ \A d \in Conns \ {c} : client'[d] = client[d]
  BY ClientReplaced
<1>6. Elsewhere(c)
  BY <1>1, <1>3, <1>5 DEF Elsewhere
<1>7. down'[c] = Tail(down[c])
  BY <1>1, <1>3
<1> QED BY <1>1, <1>2, <1>4, <1>5, <1>6, <1>7, TailOf

\* The certificate that the client reads is the server's.
LEMMA ReadCertOK ==
    ASSUME HandshakeTypeOK, NEW c \in Conns, ConnOK(c), ReadCert(c)
    PROVE  HandshakeTypeOK' /\ Elsewhere(c) /\ ConnOK(c)'
<1> DEFINE e == [client[c] EXCEPT !.at = "kex", !.cert = Head(down[c]).cert]
<1>1. client[c] \in ClientType /\ down[c] \in Seq(RecordType)
  BY DEF HandshakeTypeOK
<1>2. Head(down[c]).cert \in Certs
  BY <1>1, TailOf, Received DEF ReadCert, Receives, Waits, Due
<1>3. e \in ClientType /\ e.tx = client[c].tx /\ e.rx = client[c].rx
      /\ e.at = "kex" /\ e.cert = Head(down[c]).cert /\ e.version = client[c].version
      /\ e.own = client[c].own /\ e.keys = client[c].keys
  BY <1>1, <1>2 DEF ClientType, Maybe
<1>4. client' = [client EXCEPT ![c] = e] /\ Receives(c, "cert") /\ "cert" \in DOMAIN Place
  BY DEF ReadCert, HandshakeTypeOK, Place
<1> HIDE DEF e
<1>5. /\ HandshakeTypeOK' /\ Elsewhere(c)
      /\ client[c].at = "cert"
      /\ Head(down[c]) = down[c][1] /\ 1 \in DOMAIN down[c]
      /\ Head(down[c]).kind = "cert"
      /\ \A i \in DOMAIN down'[c] :
           i \in Nat \ {0} /\ i + 1 \in DOMAIN down[c] /\ down'[c][i] = down[c][i + 1]
      /\ client'[c] = e /\ server' = server /\ up' = up /\ creds' = creds
      /\ said' = said /\ heard' = heard
  BY <1>3, <1>4, TakesRecord, ZenonT(40)
<1>6. Genuine(c)' = Genuine(c) /\ ServerSignature(c)' = ServerSignature(c)
      /\ SessionKeys(c)' = SessionKeys(c)
  BY <1>5 DEF Genuine, ServerSignature, SessionKeys
<1>7. server[c].step # "AwaitClientHello" /\ e.cert = creds[c].cert
  BY <1>3, <1>4, <1>5 DEF ConnOK, DownOK
<1>8. UpOK(c)'
  BY <1>3, <1>5, <1>6, <1>7 DEF ConnOK, UpOK
<1>9. DownOK(c)'
  BY <1>3, <1>5, <1>6 DEF ConnOK, DownOK, Place
<1>10. ClientOK(c)'
  BY <1>3, <1>5, <1>6, <1>7 DEF ConnOK, ClientOK
<1>11. ServerOK(c)'
  BY <1>5, <1>6 DEF ConnOK, ServerOK
<1> QED BY <1>5, <1>8, <1>9, <1>10, <1>11 DEF ConnOK

\* The public value that it reads is the server's.
LEMMA ReadKexOK ==
    ASSUME HandshakeTypeOK, NEW c \in Conns, ConnOK(c), ReadKex(c)
    PROVE  HandshakeTypeOK' /\ Elsewhere(c) /\ ConnOK(c)'
<1> DEFINE e == [client[c] EXCEPT !.at = "proof", !.pub = Head(down[c]).pub]
<1>1. client[c] \in ClientType /\ down[c] \in Seq(RecordType)
  BY DEF HandshakeTypeOK
<1>2. Head(down[c]).pub \in PublicValues
  BY <1>1, TailOf, Received DEF ReadKex, Receives, Waits, Due
<1>3. e \in ClientType /\ e.tx = client[c].tx /\ e.rx = client[c].rx
      /\ e.at = "proof" /\ e.pub = Head(down[c]).pub /\ e.version = client[c].version
      /\ e.cert = client[c].cert /\ e.own = client[c].own /\ e.keys = client[c].keys
  BY <1>1, <1>2 DEF ClientType, Maybe
<1>4. client' = [client EXCEPT ![c] = e] /\ Receives(c, "kex") /\ "kex" \in DOMAIN Place
  BY DEF ReadKex, HandshakeTypeOK, Place
<1> HIDE DEF e
<1>5. /\ HandshakeTypeOK' /\ Elsewhere(c)
      /\ client[c].at = "kex"
      /\ Head(down[c]) = down[c][1] /\ 1 \in DOMAIN down[c]
      /\ Head(down[c]).kind = "kex" /\ Head(down[c]).version = client[c].version
      /\ \A i \in DOMAIN down'[c] :
           i \in Nat \ {0} /\ i + 1 \in DOMAIN down[c] /\ down'[c][i] = down[c][i + 1]
      /\ client'[c] = e /\ server' = server /\ up' = up /\ creds' = creds
      /\ said' = said /\ heard' = heard
  BY <1>3, <1>4, TakesRecord, ZenonT(40)
<1>6. Genuine(c)' = Genuine(c) /\ ServerSignature(c)' = ServerSignature(c)
      /\ SessionKeys(c)' = SessionKeys(c)
  BY <1>5 DEF Genuine, ServerSignature, SessionKeys
<1>7. server[c].step # "AwaitClientHello" /\ e.pub = Pair(c, "server") /\ e.version = VERSION
  BY <1>3, <1>4, <1>5 DEF ConnOK, DownOK
<1>8. UpOK(c)'
  BY <1>3, <1>5, <1>6, <1>7 DEF ConnOK, UpOK
<1>9. DownOK(c)'
  BY <1>3, <1>5, <1>6 DEF ConnOK, DownOK, Place
<1>10. ClientOK(c)'
  BY <1>3, <1>5, <1>6, <1>7 DEF ConnOK, ClientOK
<1>11. ServerOK(c)'
  BY <1>5, <1>6 DEF ConnOK, ServerOK
<1> QED BY <1>5, <1>8, <1>9, <1>10, <1>11 DEF ConnOK

\* The signature that it reads is of these.
LEMMA ReadProofOK ==
    ASSUME HandshakeTypeOK, NEW c \in Conns, ConnOK(c), ReadProof(c)
    PROVE  HandshakeTypeOK' /\ Elsewhere(c) /\ ConnOK(c)'
<1> DEFINE e == [client[c] EXCEPT !.at = "check", !.sig = Head(down[c]).sig]
<1>1. client[c] \in ClientType /\ down[c] \in Seq(RecordType)
  BY DEF HandshakeTypeOK
<1>2. Head(down[c]).sig \in Signatures
  BY <1>1, TailOf, Received DEF ReadProof, Receives, Waits, Due
<1>3. e \in ClientType /\ e.tx = client[c].tx /\ e.rx = client[c].rx
      /\ e.at = "check" /\ e.sig = Head(down[c]).sig /\ e.version = client[c].version
      /\ e.cert = client[c].cert /\ e.pub = client[c].pub
      /\ e.own = client[c].own /\ e.keys = client[c].keys
  BY <1>1, <1>2 DEF ClientType, Maybe
<1>4. client' = [client EXCEPT ![c] = e] /\ Receives(c, "proof") /\ "proof" \in DOMAIN Place
  BY DEF ReadProof, HandshakeTypeOK, Place
<1> HIDE DEF e
<1>5. /\ HandshakeTypeOK' /\ Elsewhere(c)
      /\ client[c].at = "proof"
      /\ Head(down[c]) = down[c][1] /\ 1 \in DOMAIN down[c]
      /\ Head(down[c]).kind = "proof"
      /\ \A i \in DOMAIN down'[c] :
           i \in Nat \ {0} /\ i + 1 \in DOMAIN down[c] /\ down'[c][i] = down[c][i + 1]
      /\ client'[c] = e /\ server' = server /\ up' = up /\ creds' = creds
      /\ said' = said /\ heard' = heard
  BY <1>3, <1>4, TakesRecord, ZenonT(40)
<1>6. Genuine(c)' = Genuine(c) /\ ServerSignature(c)' = ServerSignature(c)
      /\ SessionKeys(c)' = SessionKeys(c)
  BY <1>5 DEF Genuine, ServerSignature, SessionKeys
<1>7. e.sig = ServerSignature(c)
  BY <1>3, <1>4, <1>5 DEF ConnOK, DownOK
<1>8. UpOK(c)'
  BY <1>3, <1>5, <1>6, <1>7 DEF ConnOK, UpOK
<1>9. DownOK(c)'
  BY <1>3, <1>5, <1>6 DEF ConnOK, DownOK, Place
<1>10. ClientOK(c)'
  BY <1>3, <1>5, <1>6, <1>7 DEF ConnOK, ClientOK
<1>11. ServerOK(c)'
  BY <1>5, <1>6 DEF ConnOK, ServerOK
<1> QED BY <1>5, <1>8, <1>9, <1>10, <1>11 DEF ConnOK

\* A client that contributes has proof that the server is genuine.
LEMMA ContributesOK ==
    ASSUME HandshakeTypeOK, NEW c \in Conns, ConnOK(c), Contributes(c)
    PROVE  HandshakeTypeOK' /\ Elsewhere(c) /\ ConnOK(c)'
<1> DEFINE own == Pair(c, "client")
           e == [client[c] EXCEPT !.at = "finish", !.own = own]
           r == [kind |-> "clientkex", pub |-> own]
<1>1. client[c] \in ClientType /\ server[c] \in ServerType /\ up[c] \in Seq(RecordType)
      /\ up \in [Conns -> Seq(RecordType)] /\ down \in [Conns -> Seq(RecordType)]
  BY DEF HandshakeTypeOK
<1>2. own \in PublicValues
  BY DEF Pair, PublicValues
<1>3. e \in ClientType /\ e.tx = client[c].tx /\ e.rx = client[c].rx
      /\ e.at = "finish" /\ e.own = own /\ e.version = client[c].version
      /\ e.cert = client[c].cert /\ e.pub = client[c].pub
      /\ e.sig = client[c].sig /\ e.keys = client[c].keys
  BY <1>1, <1>2 DEF ClientType, Maybe
<1>4. client' = [client EXCEPT ![c] = e] /\ server' = [server EXCEPT ![c] = server[c]]
      /\ client[c].at = "check" /\ Proven(c)
  BY DEF Contributes, HandshakeTypeOK
<1>5. up' = Put(up, c, <<r>>) /\ down' = down /\ server' = server
      /\ creds' = creds /\ said' = said /\ heard' = heard
  BY DEF Contributes, lines
<1>6. r \in RecordType /\ r.kind = "clientkex" /\ r.pub = own
  BY <1>2, Sendable
<1> HIDE DEF e, r, own
<1>7. OneMore(up, c, r, up')
  BY <1>1, <1>5, <1>6, PutOne
<1>8. HandshakeTypeOK'
  BY <1>1, <1>3, <1>4, <1>5, <1>7, QuietType DEF lines, OneMore
<1>9. client'[c] = e /\ \A d \in Conns \ {c} : client'[d] = client[d]
  BY <1>3, <1>4, ClientReplaced
<1>10. Genuine(c)' = Genuine(c) /\ ServerSignature(c)' = ServerSignature(c)
       /\ SessionKeys(c)' = SessionKeys(c)
  BY <1>5 DEF Genuine, ServerSignature, SessionKeys
<1>11. Genuine(c)
  <2>1. client[c].cert = creds[c].cert /\ client[c].sig = ServerSignature(c)
    BY <1>4 DEF ConnOK, ClientOK
  <2>2. creds[c].cert.faults = {}
    BY <1>4, <2>1 DEF Proven, Accepts
  <2>3. creds[c].key = creds[c].cert.key
    <3>1. ServerSignature(c).key = creds[c].key
      BY DEF ServerSignature, Sign
    <3>2. client[c].sig.key = client[c].cert.key
      BY <1>4 DEF Proven, Verifies, Sign
    <3> QED BY <2>1, <3>1, <3>2
  <2> QED BY <2>2, <2>3 DEF Genuine
<1>12. server[c].step = "AwaitClientKex" /\ \A i \in DOMAIN up[c] : ~IsHandshake(up[c][i])
  <2>1. server[c].step # "AwaitClientHello" /\ server[c].step # "Complete"
        /\ \A i \in DOMAIN up[c] : up[c][i].kind # "clientkex"
    BY <1>4 DEF ConnOK, ClientOK
  <2> QED BY <1>1, <2>1 DEF ConnOK, UpOK, IsHandshake, ServerType
<1>13. UpOK(c)'
  <2>1. ASSUME NEW i \in DOMAIN up'[c], IsHandshake(up'[c][i])
        PROVE  i = Len(up[c]) + 1 /\ up'[c][i] = r
    BY <1>7, <1>12, <2>1 DEF OneMore
  <2> QED BY <1>5, <1>6, <1>10, <1>11, <1>12, <2>1 DEF UpOK, IsHandshake, own
<1>14. DownOK(c)'
  BY <1>3, <1>4, <1>5, <1>9, <1>10 DEF ConnOK, DownOK, Place
<1>15. ClientOK(c)'
  BY <1>3, <1>4, <1>5, <1>9, <1>10, <1>11, <1>12 DEF ConnOK, ClientOK, own
<1>16. ServerOK(c)'
  BY <1>5, <1>10 DEF ConnOK, ServerOK
<1> QED BY <1>5, <1>7, <1>8, <1>9, <1>13, <1>14, <1>15, <1>16 DEF ConnOK, Elsewhere, OneMore

\* The keys of the client are those of the server.
LEMMA InstallsOK ==
    ASSUME HandshakeTypeOK, NEW c \in Conns, ConnOK(c), Installs(c)
    PROVE  HandshakeTypeOK' /\ Elsewhere(c) /\ ConnOK(c)'
<1> DEFINE x == client[c]
           keys == Derive(x.own, x.pub, x.version, c, x.cert, x.pub, x.own)
           e == [x EXCEPT !.at = "up", !.keys = keys]
<1>1. x \in ClientType /\ server[c] \in ServerType /\ creds[c] \in Creds
      /\ up \in [Conns -> Seq(RecordType)] /\ down \in [Conns -> Seq(RecordType)]
  BY DEF HandshakeTypeOK
<1>2. x.at = "finish" /\ client' = [client EXCEPT ![c] = e]
      /\ server' = [server EXCEPT ![c] = server[c]]
  BY DEF Installs, HandshakeTypeOK
<1>3. server' = server /\ up' = up /\ down' = down
      /\ creds' = creds /\ said' = said /\ heard' = heard
  BY DEF Installs, lines
<1>4. /\ x.own = Pair(c, "client") /\ x.pub = Pair(c, "server") /\ x.version = VERSION
      /\ x.cert = creds[c].cert /\ Genuine(c) /\ x.sig = ServerSignature(c)
      /\ server[c].step # "AwaitClientHello"
  BY <1>2 DEF ConnOK, ClientOK
<1>5. keys = SessionKeys(c)
  BY <1>4 DEF SessionKeys
<1>6. keys \in Keys
  <2>1. Pair(c, "client") \in PublicValues /\ Pair(c, "server") \in PublicValues
        /\ creds[c].cert \in Certs /\ VERSION \in Versions
    BY <1>1, HandshakeAssumption DEF Pair, PublicValues, Certs
  <2> QED BY <1>4, <2>1, Derived
<1> HIDE DEF keys
<1>7. e \in ClientType /\ e.tx = x.tx /\ e.rx = x.rx /\ e.at = "up" /\ e.keys = keys
      /\ e.version = x.version /\ e.cert = x.cert /\ e.pub = x.pub /\ e.sig = x.sig
      /\ e.own = x.own
  BY <1>1, <1>6 DEF ClientType, Maybe
<1> HIDE DEF e
<1>8. HandshakeTypeOK'
  BY <1>1, <1>2, <1>3, <1>7, QuietType DEF lines
<1>9. client'[c] = e /\ \A d \in Conns \ {c} : client'[d] = client[d]
  BY <1>2, <1>7, ClientReplaced
<1>10. Genuine(c)' = Genuine(c) /\ ServerSignature(c)' = ServerSignature(c)
       /\ SessionKeys(c)' = SessionKeys(c)
  BY <1>3 DEF Genuine, ServerSignature, SessionKeys
<1>11. UpOK(c)'
  BY <1>3, <1>7, <1>9, <1>10 DEF ConnOK, UpOK
<1>12. DownOK(c)'
  BY <1>2, <1>3, <1>7, <1>9, <1>10 DEF ConnOK, DownOK, Place
<1>13. ClientOK(c)'
  BY <1>2, <1>3, <1>4, <1>5, <1>7, <1>9, <1>10 DEF ClientOK
<1>14. ServerOK(c)'
  BY <1>3, <1>10 DEF ConnOK, ServerOK
<1> QED BY <1>3, <1>8, <1>9, <1>11, <1>12, <1>13, <1>14 DEF ConnOK, Elsewhere

\* An end with other counters.
CountsClient(e, tx, rx) == [e EXCEPT !.tx = tx, !.rx = rx]
CountsServer(e, tx, rx, want) == [e EXCEPT !.tx = tx, !.rx = rx, !.want = want]

\* A line is added to what one end said or heard.
OneLine(w, c, dir, line) ==
    [w EXCEPT ![c] = [w[c] EXCEPT ![dir] = Append(w[c][dir], line)]]

\* The lines v are w with one more for c in one direction.
LineMore(w, c, dir, other, v) ==
    /\ v \in [Conns -> [up : Seq(Nat), down : Seq(Nat)]]
    /\ \A d \in Conns \ {c} : v[d] = w[d]
    /\ Len(v[c][dir]) = Len(w[c][dir]) + 1
    /\ v[c][other] = w[c][other]

\* What one connection hears, or says, and the others do not.
LEMMA OneLineMore ==
    ASSUME NEW w \in [Conns -> [up : Seq(Nat), down : Seq(Nat)]], NEW c \in Conns,
           NEW line \in Nat
    PROVE  /\ LineMore(w, c, "up", "down", OneLine(w, c, "up", line))
           /\ LineMore(w, c, "down", "up", OneLine(w, c, "down", line))
<1>1. w[c] \in [up : Seq(Nat), down : Seq(Nat)]
      /\ w[c]["up"] \in Seq(Nat) /\ w[c]["down"] \in Seq(Nat)
  OBVIOUS
<1>2. ASSUME NEW s \in Seq(Nat)
      PROVE  Append(s, line) \in Seq(Nat) /\ Len(Append(s, line)) = Len(s) + 1
  OBVIOUS
<1>3. LineMore(w, c, "up", "down", OneLine(w, c, "up", line))
  <2> DEFINE t == Append(w[c]["up"], line)
             x == [w[c] EXCEPT !["up"] = t]
  <2>1. t \in Seq(Nat) /\ Len(t) = Len(w[c]["up"]) + 1
    BY <1>1, <1>2
  <2> HIDE DEF t
  <2>2. x \in [up : Seq(Nat), down : Seq(Nat)] /\ x["up"] = t /\ x["down"] = w[c]["down"]
    BY <1>1, <2>1
  <2>3. OneLine(w, c, "up", line) = [w EXCEPT ![c] = x]
    BY DEF OneLine, t
  <2> HIDE DEF x
  <2> QED BY <2>1, <2>2, <2>3 DEF LineMore
<1>4. LineMore(w, c, "down", "up", OneLine(w, c, "down", line))
  <2> DEFINE t == Append(w[c]["down"], line)
             x == [w[c] EXCEPT !["down"] = t]
  <2>1. t \in Seq(Nat) /\ Len(t) = Len(w[c]["down"]) + 1
    BY <1>1, <1>2
  <2> HIDE DEF t
  <2>2. x \in [up : Seq(Nat), down : Seq(Nat)] /\ x["down"] = t /\ x["up"] = w[c]["up"]
    BY <1>1, <2>1
  <2>3. OneLine(w, c, "down", line) = [w EXCEPT ![c] = x]
    BY DEF OneLine, t
  <2> HIDE DEF x
  <2> QED BY <2>1, <2>2, <2>3 DEF LineMore
<1> QED BY <1>3, <1>4

\* The client seals a line.
LEMMA SaysOK ==
    ASSUME HandshakeTypeOK, NEW c \in Conns, ConnOK(c), client[c].at = "up",
           NEW line \in Nat, NEW r \in RecordType, r.kind = "data",
           ClientSeals(c, line, r), UNCHANGED <<creds, server, down, heard>>
    PROVE  HandshakeTypeOK' /\ Elsewhere(c) /\ ConnOK(c)'
<1> DEFINE e == CountsClient(client[c], client[c].tx + 1, client[c].rx)
<1>1. client[c] \in ClientType /\ up \in [Conns -> Seq(RecordType)]
      /\ said \in [Conns -> [up : Seq(Nat), down : Seq(Nat)]]
  BY DEF HandshakeTypeOK
<1>2. /\ e \in ClientType /\ e.tx = client[c].tx + 1 /\ e.rx = client[c].rx
      /\ e.at = client[c].at /\ e.version = client[c].version /\ e.cert = client[c].cert
      /\ e.pub = client[c].pub /\ e.sig = client[c].sig /\ e.own = client[c].own
      /\ e.keys = client[c].keys
  <2> DEFINE n == client[c].tx + 1
             m == client[c].rx
  <2>1. n \in Nat /\ m \in Nat
    BY <1>1 DEF ClientType
  <2>2. e = CountsClient(client[c], n, m)
    OBVIOUS
  <2> HIDE DEF n, m, e
  <2>3. e \in ClientType
    BY <1>1, <2>1, <2>2 DEF ClientType, CountsClient
  <2>4. e.tx = n /\ e.rx = m
    BY <1>1, <2>1, <2>2 DEF ClientType, CountsClient
  <2>5. /\ e.at = client[c].at /\ e.version = client[c].version /\ e.cert = client[c].cert
        /\ e.pub = client[c].pub /\ e.sig = client[c].sig /\ e.own = client[c].own
        /\ e.keys = client[c].keys
    BY <1>1, <2>1, <2>2 DEF ClientType, CountsClient
  <2> QED BY <2>3, <2>4, <2>5 DEF n, m
<1>3. client' = [client EXCEPT ![c] = e] /\ up' = Put(up, c, <<r>>)
  BY <1>1 DEF ClientSeals, HandshakeTypeOK, ClientType, CountsClient
<1>4. said' = OneLine(said, c, "up", line)
  BY <1>1 DEF ClientSeals, OneLine
<1> HIDE DEF e
<1>5. client'[c] = e /\ client' \in [Conns -> ClientType]
      /\ \A d \in Conns \ {c} : client'[d] = client[d]
  BY <1>2, <1>3, ClientReplaced
<1>6. OneMore(up, c, r, up')
  BY <1>1, <1>3, PutOne
<1>7. /\ said' \in [Conns -> [up : Seq(Nat), down : Seq(Nat)]]
      /\ \A d \in Conns \ {c} : said'[d] = said[d]
      /\ Len(said'[c]["up"]) = Len(said[c]["up"]) + 1
      /\ said'[c]["down"] = said[c]["down"]
  <2>1. LineMore(said, c, "up", "down", said')
    BY <1>1, <1>4, OneLineMore
  <2> QED BY <2>1 DEF LineMore
<1>8. ASSUME NEW d \in Conns
      PROVE  /\ client'[d].tx = Len(said'[d].up) /\ client'[d].rx = Len(heard'[d].down)
             /\ server'[d].tx = Len(said'[d].down) /\ server'[d].rx = Len(heard'[d].up)
  <2>1. CASE d = c
    BY <1>2, <1>5, <1>7, <2>1 DEF HandshakeTypeOK
  <2>2. CASE d # c
    BY <1>5, <1>7, <2>2 DEF HandshakeTypeOK
  <2> QED BY <2>1, <2>2
<1>9. HandshakeTypeOK'
  BY <1>5, <1>6, <1>7, <1>8 DEF HandshakeTypeOK, OneMore
<1>10. ~IsHandshake(r)
  BY DEF IsHandshake
<1>11. Quiet(c)
  BY <1>2, <1>5, <1>6, <1>10, KeepsSame DEF Quiet, SameClient, SameServer, OneMore
<1> QED BY <1>5, <1>6, <1>7, <1>9, <1>11, QuietOK DEF Elsewhere, OneMore

\* The client opens a line.
LEMMA HearsOK ==
    ASSUME HandshakeTypeOK, NEW c \in Conns, ConnOK(c), Hears(c)
    PROVE  HandshakeTypeOK' /\ Elsewhere(c) /\ ConnOK(c)'
<1> DEFINE e == CountsClient(client[c], client[c].tx, client[c].rx + 1)
           line == Head(down[c]).line
<1>1. client[c] \in ClientType /\ down \in [Conns -> Seq(RecordType)]
      /\ down[c] \in Seq(RecordType) /\ heard \in [Conns -> [up : Seq(Nat), down : Seq(Nat)]]
  BY DEF HandshakeTypeOK
<1>2. /\ e \in ClientType /\ e.rx = client[c].rx + 1 /\ e.tx = client[c].tx
      /\ e.at = client[c].at /\ e.version = client[c].version /\ e.cert = client[c].cert
      /\ e.pub = client[c].pub /\ e.sig = client[c].sig /\ e.own = client[c].own
      /\ e.keys = client[c].keys
  <2> DEFINE n == client[c].rx + 1
             m == client[c].tx
  <2>1. n \in Nat /\ m \in Nat
    BY <1>1 DEF ClientType
  <2>2. e = CountsClient(client[c], m, n)
    OBVIOUS
  <2> HIDE DEF n, m, e
  <2>3. e \in ClientType
    BY <1>1, <2>1, <2>2 DEF ClientType, CountsClient
  <2>4. e.tx = m /\ e.rx = n
    BY <1>1, <2>1, <2>2 DEF ClientType, CountsClient
  <2>5. /\ e.at = client[c].at /\ e.version = client[c].version /\ e.cert = client[c].cert
        /\ e.pub = client[c].pub /\ e.sig = client[c].sig /\ e.own = client[c].own
        /\ e.keys = client[c].keys
    BY <1>1, <2>1, <2>2 DEF ClientType, CountsClient
  <2> QED BY <2>3, <2>4, <2>5 DEF n, m
<1>3. client' = [client EXCEPT ![c] = e] /\ down' = Rest(down, c) /\ down[c] # <<>>
      /\ client[c].at = "up" /\ creds' = creds /\ server' = server /\ up' = up /\ said' = said
  BY <1>1 DEF Hears, ClientOpens, HandshakeTypeOK, ClientType, CountsClient
<1>4. line \in Nat
  BY <1>1, <1>3, TailOf, Received DEF Hears, ClientOpens, Opens
<1>5. heard' = OneLine(heard, c, "down", line)
  BY <1>1 DEF Hears, ClientOpens, OneLine, line
<1> HIDE DEF e, line
<1>6. client'[c] = e /\ client' \in [Conns -> ClientType]
      /\ \A d \in Conns \ {c} : client'[d] = client[d]
  BY <1>2, <1>3, ClientReplaced
<1>7. /\ down' \in [Conns -> Seq(RecordType)] /\ down'[c] = Tail(down[c])
      /\ \A d \in Conns \ {c} : down'[d] = down[d]
  BY <1>1, <1>3, RestType
<1>8. /\ heard' \in [Conns -> [up : Seq(Nat), down : Seq(Nat)]]
      /\ \A d \in Conns \ {c} : heard'[d] = heard[d]
      /\ Len(heard'[c]["down"]) = Len(heard[c]["down"]) + 1
      /\ heard'[c]["up"] = heard[c]["up"]
  <2>1. LineMore(heard, c, "down", "up", heard')
    BY <1>1, <1>4, <1>5, OneLineMore
  <2> QED BY <2>1 DEF LineMore
<1>9. ASSUME NEW d \in Conns
      PROVE  /\ client'[d].tx = Len(said'[d].up) /\ client'[d].rx = Len(heard'[d].down)
             /\ server'[d].tx = Len(said'[d].down) /\ server'[d].rx = Len(heard'[d].up)
  <2>1. CASE d = c
    BY <1>2, <1>3, <1>6, <1>8, <2>1 DEF HandshakeTypeOK
  <2>2. CASE d # c
    BY <1>3, <1>6, <1>8, <2>2 DEF HandshakeTypeOK
  <2> QED BY <2>1, <2>2
<1>10. HandshakeTypeOK'
  BY <1>3, <1>6, <1>7, <1>8, <1>9 DEF HandshakeTypeOK
<1>11. \A i \in DOMAIN down[c] : ~Offers(down[c][i])
  BY <1>3 DEF ConnOK, DownOK, Offers, Place
<1>12. KeepsOffers(down[c], down'[c]) /\ KeepsHs(up[c], up'[c])
  BY <1>1, <1>3, <1>7, <1>11, DropsTail, KeepsSame
<1>13. server[c].step # "AwaitClientHello"
  BY <1>3 DEF ConnOK, ClientOK
<1>14. Quiet(c)
  BY <1>2, <1>3, <1>6, <1>8, <1>12, <1>13 DEF Quiet, SameClient, SameServer
<1> QED BY <1>3, <1>6, <1>7, <1>8, <1>10, <1>14, QuietOK DEF Elsewhere

-----------------------------------------------------------------------------
(* The server end. *)

\* The server closes its socket.
LEMMA ServerEndsOK ==
    ASSUME HandshakeTypeOK, NEW c \in Conns, ConnOK(c), ServerEnds(c)
    PROVE  HandshakeTypeOK' /\ Elsewhere(c) /\ ConnOK(c)'
<1> DEFINE f == [server[c] EXCEPT !.at = "closed"]
<1>1. client[c] \in ClientType /\ server[c] \in ServerType
  BY DEF HandshakeTypeOK
<1>2. f \in ServerType /\ f.tx = server[c].tx /\ f.rx = server[c].rx /\ f.at = "closed"
      /\ f.step = server[c].step /\ f.random = server[c].random /\ f.own = server[c].own
      /\ f.keys = server[c].keys
  BY <1>1 DEF ServerType
<1>3. server' = [server EXCEPT ![c] = f] /\ client' = [client EXCEPT ![c] = client[c]]
  BY DEF ServerEnds, HandshakeTypeOK
<1>4. down' = Shut(down, c) /\ up' = up /\ UNCHANGED <<creds, lines>>
  BY DEF ServerEnds
<1>5. up \in [Conns -> Seq(RecordType)] /\ down \in [Conns -> Seq(RecordType)]
  BY DEF HandshakeTypeOK
<1> HIDE DEF f
<1>6. down' \in [Conns -> Seq(RecordType)] /\ \A d \in Conns \ {c} : down'[d] = down[d]
  BY <1>4, <1>5, ShutType
<1>7. HandshakeTypeOK'
  BY <1>1, <1>2, <1>3, <1>4, <1>5, <1>6, QuietType
<1>8. server'[c] = f /\ client' = client /\ \A d \in Conns \ {c} : server'[d] = server[d]
  BY <1>2, <1>3, ServerReplaced DEF ServerEnds
<1>9. KeepsHs(up[c], up'[c]) /\ KeepsOffers(down[c], down'[c])
  BY <1>4, <1>5, KeepsShut, KeepsSame
<1>10. Quiet(c)
  BY <1>2, <1>4, <1>8, <1>9 DEF Quiet, SameClient, SameServer, lines
<1> QED BY <1>4, <1>6, <1>7, <1>8, <1>10, QuietOK DEF Elsewhere, lines

\* feed fails: the server answers with an alert.
LEMMA FeedFailsOK ==
    ASSUME HandshakeTypeOK, NEW c \in Conns, ConnOK(c), FeedFails(c)
    PROVE  HandshakeTypeOK' /\ Elsewhere(c) /\ ConnOK(c)'
<1> DEFINE f == [server[c] EXCEPT !.want = TRUE]
<1>1. client[c] \in ClientType /\ server[c] \in ServerType /\ up[c] \in Seq(RecordType)
  BY DEF HandshakeTypeOK
<1>2. f \in ServerType /\ f.tx = server[c].tx /\ f.rx = server[c].rx /\ f.at = server[c].at
      /\ f.step = server[c].step /\ f.random = server[c].random /\ f.own = server[c].own
      /\ f.keys = server[c].keys
  BY <1>1 DEF ServerType
<1>3. server' = [server EXCEPT ![c] = f] /\ client' = [client EXCEPT ![c] = client[c]]
  BY DEF FeedFails, HandshakeTypeOK
<1>4. down' = Put(down, c, <<Alert>>) /\ up' = Rest(up, c) /\ up[c] # <<>>
      /\ UNCHANGED <<creds, client, lines>>
  BY DEF FeedFails, Reads
<1>5. up \in [Conns -> Seq(RecordType)] /\ down \in [Conns -> Seq(RecordType)]
  BY DEF HandshakeTypeOK
<1> HIDE DEF f
<1>6. Alert \in RecordType /\ ~Offers(Alert)
  BY Sendable DEF Alert, Offers, Place
<1>7. OneMore(down, c, Alert, down')
  BY <1>4, <1>5, <1>6, PutOne
<1>8. up' \in [Conns -> Seq(RecordType)] /\ up'[c] = Tail(up[c])
      /\ \A d \in Conns \ {c} : up'[d] = up[d]
  BY <1>4, <1>5, RestType
<1>9. HandshakeTypeOK'
  BY <1>1, <1>2, <1>3, <1>4, <1>7, <1>8, QuietType DEF OneMore
<1>10. server'[c] = f /\ \A d \in Conns \ {c} : server'[d] = server[d]
  BY <1>2, <1>3, ServerReplaced
<1>11. DropsFirst(up[c], up'[c]) /\ KeepsOffers(down[c], down'[c])
  BY <1>1, <1>4, <1>6, <1>7, <1>8, DropsTail DEF OneMore
<1>12. client[c].at # "start"
  BY <1>4 DEF ConnOK, ClientOK
<1>13. Quiet(c)
  BY <1>2, <1>4, <1>10, <1>11, <1>12 DEF Quiet, SameClient, SameServer, lines
<1> QED BY <1>4, <1>7, <1>8, <1>9, <1>10, <1>13, QuietOK DEF Elsewhere, lines, OneMore

\* What was sent before the end is lost.
LEMMA ResetOK ==
    ASSUME HandshakeTypeOK, NEW c \in Conns, ConnOK(c), Reset(c)
    PROVE  HandshakeTypeOK' /\ Elsewhere(c) /\ ConnOK(c)'
<1>1. client[c] \in ClientType /\ server[c] \in ServerType
      /\ up \in [Conns -> Seq(RecordType)] /\ down \in [Conns -> Seq(RecordType)]
      /\ client = [client EXCEPT ![c] = client[c]] /\ server = [server EXCEPT ![c] = server[c]]
  BY DEF HandshakeTypeOK
<1> DEFINE t == <<Eof>>
<1>2. t \in Seq(RecordType) /\ \A s : KeepsHs(s, t) /\ KeepsOffers(s, t)
  BY Sendable, Records DEF Eof, KeepsHs, KeepsOffers, IsHandshake, Offers, Place
<1> HIDE DEF t
<1>3. UNCHANGED <<creds, client, server, lines>>
  BY DEF Reset, ends
<1>4. /\ up' \in [Conns -> Seq(RecordType)] /\ down' \in [Conns -> Seq(RecordType)]
      /\ \A d \in Conns \ {c} : up'[d] = up[d] /\ down'[d] = down[d]
      /\ (up'[c] = up[c] \/ (IsShut(up[c]) /\ up'[c] = t))
      /\ (down'[c] = down[c] \/ (IsShut(down[c]) /\ down'[c] = t))
  <2>1. CASE IsShut(up[c]) /\ up' = [up EXCEPT ![c] = t] /\ down' = down
    <3> DEFINE w == [up EXCEPT ![c] = t]
    <3>1. w \in [Conns -> Seq(RecordType)] /\ w[c] = t /\ \A d \in Conns \ {c} : w[d] = up[d]
      BY <1>1, <1>2
    <3>2. up' = w /\ down' = down /\ IsShut(up[c])
      BY <2>1
    <3>3. up \in [Conns -> Seq(RecordType)] /\ down \in [Conns -> Seq(RecordType)]
      BY <1>1
    <3> HIDE DEF w
    <3> QED BY <3>1, <3>2, <3>3
  <2>2. CASE IsShut(down[c]) /\ down' = [down EXCEPT ![c] = t] /\ up' = up
    <3> DEFINE w == [down EXCEPT ![c] = t]
    <3>1. w \in [Conns -> Seq(RecordType)] /\ w[c] = t /\ \A d \in Conns \ {c} : w[d] = down[d]
      BY <1>1, <1>2
    <3>2. down' = w /\ up' = up /\ IsShut(down[c])
      BY <2>2
    <3>3. up \in [Conns -> Seq(RecordType)] /\ down \in [Conns -> Seq(RecordType)]
      BY <1>1
    <3> HIDE DEF w
    <3> QED BY <3>1, <3>2, <3>3
  <2> QED BY <2>1, <2>2 DEF Reset, t
<1>5. HandshakeTypeOK'
  BY <1>1, <1>3, <1>4, QuietType
<1>6. Quiet(c)
  <2>1. KeepsHs(up[c], up'[c]) /\ KeepsOffers(down[c], down'[c])
    BY <1>2, <1>4, KeepsSame
  <2>2. client[c].at = "start" => up'[c] = up[c]
    BY <1>4 DEF ConnOK, ClientOK, IsShut
  <2>3. \/ server'[c].at # "on" \/ down'[c] = down[c]
        \/ server[c].step # "AwaitClientHello" \/ down[c] # <<>>
    BY <1>4 DEF IsShut
  <2> QED BY <1>3, <2>1, <2>2, <2>3 DEF Quiet, SameClient, SameServer, lines
<1> QED BY <1>3, <1>4, <1>5, <1>6, QuietOK DEF Elsewhere, lines

\* The server opens a line.
LEMMA HandlesLineOK ==
    ASSUME HandshakeTypeOK, NEW c \in Conns, ConnOK(c), HandlesLine(c)
    PROVE  HandshakeTypeOK' /\ Elsewhere(c) /\ ConnOK(c)'
<1>1. server[c] \in ServerType /\ up \in [Conns -> Seq(RecordType)]
      /\ up[c] \in Seq(RecordType) /\ heard \in [Conns -> [up : Seq(Nat), down : Seq(Nat)]]
  BY DEF HandshakeTypeOK
<1> DEFINE n == server[c].tx
           m == server[c].rx + 1
           line == Head(up[c]).line
<1>2. n \in Nat /\ m \in Nat
  BY <1>1 DEF ServerType
<1>3. PICK want \in BOOLEAN : server' = [server EXCEPT ![c].rx = @ + 1, ![c].want = want]
  BY <1>1 DEF HandlesLine, ServerType
<1> DEFINE f == CountsServer(server[c], n, m, want)
<1>4. server' = [server EXCEPT ![c] = f]
  BY <1>1, <1>3 DEF CountsServer, HandshakeTypeOK, ServerType
<1>5. up' = Rest(up, c) /\ up[c] # <<>> /\ Opens(server[c].keys, "c2s", server[c].rx, Head(up[c]))
      /\ creds' = creds /\ client' = client /\ down' = down /\ said' = said
      /\ heard' = OneLine(heard, c, "up", line)
  BY <1>1 DEF HandlesLine, Reads, ServerOpens, OneLine
<1>6. line \in Nat
  BY <1>1, <1>5, TailOf, Received DEF Opens
<1> HIDE DEF n, m, line, f
<1>7. /\ f \in ServerType /\ f.tx = n /\ f.rx = m /\ f.at = server[c].at
      /\ f.step = server[c].step /\ f.random = server[c].random /\ f.own = server[c].own
      /\ f.keys = server[c].keys
  BY <1>1, <1>2 DEF f, CountsServer, ServerType
<1>8. server'[c] = f /\ server' \in [Conns -> ServerType]
      /\ \A d \in Conns \ {c} : server'[d] = server[d]
  BY <1>4, <1>7, ServerReplaced
<1>9. /\ up' \in [Conns -> Seq(RecordType)] /\ up'[c] = Tail(up[c])
      /\ \A d \in Conns \ {c} : up'[d] = up[d]
  BY <1>1, <1>5, RestType
<1>10. /\ heard' \in [Conns -> [up : Seq(Nat), down : Seq(Nat)]]
       /\ \A d \in Conns \ {c} : heard'[d] = heard[d]
       /\ Len(heard'[c]["up"]) = Len(heard[c]["up"]) + 1
       /\ heard'[c]["down"] = heard[c]["down"]
  <2>1. LineMore(heard, c, "up", "down", heard')
    BY <1>1, <1>5, <1>6, OneLineMore
  <2> QED BY <2>1 DEF LineMore
<1>11. ASSUME NEW d \in Conns
       PROVE  /\ client'[d].tx = Len(said'[d].up) /\ client'[d].rx = Len(heard'[d].down)
              /\ server'[d].tx = Len(said'[d].down) /\ server'[d].rx = Len(heard'[d].up)
  <2>1. CASE d = c
    BY <1>5, <1>7, <1>8, <1>10, <2>1 DEF HandshakeTypeOK, n, m
  <2>2. CASE d # c
    BY <1>5, <1>8, <1>10, <2>2 DEF HandshakeTypeOK
  <2> QED BY <2>1, <2>2
<1>12. HandshakeTypeOK'
  BY <1>5, <1>8, <1>9, <1>10, <1>11 DEF HandshakeTypeOK
<1>13. DropsFirst(up[c], up'[c]) /\ KeepsOffers(down[c], down'[c])
  BY <1>1, <1>5, <1>9, DropsTail, KeepsSame
<1>14. client[c].at # "start" /\ server[c].keys # None
  BY <1>5 DEF ConnOK, ClientOK, Opens
<1>15. Quiet(c)
  BY <1>5, <1>7, <1>8, <1>13, <1>14 DEF Quiet, SameClient, SameServer
<1> QED BY <1>5, <1>8, <1>9, <1>10, <1>12, <1>15, QuietOK DEF Elsewhere

\* The server seals a line.
LEMMA ServerSealsOK ==
    ASSUME HandshakeTypeOK, NEW c \in Conns, ConnOK(c), server[c].step = "Complete",
           NEW line \in Nat, NEW r \in RecordType, r.kind = "data",
           ServerSeals(c, line, r), UNCHANGED <<creds, client, up, heard>>
    PROVE  HandshakeTypeOK' /\ Elsewhere(c) /\ ConnOK(c)'
<1>1. server[c] \in ServerType /\ down \in [Conns -> Seq(RecordType)]
      /\ said \in [Conns -> [up : Seq(Nat), down : Seq(Nat)]]
  BY DEF HandshakeTypeOK
<1> DEFINE n == server[c].tx + 1
           m == server[c].rx
           want == server[c].want
           f == CountsServer(server[c], n, m, want)
<1>2. n \in Nat /\ m \in Nat /\ want \in BOOLEAN
  BY <1>1 DEF ServerType
<1>3. server' = [server EXCEPT ![c] = f] /\ down' = Put(down, c, <<r>>)
  BY <1>1 DEF ServerSeals, CountsServer, HandshakeTypeOK, ServerType
<1>4. said' = OneLine(said, c, "down", line)
  BY <1>1 DEF ServerSeals, OneLine
<1> HIDE DEF n, m, want, f
<1>5. /\ f \in ServerType /\ f.tx = n /\ f.rx = m /\ f.at = server[c].at
      /\ f.step = server[c].step /\ f.random = server[c].random /\ f.own = server[c].own
      /\ f.keys = server[c].keys
  BY <1>1, <1>2 DEF f, CountsServer, ServerType
<1>6. server'[c] = f /\ server' \in [Conns -> ServerType]
      /\ \A d \in Conns \ {c} : server'[d] = server[d]
  BY <1>3, <1>5, ServerReplaced
<1>7. OneMore(down, c, r, down')
  BY <1>1, <1>3, PutOne
<1>8. /\ said' \in [Conns -> [up : Seq(Nat), down : Seq(Nat)]]
      /\ \A d \in Conns \ {c} : said'[d] = said[d]
      /\ Len(said'[c]["down"]) = Len(said[c]["down"]) + 1
      /\ said'[c]["up"] = said[c]["up"]
  <2>1. LineMore(said, c, "down", "up", said')
    BY <1>1, <1>4, OneLineMore
  <2> QED BY <2>1 DEF LineMore
<1>9. ASSUME NEW d \in Conns
      PROVE  /\ client'[d].tx = Len(said'[d].up) /\ client'[d].rx = Len(heard'[d].down)
             /\ server'[d].tx = Len(said'[d].down) /\ server'[d].rx = Len(heard'[d].up)
  <2>1. CASE d = c
    BY <1>5, <1>6, <1>8, <2>1 DEF HandshakeTypeOK, n, m
  <2>2. CASE d # c
    BY <1>6, <1>8, <2>2 DEF HandshakeTypeOK
  <2> QED BY <2>1, <2>2
<1>10. HandshakeTypeOK'
  BY <1>6, <1>7, <1>8, <1>9 DEF HandshakeTypeOK, OneMore
<1>11. ~Offers(r)
  BY DEF Offers, Place
<1>12. Quiet(c)
  BY <1>5, <1>6, <1>7, <1>8, <1>11, KeepsSame DEF Quiet, SameClient, SameServer, OneMore
<1> QED BY <1>6, <1>7, <1>8, <1>10, <1>12, QuietOK DEF Elsewhere, OneMore

\* The three records of the server's answer, on a wire that was empty.
LEMMA AnswersHelloOK ==
    ASSUME HandshakeTypeOK, NEW c \in Conns, ConnOK(c), AnswersHello(c)
    PROVE  HandshakeTypeOK' /\ Elsewhere(c) /\ ConnOK(c)'
<1> DEFINE r == Head(up[c])
           pub == Pair(c, "server")
           cert == creds[c].cert
           sig == Sign(creds[c].key, ProofTranscript(VERSION, r.random, cert, pub))
           f == [server[c] EXCEPT !.step = "AwaitClientKex", !.random = r.random, !.own = pub]
           a == [kind |-> "cert", cert |-> cert]
           b == [kind |-> "kex", version |-> VERSION, pub |-> pub]
           p == [kind |-> "proof", sig |-> sig]
           t == <<a, b, p>>
<1>1. client[c] \in ClientType /\ server[c] \in ServerType /\ up[c] \in Seq(RecordType)
      /\ creds[c] \in Creds
      /\ up \in [Conns -> Seq(RecordType)] /\ down \in [Conns -> Seq(RecordType)]
  BY DEF HandshakeTypeOK
<1>2. /\ server[c].at = "on" /\ up[c] # <<>> /\ server[c].step = "AwaitClientHello"
      /\ r.kind = "hello" /\ r.version = VERSION
      /\ server' = [server EXCEPT ![c] = f] /\ client' = [client EXCEPT ![c] = client[c]]
      /\ up' = Rest(up, c) /\ down' = Put(down, c, t)
      /\ creds' = creds /\ client' = client /\ said' = said /\ heard' = heard
  BY DEF AnswersHello, Reads, HandshakeTypeOK, lines
<1>3. r = up[c][1] /\ 1 \in DOMAIN up[c]
  BY <1>1, <1>2, TailOf
<1>4. r.random = c /\ client[c].version = VERSION /\ down[c] = <<>>
  BY <1>2, <1>3 DEF ConnOK, UpOK
<1>5. sig = ServerSignature(c)
  BY <1>4 DEF ServerSignature
<1>6. pub \in PublicValues /\ cert \in Certs /\ VERSION \in Versions
  BY <1>1, HandshakeAssumption DEF Pair, PublicValues, Certs
<1>7. sig \in Signatures
  BY <1>1, <1>4, <1>6, Signed
<1> HIDE DEF sig
<1>8. a \in RecordType /\ b \in RecordType /\ p \in RecordType
  BY <1>6, <1>7, Sendable
<1>9. /\ f \in ServerType /\ f.tx = server[c].tx /\ f.rx = server[c].rx /\ f.at = server[c].at
      /\ f.step = "AwaitClientKex" /\ f.random = c /\ f.own = pub /\ f.keys = server[c].keys
  BY <1>1, <1>4, <1>6 DEF ServerType, Maybe
<1>10. /\ a.kind = "cert" /\ a.cert = cert /\ b.kind = "kex" /\ b.version = VERSION
       /\ b.pub = pub /\ p.kind = "proof" /\ p.sig = sig
  OBVIOUS
<1> HIDE DEF f, a, b, p, r
<1>11. t \in Seq(RecordType)
  BY <1>8, Records
<1>12. <<>> \o t = t /\ DOMAIN t = {1, 2, 3} /\ t[1] = a /\ t[2] = b /\ t[3] = p
  BY <1>11
<1> HIDE DEF t
<1>13. /\ Put(down, c, t) \in [Conns -> Seq(RecordType)]
       /\ Put(down, c, t)[c] = down[c] \o t
       /\ \A d \in Conns \ {c} : Put(down, c, t)[d] = down[d]
  BY <1>1, <1>11, PutType
<1>14. /\ down' \in [Conns -> Seq(RecordType)] /\ down'[c] = t
       /\ \A d \in Conns \ {c} : down'[d] = down[d]
  BY <1>2, <1>4, <1>12, <1>13
<1>15. /\ up' \in [Conns -> Seq(RecordType)] /\ up'[c] = Tail(up[c])
       /\ \A d \in Conns \ {c} : up'[d] = up[d]
  BY <1>1, <1>2, RestType, ZenonT(30)
<1>16. HandshakeTypeOK'
  BY <1>1, <1>2, <1>9, <1>14, <1>15, QuietType DEF lines
<1>17. server'[c] = f /\ \A d \in Conns \ {c} : server'[d] = server[d]
  BY <1>2, <1>9, ServerReplaced
<1>18. Genuine(c)' = Genuine(c) /\ ServerSignature(c)' = ServerSignature(c)
       /\ SessionKeys(c)' = SessionKeys(c)
  BY <1>2 DEF Genuine, ServerSignature, SessionKeys
<1>19. \A i \in DOMAIN up'[c] : ~IsHandshake(up'[c][i])
  <2> SUFFICES ASSUME NEW i \in DOMAIN up'[c], IsHandshake(up'[c][i])
               PROVE  FALSE
    OBVIOUS
  <2>1. i \in Nat \ {0} /\ i + 1 \in DOMAIN up[c] /\ up[c][i + 1] = up'[c][i]
    BY <1>1, <1>2, <1>15, TailOf
  <2>2. up[c][i + 1].kind # "hello"
    BY <2>1 DEF ConnOK, UpOK
  <2>3. up[c][i + 1].kind # "clientkex"
    BY <1>2, <2>1 DEF ConnOK, UpOK
  <2> QED BY <2>1, <2>2, <2>3 DEF IsHandshake
<1>20. UpOK(c)'
  BY <1>19 DEF UpOK, IsHandshake
<1>21. client[c].at \in {"cert", "closed", "other"}
  <2>1. client[c].at # "start"
    BY <1>2 DEF ConnOK, ClientOK
  <2>2. client[c].at \notin {"kex", "proof", "check", "finish", "up"}
    BY <1>2 DEF ConnOK, ClientOK
  <2> QED BY <1>1, <2>1, <2>2 DEF ClientType
<1>22. DownOK(c)'
  <2> SUFFICES ASSUME NEW i \in DOMAIN down'[c]
               PROVE  LET q == down'[c][i] IN
                      /\ server'[c].step # "AwaitClientHello"
                      /\ client'[c].at \in DOMAIN Place \cup {"closed", "other"}
                      /\ client'[c].at \in DOMAIN Place =>
                            Place[q.kind] = Place[client'[c].at] + i - 1
                      /\ q.kind = "cert" => q.cert = creds[c].cert
                      /\ q.kind = "kex" => q.version = VERSION /\ q.pub = Pair(c, "server")
                      /\ q.kind = "proof" => q.sig = ServerSignature(c)
    BY <1>2, <1>18 DEF DownOK
  <2>1. i \in {1, 2, 3} /\ down'[c][i] = t[i]
    BY <1>12, <1>14
  <2>2. client'[c] = client[c] /\ server'[c].step = "AwaitClientKex"
    BY <1>2, <1>9, <1>17
  <2>3. CASE i = 1
    BY <1>10, <1>12, <1>21, <2>1, <2>2, <2>3 DEF Place
  <2>4. CASE i = 2
    BY <1>10, <1>12, <1>21, <2>1, <2>2, <2>4 DEF Place
  <2>5. CASE i = 3
    BY <1>5, <1>10, <1>12, <1>21, <2>1, <2>2, <2>5 DEF Place
  <2> QED BY <2>1, <2>3, <2>4, <2>5
<1>23. ClientOK(c)'
  BY <1>2, <1>9, <1>17, <1>18, <1>19, <1>21 DEF ConnOK, ClientOK, IsHandshake
<1>24. ServerOK(c)'
  <2>1. server[c].keys = None /\ heard[c].up = <<>>
    BY <1>2 DEF ConnOK, ServerOK
  <2> QED BY <1>2, <1>9, <1>17, <1>18, <2>1 DEF ServerOK
<1> QED BY <1>2, <1>14, <1>15, <1>16, <1>17, <1>20, <1>22, <1>23, <1>24 DEF ConnOK, Elsewhere

\* The client's value completes the keys that the client derives.
LEMMA CompletesOK ==
    ASSUME HandshakeTypeOK, NEW c \in Conns, ConnOK(c), Completes(c)
    PROVE  HandshakeTypeOK' /\ Elsewhere(c) /\ ConnOK(c)'
<1> DEFINE r == Head(up[c])
           x == server[c]
           keys == Derive(x.own, r.pub, VERSION, x.random, creds[c].cert, x.own, r.pub)
           f == [x EXCEPT !.step = "Complete", !.keys = keys]
<1>1. client[c] \in ClientType /\ x \in ServerType /\ up[c] \in Seq(RecordType)
      /\ creds[c] \in Creds
      /\ up \in [Conns -> Seq(RecordType)] /\ down \in [Conns -> Seq(RecordType)]
  BY DEF HandshakeTypeOK
<1>2. /\ up[c] # <<>> /\ x.step = "AwaitClientKex" /\ r.kind = "clientkex"
      /\ server' = [server EXCEPT ![c] = f] /\ client' = [client EXCEPT ![c] = client[c]]
      /\ up' = Rest(up, c) /\ down' = down
      /\ creds' = creds /\ client' = client /\ said' = said /\ heard' = heard
  BY DEF Completes, Reads, HandshakeTypeOK, lines
<1>3. r = up[c][1] /\ 1 \in DOMAIN up[c]
  BY <1>1, <1>2, TailOf
<1>4. /\ r.pub = Pair(c, "client") /\ Genuine(c)
      /\ \A j \in DOMAIN up[c] : IsHandshake(up[c][j]) => j = 1
  BY <1>2, <1>3 DEF ConnOK, UpOK
<1>5. x.random = c /\ x.own = Pair(c, "server")
  BY <1>2 DEF ConnOK, ServerOK
<1>6. keys = SessionKeys(c)
  BY <1>4, <1>5 DEF SessionKeys, Derive
<1>7. keys \in Keys
  <2>1. Pair(c, "client") \in PublicValues /\ Pair(c, "server") \in PublicValues
        /\ creds[c].cert \in Certs /\ VERSION \in Versions
    BY <1>1, HandshakeAssumption DEF Pair, PublicValues, Certs
  <2> QED BY <1>4, <1>5, <2>1, Derived
<1> HIDE DEF keys
<1>8. /\ f \in ServerType /\ f.tx = x.tx /\ f.rx = x.rx /\ f.at = x.at
      /\ f.step = "Complete" /\ f.random = x.random /\ f.own = x.own /\ f.keys = keys
  BY <1>1, <1>7 DEF ServerType, Maybe
<1> HIDE DEF f, r
<1>9. /\ up' \in [Conns -> Seq(RecordType)] /\ up'[c] = Tail(up[c])
      /\ \A d \in Conns \ {c} : up'[d] = up[d]
  BY <1>1, <1>2, RestType, ZenonT(30)
<1>10. HandshakeTypeOK'
  BY <1>1, <1>2, <1>8, <1>9, QuietType DEF lines
<1>11. server'[c] = f /\ \A d \in Conns \ {c} : server'[d] = server[d]
  BY <1>2, <1>8, ServerReplaced
<1>12. Genuine(c)' = Genuine(c) /\ ServerSignature(c)' = ServerSignature(c)
       /\ SessionKeys(c)' = SessionKeys(c)
  BY <1>2 DEF Genuine, ServerSignature, SessionKeys
<1>13. \A i \in DOMAIN up'[c] : ~IsHandshake(up'[c][i])
  <2> SUFFICES ASSUME NEW i \in DOMAIN up'[c], IsHandshake(up'[c][i])
               PROVE  FALSE
    OBVIOUS
  <2>1. i \in Nat \ {0} /\ i + 1 \in DOMAIN up[c] /\ up[c][i + 1] = up'[c][i]
    BY <1>1, <1>2, <1>9, TailOf
  <2>2. i + 1 = 1
    BY <1>4, <2>1
  <2> QED BY <2>1, <2>2
<1>14. UpOK(c)'
  BY <1>13 DEF UpOK, IsHandshake
<1>15. DownOK(c)'
  BY <1>2, <1>8, <1>11, <1>12 DEF ConnOK, DownOK
<1>16. client[c].at \notin {"start", "cert", "kex", "proof", "check"}
  BY <1>2, <1>3 DEF ConnOK, ClientOK
<1>17. ClientOK(c)'
  BY <1>2, <1>8, <1>11, <1>12, <1>16 DEF ConnOK, ClientOK
<1>18. ServerOK(c)'
  BY <1>2, <1>4, <1>5, <1>6, <1>8, <1>11, <1>12 DEF ServerOK
<1> QED BY <1>2, <1>9, <1>10, <1>11, <1>14, <1>15, <1>17, <1>18 DEF ConnOK, Elsewhere

\* What is to be shown of the connections after a step.
Kept == HandshakeTypeOK' /\ \A c \in Conns : ConnOK(c)'

-----------------------------------------------------------------------------
(* Steps of one connection. *)

\* A step that concerns one connection leaves the others as they are.
LEMMA OneConn ==
    ASSUME \A d \in Conns : ConnOK(d), NEW c \in Conns,
           HandshakeTypeOK', Elsewhere(c), ConnOK(c)'
    PROVE  Kept
BY ElsewhereOK DEF Kept

\* The client end, and its user.
ClientStep(c) == \/ ClientGoesOn(c) \/ Hears(c) \/ HearsNothing(c)
                 \/ PlainLogin(c) \/ Says(c) \/ Leaves(c)

\* Whatever the client end does keeps its connection, and is its own affair.
LEMMA ClientStepOK ==
    ASSUME HandshakeTypeOK, NEW c \in Conns, ConnOK(c), ClientStep(c)
    PROVE  /\ HandshakeTypeOK' /\ Elsewhere(c) /\ ConnOK(c)'
           /\ server' = server
<1>1. CASE Says(c)
  <2> DEFINE line == Len(said[c].up) + 1
             r == Sealed(client[c].keys, "c2s", client[c].tx, line)
  <2>1. client[c] \in ClientType /\ said[c].up \in Seq(Nat)
    BY DEF HandshakeTypeOK
  <2>2. client[c].keys \in Maybe(Keys) /\ client[c].tx \in Nat /\ line \in Nat
    BY <2>1 DEF ClientType
  <2>3. r \in RecordType /\ r.kind = "data"
    BY <2>2, Sendable DEF Sealed
  <2>4. client[c].at = "up" /\ ClientSeals(c, line, r)
        /\ UNCHANGED <<creds, server, down, heard>>
    BY <1>1 DEF Says
  <2> HIDE DEF line, r
  <2> QED BY <2>2, <2>3, <2>4, SaysOK
<1>2. CASE GivesUp(c) \/ Leaves(c) \/ HearsNothing(c)
  <2>1. ClientEnds(c)
    BY <1>2 DEF GivesUp, Leaves, HearsNothing
  <2> QED BY <2>1, ClientEndsOK DEF ClientEnds
<1>3. CASE Hello(c) \/ Rejects(c) \/ PlainLogin(c) \/ Contributes(c) \/ Installs(c)
  <2>1. server' = server
    BY <1>3 DEF Hello, Rejects, PlainLogin, Contributes, Installs
  <2> QED BY <1>3, <2>1, HelloOK, RejectsOK, PlainLoginOK, ContributesOK, InstallsOK
<1>4. CASE ReadCert(c) \/ ReadKex(c) \/ ReadProof(c) \/ Hears(c)
  <2>1. server' = server
    BY <1>4 DEF ReadCert, ReadKex, ReadProof, Receives, Hears
  <2> QED BY <1>4, <2>1, ReadCertOK, ReadKexOK, ReadProofOK, HearsOK
<1> QED BY <1>1, <1>2, <1>3, <1>4 DEF ClientStep, ClientGoesOn

\* The same of the server end when the chat server holds it.
ServerStep(c) == LoopGoesOn(c) \/ SendLine(c) \/ Stops(c)

\* Whatever the server end does keeps its connection, and is its own affair.
LEMMA ServerStepOK ==
    ASSUME HandshakeTypeOK, NEW c \in Conns, ConnOK(c), ServerStep(c)
    PROVE  /\ HandshakeTypeOK' /\ Elsewhere(c) /\ ConnOK(c)'
           /\ client' = client
<1>1. CASE SendLine(c)
  <2> DEFINE line == Len(said[c].down) + 1
             r == Sealed(server[c].keys, "s2c", server[c].tx, line)
  <2>1. server[c] \in ServerType /\ said[c].down \in Seq(Nat)
    BY DEF HandshakeTypeOK
  <2>2. server[c].keys \in Maybe(Keys) /\ server[c].tx \in Nat /\ line \in Nat
    BY <2>1 DEF ServerType
  <2>3. r \in RecordType /\ r.kind = "data"
    BY <2>2, Sendable DEF Sealed
  <2>4. heard[c].up # <<>> /\ ServerSeals(c, line, r)
        /\ UNCHANGED <<creds, client, up, heard>>
    BY <1>1 DEF SendLine
  <2>5. server[c].step = "Complete"
    BY <2>4 DEF ConnOK, ServerOK
  <2> HIDE DEF line, r
  <2> QED BY <2>2, <2>3, <2>4, <2>5, ServerSealsOK
<1>2. CASE Drops(c) \/ Closes(c) \/ Stops(c)
  <2>1. ServerEnds(c)
    BY <1>2 DEF Drops, Closes, Stops
  <2> QED BY <2>1, ServerEndsOK DEF ServerEnds
<1>3. CASE AnswersHello(c) \/ Completes(c) \/ FeedFails(c) \/ HandlesLine(c)
  <2>1. client' = client
    BY <1>3 DEF AnswersHello, Completes, FeedFails, HandlesLine
  <2> QED BY <1>3, <2>1, AnswersHelloOK, CompletesOK, FeedFailsOK, HandlesLineOK
<1> QED BY <1>1, <1>2, <1>3 DEF ServerStep, LoopGoesOn

-----------------------------------------------------------------------------
(* Steps of the client and of the chat server. *)

\* They keep the connections, and what the proxy relies on.
LEMMA ChatKeeps ==
    ASSUME ProxyInv, Chat
    PROVE  ProxyInv'
<1>1. HandshakeTypeOK /\ proxy \in ProxyType /\ (\A d \in Conns : ConnOK(d)) /\ ProxyOK
  BY DEF ProxyInv, TypeOK
<1>2. proxy' = proxy /\ Front \in Conns /\ Back \in Conns /\ Last \in Conns /\ Front # Back
  BY ProxyAssumption DEF Chat, ProxyAssumption, Last, Front, Back
<1>3. Kept /\ ProxyOK'
  <2>1. CASE ClientStep(Front)
    <3>1. HandshakeTypeOK' /\ Elsewhere(Front) /\ ConnOK(Front)' /\ server' = server
      BY <1>1, <1>2, <2>1, ClientStepOK
    <3> QED BY <1>1, <1>2, <3>1, OneConn DEF ProxyOK, Elsewhere
  <2>2. CASE ServerStep(Last)
    <3>1. PICK c \in Conns : c = Last
      BY <1>2
    <3>2. HandshakeTypeOK' /\ Elsewhere(c) /\ ConnOK(c)' /\ client' = client
      BY <1>1, <2>2, <3>1, ServerStepOK
    <3>3. Kept
      BY <1>1, <3>2, OneConn
    <3>4. proxy.at # "none" => server'[Front] = server[Front]
      BY <1>2, <3>1, <3>2 DEF Elsewhere, Last, Direct
    <3> QED BY <1>1, <1>2, <3>2, <3>3, <3>4 DEF ProxyOK
  <2>3. ASSUME NEW c \in Conns, Reset(c)
        PROVE  Kept /\ ProxyOK'
    <3>1. HandshakeTypeOK' /\ Elsewhere(c) /\ ConnOK(c)'
      BY <1>1, <2>3, ResetOK
    <3>2. client' = client /\ server' = server
      BY <2>3 DEF Reset, ends
    <3> QED BY <1>1, <1>2, <3>1, <3>2, OneConn DEF ProxyOK
  <2> QED BY <2>1, <2>2, <2>3
          DEF Chat, Client, User, Server, Others, ClientStep, ServerStep
<1> QED BY <1>1, <1>2, <1>3 DEF ProxyInv, TypeOK, Kept

-----------------------------------------------------------------------------
(* Steps of the proxy's main. *)

\* A step that concerns several connections, without a record of a handshake.
LEMMA ManyConns ==
    ASSUME \A d \in Conns : ConnOK(d), HandshakeTypeOK', \A d \in Conns : Quiet(d)
    PROVE  Kept
BY QuietOK DEF Kept

\* A connection that a step leaves as it is.
LEMMA UntouchedIsQuiet ==
    ASSUME NEW c \in Conns, creds' = creds, client'[c] = client[c], server'[c] = server[c],
           up'[c] = up[c], down'[c] = down[c], said'[c] = said[c], heard'[c] = heard[c]
    PROVE  Quiet(c)
BY KeepsSame DEF Quiet, SameClient, SameServer

\* What the proxy's states have in common.
LEMMA ProxyState ==
    ASSUME ProxyInv
    PROVE  /\ HandshakeTypeOK /\ proxy \in ProxyType /\ ProxyOK
           /\ \A d \in Conns : ConnOK(d)
           /\ Front \in Conns /\ Back \in Conns /\ Front # Back
           /\ \A at \in {"none", "victim", "dial", "upstream", "pump", "accept"} :
                [proxy EXCEPT !.at = at] \in ProxyType /\ [proxy EXCEPT !.at = at].at = at
           /\ [proxy EXCEPT !.up = "end"] \in ProxyType
           /\ [proxy EXCEPT !.up = "end"].at = proxy.at
           /\ [proxy EXCEPT !.down = "end"] \in ProxyType
           /\ [proxy EXCEPT !.down = "end"].at = proxy.at
           /\ [proxy EXCEPT !.tamper = "done"] \in ProxyType
           /\ [proxy EXCEPT !.tamper = "done"].at = proxy.at
<1>1. proxy \in ProxyType
  BY DEF ProxyInv, TypeOK
<1> QED BY <1>1, ProxyAssumption
        DEF ProxyInv, TypeOK, ProxyAssumption, Front, Back, ProxyType

\* The handshakes, the dial and the failures keep the invariant.
LEMMA MainKeeps ==
    ASSUME ProxyInv, Main, ~Joins
    PROVE  ProxyInv'
<1>1. /\ HandshakeTypeOK /\ proxy \in ProxyType /\ ProxyOK
      /\ \A d \in Conns : ConnOK(d)
      /\ Front \in Conns /\ Back \in Conns /\ Front # Back
      /\ \A at \in {"none", "victim", "dial", "upstream", "pump", "accept"} :
           [proxy EXCEPT !.at = at] \in ProxyType /\ [proxy EXCEPT !.at = at].at = at
  BY ProxyState
<1>2. CASE VictimAnswered
  <2>1. HandshakeTypeOK' /\ Elsewhere(Front) /\ ConnOK(Front)'
    BY <1>1, <1>2, AnswersHelloOK DEF VictimAnswered
  <2>2. Kept
    BY <1>1, <2>1, OneConn
  <2>3. proxy' = proxy /\ proxy.at = "victim"
    BY <1>2 DEF VictimAnswered
  <2> QED BY <1>1, <2>2, <2>3 DEF ProxyInv, TypeOK, Kept, ProxyOK
<1>3. CASE VictimCompletes
  <2>1. Completes(Front) /\ proxy' = [proxy EXCEPT !.at = "dial"]
    BY <1>3 DEF VictimCompletes
  <2>2. HandshakeTypeOK' /\ Elsewhere(Front) /\ ConnOK(Front)'
    BY <1>1, <2>1, CompletesOK
  <2>3. Kept
    BY <1>1, <2>2, OneConn
  <2>4. server'[Front].step = "Complete"
    BY <1>1, <2>1 DEF Completes, HandshakeTypeOK, ServerType
  <2>5. proxy' \in ProxyType /\ proxy'.at = "dial"
    BY <1>1, <2>1
  <2> QED BY <2>3, <2>4, <2>5 DEF ProxyInv, TypeOK, Kept, ProxyOK
<1>4. CASE ForgetsVictim
  <2>1. ServerEnds(Front) /\ proxy' = [proxy EXCEPT !.at = "accept"]
    BY <1>4 DEF ForgetsVictim
  <2>2. HandshakeTypeOK' /\ Elsewhere(Front) /\ ConnOK(Front)'
    BY <1>1, <2>1, ServerEndsOK
  <2>3. Kept
    BY <1>1, <2>2, OneConn
  <2>4. proxy' \in ProxyType /\ proxy'.at = "accept"
    BY <1>1, <2>1
  <2> QED BY <2>3, <2>4 DEF ProxyInv, TypeOK, Kept, ProxyOK
<1>5. CASE Dials \/ StartsPumps
  <2>1. UNCHANGED <<creds, client, server, up, down, said, heard>>
    BY <1>5 DEF Dials, StartsPumps, ends, lines
  <2>2. Kept
    BY <1>1, <2>1, ManyConns, UntouchedIsQuiet DEF HandshakeTypeOK
  <2>3. proxy' \in ProxyType
    BY <1>1, <1>5 DEF Dials, StartsPumps
  <2>4. ProxyOK'
    BY <1>1, <1>5, <2>1 DEF Dials, StartsPumps, ProxyOK
  <2> QED BY <2>2, <2>3, <2>4 DEF ProxyInv, TypeOK, Kept
<1>6. CASE Upstream
  <2>1. ClientStep(Back) /\ proxy' = proxy /\ proxy.at = "upstream"
    BY <1>6 DEF Upstream, ClientStep
  <2>2. HandshakeTypeOK' /\ Elsewhere(Back) /\ ConnOK(Back)' /\ server' = server
    BY <1>1, <2>1, ClientStepOK
  <2>3. Kept
    BY <1>1, <2>2, OneConn
  <2> QED BY <1>1, <2>1, <2>2, <2>3 DEF ProxyInv, TypeOK, Kept, ProxyOK
<1> QED BY <1>2, <1>3, <1>4, <1>5, <1>6 DEF Main, VictimFails, DialFails, UpstreamFails

-----------------------------------------------------------------------------
(* The end of the pumps. *)

\* The wires once the proxy has shut its ends of them, or one of its ends.
LEMMA ShutsWires ==
    ASSUME HandshakeTypeOK, NEW c \in Conns, NEW w,
           w \in {up, down}
    PROVE  /\ Shut(w, c) \in [Conns -> Seq(RecordType)]
           /\ \A d \in Conns \ {c} : Shut(w, c)[d] = w[d]
           /\ KeepsHs(w[c], Shut(w, c)[c]) /\ KeepsOffers(w[c], Shut(w, c)[c])
<1>1. w \in [Conns -> Seq(RecordType)]
  BY DEF HandshakeTypeOK
<1> QED BY <1>1, ShutType, KeepsShut

\* While the pumps run, a handshake with the victim and one with the server are over.
LEMMA WhilePumping ==
    ASSUME ProxyInv, proxy.at = "pump"
    PROVE  /\ server[Front].step = "Complete" /\ client[Back].at = "up"
           /\ server[Back].step # "AwaitClientHello"
           /\ \A i \in DOMAIN up[Front] : ~IsHandshake(up[Front][i])
           /\ \A i \in DOMAIN down[Back] : ~Offers(down[Back][i])
<1>1. ConnOK(Front) /\ ConnOK(Back) /\ ProxyOK
  BY ProxyState
<1>2. server[Front].step = "Complete" /\ client[Back].at = "up"
  BY <1>1 DEF ProxyOK
<1> QED BY <1>1, <1>2 DEF ConnOK, UpOK, DownOK, ClientOK, IsHandshake, Offers, Place

\* When one pump ends, it shuts the socket it writes to.
LEMMA PumpEndsKeeps ==
    ASSUME ProxyInv, PumpUpEnds \/ PumpDownEnds
    PROVE  ProxyInv'
<1>1. /\ HandshakeTypeOK /\ proxy \in ProxyType /\ ProxyOK
      /\ \A d \in Conns : ConnOK(d)
      /\ Front \in Conns /\ Back \in Conns
      /\ [proxy EXCEPT !.up = "end"] \in ProxyType
      /\ [proxy EXCEPT !.up = "end"].at = proxy.at
      /\ [proxy EXCEPT !.down = "end"] \in ProxyType
      /\ [proxy EXCEPT !.down = "end"].at = proxy.at
  BY ProxyState
<1>2. proxy.at = "pump" /\ UNCHANGED <<creds, client, server, said, heard>>
  BY DEF PumpUpEnds, PumpDownEnds, ends, lines
<1>3. server[Front].step = "Complete" /\ client[Back].at = "up"
  BY <1>2, WhilePumping
<1>4. proxy' \in ProxyType /\ ProxyOK'
  BY <1>1, <1>2 DEF PumpUpEnds, PumpDownEnds, ProxyOK
<1>5. CASE PumpUpEnds
  <2>1. up' = Shut(up, Back) /\ down' = down
    BY <1>5 DEF PumpUpEnds
  <2>2. up' \in [Conns -> Seq(RecordType)] /\ KeepsHs(up[Back], up'[Back])
        /\ \A d \in Conns \ {Back} : up'[d] = up[d]
    BY <1>1, <2>1, ShutsWires
  <2>3. HandshakeTypeOK'
    BY <1>1, <1>2, <2>1, <2>2 DEF HandshakeTypeOK
  <2>4. Quiet(Back)
    BY <1>2, <1>3, <2>1, <2>2, KeepsSame DEF Quiet, SameClient, SameServer
  <2>5. \A d \in Conns \ {Back} : Quiet(d)
    BY <1>2, <2>1, <2>2, UntouchedIsQuiet
  <2> QED BY <1>1, <1>4, <2>3, <2>4, <2>5, ManyConns DEF ProxyInv, TypeOK, Kept
<1>6. CASE PumpDownEnds
  <2>1. down' = Shut(down, Front) /\ up' = up
    BY <1>6 DEF PumpDownEnds
  <2>2. down' \in [Conns -> Seq(RecordType)] /\ KeepsOffers(down[Front], down'[Front])
        /\ \A d \in Conns \ {Front} : down'[d] = down[d]
    BY <1>1, <2>1, ShutsWires
  <2>3. HandshakeTypeOK'
    BY <1>1, <1>2, <2>1, <2>2 DEF HandshakeTypeOK
  <2>4. Quiet(Front)
    BY <1>2, <1>3, <2>1, <2>2, KeepsSame DEF Quiet, SameClient, SameServer
  <2>5. \A d \in Conns \ {Front} : Quiet(d)
    BY <1>2, <2>1, <2>2, UntouchedIsQuiet
  <2> QED BY <1>1, <1>4, <2>3, <2>4, <2>5, ManyConns DEF ProxyInv, TypeOK, Kept
<1> QED BY <1>5, <1>6

\* When both have ended, the proxy closes its two sockets.
LEMMA JoinsKeeps ==
    ASSUME ProxyInv, Joins
    PROVE  ProxyInv'
<1>1. /\ HandshakeTypeOK /\ proxy \in ProxyType /\ ProxyOK
      /\ \A d \in Conns : ConnOK(d)
      /\ Front \in Conns /\ Back \in Conns /\ Front # Back
      /\ \A at \in {"none", "victim", "dial", "upstream", "pump", "accept"} :
           [proxy EXCEPT !.at = at] \in ProxyType /\ [proxy EXCEPT !.at = at].at = at
  BY ProxyState
<1> DEFINE e == [client[Back] EXCEPT !.at = "closed"]
           f == [server[Front] EXCEPT !.at = "closed"]
<1>2. client[Back] \in ClientType /\ server[Front] \in ServerType
  BY <1>1 DEF HandshakeTypeOK
<1>3. /\ e \in ClientType /\ e.tx = client[Back].tx /\ e.rx = client[Back].rx
      /\ e.at = "closed" /\ e.version = client[Back].version /\ e.cert = client[Back].cert
      /\ e.pub = client[Back].pub /\ e.sig = client[Back].sig /\ e.own = client[Back].own
      /\ e.keys = client[Back].keys
  BY <1>2 DEF ClientType
<1>4. /\ f \in ServerType /\ f.tx = server[Front].tx /\ f.rx = server[Front].rx
      /\ f.at = "closed" /\ f.step = server[Front].step /\ f.random = server[Front].random
      /\ f.own = server[Front].own /\ f.keys = server[Front].keys
  BY <1>2 DEF ServerType
<1>5. /\ client' = [client EXCEPT ![Back] = e] /\ server' = [server EXCEPT ![Front] = f]
      /\ up' = Shut(up, Back) /\ down' = Shut(down, Front)
      /\ UNCHANGED <<creds, said, heard>>
      /\ proxy.at = "pump" /\ proxy' = [proxy EXCEPT !.at = "accept"]
  BY <1>1 DEF Joins, HandshakeTypeOK, lines
<1> HIDE DEF e, f
<1>6. /\ client' \in [Conns -> ClientType] /\ client'[Back] = e
      /\ \A d \in Conns \ {Back} : client'[d] = client[d]
  BY <1>1, <1>3, <1>5, ClientReplaced
<1>7. /\ server' \in [Conns -> ServerType] /\ server'[Front] = f
      /\ \A d \in Conns \ {Front} : server'[d] = server[d]
  BY <1>1, <1>4, <1>5, ServerReplaced
<1>8. /\ up' \in [Conns -> Seq(RecordType)] /\ KeepsHs(up[Back], up'[Back])
      /\ \A d \in Conns \ {Back} : up'[d] = up[d]
  BY <1>1, <1>5, ShutsWires
<1>9. /\ down' \in [Conns -> Seq(RecordType)] /\ KeepsOffers(down[Front], down'[Front])
      /\ \A d \in Conns \ {Front} : down'[d] = down[d]
  BY <1>1, <1>5, ShutsWires
<1>10. HandshakeTypeOK'
  <2>1. ASSUME NEW d \in Conns
        PROVE  /\ client'[d].tx = client[d].tx /\ client'[d].rx = client[d].rx
               /\ server'[d].tx = server[d].tx /\ server'[d].rx = server[d].rx
    BY <1>3, <1>4, <1>6, <1>7
  <2>2. creds' = creds /\ said' = said /\ heard' = heard
    BY <1>5
  <2>3. ASSUME NEW d \in Conns
        PROVE  /\ client'[d].tx = Len(said'[d].up) /\ client'[d].rx = Len(heard'[d].down)
               /\ server'[d].tx = Len(said'[d].down) /\ server'[d].rx = Len(heard'[d].up)
    BY <1>1, <2>1, <2>2 DEF HandshakeTypeOK
  <2>4. creds' \in [Conns -> Creds]
        /\ said' \in [Conns -> [up : Seq(Nat), down : Seq(Nat)]]
        /\ heard' \in [Conns -> [up : Seq(Nat), down : Seq(Nat)]]
    BY <1>1, <2>2 DEF HandshakeTypeOK
  <2> QED BY <1>6, <1>7, <1>8, <1>9, <2>3, <2>4 DEF HandshakeTypeOK
<1>11. Quiet(Back)
  BY <1>1, <1>3, <1>5, <1>6, <1>7, <1>8, <1>9, KeepsSame DEF Quiet, SameClient, SameServer
<1>12. Quiet(Front)
  BY <1>1, <1>4, <1>5, <1>6, <1>7, <1>8, <1>9, KeepsSame DEF Quiet, SameClient, SameServer
<1>13. \A d \in Conns \ {Front, Back} : Quiet(d)
  BY <1>5, <1>6, <1>7, <1>8, <1>9, UntouchedIsQuiet
<1>14. Kept
  BY <1>1, <1>10, <1>11, <1>12, <1>13, ManyConns
<1>15. proxy' \in ProxyType /\ proxy'.at = "accept"
  BY <1>1, <1>5
<1> QED BY <1>14, <1>15 DEF ProxyInv, TypeOK, Kept, ProxyOK

-----------------------------------------------------------------------------
(* A line goes from one connection to the other. *)

\* The wire v is w without the first record of b, and with r for c.
Carries(w, b, c, r, v) ==
    /\ v \in [Conns -> Seq(RecordType)]
    /\ \A d \in Conns \ {b, c} : v[d] = w[d]
    /\ DropsFirst(w[b], v[b])
    /\ (\A i \in DOMAIN w[b] : ~Offers(w[b][i])) => KeepsOffers(w[b], v[b])
    /\ ~IsHandshake(r) => KeepsHs(w[c], v[c])
    /\ ~Offers(r) => KeepsOffers(w[c], v[c])

\* What Rest and Put do to the two connections of the proxy.
LEMMA Carried ==
    ASSUME NEW w \in [Conns -> Seq(RecordType)], NEW b \in Conns, NEW c \in Conns, b # c,
           w[b] # <<>>, NEW r \in RecordType
    PROVE  Carries(w, b, c, r, Put(Rest(w, b), c, <<r>>))
<1> DEFINE x == Rest(w, b)
           v == Put(x, c, <<r>>)
<1>1. x \in [Conns -> Seq(RecordType)] /\ x[b] = Tail(w[b])
      /\ \A d \in Conns \ {b} : x[d] = w[d]
  BY RestType
<1> HIDE DEF x
<1>2. OneMore(x, c, r, v)
  BY <1>1, PutOne
<1> HIDE DEF v
<1>3. v[b] = Tail(w[b]) /\ x[c] = w[c]
  BY <1>1, <1>2 DEF OneMore
<1>4. w[b] \in Seq(RecordType)
  OBVIOUS
<1>5. Carries(w, b, c, r, v)
  BY <1>1, <1>2, <1>3, <1>4, DropsTail DEF Carries, OneMore
<1> QED BY <1>5 DEF v, x

\* d is e with other counters.
ClientCounted(e, tx, rx, d) ==
    /\ d \in ClientType /\ d.tx = tx /\ d.rx = rx
    /\ d.at = e.at /\ d.version = e.version /\ d.cert = e.cert /\ d.pub = e.pub
    /\ d.sig = e.sig /\ d.own = e.own /\ d.keys = e.keys
ServerCounted(e, tx, rx, d) ==
    /\ d \in ServerType /\ d.tx = tx /\ d.rx = rx
    /\ d.at = e.at /\ d.step = e.step /\ d.random = e.random
    /\ d.own = e.own /\ d.keys = e.keys

\* An end that has counted one more line is otherwise as it was.
LEMMA Counts ==
    ASSUME NEW tx \in Nat, NEW rx \in Nat
    PROVE  /\ \A e \in ClientType : ClientCounted(e, tx, rx, CountsClient(e, tx, rx))
           /\ \A e \in ServerType : ServerCounted(e, tx, rx, CountsServer(e, tx, rx, e.want))
<1>1. ASSUME NEW e \in ClientType
      PROVE  ClientCounted(e, tx, rx, CountsClient(e, tx, rx))
  <2> DEFINE d == CountsClient(e, tx, rx)
  <2>1. d \in ClientType
    BY DEF CountsClient, ClientType
  <2>2. d.tx = tx /\ d.rx = rx
    BY DEF CountsClient, ClientType
  <2> QED BY <2>1, <2>2 DEF ClientCounted, CountsClient, ClientType
<1>2. ASSUME NEW e \in ServerType
      PROVE  ServerCounted(e, tx, rx, CountsServer(e, tx, rx, e.want))
  <2> DEFINE d == CountsServer(e, tx, rx, e.want)
  <2>1. d \in ServerType
    BY DEF CountsServer, ServerType
  <2>2. d.tx = tx /\ d.rx = rx
    BY DEF CountsServer, ServerType
  <2> QED BY <2>1, <2>2 DEF ServerCounted, CountsServer, ServerType
<1> QED BY <1>1, <1>2

(***************************************************************************)
(* A line that the proxy opens on one connection and seals on the other is *)
(* counted by both its ends: the types stay, and so do the keys and steps. *)
(***************************************************************************)
LEMMA BothCount ==
    ASSUME HandshakeTypeOK, Front \in Conns, Back \in Conns, creds' = creds,
           NEW ctx \in Nat, NEW crx \in Nat, NEW stx \in Nat, NEW srx \in Nat,
           client' = [client EXCEPT ![Back] = CountsClient(client[Back], ctx, crx)],
           server' = [server EXCEPT
                        ![Front] = CountsServer(server[Front], stx, srx, server[Front].want)],
           up' \in [Conns -> Seq(RecordType)], down' \in [Conns -> Seq(RecordType)],
           said' \in [Conns -> [up : Seq(Nat), down : Seq(Nat)]],
           heard' \in [Conns -> [up : Seq(Nat), down : Seq(Nat)]],
           \A d \in Conns \ {Front, Back} : said'[d] = said[d] /\ heard'[d] = heard[d],
           ctx = Len(said'[Back].up), crx = Len(heard'[Back].down),
           stx = Len(said'[Front].down), srx = Len(heard'[Front].up),
           said'[Back].down = said[Back].down, heard'[Back].up = heard[Back].up,
           said'[Front].up = said[Front].up, heard'[Front].down = heard[Front].down,
           Front # Back
    PROVE  /\ HandshakeTypeOK'
           /\ \A d \in Conns : SameClient(d) /\ SameServer(d)
           /\ \A d \in Conns \ {Front, Back} : client'[d] = client[d] /\ server'[d] = server[d]
           /\ client'[Back].at = client[Back].at
<1> DEFINE e == CountsClient(client[Back], ctx, crx)
           f == CountsServer(server[Front], stx, srx, server[Front].want)
<1>1. client[Back] \in ClientType /\ server[Front] \in ServerType
  BY DEF HandshakeTypeOK
<1>2. ClientCounted(client[Back], ctx, crx, e)
  BY <1>1, Counts
<1>3. ServerCounted(server[Front], stx, srx, f)
  BY <1>1, Counts
<1>4. client' = [client EXCEPT ![Back] = e] /\ server' = [server EXCEPT ![Front] = f]
  OBVIOUS
<1> HIDE DEF e, f
<1>5. /\ client' \in [Conns -> ClientType] /\ client'[Back] = e
      /\ \A d \in Conns \ {Back} : client'[d] = client[d]
  BY <1>2, <1>4, ClientReplaced DEF ClientCounted
<1>6. /\ server' \in [Conns -> ServerType] /\ server'[Front] = f
      /\ \A d \in Conns \ {Front} : server'[d] = server[d]
  BY <1>3, <1>4, ServerReplaced DEF ServerCounted
<1>7. ASSUME NEW d \in Conns
      PROVE  /\ client'[d].tx = Len(said'[d].up) /\ client'[d].rx = Len(heard'[d].down)
             /\ server'[d].tx = Len(said'[d].down) /\ server'[d].rx = Len(heard'[d].up)
  <2>1. /\ client[d].tx = Len(said[d].up) /\ client[d].rx = Len(heard[d].down)
        /\ server[d].tx = Len(said[d].down) /\ server[d].rx = Len(heard[d].up)
    BY DEF HandshakeTypeOK
  <2>2. CASE d = Back
    BY <1>2, <1>5, <1>6, <2>1, <2>2 DEF ClientCounted
  <2>3. CASE d = Front
    BY <1>3, <1>5, <1>6, <2>1, <2>3 DEF ServerCounted
  <2>4. CASE d \notin {Front, Back}
    BY <1>5, <1>6, <2>1, <2>4
  <2> QED BY <2>2, <2>3, <2>4
<1>8. HandshakeTypeOK'
  BY <1>5, <1>6, <1>7 DEF HandshakeTypeOK
<1>9. ASSUME NEW d \in Conns
      PROVE  SameClient(d) /\ SameServer(d)
  <2>1. SameClient(d)
    BY <1>2, <1>5 DEF SameClient, ClientCounted
  <2>2. SameServer(d)
    BY <1>3, <1>6 DEF SameServer, ServerCounted
  <2> QED BY <2>1, <2>2
<1> QED BY <1>2, <1>5, <1>6, <1>8, <1>9 DEF ClientCounted

\* A record from the victim goes to the server: opened and sealed again, or as it is.
LEMMA PumpsUpKeeps ==
    ASSUME ProxyInv, PumpsUp
    PROVE  ProxyInv'
<1> DEFINE r == Head(up[Front])
<1>1. /\ HandshakeTypeOK /\ proxy \in ProxyType /\ ProxyOK
      /\ \A d \in Conns : ConnOK(d)
      /\ Front \in Conns /\ Back \in Conns /\ Front # Back
      /\ [proxy EXCEPT !.tamper = "done"] \in ProxyType
      /\ [proxy EXCEPT !.tamper = "done"].at = proxy.at
  BY ProxyState
<1>2. /\ proxy.at = "pump" /\ up[Front] # <<>> /\ creds' = creds /\ down' = down
  BY DEF PumpsUp
<1>3. server[Front].step = "Complete" /\ client[Back].at = "up"
      /\ \A i \in DOMAIN up[Front] : ~IsHandshake(up[Front][i])
  BY <1>2, WhilePumping
<1>4. /\ up \in [Conns -> Seq(RecordType)] /\ down \in [Conns -> Seq(RecordType)]
      /\ up[Front] \in Seq(RecordType)
      /\ said \in [Conns -> [up : Seq(Nat), down : Seq(Nat)]]
      /\ heard \in [Conns -> [up : Seq(Nat), down : Seq(Nat)]]
  BY <1>1 DEF HandshakeTypeOK
<1>5. r \in RecordType /\ ~IsHandshake(r)
  BY <1>2, <1>3, <1>4, TailOf
<1>6. client[Front].at # "start"
  BY <1>1, <1>2 DEF ConnOK, ClientOK
<1>7. client[Back] \in ClientType /\ server[Front] \in ServerType
  BY <1>1 DEF HandshakeTypeOK
<1> HIDE DEF r
<1>8. CASE r.kind = "data"
  <2> DEFINE sealed == Sealed(client[Back].keys, "c2s", client[Back].tx, r.line)
             ctx == client[Back].tx + 1
             crx == client[Back].rx
             stx == server[Front].tx
             srx == server[Front].rx + 1
             line == r.line
  <2>1. ctx \in Nat /\ crx \in Nat /\ stx \in Nat /\ srx \in Nat /\ line \in Nat
    BY <1>5, <1>7, <1>8, Received DEF ClientType, ServerType
  <2>2. sealed \in RecordType /\ Unsealed(0) \in RecordType
        /\ ~IsHandshake(sealed) /\ ~IsHandshake(Unsealed(0))
    <3>1. client[Back].keys \in Maybe(Keys) /\ client[Back].tx \in Nat /\ r.line \in Nat
      BY <1>7, <2>1 DEF ClientType
    <3>2. sealed \in RecordType /\ Unsealed(0) \in RecordType
      BY <3>1, Sendable
    <3>3. ~IsHandshake(sealed) /\ ~IsHandshake(Unsealed(0))
      BY DEF IsHandshake, Sealed, Unsealed
    <3> QED BY <3>2, <3>3
  <2>3. PICK altered \in BOOLEAN :
          /\ up' = Put(Rest(up, Front), Back, <<IF altered THEN Unsealed(0) ELSE sealed>>)
          /\ proxy' = IF altered THEN [proxy EXCEPT !.tamper = "done"] ELSE proxy
    BY <1>8 DEF PumpsUp, MayAlter, PumpTx, r
  <2>4. /\ server[Front].keys # None
        /\ heard' = OneLine(heard, Front, "up", line)
        /\ said' = OneLine(said, Back, "up", line)
    BY <1>4, <1>8 DEF PumpsUp, ServerOpens, Opens, OneLine, r
  <2>5. client' = [client EXCEPT ![Back] = CountsClient(client[Back], ctx, crx)]
    BY <1>7, <1>8 DEF PumpsUp, CountsClient, ClientType, r
  <2>6. server' = [server EXCEPT
                     ![Front] = CountsServer(server[Front], stx, srx, server[Front].want)]
    BY <1>7, <1>8, ZenonT(30) DEF PumpsUp, CountsServer, ServerType, r
  <2> DEFINE x == IF altered THEN Unsealed(0) ELSE sealed
  <2>7. x \in RecordType /\ ~IsHandshake(x)
    BY <2>2
  <2>8. up' = Put(Rest(up, Front), Back, <<x>>)
    BY <2>3
  <2> HIDE DEF x, sealed, ctx, crx, stx, srx, line
  <2>9. Carries(up, Front, Back, x, up')
    BY <1>1, <1>2, <1>4, <2>7, <2>8, Carried
  <2>10. LineMore(said, Back, "up", "down", said')
    BY <1>1, <1>4, <2>1, <2>4, OneLineMore
  <2>11. LineMore(heard, Front, "up", "down", heard')
    BY <1>1, <1>4, <2>1, <2>4, OneLineMore
  <2>12. /\ said' \in [Conns -> [up : Seq(Nat), down : Seq(Nat)]]
         /\ heard' \in [Conns -> [up : Seq(Nat), down : Seq(Nat)]]
         /\ \A d \in Conns \ {Back} : said'[d] = said[d]
         /\ \A d \in Conns \ {Front} : heard'[d] = heard[d]
         /\ Len(said'[Back].up) = Len(said[Back].up) + 1
         /\ said'[Back].down = said[Back].down
         /\ Len(heard'[Front].up) = Len(heard[Front].up) + 1
         /\ heard'[Front].down = heard[Front].down
    BY <2>10, <2>11 DEF LineMore
  <2>13. /\ ctx = Len(said'[Back].up) /\ crx = Len(heard'[Back].down)
         /\ stx = Len(said'[Front].down) /\ srx = Len(heard'[Front].up)
    BY <1>1, <2>12 DEF HandshakeTypeOK, ctx, crx, stx, srx
  <2>14. /\ HandshakeTypeOK'
         /\ \A d \in Conns : SameClient(d) /\ SameServer(d)
         /\ \A d \in Conns \ {Front, Back} : client'[d] = client[d] /\ server'[d] = server[d]
         /\ client'[Back].at = client[Back].at
    <3>1. up' \in [Conns -> Seq(RecordType)] /\ down' \in [Conns -> Seq(RecordType)]
      BY <1>2, <1>4, <2>9 DEF Carries
    <3> QED BY <1>1, <1>2, <2>1, <2>5, <2>6, <2>12, <2>13, <3>1, BothCount
  <2>15. Quiet(Front)
    BY <1>1, <1>2, <1>6, <2>4, <2>9, <2>12, <2>14, KeepsSame
       DEF Quiet, Carries, SameClient
  <2>16. Quiet(Back)
    BY <1>1, <1>2, <1>3, <2>7, <2>9, <2>12, <2>14, KeepsSame DEF Quiet, Carries
  <2>17. \A d \in Conns \ {Front, Back} : Quiet(d)
    BY <1>2, <2>9, <2>12, <2>14, UntouchedIsQuiet DEF Carries
  <2>18. Kept
    BY <1>1, <2>14, <2>15, <2>16, <2>17, ManyConns
  <2>19. proxy' \in ProxyType /\ proxy'.at = "pump"
    BY <1>1, <1>2, <2>3
  <2>20. ProxyOK'
    BY <1>1, <1>3, <2>14, <2>19 DEF ProxyOK, SameServer
  <2> QED BY <2>18, <2>19, <2>20 DEF ProxyInv, TypeOK, Kept
<1>9. CASE r.kind # "data"
  <2>1. up' = Put(Rest(up, Front), Back, <<r>>)
        /\ UNCHANGED <<client, server, said, heard, proxy>>
    BY <1>9 DEF PumpsUp, ends, lines, r
  <2>2. Carries(up, Front, Back, r, up')
    BY <1>1, <1>2, <1>4, <1>5, <2>1, Carried
  <2>3. HandshakeTypeOK'
    BY <1>1, <1>2, <2>1, <2>2 DEF HandshakeTypeOK, Carries
  <2>4. Quiet(Front)
    BY <1>1, <1>2, <1>6, <2>1, <2>2, KeepsSame DEF Quiet, Carries, SameClient, SameServer
  <2>5. Quiet(Back)
    BY <1>1, <1>2, <1>3, <1>5, <2>1, <2>2, KeepsSame
       DEF Quiet, Carries, SameClient, SameServer
  <2>6. \A d \in Conns \ {Front, Back} : Quiet(d)
    BY <1>2, <2>1, <2>2, UntouchedIsQuiet DEF Carries
  <2>7. Kept
    BY <1>1, <2>3, <2>4, <2>5, <2>6, ManyConns
  <2> QED BY <1>1, <2>1, <2>7 DEF ProxyInv, TypeOK, Kept, ProxyOK
<1> QED BY <1>8, <1>9

\* A record from the server goes to the victim.
LEMMA PumpsDownKeeps ==
    ASSUME ProxyInv, PumpsDown
    PROVE  ProxyInv'
<1> DEFINE r == Head(down[Back])
<1>1. /\ HandshakeTypeOK /\ proxy \in ProxyType /\ ProxyOK
      /\ \A d \in Conns : ConnOK(d)
      /\ Front \in Conns /\ Back \in Conns /\ Front # Back
  BY ProxyState
<1>2. /\ proxy.at = "pump" /\ down[Back] # <<>> /\ creds' = creds /\ up' = up
      /\ proxy' = proxy
  BY DEF PumpsDown
<1>3. server[Front].step = "Complete" /\ client[Back].at = "up"
      /\ server[Back].step # "AwaitClientHello"
      /\ \A i \in DOMAIN down[Back] : ~Offers(down[Back][i])
  BY <1>2, WhilePumping
<1>4. /\ up \in [Conns -> Seq(RecordType)] /\ down \in [Conns -> Seq(RecordType)]
      /\ down[Back] \in Seq(RecordType)
      /\ said \in [Conns -> [up : Seq(Nat), down : Seq(Nat)]]
      /\ heard \in [Conns -> [up : Seq(Nat), down : Seq(Nat)]]
  BY <1>1 DEF HandshakeTypeOK
<1>5. r \in RecordType /\ ~Offers(r)
  BY <1>2, <1>3, <1>4, TailOf
<1>6. client[Back] \in ClientType /\ server[Front] \in ServerType
  BY <1>1 DEF HandshakeTypeOK
<1> HIDE DEF r
<1>7. CASE r.kind = "data"
  <2> DEFINE sealed == Sealed(server[Front].keys, "s2c", server[Front].tx, r.line)
             ctx == client[Back].tx
             crx == client[Back].rx + 1
             stx == server[Front].tx + 1
             srx == server[Front].rx
             line == r.line
  <2>1. ctx \in Nat /\ crx \in Nat /\ stx \in Nat /\ srx \in Nat /\ line \in Nat
    BY <1>5, <1>6, <1>7, Received DEF ClientType, ServerType
  <2>2. sealed \in RecordType /\ ~Offers(sealed)
    <3>1. server[Front].keys \in Maybe(Keys) /\ server[Front].tx \in Nat /\ r.line \in Nat
      BY <1>6, <2>1 DEF ServerType
    <3>2. sealed \in RecordType
      BY <3>1, Sendable
    <3>3. ~Offers(sealed)
      BY DEF Offers, Place, Sealed
    <3> QED BY <3>2, <3>3
  <2>3. down' = Put(Rest(down, Back), Front, <<sealed>>)
    BY <1>7 DEF PumpsDown, r
  <2>4. /\ heard' = OneLine(heard, Back, "down", line)
        /\ said' = OneLine(said, Front, "down", line)
    BY <1>4, <1>7 DEF PumpsDown, ClientOpens, OneLine, r
  <2>5. client' = [client EXCEPT ![Back] = CountsClient(client[Back], ctx, crx)]
    BY <1>6, <1>7 DEF PumpsDown, ClientOpens, CountsClient, ClientType, r
  <2>6. server' = [server EXCEPT
                     ![Front] = CountsServer(server[Front], stx, srx, server[Front].want)]
    BY <1>6, <1>7 DEF PumpsDown, CountsServer, ServerType, r
  <2> HIDE DEF sealed, ctx, crx, stx, srx, line
  <2>7. Carries(down, Back, Front, sealed, down')
    BY <1>1, <1>2, <1>4, <2>2, <2>3, Carried
  <2>8. LineMore(said, Front, "down", "up", said')
    BY <1>1, <1>4, <2>1, <2>4, OneLineMore
  <2>9. LineMore(heard, Back, "down", "up", heard')
    BY <1>1, <1>4, <2>1, <2>4, OneLineMore
  <2>10. /\ said' \in [Conns -> [up : Seq(Nat), down : Seq(Nat)]]
         /\ heard' \in [Conns -> [up : Seq(Nat), down : Seq(Nat)]]
         /\ \A d \in Conns \ {Front} : said'[d] = said[d]
         /\ \A d \in Conns \ {Back} : heard'[d] = heard[d]
         /\ Len(said'[Front].down) = Len(said[Front].down) + 1
         /\ said'[Front].up = said[Front].up
         /\ Len(heard'[Back].down) = Len(heard[Back].down) + 1
         /\ heard'[Back].up = heard[Back].up
    BY <2>8, <2>9 DEF LineMore
  <2>11. /\ ctx = Len(said'[Back].up) /\ crx = Len(heard'[Back].down)
         /\ stx = Len(said'[Front].down) /\ srx = Len(heard'[Front].up)
    BY <1>1, <2>10 DEF HandshakeTypeOK, ctx, crx, stx, srx
  <2>12. /\ HandshakeTypeOK'
         /\ \A d \in Conns : SameClient(d) /\ SameServer(d)
         /\ \A d \in Conns \ {Front, Back} : client'[d] = client[d] /\ server'[d] = server[d]
         /\ client'[Back].at = client[Back].at
    <3>1. up' \in [Conns -> Seq(RecordType)] /\ down' \in [Conns -> Seq(RecordType)]
      BY <1>2, <1>4, <2>7 DEF Carries
    <3> QED BY <1>1, <1>2, <2>1, <2>5, <2>6, <2>10, <2>11, <3>1, BothCount
  <2>13. Quiet(Front)
    BY <1>1, <1>2, <1>3, <2>2, <2>7, <2>10, <2>12, KeepsSame DEF Quiet, Carries
  <2>14. Quiet(Back)
    BY <1>1, <1>2, <1>3, <2>7, <2>10, <2>12, KeepsSame DEF Quiet, Carries
  <2>15. \A d \in Conns \ {Front, Back} : Quiet(d)
    BY <1>2, <2>7, <2>10, <2>12, UntouchedIsQuiet DEF Carries
  <2>16. Kept
    BY <1>1, <2>12, <2>13, <2>14, <2>15, ManyConns
  <2>17. ProxyOK'
    BY <1>1, <1>2, <1>3, <2>12 DEF ProxyOK, SameServer
  <2> QED BY <1>1, <1>2, <2>16, <2>17 DEF ProxyInv, TypeOK, Kept
<1>8. CASE r.kind # "data"
  <2>1. down' = Put(Rest(down, Back), Front, <<r>>)
        /\ UNCHANGED <<client, server, said, heard>>
    BY <1>8 DEF PumpsDown, ends, lines, r
  <2>2. Carries(down, Back, Front, r, down')
    BY <1>1, <1>2, <1>4, <1>5, <2>1, Carried
  <2>3. HandshakeTypeOK'
    BY <1>1, <1>2, <2>1, <2>2 DEF HandshakeTypeOK, Carries
  <2>4. Quiet(Front)
    BY <1>1, <1>2, <1>3, <1>5, <2>1, <2>2, KeepsSame
       DEF Quiet, Carries, SameClient, SameServer
  <2>5. Quiet(Back)
    BY <1>1, <1>2, <1>3, <2>1, <2>2, KeepsSame DEF Quiet, Carries, SameClient, SameServer
  <2>6. \A d \in Conns \ {Front, Back} : Quiet(d)
    BY <1>2, <2>1, <2>2, UntouchedIsQuiet DEF Carries
  <2>7. Kept
    BY <1>1, <2>3, <2>4, <2>5, <2>6, ManyConns
  <2> QED BY <1>1, <1>2, <2>1, <2>7 DEF ProxyInv, TypeOK, Kept, ProxyOK
<1> QED BY <1>7, <1>8

-----------------------------------------------------------------------------
(* The theorems. *)

\* At the start nothing is on its way and no end has a key.
LEMMA ProxyInitInv == Init => ProxyInv
<1> SUFFICES ASSUME Init
             PROVE  ProxyInv
  OBVIOUS
<1>1. HandshakeTypeOK
  BY InitType DEF Init
<1>2. proxy \in ProxyType /\ proxy.at \in {"none", "victim"}
  BY DEF Init, ProxyType
<1>3. ASSUME NEW c \in Conns
      PROVE  ConnOK(c)
  <2>1. /\ client[c].at = "start" /\ client[c].own = None /\ client[c].keys = None
        /\ server[c].step = "AwaitClientHello" /\ server[c].keys = None
        /\ up[c] = <<>> /\ down[c] = <<>> /\ said[c].up = <<>> /\ heard[c].up = <<>>
    BY <1>3 DEF Init, HandshakeInit, NewClient, NewServer
  <2>2. UpOK(c) /\ DownOK(c)
    BY <2>1 DEF UpOK, DownOK
  <2>3. ClientOK(c) /\ ServerOK(c)
    BY <2>1 DEF ClientOK, ServerOK
  <2> QED BY <2>2, <2>3 DEF ConnOK
<1> QED BY <1>1, <1>2, <1>3 DEF ProxyInv, TypeOK, ProxyOK

\* Every step of the client, the server, the proxy and the network keeps the invariant.
LEMMA ProxyNextInv == ProxyInv /\ [Next]_vars => ProxyInv'
<1> SUFFICES ASSUME ProxyInv, [Next]_vars
             PROVE  ProxyInv'
  OBVIOUS
<1>1. CASE Chat
  BY <1>1, ChatKeeps
<1>2. CASE Main
  BY <1>2, MainKeeps, JoinsKeeps
<1>3. CASE PumpUp \/ PumpDown
  BY <1>3, PumpsUpKeeps, PumpsDownKeeps, PumpEndsKeeps DEF PumpUp, PumpDown
<1>4. CASE UNCHANGED vars
  <2>1. UNCHANGED <<creds, client, server, up, down, said, heard, proxy>>
    BY <1>4 DEF vars
  <2>2. Kept
    BY <2>1, ProxyState, ManyConns, UntouchedIsQuiet DEF HandshakeTypeOK
  <2> QED BY <2>1, <2>2, ProxyState DEF ProxyInv, TypeOK, Kept, ProxyOK
<1> QED BY <1>1, <1>2, <1>3, <1>4 DEF Next

\* The records of a handshake are on the way once and in order and say what
\* the two ends hold, with the proxy or without, whatever is cut or altered.
THEOREM ProxyInvariance == Spec => []ProxyInv
BY ProxyInitInv, ProxyNextInv, PTL DEF Spec

\* The ends, the wires and the proxy keep their types, and the counters of a
\* Session count its lines.
THEOREM ProxyTypeCorrect == Spec => []TypeOK
<1>1. ProxyInv => TypeOK
  BY DEF ProxyInv
<1> QED BY <1>1, ProxyInvariance, PTL

\* When both ends of a connection have derived keys, these are the same:
\* client_handshake and ServerHandshake agree, for any number of connections,
\* certificates and versions.
THEOREM KeysAgree == Spec => []SameKeys
<1>1. ProxyInv => SameKeys
  BY DEF ProxyInv, SameKeys, ConnOK, ClientOK, ServerOK
<1> QED BY <1>1, ProxyInvariance, PTL

\* A client sends neither its public value nor a line to a server whose
\* certificate is at fault or whose key is not the certificate's.
THEOREM NothingIsRevealed == Spec => []NothingRevealed
<1>1. ProxyInv => NothingRevealed
  BY DEF ProxyInv, NothingRevealed, ConnOK, UpOK, ClientOK, ServerOK
<1> QED BY <1>1, ProxyInvariance, PTL

-----------------------------------------------------------------------------
(***************************************************************************)
(* A wire: what may be put on it and taken from it.                        *)
(***************************************************************************)
\* How many lines are in front of a place.
LEMMA DataType ==
    ASSUME NEW s, NEW n \in Nat
    PROVE  /\ IsFiniteSet(DataBefore(s, n + 1)) /\ Cardinality(DataBefore(s, n + 1)) \in Nat
<1>1. IsFiniteSet(1 .. (n + 1) - 1)
  BY FS_Interval
<1>2. DataBefore(s, n + 1) \in SUBSET (1 .. (n + 1) - 1)
  BY DEF DataBefore
<1>3. IsFiniteSet(DataBefore(s, n + 1))
  BY <1>1, <1>2, FS_Subset
<1> QED BY <1>3, FS_CardinalityType

\* In front of every place of s \o t that is in s there is what was there in s.
LEMMA DataKept ==
    ASSUME NEW S, NEW s \in Seq(S), NEW t \in Seq(S), NEW i \in 1 .. Len(s) + 1
    PROVE  DataBefore(s \o t, i) = DataBefore(s, i)
<1>1. \A j \in 1 .. i - 1 : (s \o t)[j] = s[j]
  <2>1. \A j \in 1 .. i - 1 : j \in 1 .. Len(s)
    OBVIOUS
  <2> QED BY <2>1, Concatenated
<1> QED BY <1>1 DEF DataBefore

\* Behind records that are no lines there are as many.
LEMMA DataQuiet ==
    ASSUME NEW S, NEW s \in Seq(S), NEW t \in Seq(S),
           \A i \in 1 .. Len(t) : t[i].kind # "data"
    PROVE  DataBefore(s \o t, Len(s \o t) + 1) = DataBefore(s, Len(s) + 1)
<1> DEFINE u == s \o t
           m == Len(s)
           n == Len(t)
<1>1. /\ Len(u) = m + n /\ m \in Nat /\ n \in Nat
      /\ \A i \in 1 .. m : u[i] = s[i]
      /\ \A i \in 1 .. n : u[m + i] = t[i]
  BY Concatenated
<1> HIDE DEF u, m, n
<1>2. ASSUME NEW j \in 1 .. m + n, u[j].kind = "data" PROVE j \in 1 .. m
  <2>1. CASE j \notin 1 .. m
    <3> DEFINE k == j - m
    <3>1. k \in 1 .. n /\ m + k = j
      BY <1>1, <2>1
    <3> HIDE DEF k
    <3>2. u[j] = t[k]
      BY <1>1, <3>1
    <3> QED BY <1>2, <3>1, <3>2 DEF n
  <2> QED BY <2>1
<1>3. 1 .. (Len(u) + 1) - 1 = 1 .. m + n /\ 1 .. (m + 1) - 1 = 1 .. m
  BY <1>1
<1>4. 1 .. m \subseteq 1 .. m + n
  BY <1>1
<1>5. DataBefore(u, Len(u) + 1) = DataBefore(s, m + 1)
  BY <1>1, <1>2, <1>3, <1>4 DEF DataBefore
<1> QED BY <1>5 DEF u, m

\* And behind one more line there is one more.
LEMMA DataMore ==
    ASSUME NEW S, NEW s \in Seq(S), NEW r \in S, r.kind = "data"
    PROVE  Cardinality(DataBefore(Append(s, r), Len(Append(s, r)) + 1))
             = Cardinality(DataBefore(s, Len(s) + 1)) + 1
<1> DEFINE u == Append(s, r)
           m == Len(s)
<1>1. Len(u) = m + 1 /\ m \in Nat /\ u[m + 1] = r /\ \A i \in 1 .. m : u[i] = s[i]
  OBVIOUS
<1> HIDE DEF u, m
<1>2. 1 .. (Len(u) + 1) - 1 = 1 .. m + 1 /\ 1 .. (m + 1) - 1 = 1 .. m
  BY <1>1
<1>3. 1 .. m + 1 = 1 .. m \cup {m + 1} /\ m + 1 \notin 1 .. m
  BY <1>1
<1>4. DataBefore(u, Len(u) + 1) = DataBefore(s, m + 1) \cup {m + 1}
  BY <1>1, <1>2, <1>3 DEF DataBefore
<1>5. m + 1 \notin DataBefore(s, m + 1) /\ IsFiniteSet(DataBefore(s, m + 1))
  BY <1>1, <1>2, <1>3, DataType DEF DataBefore
<1>6. Cardinality(DataBefore(u, Len(u) + 1)) = Cardinality(DataBefore(s, m + 1)) + 1
  BY <1>4, <1>5, FS_AddElement
<1> QED BY <1>6 DEF u, m

\* Without the first record, there is one less if it was a line.
LEMMA DataRest ==
    ASSUME NEW S, NEW s \in Seq(S), s # <<>>, NEW i \in 1 .. Len(Tail(s)) + 1
    PROVE  Cardinality(DataBefore(s, i + 1)) =
             Cardinality(DataBefore(Tail(s), i)) + (IF s[1].kind = "data" THEN 1 ELSE 0)
<1> DEFINE u == Tail(s)
           A == DataBefore(u, i)
           B == DataBefore(s, i + 1) \ {1}
<1>1. /\ u \in Seq(S) /\ Len(s) = Len(u) + 1 /\ Len(u) \in Nat
      /\ \A j \in 1 .. Len(u) : u[j] = s[j + 1]
  OBVIOUS
<1>2. A \subseteq 1 .. Len(u) /\ \A j \in A : u[j] = s[j + 1]
  BY <1>1 DEF DataBefore
<1> DEFINE f == [j \in A |-> j + 1]
<1>3. IsFiniteSet(A) /\ Cardinality(A) \in Nat
  <2>1. (i - 1) + 1 = i /\ i - 1 \in Nat
    BY <1>1
  <2> QED BY <2>1, DataType
<1>4. f \in Bijection(A, B)
  <2>1. \A j \in A : j + 1 \in B
    BY <1>1, <1>2 DEF DataBefore
  <2>2. \A b \in B : b - 1 \in A /\ (b - 1) + 1 = b
    <3> SUFFICES ASSUME NEW b \in B PROVE b - 1 \in A /\ (b - 1) + 1 = b
      OBVIOUS
    <3>1. b \in 2 .. i /\ s[b].kind = "data"
      BY <1>1 DEF DataBefore
    <3>2. b - 1 \in 1 .. i - 1 /\ b - 1 \in 1 .. Len(u) /\ (b - 1) + 1 = b
      BY <1>1, <3>1
    <3>3. u[b - 1] = s[b]
      BY <1>1, <3>2
    <3> QED BY <3>1, <3>2, <3>3 DEF DataBefore
  <2>3. \A j, k \in A : j + 1 = k + 1 => j = k
    BY <1>2
  <2>4. f \in [A -> B]
    BY <2>1
  <2>5. f \in Injection(A, B)
    BY <2>3, <2>4 DEF Injection, IsInjective
  <2>6. f \in Surjection(A, B)
    <3>1. \A b \in B : f[b - 1] = b /\ b - 1 \in A
      BY <2>2
    <3> QED BY <2>4, <3>1 DEF Surjection
  <2> QED BY <2>5, <2>6 DEF Bijection
<1>5. IsFiniteSet(B) /\ Cardinality(B) = Cardinality(A)
  <2> HIDE DEF f, A, B
  <2>1. ExistsBijection(A, B)
    BY <1>4 DEF ExistsBijection
  <2> QED BY <1>3, <2>1, FS_Bijection
<1>6. 1 \in DataBefore(s, i + 1) <=> s[1].kind = "data"
  BY <1>1 DEF DataBefore
<1>7. CASE s[1].kind = "data"
  <2>1. DataBefore(s, i + 1) = B \cup {1} /\ 1 \notin B
    BY <1>6, <1>7
  <2> HIDE DEF A, B, f
  <2>2. Cardinality(B \cup {1}) = Cardinality(B) + 1
    BY <1>5, <2>1, FS_AddElement
  <2>3. Cardinality(DataBefore(s, i + 1)) = Cardinality(A) + 1
    BY <1>5, <2>1, <2>2
  <2> QED BY <1>7, <2>3 DEF A
<1>8. CASE s[1].kind # "data"
  <2>1. DataBefore(s, i + 1) = B
    BY <1>6, <1>8
  <2> HIDE DEF B, f
  <2>2. Cardinality(DataBefore(s, i + 1)) = Cardinality(A) + 0
    <3> HIDE DEF A
    <3> QED BY <1>3, <1>5, <2>1
  <2> QED BY <1>8, <2>2
<1> QED BY <1>7, <1>8

\* A wire of records, and the lines said and heard on it.
WireType(s, spoken, listened) ==
    s \in Seq(RecordType) /\ spoken \in Seq(Nat) /\ listened \in Seq(Nat)

\* The sender may say less than before.
LEMMA WireLess ==
    ASSUME NEW s, NEW key, NEW spoken, NEW listened,
           NEW going \in BOOLEAN, NEW going2 \in BOOLEAN,
           Wire(s, key, spoken, listened, going), going2 => going
    PROVE  Wire(s, key, spoken, listened, going2)
BY DEF Wire

\* Records that are no lines are sent.
LEMMA WireQuiet ==
    ASSUME NEW s, NEW key, NEW spoken, NEW listened,
           NEW going \in BOOLEAN, NEW going2 \in BOOLEAN,
           WireType(s, spoken, listened), Wire(s, key, spoken, listened, going),
           NEW t \in Seq(RecordType), \A i \in 1 .. Len(t) : t[i].kind # "data",
           going2 => going /\ t # <<>> /\ t[Len(t)] # Eof
    PROVE  Wire(s \o t, key, spoken, listened, going2)
<1> DEFINE u == s \o t
           m == Len(s)
           n == Len(t)
<1>1. s \in Seq(RecordType) /\ m \in Nat /\ n \in Nat
  BY DEF WireType
<1>2. /\ Len(u) = m + n
      /\ \A i \in 1 .. m : u[i] = s[i]
      /\ \A i \in 1 .. n : u[m + i] = t[i]
  BY <1>1, Concatenated
<1>3. \A i \in 1 .. m + 1 : DataBefore(u, i) = DataBefore(s, i)
  BY <1>1, DataKept
<1>4. DataBefore(u, Len(u) + 1) = DataBefore(s, m + 1)
  BY <1>1, DataQuiet
<1>5. ASSUME NEW i \in 1 .. Len(u), u[i].kind = "data" PROVE i \in 1 .. m /\ u[i] = s[i]
  <2>1. CASE i \notin 1 .. m
    <3> DEFINE k == i - m
    <3>1. k \in 1 .. n /\ m + k = i
      BY <1>1, <1>2, <2>1
    <3> HIDE DEF k
    <3>2. u[i] = t[k]
      BY <1>2, <3>1
    <3> QED BY <1>5, <3>1, <3>2
  <2> QED BY <1>2, <2>1
<1>6. going2 => ~IsShut(u)
  <2>1. t # <<>> => n \in 1 .. n /\ m + n = Len(u)
    BY <1>1, <1>2
  <2>2. t # <<>> => u[Len(u)] = t[n]
    BY <1>2, <2>1
  <2> QED BY <2>2 DEF IsShut
<1> HIDE DEF u, m
<1>7. Wire(u, key, spoken, listened, going2)
  <2>1. /\ Len(listened) <= Len(spoken)
        /\ \A k \in 1 .. Len(listened) : listened[k] = spoken[k]
        /\ \A i \in 1 .. Len(s) : s[i].kind = "data" /\ s[i].key # None =>
            /\ s[i].key = key
            /\ s[i].n = Len(listened) + Cardinality(DataBefore(s, i))
            /\ s[i].n < Len(spoken) /\ s[i].line = spoken[s[i].n + 1]
        /\ going => Len(spoken) = Len(listened) + Cardinality(DataBefore(s, Len(s) + 1))
    BY DEF Wire
  <2>2. ASSUME NEW i \in 1 .. Len(u), u[i].kind = "data", u[i].key # None
        PROVE  /\ u[i].key = key
               /\ u[i].n = Len(listened) + Cardinality(DataBefore(u, i))
               /\ u[i].n < Len(spoken) /\ u[i].line = spoken[u[i].n + 1]
    <3>1. i \in 1 .. m /\ u[i] = s[i]
      BY <1>5, <2>2
    <3>2. i \in 1 .. m + 1
      BY <1>1, <3>1
    <3>3. DataBefore(u, i) = DataBefore(s, i)
      BY <1>3, <3>2
    <3> QED BY <2>1, <2>2, <3>1, <3>3 DEF m
  <2>3. going2 => Len(spoken) = Len(listened) + Cardinality(DataBefore(u, Len(u) + 1))
    BY <1>4, <2>1 DEF m
  <2> QED BY <1>6, <2>1, <2>2, <2>3 DEF Wire
<1> QED BY <1>7 DEF u

\* A line is sent: sealed under the key with the next counter, or with no key at all.
LEMMA WireSay ==
    ASSUME NEW s, NEW key, NEW spoken, NEW listened, NEW going \in BOOLEAN,
           WireType(s, spoken, listened), Wire(s, key, spoken, listened, TRUE),
           NEW r \in RecordType, NEW line \in Nat, r.kind = "data",
           r.key = None \/ (r.key = key /\ r.n = Len(spoken) /\ r.line = line)
    PROVE  Wire(Append(s, r), key, Append(spoken, line), listened, going)
<1> DEFINE u == Append(s, r)
           m == Len(s)
           w == Append(spoken, line)
           l == Len(spoken)
<1>1. s \in Seq(RecordType) /\ m \in Nat /\ spoken \in Seq(Nat) /\ l \in Nat
      /\ Len(listened) \in Nat
  BY DEF WireType
<1>2. Len(u) = m + 1 /\ u[m + 1] = r /\ \A i \in 1 .. m : u[i] = s[i]
  BY <1>1
<1>3. Len(w) = l + 1 /\ w[l + 1] = line /\ \A i \in 1 .. l : w[i] = spoken[i]
  BY <1>1
<1>4. \A i \in 1 .. m + 1 : DataBefore(u, i) = DataBefore(s, i)
  <2>1. <<r>> \in Seq(RecordType) /\ s \o <<r>> = u
    BY <1>1
  <2> HIDE DEF u
  <2> QED BY <1>1, <2>1, DataKept
<1>5. Cardinality(DataBefore(u, Len(u) + 1)) = Cardinality(DataBefore(s, m + 1)) + 1
  BY <1>1, DataMore
<1>6. ~IsShut(u)
  BY <1>2 DEF IsShut, Eof
<1>7. Cardinality(DataBefore(s, m + 1)) \in Nat
  BY <1>1, DataType
<1>8. /\ Len(listened) <= l
      /\ \A k \in 1 .. Len(listened) : listened[k] = spoken[k]
      /\ \A i \in 1 .. m : s[i].kind = "data" /\ s[i].key # None =>
          /\ s[i].key = key
          /\ s[i].n = Len(listened) + Cardinality(DataBefore(s, i))
          /\ s[i].n < l /\ s[i].line = spoken[s[i].n + 1]
      /\ l = Len(listened) + Cardinality(DataBefore(s, m + 1))
  BY DEF Wire
<1> HIDE DEF u, m, w, l
<1>9. ASSUME NEW i \in 1 .. Len(u), u[i].kind = "data", u[i].key # None
      PROVE  /\ u[i].key = key
             /\ u[i].n = Len(listened) + Cardinality(DataBefore(u, i))
             /\ u[i].n < Len(w) /\ u[i].line = w[u[i].n + 1]
  <2>1. CASE i \in 1 .. m
    <3>1. u[i] = s[i] /\ DataBefore(u, i) = DataBefore(s, i)
      <4>1. i \in 1 .. m + 1
        BY <1>1, <2>1
      <4> QED BY <1>2, <1>4, <2>1, <4>1
    <3>2. Cardinality(DataBefore(s, i)) \in Nat
      <4>1. i - 1 \in Nat /\ (i - 1) + 1 = i
        BY <1>1, <2>1
      <4> QED BY <4>1, DataType
    <3>3. s[i].key = key /\ s[i].n = Len(listened) + Cardinality(DataBefore(s, i))
          /\ s[i].n < l /\ s[i].line = spoken[s[i].n + 1]
      BY <1>8, <1>9, <2>1, <3>1
    <3>4. s[i].n \in Nat /\ s[i].n + 1 \in 1 .. l
      BY <1>1, <3>2, <3>3, SMTT(30)
    <3> QED BY <1>1, <1>3, <3>1, <3>3, <3>4, SMTT(30)
  <2>2. CASE i = m + 1
    <3>1. u[i] = r /\ DataBefore(u, i) = DataBefore(s, m + 1)
      BY <1>1, <1>2, <1>4, <2>2
    <3>2. r.key = key /\ r.n = l /\ r.line = line
      BY <1>9, <3>1 DEF l
    <3>3. r.n < Len(w)
      BY <1>1, <1>3, <3>2
    <3> QED BY <1>3, <1>8, <3>1, <3>2, <3>3
  <2> QED BY <1>1, <1>2, <2>1, <2>2
<1>10. Len(w) = Len(listened) + Cardinality(DataBefore(u, Len(u) + 1))
  BY <1>1, <1>3, <1>5, <1>7, <1>8
<1>11. Len(listened) <= Len(w) /\ \A k \in 1 .. Len(listened) : listened[k] = w[k]
  <2>1. Len(listened) <= l + 1
    BY <1>1, <1>8
  <2>2. ASSUME NEW k \in 1 .. Len(listened) PROVE k \in 1 .. l
    BY <1>1, <1>8
  <2> QED BY <1>3, <1>8, <2>1, <2>2
<1> QED BY <1>6, <1>9, <1>10, <1>11 DEF Wire, u, w

\* A record is sent in the clear, before the sender says anything.
LEMMA WireAdd ==
    ASSUME NEW s, NEW key, NEW spoken, NEW listened, NEW going \in BOOLEAN,
           WireType(s, spoken, listened), Wire(s, key, spoken, listened, going),
           NEW r \in RecordType, r.kind = "data", r.key = None
    PROVE  Wire(Append(s, r), key, spoken, listened, FALSE)
<1> DEFINE u == Append(s, r)
           m == Len(s)
<1>1. s \in Seq(RecordType) /\ m \in Nat
  BY DEF WireType
<1>2. Len(u) = m + 1 /\ u[m + 1] = r /\ \A i \in 1 .. m : u[i] = s[i]
  BY <1>1
<1>4. \A i \in 1 .. m + 1 : DataBefore(u, i) = DataBefore(s, i)
  <2>1. <<r>> \in Seq(RecordType) /\ s \o <<r>> = u
    BY <1>1
  <2> HIDE DEF u
  <2> QED BY <1>1, <2>1, DataKept
<1>8. /\ Len(listened) <= Len(spoken)
      /\ \A k \in 1 .. Len(listened) : listened[k] = spoken[k]
      /\ \A i \in 1 .. m : s[i].kind = "data" /\ s[i].key # None =>
          /\ s[i].key = key
          /\ s[i].n = Len(listened) + Cardinality(DataBefore(s, i))
          /\ s[i].n < Len(spoken) /\ s[i].line = spoken[s[i].n + 1]
  BY DEF Wire
<1> HIDE DEF u, m
<1>9. ASSUME NEW i \in 1 .. Len(u), u[i].kind = "data", u[i].key # None
      PROVE  /\ u[i].key = key
             /\ u[i].n = Len(listened) + Cardinality(DataBefore(u, i))
             /\ u[i].n < Len(spoken) /\ u[i].line = spoken[u[i].n + 1]
  <2>1. i \in 1 .. m
    BY <1>1, <1>2, <1>9
  <2>2. i \in 1 .. m + 1
    BY <1>1, <2>1
  <2> QED BY <1>2, <1>4, <1>8, <1>9, <2>1, <2>2
<1> QED BY <1>8, <1>9 DEF Wire, u

\* The records behind the first.
LEMMA WireRest ==
    ASSUME NEW s \in Seq(RecordType), s # <<>>
    PROVE  /\ Tail(s) \in Seq(RecordType) /\ Len(s) = Len(Tail(s)) + 1 /\ Len(Tail(s)) \in Nat
           /\ Head(s) = s[1] /\ 1 \in 1 .. Len(s)
           /\ \A i \in 1 .. Len(Tail(s)) :
                i + 1 \in 1 .. Len(s) /\ Tail(s)[i] = s[i + 1]
           /\ IsShut(Tail(s)) => IsShut(s)
<1>1. /\ Tail(s) \in Seq(RecordType) /\ Len(s) = Len(Tail(s)) + 1 /\ Len(Tail(s)) \in Nat
      /\ Head(s) = s[1] /\ 1 \in 1 .. Len(s)
      /\ \A i \in 1 .. Len(Tail(s)) :
           i + 1 \in 1 .. Len(s) /\ Tail(s)[i] = s[i + 1]
  OBVIOUS
<1>2. Tail(s) # <<>> => Len(Tail(s)) \in 1 .. Len(Tail(s))
  BY <1>1
<1>3. IsShut(Tail(s)) => IsShut(s)
  BY <1>1, <1>2 DEF IsShut
<1> QED BY <1>1, <1>3

\* A record that is no line is read.
LEMMA WirePop ==
    ASSUME NEW s, NEW key, NEW spoken, NEW listened, NEW going \in BOOLEAN,
           WireType(s, spoken, listened), Wire(s, key, spoken, listened, going),
           s # <<>>, Head(s).kind # "data"
    PROVE  Wire(Tail(s), key, spoken, listened, going)
<1> DEFINE u == Tail(s)
<1>1. s \in Seq(RecordType)
  BY DEF WireType
<1>2. /\ u \in Seq(RecordType) /\ Len(s) = Len(u) + 1 /\ Len(u) \in Nat
      /\ Head(s) = s[1] /\ 1 \in 1 .. Len(s)
      /\ \A i \in 1 .. Len(u) : i + 1 \in 1 .. Len(s) /\ u[i] = s[i + 1]
      /\ IsShut(u) => IsShut(s)
  BY <1>1, WireRest
<1>3. \A i \in 1 .. Len(u) + 1 :
        Cardinality(DataBefore(s, i + 1)) = Cardinality(DataBefore(u, i))
  <2> SUFFICES ASSUME NEW i \in 1 .. Len(u) + 1
               PROVE  Cardinality(DataBefore(s, i + 1)) = Cardinality(DataBefore(u, i))
    OBVIOUS
  <2>1. Cardinality(DataBefore(s, i + 1)) = Cardinality(DataBefore(u, i)) + 0
    BY <1>1, <1>2, DataRest
  <2>2. Cardinality(DataBefore(u, i)) \in Nat
    <3>1. i - 1 \in Nat /\ (i - 1) + 1 = i
      BY <1>2
    <3> QED BY <3>1, DataType
  <2> QED BY <2>1, <2>2
<1>8. /\ Len(listened) <= Len(spoken)
      /\ \A k \in 1 .. Len(listened) : listened[k] = spoken[k]
      /\ \A i \in 1 .. Len(s) : s[i].kind = "data" /\ s[i].key # None =>
          /\ s[i].key = key
          /\ s[i].n = Len(listened) + Cardinality(DataBefore(s, i))
          /\ s[i].n < Len(spoken) /\ s[i].line = spoken[s[i].n + 1]
      /\ going =>
          /\ ~IsShut(s)
          /\ Len(spoken) = Len(listened) + Cardinality(DataBefore(s, Len(s) + 1))
  BY DEF Wire
<1> HIDE DEF u
<1>9. ASSUME NEW i \in 1 .. Len(u), u[i].kind = "data", u[i].key # None
      PROVE  /\ u[i].key = key
             /\ u[i].n = Len(listened) + Cardinality(DataBefore(u, i))
             /\ u[i].n < Len(spoken) /\ u[i].line = spoken[u[i].n + 1]
  <2>1. i + 1 \in 1 .. Len(s) /\ u[i] = s[i + 1] /\ i \in 1 .. Len(u) + 1
    BY <1>2
  <2>2. Cardinality(DataBefore(s, i + 1)) = Cardinality(DataBefore(u, i))
    BY <1>3, <2>1
  <2> QED BY <1>8, <1>9, <2>1, <2>2
<1>10. Cardinality(DataBefore(s, Len(s) + 1)) = Cardinality(DataBefore(u, Len(u) + 1))
  <2>1. Len(u) + 1 \in 1 .. Len(u) + 1
    BY <1>2
  <2> QED BY <1>2, <1>3, <2>1
<1> QED BY <1>2, <1>8, <1>9, <1>10 DEF Wire, u

\* A line is opened: it is the next one that was said.
LEMMA WireHear ==
    ASSUME NEW s, NEW key, NEW spoken, NEW listened, NEW going \in BOOLEAN,
           WireType(s, spoken, listened), Wire(s, key, spoken, listened, going),
           s # <<>>, Head(s).kind = "data", Head(s).key # None
    PROVE  /\ Len(listened) < Len(spoken) /\ Head(s).line = spoken[Len(listened) + 1]
           /\ Head(s).key = key /\ Head(s).n = Len(listened)
           /\ Wire(Tail(s), key, spoken, Append(listened, Head(s).line), going)
<1> DEFINE u == Tail(s)
           r == Head(s)
           l == Len(listened)
           w == Append(listened, r.line)
<1>1. s \in Seq(RecordType) /\ spoken \in Seq(Nat) /\ listened \in Seq(Nat)
      /\ l \in Nat /\ Len(spoken) \in Nat
  BY DEF WireType
<1>2. /\ u \in Seq(RecordType) /\ Len(s) = Len(u) + 1 /\ Len(u) \in Nat
      /\ r = s[1] /\ 1 \in 1 .. Len(s)
      /\ \A i \in 1 .. Len(u) : i + 1 \in 1 .. Len(s) /\ u[i] = s[i + 1]
      /\ IsShut(u) => IsShut(s)
  BY <1>1, WireRest
<1>3. \A i \in 1 .. Len(u) + 1 :
        /\ Cardinality(DataBefore(s, i + 1)) = Cardinality(DataBefore(u, i)) + 1
        /\ Cardinality(DataBefore(u, i)) \in Nat
  <2> SUFFICES ASSUME NEW i \in 1 .. Len(u) + 1
               PROVE  /\ Cardinality(DataBefore(s, i + 1)) = Cardinality(DataBefore(u, i)) + 1
                      /\ Cardinality(DataBefore(u, i)) \in Nat
    OBVIOUS
  <2>1. Cardinality(DataBefore(s, i + 1)) = Cardinality(DataBefore(u, i)) + 1
    BY <1>1, <1>2, DataRest
  <2>2. Cardinality(DataBefore(u, i)) \in Nat
    <3>1. i - 1 \in Nat /\ (i - 1) + 1 = i
      BY <1>2
    <3> QED BY <3>1, DataType
  <2> QED BY <2>1, <2>2
<1>4. Cardinality(DataBefore(s, 1)) = 0
  <2>1. DataBefore(s, 1) = {}
    BY DEF DataBefore
  <2> QED BY <2>1, FS_EmptySet
<1>5. /\ l <= Len(spoken)
      /\ \A k \in 1 .. l : listened[k] = spoken[k]
      /\ \A i \in 1 .. Len(s) : s[i].kind = "data" /\ s[i].key # None =>
          /\ s[i].key = key
          /\ s[i].n = l + Cardinality(DataBefore(s, i))
          /\ s[i].n < Len(spoken) /\ s[i].line = spoken[s[i].n + 1]
      /\ going =>
          /\ ~IsShut(s)
          /\ Len(spoken) = l + Cardinality(DataBefore(s, Len(s) + 1))
  BY DEF Wire
<1>6. r.key = key /\ r.n = l /\ l < Len(spoken) /\ r.line = spoken[l + 1]
  BY <1>1, <1>2, <1>4, <1>5
<1>7. Len(w) = l + 1 /\ w[l + 1] = r.line /\ \A k \in 1 .. l : w[k] = listened[k]
  <2>1. r.line \in Nat
    BY <1>1, <1>2, Received
  <2> QED BY <1>1, <2>1
<1> HIDE DEF u, r, l, w
<1>8. Len(w) <= Len(spoken) /\ \A k \in 1 .. Len(w) : w[k] = spoken[k]
  <2>1. \A k \in 1 .. Len(w) : k \in 1 .. l \/ k = l + 1
    BY <1>1, <1>7
  <2>2. l + 1 <= Len(spoken)
    BY <1>1, <1>6
  <2> QED BY <1>5, <1>6, <1>7, <2>1, <2>2
<1>9. ASSUME NEW i \in 1 .. Len(u), u[i].kind = "data", u[i].key # None
      PROVE  /\ u[i].key = key
             /\ u[i].n = Len(w) + Cardinality(DataBefore(u, i))
             /\ u[i].n < Len(spoken) /\ u[i].line = spoken[u[i].n + 1]
  <2>1. i + 1 \in 1 .. Len(s) /\ u[i] = s[i + 1] /\ i \in 1 .. Len(u) + 1
    BY <1>2
  <2>2. Cardinality(DataBefore(s, i + 1)) = Cardinality(DataBefore(u, i)) + 1
        /\ Cardinality(DataBefore(u, i)) \in Nat
    BY <1>3, <2>1
  <2>3. l + Cardinality(DataBefore(s, i + 1)) = Len(w) + Cardinality(DataBefore(u, i))
    BY <1>1, <1>7, <2>2
  <2> QED BY <1>5, <1>9, <2>1, <2>3
<1>10. going => /\ ~IsShut(u)
                /\ Len(spoken) = Len(w) + Cardinality(DataBefore(u, Len(u) + 1))
  <2>1. Len(u) + 1 \in 1 .. Len(u) + 1
    BY <1>2
  <2>2. Cardinality(DataBefore(s, Len(s) + 1)) = Cardinality(DataBefore(u, Len(u) + 1)) + 1
        /\ Cardinality(DataBefore(u, Len(u) + 1)) \in Nat
    BY <1>2, <1>3, <2>1
  <2> DEFINE n == Cardinality(DataBefore(u, Len(u) + 1))
             m == Cardinality(DataBefore(s, Len(s) + 1))
  <2>3. m = n + 1 /\ n \in Nat
    BY <2>2
  <2>4. going => ~IsShut(u) /\ Len(spoken) = l + m
    BY <1>2, <1>5
  <2> HIDE DEF n, m
  <2>5. going => Len(spoken) = Len(w) + n
    BY <1>1, <1>7, <2>3, <2>4
  <2> QED BY <2>4, <2>5 DEF n
<1>11. Wire(u, key, spoken, w, going)
  BY <1>8, <1>9, <1>10 DEF Wire
<1> QED BY <1>6, <1>11 DEF u, w, r, l

\* A wire that was shut loses what is on it.
LEMMA WireReset ==
    ASSUME NEW s, NEW key, NEW spoken, NEW listened, NEW going \in BOOLEAN,
           Wire(s, key, spoken, listened, going), IsShut(s)
    PROVE  Wire(<<Eof>>, key, spoken, listened, going)
<1>1. Len(<<Eof>>) = 1 /\ <<Eof>>[1].kind # "data"
  BY DEF Eof
<1>2. \A i \in 1 .. Len(<<Eof>>) : <<Eof>>[i].kind # "data"
  BY <1>1
<1> QED BY <1>2 DEF Wire

-----------------------------------------------------------------------------
(* The lines of one connection. *)

\* What LinesOK says of the state after a step.
LEMMA BothWires ==
    ASSUME NEW c \in Conns, creds' = creds,
           client'[c].at = "up" => client'[c].keys = SessionKeys(c),
           Wire(up'[c], <<SessionKeys(c), "c2s">>, said'[c].up, heard'[c].up, UpGoes(c)'),
           Wire(down'[c], <<SessionKeys(c), "s2c">>, said'[c].down, heard'[c].down, DownGoes(c)')
    PROVE  LinesOK(c)'
<1>1. SessionKeys(c)' = SessionKeys(c)
  BY DEF SessionKeys
<1> QED BY <1>1 DEF LinesOK

\* The types of what a connection carries.
LEMMA LinesType ==
    ASSUME HandshakeTypeOK, NEW c \in Conns
    PROVE  /\ WireType(up[c], said[c].up, heard[c].up)
           /\ WireType(down[c], said[c].down, heard[c].down)
           /\ UpGoes(c) \in BOOLEAN /\ DownGoes(c) \in BOOLEAN
           /\ UpGoes(c)' \in BOOLEAN /\ DownGoes(c)' \in BOOLEAN
           /\ up \in [Conns -> Seq(RecordType)] /\ down \in [Conns -> Seq(RecordType)]
           /\ client[c] \in ClientType /\ server[c] \in ServerType
           /\ client[c].tx = Len(said[c].up) /\ client[c].rx = Len(heard[c].down)
           /\ server[c].tx = Len(said[c].down) /\ server[c].rx = Len(heard[c].up)
<1>1. /\ up[c] \in Seq(RecordType) /\ down[c] \in Seq(RecordType)
      /\ said[c] \in [up : Seq(Nat), down : Seq(Nat)]
      /\ heard[c] \in [up : Seq(Nat), down : Seq(Nat)]
  BY DEF HandshakeTypeOK
<1>2. UpGoes(c) \in BOOLEAN /\ DownGoes(c) \in BOOLEAN
      /\ UpGoes(c)' \in BOOLEAN /\ DownGoes(c)' \in BOOLEAN
  BY DEF UpGoes, DownGoes
<1>3. up \in [Conns -> Seq(RecordType)] /\ down \in [Conns -> Seq(RecordType)]
      /\ client[c] \in ClientType /\ server[c] \in ServerType
  BY DEF HandshakeTypeOK
<1>4. client[c].tx = Len(said[c].up) /\ client[c].rx = Len(heard[c].down)
      /\ server[c].tx = Len(said[c].down) /\ server[c].rx = Len(heard[c].up)
  BY DEF HandshakeTypeOK
<1> QED BY <1>1, <1>2, <1>3, <1>4 DEF WireType

\* A connection that a step leaves alone.
LEMMA LinesStay ==
    ASSUME NEW c \in Conns, LinesOK(c), creds' = creds, client'[c] = client[c],
           server'[c] = server[c], up'[c] = up[c], down'[c] = down[c],
           said'[c] = said[c], heard'[c] = heard[c],
           proxy'.up = "run" => proxy.up = "run", proxy'.down = "run" => proxy.down = "run"
    PROVE  LinesOK(c)'
<1>1. UpGoes(c)' => UpGoes(c)
  BY DEF UpGoes
<1>2. DownGoes(c)' => DownGoes(c)
  BY DEF DownGoes
<1>3. UpGoes(c) \in BOOLEAN /\ DownGoes(c) \in BOOLEAN
      /\ UpGoes(c)' \in BOOLEAN /\ DownGoes(c)' \in BOOLEAN
  BY DEF UpGoes, DownGoes
<1>4. Wire(up[c], <<SessionKeys(c), "c2s">>, said[c].up, heard[c].up, UpGoes(c)')
  BY <1>1, <1>3, WireLess DEF LinesOK
<1>5. Wire(down[c], <<SessionKeys(c), "s2c">>, said[c].down, heard[c].down, DownGoes(c)')
  BY <1>2, <1>3, WireLess DEF LinesOK
<1>6. client'[c].at = "up" => client'[c].keys = SessionKeys(c)
  BY DEF LinesOK
<1> QED BY <1>4, <1>5, <1>6, BothWires

\* The wire of a sender that shuts it.
LEMMA WireShut ==
    ASSUME NEW w \in [Conns -> Seq(RecordType)], NEW c \in Conns, NEW key, NEW spoken,
           NEW listened, NEW going \in BOOLEAN, WireType(w[c], spoken, listened),
           Wire(w[c], key, spoken, listened, going)
    PROVE  Wire(Shut(w, c)[c], key, spoken, listened, FALSE)
<1> DEFINE t == <<Eof>>
           s == w[c]
<1>1. t \in Seq(RecordType) /\ \A i \in 1 .. Len(t) : t[i].kind # "data"
  BY Sendable DEF Eof
<1>2. Shut(w, c)[c] = s \/ Shut(w, c)[c] = s \o t
  BY ShutType
<1>3. Wire(s, key, spoken, listened, going) /\ WireType(s, spoken, listened)
  OBVIOUS
<1> HIDE DEF t, s
<1>4. Wire(s, key, spoken, listened, FALSE)
  BY <1>3, WireLess
<1>5. Wire(s \o t, key, spoken, listened, FALSE)
  BY <1>1, <1>3, WireQuiet
<1> QED BY <1>2, <1>4, <1>5

\* A record that is no line is put on a wire.
LEMMA WirePut ==
    ASSUME NEW w \in [Conns -> Seq(RecordType)], NEW c \in Conns, NEW key, NEW spoken,
           NEW listened, NEW going \in BOOLEAN, NEW going2 \in BOOLEAN,
           WireType(w[c], spoken, listened), Wire(w[c], key, spoken, listened, going),
           NEW r \in RecordType, r.kind # "data", r # Eof, going2 => going
    PROVE  Wire(Put(w, c, <<r>>)[c], key, spoken, listened, going2)
<1> DEFINE t == <<r>>
           s == w[c]
<1>1. t \in Seq(RecordType) /\ (\A i \in 1 .. Len(t) : t[i].kind # "data")
      /\ t # <<>> /\ t[Len(t)] # Eof
  OBVIOUS
<1>2. Wire(s, key, spoken, listened, going) /\ WireType(s, spoken, listened)
  OBVIOUS
<1> HIDE DEF t
<1>3. Put(w, c, t)[c] = s \o t
  BY <1>1, PutType
<1> HIDE DEF s
<1>4. Wire(s \o t, key, spoken, listened, going2)
  BY <1>1, <1>2, WireQuiet
<1>5. Wire(Put(w, c, t)[c], key, spoken, listened, going2)
  BY <1>3, <1>4
<1> QED BY <1>5 DEF t

\* A line is put on a wire.
LEMMA WireLine ==
    ASSUME NEW w \in [Conns -> Seq(RecordType)], NEW c \in Conns, NEW key, NEW spoken,
           NEW listened, NEW going \in BOOLEAN,
           WireType(w[c], spoken, listened), Wire(w[c], key, spoken, listened, TRUE),
           NEW r \in RecordType, NEW line \in Nat, r.kind = "data",
           r.key = None \/ (r.key = key /\ r.n = Len(spoken) /\ r.line = line)
    PROVE  Wire(Put(w, c, <<r>>)[c], key, Append(spoken, line), listened, going)
<1> DEFINE t == <<r>>
           s == w[c]
           new == Append(spoken, line)
<1>1. t \in Seq(RecordType) /\ s \in Seq(RecordType)
  OBVIOUS
<1>2. s \o t = Append(s, r)
  BY <1>1, OneAdded
<1>3. Wire(s, key, spoken, listened, TRUE) /\ WireType(s, spoken, listened)
  OBVIOUS
<1> HIDE DEF s
<1>4. Wire(Append(s, r), key, new, listened, going)
  BY <1>3, WireSay
<1> HIDE DEF t, new
<1>5. Put(w, c, t)[c] = s \o t
  BY <1>1, PutType DEF s
<1>6. Wire(Put(w, c, t)[c], key, new, listened, going)
  BY <1>2, <1>4, <1>5
<1> QED BY <1>6 DEF t, new

\* The end of the client's side.
LEMMA ClientEndsLines ==
    ASSUME HandshakeTypeOK, NEW c \in Conns, LinesOK(c), ClientEnds(c), proxy' = proxy
    PROVE  LinesOK(c)'
<1>1. /\ WireType(up[c], said[c].up, heard[c].up)
      /\ UpGoes(c) \in BOOLEAN /\ DownGoes(c) \in BOOLEAN
      /\ up \in [Conns -> Seq(RecordType)] /\ client \in [Conns -> ClientType]
  BY LinesType DEF HandshakeTypeOK
<1>2. /\ client' = [client EXCEPT ![c].at = "closed"] /\ up' = Shut(up, c)
      /\ creds' = creds /\ server' = server /\ down' = down /\ said' = said /\ heard' = heard
  BY DEF ClientEnds, lines
<1>3. client'[c].at = "closed"
  BY <1>1, <1>2 DEF ClientType
<1>4. UpGoes(c)' = FALSE /\ DownGoes(c)' = DownGoes(c)
  BY <1>2, <1>3 DEF UpGoes, DownGoes
<1>5. Wire(up[c], <<SessionKeys(c), "c2s">>, said[c].up, heard[c].up, UpGoes(c))
      /\ Wire(down[c], <<SessionKeys(c), "s2c">>, said[c].down, heard[c].down, DownGoes(c))
  BY DEF LinesOK
<1>6. Wire(Shut(up, c)[c], <<SessionKeys(c), "c2s">>, said[c].up, heard[c].up, FALSE)
  BY <1>1, <1>5, WireShut
<1> QED BY <1>2, <1>3, <1>4, <1>5, <1>6, BothWires

\* What the client sends in the handshake.
LEMMA HelloLines ==
    ASSUME HandshakeTypeOK, NEW c \in Conns, LinesOK(c), proxy' = proxy,
           Hello(c) \/ Contributes(c)
    PROVE  LinesOK(c)'
<1>1. /\ WireType(up[c], said[c].up, heard[c].up)
      /\ UpGoes(c) \in BOOLEAN /\ DownGoes(c) \in BOOLEAN /\ UpGoes(c)' \in BOOLEAN
      /\ up \in [Conns -> Seq(RecordType)] /\ client \in [Conns -> ClientType]
      /\ client[c] \in ClientType
  BY LinesType DEF HandshakeTypeOK
<1>2. PICK r \in RecordType : /\ r.kind \in {"hello", "clientkex"}
                              /\ up' = Put(up, c, <<r>>)
  <2>1. CASE Hello(c)
    <3> DEFINE r == [kind |-> "hello", version |-> client[c].version, random |-> c]
    <3>1. r \in RecordType
      BY <1>1, Sendable DEF ClientType
    <3>2. r.kind = "hello" /\ up' = Put(up, c, <<r>>)
      BY <2>1 DEF Hello
    <3> HIDE DEF r
    <3> QED BY <3>1, <3>2
  <2>2. CASE Contributes(c)
    <3> DEFINE r == [kind |-> "clientkex", pub |-> Pair(c, "client")]
    <3>1. r \in RecordType
      BY Sendable DEF Pair, PublicValues
    <3>2. r.kind = "clientkex" /\ up' = Put(up, c, <<r>>)
      BY <2>2 DEF Contributes
    <3> HIDE DEF r
    <3> QED BY <3>1, <3>2
  <2> QED BY <2>1, <2>2
<1>3. /\ creds' = creds /\ server' = server /\ down' = down /\ said' = said /\ heard' = heard
      /\ client[c].at \notin {"closed", "other"} /\ client'[c].at \in {"cert", "finish"}
  BY <1>1 DEF Hello, Contributes, lines, ClientType
<1>4. UpGoes(c)' = UpGoes(c) /\ DownGoes(c)' = DownGoes(c)
  BY <1>3 DEF UpGoes, DownGoes
<1>5. Wire(up[c], <<SessionKeys(c), "c2s">>, said[c].up, heard[c].up, UpGoes(c))
      /\ Wire(down[c], <<SessionKeys(c), "s2c">>, said[c].down, heard[c].down, DownGoes(c))
  BY DEF LinesOK
<1>6. r.kind # "data" /\ r # Eof
  BY <1>2 DEF Eof
<1>7. Wire(Put(up, c, <<r>>)[c], <<SessionKeys(c), "c2s">>, said[c].up, heard[c].up, UpGoes(c))
  BY <1>1, <1>5, <1>6, WirePut
<1> QED BY <1>2, <1>3, <1>4, <1>5, <1>7, BothWires

\* It is over before there was a line.
LEMMA RejectsLines ==
    ASSUME HandshakeTypeOK, NEW c \in Conns, LinesOK(c), proxy' = proxy, Rejects(c)
    PROVE  LinesOK(c)'
<1> DEFINE t == <<Alert, Eof>>
<1>1. /\ WireType(up[c], said[c].up, heard[c].up)
      /\ UpGoes(c) \in BOOLEAN
      /\ up \in [Conns -> Seq(RecordType)] /\ client \in [Conns -> ClientType]
  BY LinesType DEF HandshakeTypeOK
<1>2. /\ client' = [client EXCEPT ![c].at = "closed"] /\ up' = Put(up, c, t)
      /\ creds' = creds /\ server' = server /\ down' = down /\ said' = said /\ heard' = heard
  BY DEF Rejects, lines
<1>3. client'[c].at = "closed"
  BY <1>1, <1>2 DEF ClientType
<1>4. UpGoes(c)' = FALSE /\ DownGoes(c)' = DownGoes(c)
  BY <1>2, <1>3 DEF UpGoes, DownGoes
<1>5. Wire(up[c], <<SessionKeys(c), "c2s">>, said[c].up, heard[c].up, UpGoes(c))
      /\ Wire(down[c], <<SessionKeys(c), "s2c">>, said[c].down, heard[c].down, DownGoes(c))
  BY DEF LinesOK
<1>6. t \in Seq(RecordType) /\ \A i \in 1 .. Len(t) : t[i].kind # "data"
  BY Sendable DEF Alert, Eof
<1> HIDE DEF t
<1>7. Wire(up[c] \o t, <<SessionKeys(c), "c2s">>, said[c].up, heard[c].up, FALSE)
  BY <1>1, <1>5, <1>6, WireQuiet
<1>8. Put(up, c, t)[c] = up[c] \o t
  BY <1>1, <1>6, PutType
<1> QED BY <1>2, <1>3, <1>4, <1>5, <1>7, <1>8, BothWires

\* The client of phase 1 says nothing that is sealed.
LEMMA PlainLoginLines ==
    ASSUME HandshakeTypeOK, NEW c \in Conns, LinesOK(c), proxy' = proxy, PlainLogin(c)
    PROVE  LinesOK(c)'
<1> DEFINE r == Unsealed(1)
<1>1. /\ WireType(up[c], said[c].up, heard[c].up)
      /\ UpGoes(c) \in BOOLEAN
      /\ up \in [Conns -> Seq(RecordType)] /\ client \in [Conns -> ClientType]
      /\ up[c] \in Seq(RecordType)
  BY LinesType DEF HandshakeTypeOK
<1>2. /\ client' = [client EXCEPT ![c].at = "other"] /\ up' = Put(up, c, <<r>>)
      /\ creds' = creds /\ server' = server /\ down' = down /\ said' = said /\ heard' = heard
  BY DEF PlainLogin, lines
<1>3. client'[c].at = "other"
  BY <1>1, <1>2 DEF ClientType
<1>4. UpGoes(c)' = FALSE /\ DownGoes(c)' = DownGoes(c)
  BY <1>2, <1>3 DEF UpGoes, DownGoes
<1>5. Wire(up[c], <<SessionKeys(c), "c2s">>, said[c].up, heard[c].up, UpGoes(c))
      /\ Wire(down[c], <<SessionKeys(c), "s2c">>, said[c].down, heard[c].down, DownGoes(c))
  BY DEF LinesOK
<1>6. r \in RecordType /\ r.kind = "data" /\ r.key = None
  BY Sendable DEF Unsealed
<1> HIDE DEF r
<1>7. Wire(Append(up[c], r), <<SessionKeys(c), "c2s">>, said[c].up, heard[c].up, FALSE)
  BY <1>1, <1>5, <1>6, WireAdd
<1>8. up'[c] = Append(up[c], r)
  <2> DEFINE t == <<r>>
  <2>1. t \in Seq(RecordType) /\ up[c] \o t = Append(up[c], r)
    BY <1>1, <1>6, OneAdded
  <2>2. up' = Put(up, c, t)
    BY <1>2
  <2> HIDE DEF t
  <2> QED BY <1>1, <2>1, <2>2, PutType
<1> QED BY <1>2, <1>3, <1>4, <1>5, <1>7, <1>8, BothWires

\* What the client reads in the handshake.
LEMMA ReadsLines ==
    ASSUME HandshakeTypeOK, NEW c \in Conns, LinesOK(c), proxy' = proxy,
           ReadCert(c) \/ ReadKex(c) \/ ReadProof(c)
    PROVE  LinesOK(c)'
<1>1. /\ WireType(down[c], said[c].down, heard[c].down)
      /\ DownGoes(c) \in BOOLEAN
      /\ down \in [Conns -> Seq(RecordType)] /\ client \in [Conns -> ClientType]
      /\ client[c] \in ClientType
  BY LinesType DEF HandshakeTypeOK
<1>2. /\ down[c] # <<>> /\ Head(down[c]).kind \in {"cert", "kex", "proof"}
      /\ down' = Rest(down, c)
      /\ creds' = creds /\ server' = server /\ up' = up /\ said' = said /\ heard' = heard
  BY DEF ReadCert, ReadKex, ReadProof, Receives, Waits, Due, lines
<1>3. client[c].at \in {"cert", "kex", "proof"} /\ client'[c].at \in {"kex", "proof", "check"}
  BY <1>1 DEF ReadCert, ReadKex, ReadProof, Receives, Waits, ClientType
<1>4. UpGoes(c)' = UpGoes(c) /\ DownGoes(c)' = DownGoes(c)
  BY <1>2, <1>3 DEF UpGoes, DownGoes
<1>5. Wire(up[c], <<SessionKeys(c), "c2s">>, said[c].up, heard[c].up, UpGoes(c))
      /\ Wire(down[c], <<SessionKeys(c), "s2c">>, said[c].down, heard[c].down, DownGoes(c))
  BY DEF LinesOK
<1>6. Wire(Tail(down[c]), <<SessionKeys(c), "s2c">>, said[c].down, heard[c].down, DownGoes(c))
  BY <1>1, <1>2, <1>5, WirePop
<1>7. Rest(down, c)[c] = Tail(down[c])
  BY <1>1, <1>2, RestType
<1> QED BY <1>2, <1>3, <1>4, <1>5, <1>6, <1>7, BothWires

\* The keys that the client installs.
LEMMA InstallsLines ==
    ASSUME HandshakeTypeOK, NEW c \in Conns, ConnOK(c), LinesOK(c), proxy' = proxy, Installs(c)
    PROVE  LinesOK(c)'
<1> DEFINE e == client[c]
           keys == Derive(e.own, e.pub, e.version, c, e.cert, e.pub, e.own)
<1>1. client \in [Conns -> ClientType] /\ client[c] \in ClientType
  BY DEF HandshakeTypeOK
<1>2. /\ e.at = "finish" /\ client' = [client EXCEPT ![c].at = "up", ![c].keys = keys]
      /\ creds' = creds /\ server' = server /\ up' = up /\ down' = down
      /\ said' = said /\ heard' = heard
  BY DEF Installs, lines
<1>3. keys = SessionKeys(c)
  BY <1>2 DEF ConnOK, ClientOK, SessionKeys
<1> HIDE DEF keys
<1>4. client'[c].at = "up" /\ client'[c].keys = SessionKeys(c)
  BY <1>1, <1>2, <1>3 DEF ClientType
<1>5. UpGoes(c)' = UpGoes(c) /\ DownGoes(c)' = DownGoes(c)
  BY <1>2, <1>4 DEF UpGoes, DownGoes
<1>6. Wire(up[c], <<SessionKeys(c), "c2s">>, said[c].up, heard[c].up, UpGoes(c))
      /\ Wire(down[c], <<SessionKeys(c), "s2c">>, said[c].down, heard[c].down, DownGoes(c))
  BY DEF LinesOK
<1> QED BY <1>2, <1>4, <1>5, <1>6, BothWires

\* The lines with one more in one direction.
LEMMA LineAdded ==
    ASSUME NEW w \in [Conns -> [up : Seq(Nat), down : Seq(Nat)]],
           NEW c \in Conns, NEW line \in Nat
    PROVE  /\ [w EXCEPT ![c].up = Append(@, line)][c].up = Append(w[c].up, line)
           /\ [w EXCEPT ![c].up = Append(@, line)][c].down = w[c].down
           /\ [w EXCEPT ![c].down = Append(@, line)][c].down = Append(w[c].down, line)
           /\ [w EXCEPT ![c].down = Append(@, line)][c].up = w[c].up
OBVIOUS

\* A line that the client says.
LEMMA SaysLines ==
    ASSUME HandshakeTypeOK, NEW c \in Conns, LinesOK(c), proxy' = proxy, Says(c), UpGoes(c)
    PROVE  LinesOK(c)'
<1> DEFINE line == Len(said[c].up) + 1
           r == Sealed(client[c].keys, "c2s", client[c].tx, line)
           key == <<SessionKeys(c), "c2s">>
<1>1. /\ WireType(up[c], said[c].up, heard[c].up)
      /\ UpGoes(c) \in BOOLEAN /\ UpGoes(c)' \in BOOLEAN
      /\ up \in [Conns -> Seq(RecordType)] /\ client \in [Conns -> ClientType]
      /\ client[c] \in ClientType /\ client[c].tx = Len(said[c].up)
      /\ said \in [Conns -> [up : Seq(Nat), down : Seq(Nat)]]
  BY LinesType DEF HandshakeTypeOK
<1>2. line \in Nat /\ client[c].keys \in Maybe(Keys) /\ client[c].tx \in Nat
  BY <1>1 DEF WireType, ClientType
<1>3. r \in RecordType /\ r.kind = "data" /\ r.key = <<client[c].keys, "c2s">>
      /\ r.n = client[c].tx /\ r.line = line
  <2>1. r \in RecordType
    BY <1>2, Sendable
  <2> QED BY <2>1 DEF Sealed
<1>4. /\ client[c].at = "up" /\ client' = [client EXCEPT ![c].tx = @ + 1]
      /\ up' = Put(up, c, <<r>>) /\ said' = [said EXCEPT ![c].up = Append(@, line)]
      /\ creds' = creds /\ server' = server /\ down' = down /\ heard' = heard
  BY DEF Says, ClientSeals
<1>5. client'[c].at = "up" /\ client'[c].keys = client[c].keys
  BY <1>1, <1>4 DEF ClientType
<1>6. client[c].keys = SessionKeys(c)
      /\ Wire(up[c], key, said[c].up, heard[c].up, UpGoes(c))
      /\ Wire(down[c], <<SessionKeys(c), "s2c">>, said[c].down, heard[c].down, DownGoes(c))
  BY <1>4 DEF LinesOK
<1>7. UpGoes(c)' = TRUE /\ DownGoes(c)' = DownGoes(c)
  BY <1>4, <1>5 DEF UpGoes, DownGoes
<1> HIDE DEF line, r
<1>8. said'[c].up = Append(said[c].up, line) /\ said'[c].down = said[c].down
  BY <1>1, <1>2, <1>4, LineAdded
<1>9. r.key = key /\ r.n = Len(said[c].up) /\ Wire(up[c], key, said[c].up, heard[c].up, TRUE)
  BY <1>1, <1>3, <1>6
<1> HIDE DEF key
<1>10. Wire(Put(up, c, <<r>>)[c], key, Append(said[c].up, line), heard[c].up, TRUE)
  BY <1>1, <1>2, <1>3, <1>9, WireLine
<1>11. Wire(up'[c], <<SessionKeys(c), "c2s">>, said'[c].up, heard'[c].up, UpGoes(c)')
  BY <1>4, <1>7, <1>8, <1>10 DEF key
<1>12. Wire(down'[c], <<SessionKeys(c), "s2c">>, said'[c].down, heard'[c].down, DownGoes(c)')
  BY <1>4, <1>6, <1>7, <1>8
<1> QED BY <1>4, <1>5, <1>6, <1>11, <1>12, BothWires

\* A sealed record has a key.
LEMMA KeyIsNone ==
    ASSUME NEW keys \in Maybe(Keys), keys # None, NEW dir \in {"c2s", "s2c"}
    PROVE  <<keys, dir>> # None
<1>1. <<keys, dir>> \in Keys \X {"c2s", "s2c"}
  BY DEF Maybe
<1> QED BY <1>1, NoneAssumption

\* A line that the client hears.
LEMMA HearsLines ==
    ASSUME HandshakeTypeOK, NEW c \in Conns, LinesOK(c), proxy' = proxy, Hears(c)
    PROVE  LinesOK(c)'
<1> DEFINE r == Head(down[c])
           key == <<SessionKeys(c), "s2c">>
<1>1. /\ WireType(down[c], said[c].down, heard[c].down)
      /\ DownGoes(c) \in BOOLEAN
      /\ down \in [Conns -> Seq(RecordType)] /\ client \in [Conns -> ClientType]
      /\ client[c] \in ClientType /\ down[c] \in Seq(RecordType)
      /\ heard \in [Conns -> [up : Seq(Nat), down : Seq(Nat)]]
  BY LinesType DEF HandshakeTypeOK
<1>2. /\ client[c].at = "up" /\ client' = [client EXCEPT ![c].rx = @ + 1]
      /\ down[c] # <<>> /\ client[c].keys # None /\ r.kind = "data"
      /\ r.key = <<client[c].keys, "s2c">>
      /\ down' = Rest(down, c) /\ heard' = [heard EXCEPT ![c].down = Append(@, r.line)]
      /\ creds' = creds /\ server' = server /\ up' = up /\ said' = said
  BY DEF Hears, ClientOpens, Opens
<1>3. client'[c].at = "up" /\ client'[c].keys = client[c].keys
  BY <1>1, <1>2 DEF ClientType
<1>4. UpGoes(c)' = UpGoes(c) /\ DownGoes(c)' = DownGoes(c)
  BY <1>2, <1>3 DEF UpGoes, DownGoes
<1>5. client[c].keys = SessionKeys(c)
      /\ Wire(up[c], <<SessionKeys(c), "c2s">>, said[c].up, heard[c].up, UpGoes(c))
      /\ Wire(down[c], key, said[c].down, heard[c].down, DownGoes(c))
  BY <1>2 DEF LinesOK
<1>6. r.key # None /\ r.line \in Nat
  <2>1. client[c].keys \in Maybe(Keys)
    BY <1>1 DEF ClientType
  <2>2. r \in RecordType
    BY <1>1, <1>2, TailOf
  <2> QED BY <1>2, <2>1, <2>2, KeyIsNone, Received
<1> HIDE DEF key
<1>7. Wire(Tail(down[c]), key, said[c].down, Append(heard[c].down, r.line), DownGoes(c))
  <2> DEFINE s == down[c]
             spoken == said[c].down
             listened == heard[c].down
  <2>1. s # <<>> /\ Head(s).kind = "data" /\ Head(s).key # None /\ DownGoes(c) \in BOOLEAN
        /\ WireType(s, spoken, listened) /\ Wire(s, key, spoken, listened, DownGoes(c))
    BY <1>1, <1>2, <1>5, <1>6
  <2> HIDE DEF s, spoken, listened
  <2>2. Wire(Tail(s), key, spoken, Append(listened, Head(s).line), DownGoes(c))
    BY <2>1, WireHear
  <2> QED BY <2>2 DEF s, spoken, listened
<1> HIDE DEF r
<1>8. heard'[c].down = Append(heard[c].down, r.line) /\ heard'[c].up = heard[c].up
  BY <1>1, <1>2, <1>6, LineAdded
<1>9. Rest(down, c)[c] = Tail(down[c])
  BY <1>1, <1>2, RestType
<1>10. Wire(down'[c], <<SessionKeys(c), "s2c">>, said'[c].down, heard'[c].down, DownGoes(c)')
  BY <1>2, <1>4, <1>7, <1>8, <1>9 DEF key
<1>11. Wire(up'[c], <<SessionKeys(c), "c2s">>, said'[c].up, heard'[c].up, UpGoes(c)')
  BY <1>2, <1>4, <1>5, <1>8
<1> QED BY <1>2, <1>3, <1>5, <1>10, <1>11, BothWires

\* Whatever the client end does.
LEMMA ClientStepLines ==
    ASSUME HandshakeTypeOK, NEW c \in Conns, ConnOK(c), LinesOK(c), proxy' = proxy,
           ClientStep(c), c = Back => proxy.up = "run"
    PROVE  LinesOK(c)'
<1>1. CASE Says(c)
  <2>1. UpGoes(c)
    BY <1>1 DEF Says, UpGoes
  <2> QED BY <1>1, <2>1, SaysLines
<1>2. CASE GivesUp(c) \/ Leaves(c) \/ HearsNothing(c)
  <2>1. ClientEnds(c)
    BY <1>2 DEF GivesUp, Leaves, HearsNothing
  <2> QED BY <2>1, ClientEndsLines
<1>3. CASE Hello(c) \/ Rejects(c) \/ PlainLogin(c) \/ Contributes(c) \/ Installs(c)
  BY <1>3, HelloLines, RejectsLines, PlainLoginLines, InstallsLines
<1>4. CASE ReadCert(c) \/ ReadKex(c) \/ ReadProof(c) \/ Hears(c)
  BY <1>4, ReadsLines, HearsLines
<1> QED BY <1>1, <1>2, <1>3, <1>4 DEF ClientStep, ClientGoesOn

\* Only where the proxy's main is changes.
SamePumps == proxy'.up = proxy.up /\ proxy'.down = proxy.down

\* The end of the server's side.
LEMMA ServerEndsLines ==
    ASSUME HandshakeTypeOK, NEW c \in Conns, LinesOK(c), ServerEnds(c), SamePumps
    PROVE  LinesOK(c)'
<1>1. /\ WireType(down[c], said[c].down, heard[c].down)
      /\ DownGoes(c) \in BOOLEAN
      /\ down \in [Conns -> Seq(RecordType)] /\ server \in [Conns -> ServerType]
  BY LinesType DEF HandshakeTypeOK
<1>2. /\ server' = [server EXCEPT ![c].at = "closed"] /\ down' = Shut(down, c)
      /\ creds' = creds /\ client' = client /\ up' = up /\ said' = said /\ heard' = heard
  BY DEF ServerEnds, lines
<1>3. server'[c].at = "closed"
  BY <1>1, <1>2 DEF ServerType
<1>4. DownGoes(c)' = FALSE /\ UpGoes(c)' = UpGoes(c)
  BY <1>2, <1>3 DEF UpGoes, DownGoes, SamePumps
<1>5. Wire(up[c], <<SessionKeys(c), "c2s">>, said[c].up, heard[c].up, UpGoes(c))
      /\ Wire(down[c], <<SessionKeys(c), "s2c">>, said[c].down, heard[c].down, DownGoes(c))
      /\ (client[c].at = "up" => client[c].keys = SessionKeys(c))
  BY DEF LinesOK
<1>6. Wire(Shut(down, c)[c], <<SessionKeys(c), "s2c">>, said[c].down, heard[c].down, FALSE)
  BY <1>1, <1>5, WireShut
<1> QED BY <1>2, <1>4, <1>5, <1>6, BothWires

\* What the server reads and answers in the handshake.
LEMMA FeedLines ==
    ASSUME HandshakeTypeOK, NEW c \in Conns, LinesOK(c), SamePumps,
           AnswersHello(c) \/ Completes(c) \/ FeedFails(c)
    PROVE  LinesOK(c)'
<1>1. /\ WireType(up[c], said[c].up, heard[c].up)
      /\ WireType(down[c], said[c].down, heard[c].down)
      /\ UpGoes(c) \in BOOLEAN /\ DownGoes(c) \in BOOLEAN
      /\ up \in [Conns -> Seq(RecordType)] /\ down \in [Conns -> Seq(RecordType)]
      /\ server \in [Conns -> ServerType] /\ server[c] \in ServerType
      /\ creds[c] \in Creds /\ up[c] \in Seq(RecordType)
  BY LinesType DEF HandshakeTypeOK
<1>2. /\ up[c] # <<>> /\ server[c].at = "on" /\ up' = Rest(up, c)
      /\ Head(up[c]).kind \in {"hello", "clientkex"}
      /\ creds' = creds /\ client' = client /\ said' = said /\ heard' = heard
  BY DEF AnswersHello, Completes, FeedFails, Reads, lines, IsHandshake
<1>3. server'[c].at = "on"
  BY <1>1, <1>2 DEF AnswersHello, Completes, FeedFails, ServerType
<1>4. UpGoes(c)' = UpGoes(c) /\ DownGoes(c)' = DownGoes(c)
  BY <1>2, <1>3 DEF UpGoes, DownGoes, SamePumps
<1>5. Wire(up[c], <<SessionKeys(c), "c2s">>, said[c].up, heard[c].up, UpGoes(c))
      /\ Wire(down[c], <<SessionKeys(c), "s2c">>, said[c].down, heard[c].down, DownGoes(c))
      /\ (client[c].at = "up" => client[c].keys = SessionKeys(c))
  BY DEF LinesOK
<1>6. Wire(Tail(up[c]), <<SessionKeys(c), "c2s">>, said[c].up, heard[c].up, UpGoes(c))
  BY <1>1, <1>2, <1>5, WirePop
<1>7. Rest(up, c)[c] = Tail(up[c])
  BY <1>1, <1>2, RestType
<1>8. Wire(up'[c], <<SessionKeys(c), "c2s">>, said'[c].up, heard'[c].up, UpGoes(c)')
  BY <1>2, <1>4, <1>6, <1>7
<1>9. Wire(down'[c], <<SessionKeys(c), "s2c">>, said[c].down, heard[c].down, DownGoes(c))
  <2>1. CASE Completes(c)
    BY <1>5, <2>1 DEF Completes
  <2>2. CASE FeedFails(c)
    <3>1. Alert \in RecordType /\ Alert.kind # "data" /\ Alert # Eof
      BY Sendable DEF Alert, Eof
    <3>2. down' = Put(down, c, <<Alert>>)
      BY <2>2 DEF FeedFails
    <3>3. Wire(Put(down, c, <<Alert>>)[c], <<SessionKeys(c), "s2c">>, said[c].down,
               heard[c].down, DownGoes(c))
      BY <1>1, <1>5, <3>1, WirePut
    <3> QED BY <3>2, <3>3
  <2>3. CASE AnswersHello(c)
    <3> DEFINE h == Head(up[c])
               pub == Pair(c, "server")
               cert == creds[c].cert
               sig == Sign(creds[c].key, ProofTranscript(VERSION, h.random, cert, pub))
               p == [kind |-> "cert", cert |-> cert]
               q == [kind |-> "kex", version |-> VERSION, pub |-> pub]
               r == [kind |-> "proof", sig |-> sig]
               t == <<p, q, r>>
    <3>1. down' = Put(down, c, t)
      BY <2>3 DEF AnswersHello
    <3>2. h.random \in Conns
      <4>1. h \in RecordType /\ h.kind = "hello"
        BY <1>1, <1>2, <2>3, TailOf DEF AnswersHello
      <4> HIDE DEF h
      <4> QED BY <4>1, Received
    <3>3. cert \in Certs /\ pub \in PublicValues /\ VERSION \in Versions
      BY <1>1, HandshakeAssumption DEF Certs, Pair, PublicValues, HandshakeAssumption
    <3> HIDE DEF h, pub
    <3>4. sig \in Signatures
      <4> HIDE DEF cert
      <4> QED BY <1>1, <3>2, <3>3, Signed
    <3> HIDE DEF cert, sig
    <3>5. p \in RecordType /\ q \in RecordType /\ r \in RecordType
      BY <3>3, <3>4, Sendable
    <3>6. p.kind # "data" /\ q.kind # "data" /\ r.kind = "proof"
      OBVIOUS
    <3> HIDE DEF p, q, r
    <3>7. t \in Seq(RecordType) /\ Len(t) = 3 /\ t[3] = r /\ t # <<>>
          /\ t[1] = p /\ t[2] = q
      BY <3>5
    <3> HIDE DEF t
    <3>8. (\A i \in 1 .. Len(t) : t[i].kind # "data") /\ t[Len(t)] # Eof
      <4>1. \A i \in 1 .. 3 : i = 1 \/ i = 2 \/ i = 3
        OBVIOUS
      <4>2. r.kind # "data" /\ r # Eof
        BY <3>6 DEF Eof
      <4> QED BY <3>6, <3>7, <4>1, <4>2
    <3>9. Wire(down[c] \o t, <<SessionKeys(c), "s2c">>, said[c].down, heard[c].down, DownGoes(c))
      BY <1>1, <1>5, <3>7, <3>8, WireQuiet
    <3>10. Put(down, c, t)[c] = down[c] \o t
      BY <1>1, <3>7, PutType
    <3> QED BY <3>1, <3>9, <3>10
  <2> QED BY <2>1, <2>2, <2>3
<1>10. Wire(down'[c], <<SessionKeys(c), "s2c">>, said'[c].down, heard'[c].down, DownGoes(c)')
  BY <1>2, <1>4, <1>9
<1> QED BY <1>2, <1>5, <1>8, <1>10, BothWires

\* A line that the server handles.
LEMMA HandlesLines ==
    ASSUME HandshakeTypeOK, NEW c \in Conns, ConnOK(c), LinesOK(c), SamePumps, HandlesLine(c)
    PROVE  LinesOK(c)'
<1> DEFINE r == Head(up[c])
           key == <<SessionKeys(c), "c2s">>
<1>1. /\ WireType(up[c], said[c].up, heard[c].up)
      /\ UpGoes(c) \in BOOLEAN
      /\ up \in [Conns -> Seq(RecordType)] /\ server \in [Conns -> ServerType]
      /\ server[c] \in ServerType /\ up[c] \in Seq(RecordType)
      /\ heard \in [Conns -> [up : Seq(Nat), down : Seq(Nat)]]
  BY LinesType DEF HandshakeTypeOK
<1>2. PICK want \in {server[c].want, TRUE} :
          server' = [server EXCEPT ![c].rx = @ + 1, ![c].want = want]
  BY DEF HandlesLine
<1>3. /\ server[c].at = "on" /\ up[c] # <<>> /\ server[c].keys # None /\ r.kind = "data"
      /\ r.key = <<server[c].keys, "c2s">>
      /\ up' = Rest(up, c) /\ heard' = [heard EXCEPT ![c].up = Append(@, r.line)]
      /\ creds' = creds /\ client' = client /\ down' = down /\ said' = said
  BY DEF HandlesLine, Reads, ServerOpens, Opens
<1>4. server'[c].at = "on"
  BY <1>1, <1>2, <1>3 DEF ServerType
<1>5. UpGoes(c)' = UpGoes(c) /\ DownGoes(c)' = DownGoes(c)
  BY <1>3, <1>4 DEF UpGoes, DownGoes, SamePumps
<1>6. (client[c].at = "up" => client[c].keys = SessionKeys(c))
      /\ Wire(up[c], key, said[c].up, heard[c].up, UpGoes(c))
      /\ Wire(down[c], <<SessionKeys(c), "s2c">>, said[c].down, heard[c].down, DownGoes(c))
  BY DEF LinesOK
<1>7. r.key # None /\ r.line \in Nat
  <2>1. server[c].keys \in Maybe(Keys)
    BY <1>1 DEF ServerType
  <2>2. r \in RecordType
    BY <1>1, <1>3, TailOf
  <2> QED BY <1>3, <2>1, <2>2, KeyIsNone, Received
<1> HIDE DEF key
<1>8. Wire(Tail(up[c]), key, said[c].up, Append(heard[c].up, r.line), UpGoes(c))
  <2> DEFINE s == up[c]
             spoken == said[c].up
             listened == heard[c].up
  <2>1. s # <<>> /\ Head(s).kind = "data" /\ Head(s).key # None /\ UpGoes(c) \in BOOLEAN
        /\ WireType(s, spoken, listened) /\ Wire(s, key, spoken, listened, UpGoes(c))
    BY <1>1, <1>3, <1>6, <1>7
  <2> HIDE DEF s, spoken, listened
  <2>2. Wire(Tail(s), key, spoken, Append(listened, Head(s).line), UpGoes(c))
    BY <2>1, WireHear
  <2> QED BY <2>2 DEF s, spoken, listened
<1> HIDE DEF r
<1>9. heard'[c].up = Append(heard[c].up, r.line) /\ heard'[c].down = heard[c].down
  BY <1>1, <1>3, <1>7, LineAdded
<1>10. Rest(up, c)[c] = Tail(up[c])
  BY <1>1, <1>3, RestType
<1>11. Wire(up'[c], <<SessionKeys(c), "c2s">>, said'[c].up, heard'[c].up, UpGoes(c)')
  BY <1>3, <1>5, <1>8, <1>9, <1>10 DEF key
<1>12. Wire(down'[c], <<SessionKeys(c), "s2c">>, said'[c].down, heard'[c].down, DownGoes(c)')
  BY <1>3, <1>5, <1>6, <1>9
<1> QED BY <1>3, <1>6, <1>11, <1>12, BothWires

\* A line that the server says.
LEMMA SendsLines ==
    ASSUME HandshakeTypeOK, NEW c \in Conns, ConnOK(c), LinesOK(c), SamePumps, SendLine(c),
           DownGoes(c)
    PROVE  LinesOK(c)'
<1> DEFINE line == Len(said[c].down) + 1
           r == Sealed(server[c].keys, "s2c", server[c].tx, line)
           key == <<SessionKeys(c), "s2c">>
<1>1. /\ WireType(down[c], said[c].down, heard[c].down)
      /\ DownGoes(c) \in BOOLEAN /\ DownGoes(c)' \in BOOLEAN
      /\ down \in [Conns -> Seq(RecordType)] /\ server \in [Conns -> ServerType]
      /\ server[c] \in ServerType /\ server[c].tx = Len(said[c].down)
      /\ said \in [Conns -> [up : Seq(Nat), down : Seq(Nat)]]
  BY LinesType DEF HandshakeTypeOK
<1>2. line \in Nat /\ server[c].keys \in Maybe(Keys) /\ server[c].tx \in Nat
  BY <1>1 DEF WireType, ServerType
<1>3. r \in RecordType /\ r.kind = "data" /\ r.key = <<server[c].keys, "s2c">>
      /\ r.n = server[c].tx /\ r.line = line
  <2>1. r \in RecordType
    BY <1>2, Sendable
  <2> QED BY <2>1 DEF Sealed
<1>4. /\ server[c].at = "on" /\ heard[c].up # <<>>
      /\ server' = [server EXCEPT ![c].tx = @ + 1]
      /\ down' = Put(down, c, <<r>>) /\ said' = [said EXCEPT ![c].down = Append(@, line)]
      /\ creds' = creds /\ client' = client /\ up' = up /\ heard' = heard
  BY DEF SendLine, ServerSeals
<1>5. server'[c].at = "on"
  BY <1>1, <1>4 DEF ServerType
<1>6. server[c].keys = SessionKeys(c)
  BY <1>4 DEF ConnOK, ServerOK
<1>7. (client[c].at = "up" => client[c].keys = SessionKeys(c))
      /\ Wire(up[c], <<SessionKeys(c), "c2s">>, said[c].up, heard[c].up, UpGoes(c))
      /\ Wire(down[c], key, said[c].down, heard[c].down, DownGoes(c))
  BY DEF LinesOK
<1>8. DownGoes(c)' = TRUE /\ UpGoes(c)' = UpGoes(c)
  BY <1>4, <1>5 DEF UpGoes, DownGoes, SamePumps
<1> HIDE DEF line, r
<1>9. said'[c].down = Append(said[c].down, line) /\ said'[c].up = said[c].up
  BY <1>1, <1>2, <1>4, LineAdded
<1>10. r.key = key /\ r.n = Len(said[c].down)
       /\ Wire(down[c], key, said[c].down, heard[c].down, TRUE)
  BY <1>1, <1>3, <1>6, <1>7
<1> HIDE DEF key
<1>11. Wire(Put(down, c, <<r>>)[c], key, Append(said[c].down, line), heard[c].down, TRUE)
  BY <1>1, <1>2, <1>3, <1>10, WireLine
<1>12. Wire(down'[c], <<SessionKeys(c), "s2c">>, said'[c].down, heard'[c].down, DownGoes(c)')
  BY <1>4, <1>8, <1>9, <1>11 DEF key
<1>13. Wire(up'[c], <<SessionKeys(c), "c2s">>, said'[c].up, heard'[c].up, UpGoes(c)')
  BY <1>4, <1>7, <1>8, <1>9
<1> QED BY <1>4, <1>7, <1>12, <1>13, BothWires

\* Whatever the server end does, with its socket open as long as it is there.
LEMMA ServerStepLines ==
    ASSUME HandshakeTypeOK, NEW c \in Conns, ConnOK(c), LinesOK(c), SamePumps,
           ServerStep(c), c = Front => proxy.down = "run"
    PROVE  LinesOK(c)'
<1>1. CASE SendLine(c)
  <2>1. DownGoes(c)
    BY <1>1 DEF SendLine, DownGoes
  <2> QED BY <1>1, <2>1, SendsLines
<1>2. CASE Drops(c) \/ Closes(c) \/ Stops(c)
  <2>1. ServerEnds(c)
    BY <1>2 DEF Drops, Closes, Stops
  <2> QED BY <2>1, ServerEndsLines
<1>3. CASE AnswersHello(c) \/ Completes(c) \/ FeedFails(c) \/ HandlesLine(c)
  BY <1>3, FeedLines, HandlesLines
<1> QED BY <1>1, <1>2, <1>3 DEF ServerStep, LoopGoesOn

\* The network takes back what was sent before the end.
LEMMA ResetLines ==
    ASSUME HandshakeTypeOK, NEW c \in Conns, LinesOK(c), SamePumps, Reset(c)
    PROVE  LinesOK(c)'
<1>1. up \in [Conns -> Seq(RecordType)] /\ down \in [Conns -> Seq(RecordType)]
      /\ UpGoes(c) \in BOOLEAN /\ DownGoes(c) \in BOOLEAN
  BY LinesType
<1>2. /\ creds' = creds /\ client' = client /\ server' = server
      /\ said' = said /\ heard' = heard
  BY DEF Reset, ends, lines
<1>3. UpGoes(c)' = UpGoes(c) /\ DownGoes(c)' = DownGoes(c)
  BY <1>2 DEF UpGoes, DownGoes, SamePumps
<1>4. Wire(up[c], <<SessionKeys(c), "c2s">>, said[c].up, heard[c].up, UpGoes(c))
      /\ Wire(down[c], <<SessionKeys(c), "s2c">>, said[c].down, heard[c].down, DownGoes(c))
      /\ (client[c].at = "up" => client[c].keys = SessionKeys(c))
  BY DEF LinesOK
<1> DEFINE t == <<Eof>>
<1>5. CASE IsShut(up[c]) /\ up' = [up EXCEPT ![c] = t] /\ down' = down
  <2>1. Wire(t, <<SessionKeys(c), "c2s">>, said[c].up, heard[c].up, UpGoes(c))
    BY <1>1, <1>4, <1>5, WireReset
  <2> HIDE DEF t
  <2>2. up'[c] = t
    BY <1>1, <1>5
  <2>3. Wire(up'[c], <<SessionKeys(c), "c2s">>, said'[c].up, heard'[c].up, UpGoes(c)')
        /\ Wire(down'[c], <<SessionKeys(c), "s2c">>, said'[c].down, heard'[c].down, DownGoes(c)')
    BY <1>2, <1>3, <1>4, <1>5, <2>1, <2>2
  <2> QED BY <1>2, <1>4, <2>3, BothWires
<1>6. CASE IsShut(down[c]) /\ down' = [down EXCEPT ![c] = t] /\ up' = up
  <2>1. Wire(t, <<SessionKeys(c), "s2c">>, said[c].down, heard[c].down, DownGoes(c))
    BY <1>1, <1>4, <1>6, WireReset
  <2> HIDE DEF t
  <2>2. down'[c] = t
    BY <1>1, <1>6
  <2>3. Wire(up'[c], <<SessionKeys(c), "c2s">>, said'[c].up, heard'[c].up, UpGoes(c)')
        /\ Wire(down'[c], <<SessionKeys(c), "s2c">>, said'[c].down, heard'[c].down, DownGoes(c)')
    BY <1>2, <1>3, <1>4, <1>6, <2>1, <2>2
  <2> QED BY <1>2, <1>4, <2>3, BothWires
<1> QED BY <1>5, <1>6 DEF Reset

-----------------------------------------------------------------------------
(* The lines of all connections, in each step. *)

\* The lines that a step of a client may add are its own, and those it hears.
LEMMA ClientMoves ==
    ASSUME NEW c \in Conns, ClientStep(c)
    PROVE  UNCHANGED lines \/ Says(c) \/ Hears(c)
<1>1. CASE GivesUp(c) \/ Leaves(c) \/ HearsNothing(c)
  BY <1>1 DEF GivesUp, Leaves, HearsNothing, ClientEnds
<1>2. CASE Hello(c) \/ Rejects(c) \/ PlainLogin(c) \/ Contributes(c) \/ Installs(c)
  BY <1>2 DEF Hello, Rejects, PlainLogin, Contributes, Installs
<1>3. CASE ReadCert(c) \/ ReadKex(c) \/ ReadProof(c)
  BY <1>3 DEF ReadCert, ReadKex, ReadProof, Receives
<1> QED BY <1>1, <1>2, <1>3 DEF ClientStep, ClientGoesOn

\* The same of the server.
LEMMA ServerMoves ==
    ASSUME NEW c \in Conns, ServerStep(c)
    PROVE  UNCHANGED lines \/ SendLine(c) \/ HandlesLine(c)
<1>1. CASE Drops(c) \/ Closes(c) \/ Stops(c)
  BY <1>1 DEF Drops, Closes, Stops, ServerEnds
<1>2. CASE AnswersHello(c) \/ Completes(c) \/ FeedFails(c)
  BY <1>2 DEF AnswersHello, Completes, FeedFails
<1> QED BY <1>1, <1>2 DEF ServerStep, LoopGoesOn

\* What the client says and hears is not what the server hears and says.
LEMMA ClientLines ==
    ASSUME HandshakeTypeOK, NEW c \in Conns, ClientStep(c)
    PROVE  said'[c].down = said[c].down /\ heard'[c].up = heard[c].up
<1>1. said \in [Conns -> [up : Seq(Nat), down : Seq(Nat)]]
      /\ heard \in [Conns -> [up : Seq(Nat), down : Seq(Nat)]]
      /\ down \in [Conns -> Seq(RecordType)] /\ down[c] \in Seq(RecordType)
  BY DEF HandshakeTypeOK
<1>2. CASE Says(c)
  <2> DEFINE line == Len(said[c].up) + 1
  <2>1. said' = [said EXCEPT ![c].up = Append(@, line)] /\ heard' = heard
    BY <1>2 DEF Says, ClientSeals
  <2>2. line \in Nat
    <3>1. said[c].up \in Seq(Nat)
      BY <1>1
    <3> QED BY <3>1
  <2> HIDE DEF line
  <2> QED BY <1>1, <2>1, <2>2, LineAdded
<1>3. CASE Hears(c)
  <2> DEFINE line == Head(down[c]).line
  <2>1. heard' = [heard EXCEPT ![c].down = Append(@, line)] /\ said' = said
    BY <1>3 DEF Hears, ClientOpens
  <2>2. line \in Nat
    BY <1>1, <1>3, TailOf, Received DEF Hears, ClientOpens, Opens
  <2> HIDE DEF line
  <2> QED BY <1>1, <2>1, <2>2, LineAdded
<1> QED BY <1>2, <1>3, ClientMoves DEF lines

\* The same of the server.
LEMMA ServerLines ==
    ASSUME HandshakeTypeOK, NEW c \in Conns, ServerStep(c)
    PROVE  said'[c].up = said[c].up /\ heard'[c].down = heard[c].down
<1>1. said \in [Conns -> [up : Seq(Nat), down : Seq(Nat)]]
      /\ heard \in [Conns -> [up : Seq(Nat), down : Seq(Nat)]]
      /\ up \in [Conns -> Seq(RecordType)] /\ up[c] \in Seq(RecordType)
  BY DEF HandshakeTypeOK
<1>2. CASE SendLine(c)
  <2> DEFINE line == Len(said[c].down) + 1
  <2>1. said' = [said EXCEPT ![c].down = Append(@, line)] /\ heard' = heard
    BY <1>2 DEF SendLine, ServerSeals
  <2>2. line \in Nat
    <3>1. said[c].down \in Seq(Nat)
      BY <1>1
    <3> QED BY <3>1
  <2> HIDE DEF line
  <2> QED BY <1>1, <2>1, <2>2, LineAdded
<1>3. CASE HandlesLine(c)
  <2> DEFINE line == Head(up[c]).line
  <2>1. heard' = [heard EXCEPT ![c].up = Append(@, line)] /\ said' = said
    BY <1>3 DEF HandlesLine, ServerOpens
  <2>2. line \in Nat
    BY <1>1, <1>3, TailOf, Received DEF HandlesLine, ServerOpens, Opens, Reads
  <2> HIDE DEF line
  <2> QED BY <1>1, <2>1, <2>2, LineAdded
<1> QED BY <1>2, <1>3, ServerMoves DEF lines

\* A step of one connection leaves the lines of the others.
LEMMA OneConnLines ==
    ASSUME NEW c \in Conns, Elsewhere(c), SamePumps, \A d \in Conns : LinesOK(d), LinesOK(c)'
    PROVE  \A d \in Conns : LinesOK(d)'
<1> SUFFICES ASSUME NEW d \in Conns, d # c
             PROVE  LinesOK(d)'
  OBVIOUS
<1> QED BY LinesStay DEF Elsewhere, SamePumps

\* Steps of the client and of the chat server.
LEMMA ChatLines ==
    ASSUME ProxyInv, LinesInv, Chat
    PROVE  LinesInv'
<1>1. HandshakeTypeOK /\ proxy \in ProxyType /\ \A d \in Conns : ConnOK(d)
  BY ProxyState
<1>2. /\ proxy' = proxy /\ SamePumps /\ ProxyHolds /\ \A d \in Conns : LinesOK(d)
      /\ Front \in Conns /\ Back \in Conns /\ Last \in Conns /\ Front # Back
  BY ProxyState DEF Chat, Last, SamePumps, LinesInv
<1>3. CASE ClientStep(Front)
  <2>1. Elsewhere(Front) /\ server' = server
    BY <1>1, <1>2, <1>3, ClientStepOK
  <2>2. LinesOK(Front)'
    BY <1>1, <1>2, <1>3, ClientStepLines
  <2>3. \A d \in Conns : LinesOK(d)'
    BY <1>2, <2>1, <2>2, OneConnLines
  <2>4. said'[Front].down = said[Front].down /\ heard'[Front].up = heard[Front].up
    BY <1>1, <1>2, <1>3, ClientLines
  <2>5. ProxyHolds'
    BY <1>2, <2>1, <2>4 DEF ProxyHolds, Direct, Elsewhere
  <2> QED BY <2>3, <2>5 DEF LinesInv
<1>4. CASE ServerStep(Last)
  <2>1. PICK c \in Conns : c = Last
    BY <1>2
  <2>2. Elsewhere(c) /\ client' = client
    BY <1>1, <1>4, <2>1, ServerStepOK
  <2>3. c = Front => proxy.at = "none" /\ proxy.down = "run"
    BY <1>1, <1>2, <2>1 DEF Last, Direct, ProxyHolds, ProxyType
  <2>4. LinesOK(c)'
    BY <1>1, <1>2, <1>4, <2>1, <2>3, ServerStepLines
  <2>5. \A d \in Conns : LinesOK(d)'
    BY <1>2, <2>2, <2>4, OneConnLines
  <2>6. said'[c].up = said[c].up /\ heard'[c].down = heard[c].down
    BY <1>1, <1>4, <2>1, ServerLines
  <2>7. proxy.at # "none" => c = Back
    BY <2>1 DEF Last, Direct
  <2>8. ProxyHolds'
    BY <1>2, <2>2, <2>6, <2>7 DEF ProxyHolds, Direct, Elsewhere
  <2> QED BY <2>5, <2>8 DEF LinesInv
<1>5. ASSUME NEW c \in Conns, Reset(c)
      PROVE  LinesInv'
  <2>1. Elsewhere(c)
    BY <1>1, <1>5, ResetOK
  <2>2. LinesOK(c)'
    BY <1>1, <1>2, <1>5, ResetLines
  <2>3. \A d \in Conns : LinesOK(d)'
    BY <1>2, <2>1, <2>2, OneConnLines
  <2>4. server' = server /\ said' = said /\ heard' = heard
    BY <1>5 DEF Reset, ends, lines
  <2>5. ProxyHolds'
    BY <1>2, <2>4 DEF ProxyHolds, Direct
  <2> QED BY <2>3, <2>5 DEF LinesInv
<1> QED BY <1>3, <1>4, <1>5
        DEF Chat, Client, User, Server, Others, ClientStep, ServerStep

\* The proxy's main is at another place.
LEMMA PlaceType ==
    ASSUME proxy \in ProxyType, NEW at
    PROVE  /\ [proxy EXCEPT !.at = at].at = at
           /\ [proxy EXCEPT !.at = at].up = proxy.up
           /\ [proxy EXCEPT !.at = at].down = proxy.down
BY DEF ProxyType

\* Steps of the proxy's main.
LEMMA MainLines ==
    ASSUME ProxyInv, LinesInv, Main, ~Joins
    PROVE  LinesInv'
<1>1. HandshakeTypeOK /\ proxy \in ProxyType /\ \A d \in Conns : ConnOK(d)
  BY ProxyState
<1>2. /\ ProxyHolds /\ \A d \in Conns : LinesOK(d)
      /\ Front \in Conns /\ Back \in Conns /\ Front # Back
      /\ server[Front] \in ServerType
  BY <1>1, ProxyState DEF LinesInv, HandshakeTypeOK
<1>3. proxy.up \in {"run", "end"} /\ proxy.down \in {"run", "end"}
  BY <1>1 DEF ProxyType
<1>4. CASE VictimAnswered
  <2>1. AnswersHello(Front) /\ proxy' = proxy /\ SamePumps /\ UNCHANGED lines
    BY <1>4 DEF VictimAnswered, SamePumps, AnswersHello
  <2>2. Elsewhere(Front)
    BY <1>1, <1>2, <2>1, AnswersHelloOK
  <2>3. LinesOK(Front)'
    BY <1>1, <1>2, <2>1, FeedLines
  <2>4. server'[Front].at = server[Front].at
    BY <1>1, <1>2, <2>1 DEF AnswersHello, HandshakeTypeOK, ServerType
  <2>5. ProxyHolds'
    BY <1>2, <2>1, <2>4 DEF ProxyHolds, Direct, lines
  <2> QED BY <1>2, <2>1, <2>2, <2>3, <2>5, OneConnLines DEF LinesInv
<1>5. CASE VictimCompletes
  <2>1. Completes(Front) /\ UNCHANGED lines /\ proxy.at = "victim"
        /\ proxy' = [proxy EXCEPT !.at = "dial"]
    BY <1>5 DEF VictimCompletes, Completes
  <2>2. proxy'.at = "dial" /\ SamePumps
    BY <1>1, <2>1, PlaceType DEF SamePumps
  <2>3. Elsewhere(Front)
    BY <1>1, <1>2, <2>1, CompletesOK
  <2>4. LinesOK(Front)'
    BY <1>1, <1>2, <2>1, <2>2, FeedLines
  <2>5. server'[Front].at = server[Front].at
    BY <1>1, <1>2, <2>1 DEF Completes, HandshakeTypeOK, ServerType
  <2>6. ProxyHolds'
    BY <1>2, <2>1, <2>2, <2>5 DEF ProxyHolds, Direct, lines, SamePumps
  <2> QED BY <1>2, <2>2, <2>3, <2>4, <2>6, OneConnLines DEF LinesInv
<1>6. CASE VictimFails \/ DialFails \/ UpstreamFails
  <2>1. ServerEnds(Front) /\ UNCHANGED lines /\ proxy' = [proxy EXCEPT !.at = "accept"]
        /\ proxy.at \in {"victim", "dial", "upstream"}
    BY <1>6 DEF VictimFails, DialFails, UpstreamFails, ForgetsVictim, ServerEnds
  <2>2. proxy'.at = "accept" /\ SamePumps
    BY <1>1, <2>1, PlaceType DEF SamePumps
  <2>3. Elsewhere(Front)
    BY <1>1, <1>2, <2>1, ServerEndsOK
  <2>4. LinesOK(Front)'
    BY <1>1, <1>2, <2>1, <2>2, ServerEndsLines
  <2>5. ProxyHolds'
    BY <1>2, <2>1, <2>2 DEF ProxyHolds, Direct, lines, SamePumps
  <2> QED BY <1>2, <2>2, <2>3, <2>4, <2>5, OneConnLines DEF LinesInv
<1>7. CASE Dials \/ StartsPumps
  <2>1. PICK at \in {"upstream", "pump"} : proxy' = [proxy EXCEPT !.at = at]
    BY <1>7 DEF Dials, StartsPumps
  <2>2. proxy.at \in {"dial", "upstream"} /\ UNCHANGED <<creds, ends, up, down, lines>>
    BY <1>7 DEF Dials, StartsPumps
  <2>3. proxy'.at = at /\ SamePumps
    BY <1>1, <2>1, PlaceType DEF SamePumps
  <2>4. \A d \in Conns : LinesOK(d)'
    BY <1>2, <2>2, <2>3, LinesStay DEF ends, lines, SamePumps
  <2>5. ProxyHolds'
    BY <1>2, <2>1, <2>2, <2>3 DEF ProxyHolds, Direct, ends, lines, SamePumps
  <2> QED BY <2>4, <2>5 DEF LinesInv
<1>8. CASE Upstream
  <2>1. /\ ClientStep(Back) /\ proxy' = proxy /\ proxy.at = "upstream" /\ SamePumps
        /\ UNCHANGED lines
    <3>1. ClientGoesOn(Back) \/ Leaves(Back)
      BY <1>8 DEF Upstream
    <3>2. UNCHANGED lines
      BY <3>1 DEF ClientGoesOn, Hello, Rejects, Contributes, Installs, ReadCert, ReadKex,
                  ReadProof, Receives, GivesUp, Leaves, ClientEnds
    <3> QED BY <1>8, <3>1, <3>2 DEF Upstream, ClientStep, SamePumps
  <2>2. Elsewhere(Back) /\ server' = server
    BY <1>1, <1>2, <2>1, ClientStepOK
  <2>3. proxy.up = "run"
    BY <1>2, <1>3, <2>1 DEF ProxyHolds
  <2>4. LinesOK(Back)'
    BY <1>1, <1>2, <2>1, <2>3, ClientStepLines
  <2>5. ProxyHolds'
    BY <1>2, <2>1, <2>2 DEF ProxyHolds, Direct, lines
  <2> QED BY <1>2, <2>1, <2>2, <2>4, <2>5, OneConnLines DEF LinesInv
<1> QED BY <1>4, <1>5, <1>6, <1>7, <1>8 DEF Main

\* A client end that has gone, whose wire is shut: main's Joins, or the pump that ends.
LEMMA UpShutLines ==
    ASSUME HandshakeTypeOK, NEW c \in Conns, LinesOK(c), creds' = creds, ~UpGoes(c)',
           client'[c].at = "up" => client[c].at = "up" /\ client'[c].keys = client[c].keys,
           up' = Shut(up, c), down'[c] = down[c], said'[c] = said[c], heard'[c] = heard[c],
           DownGoes(c)' => DownGoes(c)
    PROVE  LinesOK(c)'
<1>1. /\ WireType(up[c], said[c].up, heard[c].up)
      /\ UpGoes(c) \in BOOLEAN /\ DownGoes(c) \in BOOLEAN
      /\ UpGoes(c)' \in BOOLEAN /\ DownGoes(c)' \in BOOLEAN
      /\ up \in [Conns -> Seq(RecordType)]
  BY LinesType
<1>2. Wire(up[c], <<SessionKeys(c), "c2s">>, said[c].up, heard[c].up, UpGoes(c))
      /\ Wire(down[c], <<SessionKeys(c), "s2c">>, said[c].down, heard[c].down, DownGoes(c))
      /\ (client[c].at = "up" => client[c].keys = SessionKeys(c))
  BY DEF LinesOK
<1>3. Wire(Shut(up, c)[c], <<SessionKeys(c), "c2s">>, said[c].up, heard[c].up, FALSE)
  BY <1>1, <1>2, WireShut
<1>4. UpGoes(c)' = FALSE
  BY <1>1
<1>5. Wire(down[c], <<SessionKeys(c), "s2c">>, said[c].down, heard[c].down, DownGoes(c)')
  BY <1>1, <1>2, WireLess
<1> QED BY <1>2, <1>3, <1>4, <1>5, BothWires

\* The same of a server end.
LEMMA DownShutLines ==
    ASSUME HandshakeTypeOK, NEW c \in Conns, LinesOK(c), creds' = creds, ~DownGoes(c)',
           client'[c] = client[c],
           down' = Shut(down, c), up'[c] = up[c], said'[c] = said[c], heard'[c] = heard[c],
           UpGoes(c)' => UpGoes(c)
    PROVE  LinesOK(c)'
<1>1. /\ WireType(down[c], said[c].down, heard[c].down)
      /\ UpGoes(c) \in BOOLEAN /\ DownGoes(c) \in BOOLEAN
      /\ UpGoes(c)' \in BOOLEAN /\ DownGoes(c)' \in BOOLEAN
      /\ down \in [Conns -> Seq(RecordType)]
  BY LinesType
<1>2. Wire(up[c], <<SessionKeys(c), "c2s">>, said[c].up, heard[c].up, UpGoes(c))
      /\ Wire(down[c], <<SessionKeys(c), "s2c">>, said[c].down, heard[c].down, DownGoes(c))
      /\ (client[c].at = "up" => client[c].keys = SessionKeys(c))
  BY DEF LinesOK
<1>3. Wire(Shut(down, c)[c], <<SessionKeys(c), "s2c">>, said[c].down, heard[c].down, FALSE)
  BY <1>1, <1>2, WireShut
<1>4. DownGoes(c)' = FALSE
  BY <1>1
<1>5. Wire(up[c], <<SessionKeys(c), "c2s">>, said[c].up, heard[c].up, UpGoes(c)')
  BY <1>1, <1>2, WireLess
<1> QED BY <1>2, <1>3, <1>4, <1>5, BothWires

\* A pump ends.
LEMMA PumpEndsLines ==
    ASSUME ProxyInv, LinesInv, PumpUpEnds \/ PumpDownEnds
    PROVE  LinesInv'
<1>1. HandshakeTypeOK /\ proxy \in ProxyType
      /\ up \in [Conns -> Seq(RecordType)] /\ down \in [Conns -> Seq(RecordType)]
  BY ProxyState DEF HandshakeTypeOK
<1>2. /\ ProxyHolds /\ \A d \in Conns : LinesOK(d)
      /\ Front \in Conns /\ Back \in Conns /\ Front # Back
  BY <1>1, ProxyState DEF LinesInv
<1>3. proxy.at = "pump" /\ UNCHANGED <<creds, client, server, said, heard>>
  BY DEF PumpUpEnds, PumpDownEnds, ends, lines
<1>4. CASE PumpUpEnds
  <2>1. up' = Shut(up, Back) /\ down' = down
    BY <1>4 DEF PumpUpEnds
  <2>2. proxy'.up = "end" /\ proxy'.down = proxy.down /\ proxy'.at = "pump"
    BY <1>1, <1>3, <1>4 DEF PumpUpEnds, ProxyType
  <2>3. \A d \in Conns \ {Back} : up'[d] = up[d]
    BY <1>1, <1>2, <2>1, ShutType
  <2>4. ~UpGoes(Back)' /\ (DownGoes(Back)' => DownGoes(Back))
    BY <1>2, <1>3, <2>2 DEF UpGoes, DownGoes
  <2>5. LinesOK(Back)'
    BY <1>1, <1>2, <1>3, <2>1, <2>4, UpShutLines
  <2>6. \A d \in Conns \ {Back} : LinesOK(d)'
    BY <1>2, <1>3, <2>1, <2>2, <2>3, LinesStay
  <2>7. ProxyHolds'
    BY <1>2, <1>3, <2>2 DEF ProxyHolds, Direct
  <2> QED BY <2>5, <2>6, <2>7 DEF LinesInv
<1>5. CASE PumpDownEnds
  <2>1. down' = Shut(down, Front) /\ up' = up
    BY <1>5 DEF PumpDownEnds
  <2>2. proxy'.down = "end" /\ proxy'.up = proxy.up /\ proxy'.at = "pump"
    BY <1>1, <1>3, <1>5 DEF PumpDownEnds, ProxyType
  <2>3. \A d \in Conns \ {Front} : down'[d] = down[d]
    BY <1>1, <1>2, <2>1, ShutType
  <2>4. ~DownGoes(Front)' /\ (UpGoes(Front)' => UpGoes(Front))
    BY <1>2, <1>3, <2>2 DEF UpGoes, DownGoes
  <2>5. LinesOK(Front)'
    BY <1>1, <1>2, <1>3, <2>1, <2>4, DownShutLines
  <2>6. \A d \in Conns \ {Front} : LinesOK(d)'
    BY <1>2, <1>3, <2>1, <2>2, <2>3, LinesStay
  <2>7. ProxyHolds'
    BY <1>2, <1>3, <2>2 DEF ProxyHolds, Direct
  <2> QED BY <2>5, <2>6, <2>7 DEF LinesInv
<1> QED BY <1>4, <1>5

\* Both have ended.
LEMMA JoinsLines ==
    ASSUME ProxyInv, LinesInv, Joins
    PROVE  LinesInv'
<1>1. HandshakeTypeOK /\ proxy \in ProxyType
      /\ up \in [Conns -> Seq(RecordType)] /\ down \in [Conns -> Seq(RecordType)]
      /\ client \in [Conns -> ClientType] /\ server \in [Conns -> ServerType]
  BY ProxyState DEF HandshakeTypeOK
<1>2. /\ ProxyHolds /\ \A d \in Conns : LinesOK(d)
      /\ Front \in Conns /\ Back \in Conns /\ Front # Back
  BY <1>1, ProxyState DEF LinesInv
<1>3. /\ proxy.at = "pump" /\ UNCHANGED <<creds, said, heard>>
      /\ client' = [client EXCEPT ![Back].at = "closed"]
      /\ server' = [server EXCEPT ![Front].at = "closed"]
      /\ up' = Shut(up, Back) /\ down' = Shut(down, Front)
      /\ proxy' = [proxy EXCEPT !.at = "accept"]
  BY DEF Joins, lines
<1>4. /\ client'[Back].at = "closed" /\ server'[Front].at = "closed"
      /\ \A d \in Conns \ {Back} : client'[d] = client[d]
      /\ \A d \in Conns \ {Front} : server'[d] = server[d]
  BY <1>1, <1>2, <1>3 DEF ClientType, ServerType
<1>5. proxy'.at = "accept" /\ SamePumps
  BY <1>1, <1>3, PlaceType DEF SamePumps
<1>6. /\ \A d \in Conns \ {Back} : up'[d] = up[d]
      /\ \A d \in Conns \ {Front} : down'[d] = down[d]
  BY <1>1, <1>2, <1>3, ShutType
<1>7. LinesOK(Back)'
  <2>1. ~UpGoes(Back)' /\ (DownGoes(Back)' => DownGoes(Back))
    BY <1>2, <1>4 DEF UpGoes, DownGoes
  <2>2. down'[Back] = down[Back]
    BY <1>2, <1>6
  <2>3. client'[Back].at # "up"
    BY <1>4
  <2> QED BY <1>1, <1>2, <1>3, <2>1, <2>2, <2>3, UpShutLines
<1>8. LinesOK(Front)'
  <2>1. ~DownGoes(Front)' /\ (UpGoes(Front)' => UpGoes(Front))
    BY <1>2, <1>4 DEF UpGoes, DownGoes
  <2>2. up'[Front] = up[Front] /\ client'[Front] = client[Front]
    BY <1>2, <1>4, <1>6
  <2> QED BY <1>1, <1>2, <1>3, <2>1, <2>2, DownShutLines
<1>9. \A d \in Conns \ {Front, Back} : LinesOK(d)'
  BY <1>2, <1>3, <1>4, <1>5, <1>6, LinesStay DEF SamePumps
<1>10. ProxyHolds'
  BY <1>2, <1>3, <1>5 DEF ProxyHolds, Direct, SamePumps
<1> QED BY <1>7, <1>8, <1>9, <1>10 DEF LinesInv

\* The wire v is w without the first record of b, and with one more of c.
Moved(w, b, c, v) ==
    /\ Rest(w, b) \in [Conns -> Seq(RecordType)] /\ Rest(w, b)[c] = w[c]
    /\ v[b] = Tail(w[b]) /\ \A d \in Conns \ {b, c} : v[d] = w[d]

\* A record that goes from one connection to the other.
LEMMA WireMoved ==
    ASSUME NEW w \in [Conns -> Seq(RecordType)], NEW b \in Conns, NEW c \in Conns, b # c,
           w[b] # <<>>, NEW r \in RecordType
    PROVE  Moved(w, b, c, Put(Rest(w, b), c, <<r>>))
<1> DEFINE t == <<r>>
           v == Rest(w, b)
           u == Put(v, c, t)
<1>1. t \in Seq(RecordType)
  OBVIOUS
<1>2. v \in [Conns -> Seq(RecordType)] /\ v[b] = Tail(w[b])
      /\ \A d \in Conns \ {b} : v[d] = w[d]
  BY RestType
<1> HIDE DEF t, v
<1>3. \A d \in Conns \ {c} : u[d] = v[d]
  BY <1>1, <1>2, PutType
<1> HIDE DEF u
<1>4. Moved(w, b, c, u)
  BY <1>2, <1>3 DEF Moved, v
<1> QED BY <1>4 DEF u, v, t

\* An end whose counters alone have changed.
LEMMA CountedSame ==
    ASSUME HandshakeTypeOK, NEW c \in Conns, NEW n
    PROVE  /\ [client EXCEPT ![c].tx = n][c].at = client[c].at
           /\ [client EXCEPT ![c].tx = n][c].keys = client[c].keys
           /\ [client EXCEPT ![c].rx = n][c].at = client[c].at
           /\ [client EXCEPT ![c].rx = n][c].keys = client[c].keys
           /\ [server EXCEPT ![c].tx = n][c].at = server[c].at
           /\ [server EXCEPT ![c].rx = n][c].at = server[c].at
           /\ \A d \in Conns \ {c} :
               /\ [client EXCEPT ![c].tx = n][d] = client[d]
               /\ [client EXCEPT ![c].rx = n][d] = client[d]
               /\ [server EXCEPT ![c].tx = n][d] = server[d]
               /\ [server EXCEPT ![c].rx = n][d] = server[d]
<1>1. client \in [Conns -> ClientType] /\ client[c] \in ClientType
      /\ server \in [Conns -> ServerType] /\ server[c] \in ServerType
  BY DEF HandshakeTypeOK
<1>2. [client[c] EXCEPT !.tx = n].at = client[c].at /\ [client[c] EXCEPT !.tx = n].keys = client[c].keys
      /\ [client[c] EXCEPT !.rx = n].at = client[c].at /\ [client[c] EXCEPT !.rx = n].keys = client[c].keys
  BY <1>1 DEF ClientType
<1>3. [server[c] EXCEPT !.tx = n].at = server[c].at /\ [server[c] EXCEPT !.rx = n].at = server[c].at
  BY <1>1 DEF ServerType
<1> QED BY <1>1, <1>2, <1>3

\* A line that the pump hears of the victim and says to the server, altered or not.
LEMMA PumpsUpLines ==
    ASSUME ProxyInv, LinesInv, PumpsUp
    PROVE  LinesInv'
<1> DEFINE r == Head(up[Front])
           fkey == <<SessionKeys(Front), "c2s">>
           bkey == <<SessionKeys(Back), "c2s">>
<1>1. HandshakeTypeOK /\ proxy \in ProxyType
      /\ up \in [Conns -> Seq(RecordType)]
      /\ client \in [Conns -> ClientType] /\ server \in [Conns -> ServerType]
      /\ said \in [Conns -> [up : Seq(Nat), down : Seq(Nat)]]
      /\ heard \in [Conns -> [up : Seq(Nat), down : Seq(Nat)]]
  BY ProxyState DEF HandshakeTypeOK
<1>2. /\ ProxyHolds /\ LinesOK(Front) /\ LinesOK(Back) /\ \A d \in Conns : LinesOK(d)
      /\ Front \in Conns /\ Back \in Conns /\ Front # Back
      /\ ConnOK(Front)
  BY <1>1, ProxyState DEF LinesInv
<1>3. /\ proxy.at = "pump" /\ proxy.up = "run" /\ up[Front] # <<>> /\ r # Eof
      /\ creds' = creds /\ down' = down
  BY DEF PumpsUp
<1>4. /\ server[Front].step = "Complete" /\ client[Back].at = "up"
      /\ server[Front].keys = SessionKeys(Front) /\ client[Back].keys = SessionKeys(Back)
      /\ said[Back].up = heard[Front].up
  BY <1>2, <1>3, WhilePumping DEF ConnOK, ServerOK, LinesOK, ProxyHolds, Direct
<1>5. UpGoes(Back) = TRUE
  BY <1>3, <1>4 DEF UpGoes
<1>6. /\ WireType(up[Front], said[Front].up, heard[Front].up)
      /\ WireType(up[Back], said[Back].up, heard[Back].up)
      /\ UpGoes(Front) \in BOOLEAN /\ r \in RecordType
      /\ client[Back].tx = Len(said[Back].up)
      /\ client[Back] \in ClientType /\ server[Front] \in ServerType
  BY <1>1, <1>2, <1>3, LinesType, TailOf DEF HandshakeTypeOK
<1>7. /\ Wire(up[Front], fkey, said[Front].up, heard[Front].up, UpGoes(Front))
      /\ Wire(up[Back], bkey, said[Back].up, heard[Back].up, TRUE)
  BY <1>2, <1>5 DEF LinesOK
<1>8. \A d \in Conns :
        /\ d = Back \/ (client[d].at = "up" => client[d].keys = SessionKeys(d))
        /\ Wire(down[d], <<SessionKeys(d), "s2c">>, said[d].down, heard[d].down, DownGoes(d))
  BY <1>2 DEF LinesOK
<1>9. CASE r.kind = "data"
  <2> DEFINE sealed == Sealed(client[Back].keys, "c2s", client[Back].tx, r.line)
             line == r.line
  <2>1. PICK altered \in BOOLEAN :
          /\ up' = Put(Rest(up, Front), Back, <<IF altered THEN Unsealed(0) ELSE sealed>>)
          /\ proxy' = IF altered THEN [proxy EXCEPT !.tamper = "done"] ELSE proxy
    BY <1>9 DEF PumpsUp, MayAlter, PumpTx
  <2>2. /\ server[Front].keys # None /\ r.key = <<server[Front].keys, "c2s">>
        /\ heard' = [heard EXCEPT ![Front].up = Append(@, line)]
        /\ said' = [said EXCEPT ![Back].up = Append(@, line)]
        /\ client' = [client EXCEPT ![Back].tx = @ + 1]
        /\ server' = [server EXCEPT ![Front].rx = @ + 1]
    BY <1>9 DEF PumpsUp, ServerOpens, Opens
  <2>3. proxy'.up = proxy.up /\ proxy'.down = proxy.down /\ proxy'.at = "pump"
    BY <1>1, <1>3, <2>1 DEF ProxyType
  <2>4. /\ client'[Back].at = "up" /\ client'[Back].keys = client[Back].keys
        /\ server'[Front].at = server[Front].at
        /\ \A d \in Conns \ {Back} : client'[d] = client[d]
        /\ \A d \in Conns \ {Front} : server'[d] = server[d]
    BY <1>1, <1>2, <1>4, <2>2, CountedSame
  <2>5. \A d \in Conns : UpGoes(d)' = UpGoes(d) /\ DownGoes(d)' = DownGoes(d)
    <3> SUFFICES ASSUME NEW d \in Conns
                 PROVE  UpGoes(d)' = UpGoes(d) /\ DownGoes(d)' = DownGoes(d)
      OBVIOUS
    <3>1. client'[d].at = client[d].at /\ server'[d].at = server[d].at
      BY <1>4, <2>4
    <3> QED BY <2>3, <3>1 DEF UpGoes, DownGoes
  <2> DEFINE x == IF altered THEN Unsealed(0) ELSE sealed
  <2>6. /\ line \in Nat /\ r.key # None /\ sealed \in RecordType /\ Unsealed(0) \in RecordType
    <3>1. line \in Nat
      BY <1>6, <1>9, Received
    <3>2. client[Back].keys \in Maybe(Keys) /\ client[Back].tx \in Nat
          /\ server[Front].keys \in Maybe(Keys)
      BY <1>6 DEF ClientType, ServerType
    <3>3. r.key # None
      BY <2>2, <3>2, KeyIsNone
    <3>4. sealed \in RecordType /\ Unsealed(0) \in RecordType
      BY <3>1, <3>2, Sendable
    <3> QED BY <3>1, <3>3, <3>4
  <2>7. /\ x \in RecordType /\ x.kind = "data"
        /\ x.key = None \/ (x.key = bkey /\ x.n = Len(said[Back].up) /\ x.line = line)
    <3>1. CASE altered
      BY <2>6, <3>1 DEF Unsealed
    <3>2. CASE ~altered
      BY <1>4, <1>6, <2>6, <3>2 DEF Sealed
    <3> QED BY <3>1, <3>2
  <2>8. up' = Put(Rest(up, Front), Back, <<x>>)
    BY <2>1
  <2> HIDE DEF x
  <2> DEFINE w == Rest(up, Front)
  <2>9. /\ w \in [Conns -> Seq(RecordType)] /\ w[Back] = up[Back]
        /\ up'[Front] = Tail(up[Front]) /\ \A d \in Conns \ {Front, Back} : up'[d] = up[d]
    <3>1. Moved(up, Front, Back, Put(Rest(up, Front), Back, <<x>>))
      BY <1>1, <1>2, <1>3, <2>7, WireMoved
    <3>2. Moved(up, Front, Back, up')
      BY <2>8, <3>1
    <3> QED BY <3>2 DEF Moved
  <2> HIDE DEF w, fkey, bkey
  <2>10. Wire(up'[Back], bkey, Append(said[Back].up, line), heard[Back].up, TRUE)
    <3> DEFINE spoken == said[Back].up
               listened == heard[Back].up
    <3>1. /\ WireType(w[Back], spoken, listened) /\ Wire(w[Back], bkey, spoken, listened, TRUE)
          /\ line \in Nat
          /\ x.key = None \/ (x.key = bkey /\ x.n = Len(spoken) /\ x.line = line)
      BY <1>6, <1>7, <2>6, <2>7, <2>9
    <3> HIDE DEF spoken, listened, line
    <3>2. Wire(Put(w, Back, <<x>>)[Back], bkey, Append(spoken, line), listened, TRUE)
      BY <1>2, <2>7, <2>9, <3>1, WireLine
    <3> QED BY <2>8, <3>2 DEF w, spoken, listened
  <2>11. Wire(up'[Front], fkey, said[Front].up, Append(heard[Front].up, line), UpGoes(Front))
    <3> DEFINE s == up[Front]
               spoken == said[Front].up
               listened == heard[Front].up
    <3>1. s # <<>> /\ Head(s).kind = "data" /\ Head(s).key # None /\ UpGoes(Front) \in BOOLEAN
          /\ WireType(s, spoken, listened) /\ Wire(s, fkey, spoken, listened, UpGoes(Front))
      BY <1>3, <1>6, <1>7, <1>9, <2>6
    <3> HIDE DEF s, spoken, listened
    <3>2. Wire(Tail(s), fkey, spoken, Append(listened, Head(s).line), UpGoes(Front))
      BY <3>1, WireHear
    <3> QED BY <2>9, <3>2 DEF s, spoken, listened
  <2>12. /\ said'[Back].up = Append(said[Back].up, line) /\ said'[Back].down = said[Back].down
         /\ heard'[Front].up = Append(heard[Front].up, line)
         /\ heard'[Front].down = heard[Front].down
         /\ \A d \in Conns \ {Back} : said'[d] = said[d]
         /\ \A d \in Conns \ {Front} : heard'[d] = heard[d]
    <3> HIDE DEF line
    <3>1. /\ said'[Back].up = Append(said[Back].up, line) /\ said'[Back].down = said[Back].down
          /\ heard'[Front].up = Append(heard[Front].up, line)
          /\ heard'[Front].down = heard[Front].down
      BY <1>1, <1>2, <2>2, <2>6, LineAdded
    <3> QED BY <1>1, <2>2, <3>1
  <2> HIDE DEF r, line, sealed
  <2>13. LinesOK(Back)'
    <3>1. Wire(up'[Back], <<SessionKeys(Back), "c2s">>, said'[Back].up, heard'[Back].up,
               UpGoes(Back)')
      BY <1>2, <1>5, <2>5, <2>10, <2>12 DEF bkey
    <3>2. Wire(down'[Back], <<SessionKeys(Back), "s2c">>, said'[Back].down, heard'[Back].down,
               DownGoes(Back)')
      BY <1>2, <1>3, <1>8, <2>5, <2>12
    <3> QED BY <1>2, <1>3, <1>4, <2>4, <3>1, <3>2, BothWires
  <2>14. LinesOK(Front)'
    <3>1. Wire(up'[Front], <<SessionKeys(Front), "c2s">>, said'[Front].up, heard'[Front].up,
               UpGoes(Front)')
      BY <1>2, <2>5, <2>11, <2>12 DEF fkey
    <3>2. Wire(down'[Front], <<SessionKeys(Front), "s2c">>, said'[Front].down,
               heard'[Front].down, DownGoes(Front)')
      BY <1>2, <1>3, <1>8, <2>5, <2>12
    <3> QED BY <1>2, <1>3, <1>8, <2>4, <3>1, <3>2, BothWires
  <2>15. \A d \in Conns \ {Front, Back} : LinesOK(d)'
    BY <1>2, <1>3, <2>3, <2>4, <2>9, <2>12, LinesStay
  <2>16. ProxyHolds'
    BY <1>2, <1>3, <1>4, <2>3, <2>4, <2>12 DEF ProxyHolds, Direct
  <2> QED BY <2>13, <2>14, <2>15, <2>16 DEF LinesInv
<1>10. CASE r.kind # "data"
  <2>1. up' = Put(Rest(up, Front), Back, <<r>>)
        /\ UNCHANGED <<client, server, said, heard, proxy>>
    BY <1>10 DEF PumpsUp, ends, lines
  <2> HIDE DEF r
  <2> DEFINE w == Rest(up, Front)
  <2>2. /\ w \in [Conns -> Seq(RecordType)] /\ w[Back] = up[Back]
        /\ up'[Front] = Tail(up[Front]) /\ \A d \in Conns \ {Front, Back} : up'[d] = up[d]
    <3>1. Moved(up, Front, Back, Put(Rest(up, Front), Back, <<r>>))
      BY <1>1, <1>2, <1>3, <1>6, WireMoved
    <3>2. Moved(up, Front, Back, up')
      BY <2>1, <3>1
    <3> QED BY <3>2 DEF Moved
  <2> HIDE DEF w, fkey, bkey
  <2>3. Wire(up'[Back], bkey, said[Back].up, heard[Back].up, TRUE)
    <3>1. Wire(Put(w, Back, <<r>>)[Back], bkey, said[Back].up, heard[Back].up, TRUE)
      BY <1>2, <1>3, <1>6, <1>7, <1>10, <2>2, WirePut
    <3> QED BY <2>1, <3>1 DEF w
  <2>4. Wire(up'[Front], fkey, said[Front].up, heard[Front].up, UpGoes(Front))
    BY <1>3, <1>6, <1>7, <1>10, <2>2, WirePop DEF r
  <2>5. \A d \in Conns : UpGoes(d)' = UpGoes(d) /\ DownGoes(d)' = DownGoes(d)
    BY <2>1 DEF UpGoes, DownGoes
  <2>6. LinesOK(Back)'
    <3>1. Wire(up'[Back], <<SessionKeys(Back), "c2s">>, said'[Back].up, heard'[Back].up,
               UpGoes(Back)')
      BY <1>2, <1>5, <2>1, <2>3, <2>5 DEF bkey
    <3>2. Wire(down'[Back], <<SessionKeys(Back), "s2c">>, said'[Back].down, heard'[Back].down,
               DownGoes(Back)')
      BY <1>2, <1>3, <1>8, <2>1, <2>5
    <3> QED BY <1>2, <1>3, <1>4, <2>1, <3>1, <3>2, BothWires
  <2>7. LinesOK(Front)'
    <3>1. Wire(up'[Front], <<SessionKeys(Front), "c2s">>, said'[Front].up, heard'[Front].up,
               UpGoes(Front)')
      BY <1>2, <2>1, <2>4, <2>5 DEF fkey
    <3>2. Wire(down'[Front], <<SessionKeys(Front), "s2c">>, said'[Front].down,
               heard'[Front].down, DownGoes(Front)')
      BY <1>2, <1>3, <1>8, <2>1, <2>5
    <3> QED BY <1>2, <1>3, <1>8, <2>1, <3>1, <3>2, BothWires
  <2>8. \A d \in Conns \ {Front, Back} : LinesOK(d)'
    BY <1>2, <1>3, <2>1, <2>2, LinesStay
  <2>9. ProxyHolds'
    BY <1>2, <2>1 DEF ProxyHolds, Direct
  <2> QED BY <2>6, <2>7, <2>8, <2>9 DEF LinesInv
<1> QED BY <1>9, <1>10

\* A line that the pump hears of the server and says to the victim.
LEMMA PumpsDownLines ==
    ASSUME ProxyInv, LinesInv, PumpsDown
    PROVE  LinesInv'
<1> DEFINE r == Head(down[Back])
           fkey == <<SessionKeys(Front), "s2c">>
           bkey == <<SessionKeys(Back), "s2c">>
<1>1. HandshakeTypeOK /\ proxy \in ProxyType
      /\ down \in [Conns -> Seq(RecordType)]
      /\ client \in [Conns -> ClientType] /\ server \in [Conns -> ServerType]
      /\ said \in [Conns -> [up : Seq(Nat), down : Seq(Nat)]]
      /\ heard \in [Conns -> [up : Seq(Nat), down : Seq(Nat)]]
  BY ProxyState DEF HandshakeTypeOK
<1>2. /\ ProxyHolds /\ LinesOK(Front) /\ LinesOK(Back) /\ \A d \in Conns : LinesOK(d)
      /\ Front \in Conns /\ Back \in Conns /\ Front # Back
      /\ ConnOK(Front)
  BY <1>1, ProxyState DEF LinesInv
<1>3. /\ proxy.at = "pump" /\ proxy.down = "run" /\ down[Back] # <<>> /\ r # Eof
      /\ creds' = creds /\ up' = up /\ proxy' = proxy
  BY DEF PumpsDown
<1>4. /\ server[Front].step = "Complete" /\ client[Back].at = "up" /\ server[Front].at = "on"
      /\ server[Front].keys = SessionKeys(Front) /\ client[Back].keys = SessionKeys(Back)
      /\ said[Front].down = heard[Back].down
  BY <1>2, <1>3, WhilePumping DEF ConnOK, ServerOK, LinesOK, ProxyHolds, Direct
<1>5. DownGoes(Front) = TRUE
  BY <1>3, <1>4 DEF DownGoes
<1>6. /\ WireType(down[Front], said[Front].down, heard[Front].down)
      /\ WireType(down[Back], said[Back].down, heard[Back].down)
      /\ DownGoes(Back) \in BOOLEAN /\ r \in RecordType
      /\ server[Front].tx = Len(said[Front].down)
      /\ client[Back] \in ClientType /\ server[Front] \in ServerType
  BY <1>1, <1>2, <1>3, LinesType, TailOf DEF HandshakeTypeOK
<1>7. /\ Wire(down[Back], bkey, said[Back].down, heard[Back].down, DownGoes(Back))
      /\ Wire(down[Front], fkey, said[Front].down, heard[Front].down, TRUE)
  BY <1>2, <1>5 DEF LinesOK
<1>8. \A d \in Conns :
        /\ client[d].at = "up" => client[d].keys = SessionKeys(d)
        /\ Wire(up[d], <<SessionKeys(d), "c2s">>, said[d].up, heard[d].up, UpGoes(d))
  BY <1>2 DEF LinesOK
<1>9. CASE r.kind = "data"
  <2> DEFINE x == Sealed(server[Front].keys, "s2c", server[Front].tx, r.line)
             line == r.line
  <2>1. /\ down' = Put(Rest(down, Back), Front, <<x>>)
        /\ client[Back].keys # None /\ r.key = <<client[Back].keys, "s2c">>
        /\ heard' = [heard EXCEPT ![Back].down = Append(@, line)]
        /\ said' = [said EXCEPT ![Front].down = Append(@, line)]
        /\ client' = [client EXCEPT ![Back].rx = @ + 1]
        /\ server' = [server EXCEPT ![Front].tx = @ + 1]
    BY <1>9 DEF PumpsDown, ClientOpens, Opens
  <2>2. /\ client'[Back].at = "up" /\ client'[Back].keys = client[Back].keys
        /\ server'[Front].at = server[Front].at
        /\ \A d \in Conns \ {Back} : client'[d] = client[d]
        /\ \A d \in Conns \ {Front} : server'[d] = server[d]
    BY <1>1, <1>2, <1>4, <2>1, CountedSame
  <2>3. \A d \in Conns : UpGoes(d)' = UpGoes(d) /\ DownGoes(d)' = DownGoes(d)
    <3> SUFFICES ASSUME NEW d \in Conns
                 PROVE  UpGoes(d)' = UpGoes(d) /\ DownGoes(d)' = DownGoes(d)
      OBVIOUS
    <3>1. client'[d].at = client[d].at /\ server'[d].at = server[d].at
      BY <1>4, <2>2
    <3> QED BY <1>3, <3>1 DEF UpGoes, DownGoes
  <2>4. line \in Nat /\ r.key # None /\ x \in RecordType
    <3>1. line \in Nat
      BY <1>6, <1>9, Received
    <3>2. client[Back].keys \in Maybe(Keys) /\ server[Front].tx \in Nat
          /\ server[Front].keys \in Maybe(Keys)
      BY <1>6 DEF ClientType, ServerType
    <3>3. r.key # None
      BY <2>1, <3>2, KeyIsNone
    <3>4. x \in RecordType
      BY <3>1, <3>2, Sendable
    <3> QED BY <3>1, <3>3, <3>4
  <2>5. x.kind = "data" /\ x.key = fkey /\ x.n = Len(said[Front].down) /\ x.line = line
    BY <1>4, <1>6 DEF Sealed
  <2> HIDE DEF x
  <2> DEFINE w == Rest(down, Back)
  <2>6. /\ w \in [Conns -> Seq(RecordType)] /\ w[Front] = down[Front]
        /\ down'[Back] = Tail(down[Back])
        /\ \A d \in Conns \ {Front, Back} : down'[d] = down[d]
    <3>1. Moved(down, Back, Front, Put(Rest(down, Back), Front, <<x>>))
      BY <1>1, <1>2, <1>3, <2>4, WireMoved
    <3>2. Moved(down, Back, Front, down')
      BY <2>1, <3>1
    <3> QED BY <3>2 DEF Moved
  <2> HIDE DEF w, fkey, bkey
  <2>7. Wire(down'[Front], fkey, Append(said[Front].down, line), heard[Front].down, TRUE)
    <3> DEFINE spoken == said[Front].down
               listened == heard[Front].down
    <3>1. /\ WireType(w[Front], spoken, listened)
          /\ Wire(w[Front], fkey, spoken, listened, TRUE) /\ line \in Nat
          /\ x.key = fkey /\ x.n = Len(spoken) /\ x.line = line
      BY <1>6, <1>7, <2>4, <2>5, <2>6
    <3> HIDE DEF spoken, listened, line
    <3>2. Wire(Put(w, Front, <<x>>)[Front], fkey, Append(spoken, line), listened, TRUE)
      BY <1>2, <2>4, <2>5, <2>6, <3>1, WireLine
    <3> QED BY <2>1, <3>2 DEF w, spoken, listened
  <2>8. Wire(down'[Back], bkey, said[Back].down, Append(heard[Back].down, line), DownGoes(Back))
    <3> DEFINE s == down[Back]
               spoken == said[Back].down
               listened == heard[Back].down
    <3>1. s # <<>> /\ Head(s).kind = "data" /\ Head(s).key # None /\ DownGoes(Back) \in BOOLEAN
          /\ WireType(s, spoken, listened) /\ Wire(s, bkey, spoken, listened, DownGoes(Back))
      BY <1>3, <1>6, <1>7, <1>9, <2>4
    <3> HIDE DEF s, spoken, listened
    <3>2. Wire(Tail(s), bkey, spoken, Append(listened, Head(s).line), DownGoes(Back))
      BY <3>1, WireHear
    <3> QED BY <2>6, <3>2 DEF s, spoken, listened
  <2>9. /\ said'[Front].down = Append(said[Front].down, line) /\ said'[Front].up = said[Front].up
        /\ heard'[Back].down = Append(heard[Back].down, line)
        /\ heard'[Back].up = heard[Back].up
        /\ \A d \in Conns \ {Front} : said'[d] = said[d]
        /\ \A d \in Conns \ {Back} : heard'[d] = heard[d]
    <3> HIDE DEF line
    <3>1. /\ said'[Front].down = Append(said[Front].down, line)
          /\ said'[Front].up = said[Front].up
          /\ heard'[Back].down = Append(heard[Back].down, line)
          /\ heard'[Back].up = heard[Back].up
      BY <1>1, <1>2, <2>1, <2>4, LineAdded, SMTT(30)
    <3> QED BY <1>1, <2>1, <3>1
  <2> HIDE DEF r, line
  <2>10. LinesOK(Back)'
    <3>1. Wire(down'[Back], <<SessionKeys(Back), "s2c">>, said'[Back].down, heard'[Back].down,
               DownGoes(Back)')
      BY <1>2, <2>3, <2>8, <2>9 DEF bkey
    <3>2. Wire(up'[Back], <<SessionKeys(Back), "c2s">>, said'[Back].up, heard'[Back].up,
               UpGoes(Back)')
      BY <1>2, <1>3, <1>8, <2>3, <2>9
    <3> QED BY <1>2, <1>3, <1>4, <2>2, <3>1, <3>2, BothWires
  <2>11. LinesOK(Front)'
    <3>1. Wire(down'[Front], <<SessionKeys(Front), "s2c">>, said'[Front].down,
               heard'[Front].down, DownGoes(Front)')
      BY <1>2, <1>5, <2>3, <2>7, <2>9 DEF fkey
    <3>2. Wire(up'[Front], <<SessionKeys(Front), "c2s">>, said'[Front].up, heard'[Front].up,
               UpGoes(Front)')
      BY <1>2, <1>3, <1>8, <2>3, <2>9
    <3> QED BY <1>2, <1>3, <1>8, <2>2, <3>1, <3>2, BothWires
  <2>12. \A d \in Conns \ {Front, Back} : LinesOK(d)'
    BY <1>2, <1>3, <2>2, <2>6, <2>9, LinesStay
  <2>13. ProxyHolds'
    BY <1>2, <1>3, <1>4, <2>2, <2>9 DEF ProxyHolds, Direct
  <2> QED BY <2>10, <2>11, <2>12, <2>13 DEF LinesInv
<1>10. CASE r.kind # "data"
  <2>1. down' = Put(Rest(down, Back), Front, <<r>>)
        /\ UNCHANGED <<client, server, said, heard>>
    BY <1>10 DEF PumpsDown, ends, lines
  <2> HIDE DEF r
  <2> DEFINE w == Rest(down, Back)
  <2>2. /\ w \in [Conns -> Seq(RecordType)] /\ w[Front] = down[Front]
        /\ down'[Back] = Tail(down[Back])
        /\ \A d \in Conns \ {Front, Back} : down'[d] = down[d]
    <3>1. Moved(down, Back, Front, Put(Rest(down, Back), Front, <<r>>))
      BY <1>1, <1>2, <1>3, <1>6, WireMoved
    <3>2. Moved(down, Back, Front, down')
      BY <2>1, <3>1
    <3> QED BY <3>2 DEF Moved
  <2> HIDE DEF w, fkey, bkey
  <2>3. Wire(down'[Front], fkey, said[Front].down, heard[Front].down, TRUE)
    <3>1. Wire(Put(w, Front, <<r>>)[Front], fkey, said[Front].down, heard[Front].down, TRUE)
      BY <1>2, <1>3, <1>6, <1>7, <1>10, <2>2, WirePut
    <3> QED BY <2>1, <3>1 DEF w
  <2>4. Wire(down'[Back], bkey, said[Back].down, heard[Back].down, DownGoes(Back))
    BY <1>3, <1>6, <1>7, <1>10, <2>2, WirePop DEF r
  <2>5. \A d \in Conns : UpGoes(d)' = UpGoes(d) /\ DownGoes(d)' = DownGoes(d)
    BY <1>3, <2>1 DEF UpGoes, DownGoes
  <2>6. LinesOK(Back)'
    <3>1. Wire(down'[Back], <<SessionKeys(Back), "s2c">>, said'[Back].down, heard'[Back].down,
               DownGoes(Back)')
      BY <1>2, <2>1, <2>4, <2>5 DEF bkey
    <3>2. Wire(up'[Back], <<SessionKeys(Back), "c2s">>, said'[Back].up, heard'[Back].up,
               UpGoes(Back)')
      BY <1>2, <1>3, <1>8, <2>1, <2>5
    <3> QED BY <1>2, <1>3, <1>4, <2>1, <3>1, <3>2, BothWires
  <2>7. LinesOK(Front)'
    <3>1. Wire(down'[Front], <<SessionKeys(Front), "s2c">>, said'[Front].down,
               heard'[Front].down, DownGoes(Front)')
      BY <1>2, <1>5, <2>1, <2>3, <2>5 DEF fkey
    <3>2. Wire(up'[Front], <<SessionKeys(Front), "c2s">>, said'[Front].up, heard'[Front].up,
               UpGoes(Front)')
      BY <1>2, <1>3, <1>8, <2>1, <2>5
    <3> QED BY <1>2, <1>3, <1>8, <2>1, <3>1, <3>2, BothWires
  <2>8. \A d \in Conns \ {Front, Back} : LinesOK(d)'
    BY <1>2, <1>3, <2>1, <2>2, LinesStay
  <2>9. ProxyHolds'
    BY <1>2, <1>3, <2>1 DEF ProxyHolds, Direct
  <2> QED BY <2>6, <2>7, <2>8, <2>9 DEF LinesInv
<1> QED BY <1>9, <1>10

\* At the start nothing has been said.
LEMMA LinesInitInv == Init => LinesInv
<1> SUFFICES ASSUME Init
             PROVE  LinesInv
  OBVIOUS
<1>1. PICK at \in {"none", "victim"}, tamper \in {"off", "armed"} :
        proxy = [at |-> at, up |-> "run", down |-> "run", tamper |-> tamper]
  BY DEF Init
<1>2. Front \in Conns /\ Back \in Conns
  BY ProxyAssumption DEF ProxyAssumption
<1>3. ASSUME NEW c \in Conns
      PROVE  /\ client[c].at = "start" /\ server[c].at = "on" /\ up[c] = <<>> /\ down[c] = <<>>
             /\ said[c].up = <<>> /\ said[c].down = <<>>
             /\ heard[c].up = <<>> /\ heard[c].down = <<>>
  BY DEF Init, HandshakeInit, NewClient, NewServer
<1>4. ASSUME NEW key, NEW going \in BOOLEAN
      PROVE  Wire(<<>>, key, <<>>, <<>>, going)
  <2>1. DataBefore(<<>>, Len(<<>>) + 1) = {}
    BY DEF DataBefore
  <2>2. Cardinality({}) = 0
    BY FS_EmptySet
  <2>3. ~IsShut(<<>>)
    BY DEF IsShut
  <2>4. Len(<<>>) = 0 /\ \A i \in 1 .. Len(<<>>) : FALSE
    OBVIOUS
  <2>5. Cardinality(DataBefore(<<>>, Len(<<>>) + 1)) = 0
    BY <2>1, <2>2
  <2> DEFINE s == <<>>
  <2>6. /\ ~IsShut(s) /\ Len(s) = 0 /\ Cardinality(DataBefore(s, Len(s) + 1)) = 0
        /\ \A i \in 1 .. Len(s) : FALSE
    BY <2>3, <2>4, <2>5
  <2> HIDE DEF s
  <2>7. Wire(s, key, s, s, going)
    <3>1. Len(s) <= Len(s) /\ Len(s) = Len(s) + Cardinality(DataBefore(s, Len(s) + 1))
      BY <2>6
    <3> QED BY <2>6, <3>1 DEF Wire
  <2> QED BY <2>7 DEF s
<1>5. ASSUME NEW c \in Conns
      PROVE  LinesOK(c)
  <2>1. UpGoes(c) \in BOOLEAN /\ DownGoes(c) \in BOOLEAN
    BY DEF UpGoes, DownGoes
  <2> QED BY <1>3, <1>4, <2>1 DEF LinesOK
<1>6. ProxyHolds
  BY <1>1, <1>2, <1>3 DEF ProxyHolds, Direct
<1> QED BY <1>5, <1>6 DEF LinesInv

\* Every step keeps it.
LEMMA LinesNextInv == ProxyInv /\ LinesInv /\ [Next]_vars => LinesInv'
<1> SUFFICES ASSUME ProxyInv, LinesInv, [Next]_vars
             PROVE  LinesInv'
  OBVIOUS
<1>1. CASE Chat
  BY <1>1, ChatLines
<1>2. CASE Main
  BY <1>2, MainLines, JoinsLines
<1>3. CASE PumpUp \/ PumpDown
  BY <1>3, PumpsUpLines, PumpsDownLines, PumpEndsLines DEF PumpUp, PumpDown
<1>4. CASE UNCHANGED vars
  <2>1. UNCHANGED <<creds, client, server, up, down, said, heard, proxy>>
    BY <1>4 DEF vars
  <2>2. \A d \in Conns : LinesOK(d)'
    BY <2>1, LinesStay DEF LinesInv
  <2> QED BY <2>1, <2>2 DEF LinesInv, ProxyHolds, Direct
<1> QED BY <1>1, <1>2, <1>3, <1>4 DEF Next

\* On every connection and in each direction, what is heard is the first of
\* what was said, and what is on the way is sealed with the session's key, in
\* order and without a gap; what the proxy says on one side is what it heard
\* on the other.
THEOREM LinesInvariance == Spec => []LinesInv
<1>1. Init => ProxyInv /\ LinesInv
  BY ProxyInitInv, LinesInitInv
<1>2. (ProxyInv /\ LinesInv) /\ [Next]_vars => (ProxyInv /\ LinesInv)'
  BY ProxyNextInv, LinesNextInv
<1> QED BY <1>1, <1>2, PTL DEF Spec

\* A line on its way opens when its turn comes: its key is that of the end it
\* goes to, and its counter the one that end will be at, with any number of
\* lines and whatever is cut, shut or altered before it.
THEOREM ProxyLinesOpen == Spec => []LinesOpen
<1>1. ASSUME ProxyInv, LinesInv
      PROVE  LinesOpen
  <2> SUFFICES ASSUME NEW c \in Conns
               PROVE  /\ \A i \in DOMAIN up[c] :
                           up[c][i].kind = "data" /\ up[c][i].key # None =>
                             /\ server[c].keys # None => up[c][i].key = <<server[c].keys, "c2s">>
                             /\ up[c][i].n = server[c].rx + Cardinality(DataBefore(up[c], i))
                      /\ \A i \in DOMAIN down[c] :
                           down[c][i].kind = "data" /\ down[c][i].key # None =>
                             /\ client[c].keys # None => down[c][i].key = <<client[c].keys, "s2c">>
                             /\ down[c][i].n = client[c].rx + Cardinality(DataBefore(down[c], i))
    BY DEF LinesOpen, DataBefore
  <2>1. HandshakeTypeOK /\ ConnOK(c) /\ LinesOK(c)
    BY <1>1, ProxyState DEF LinesInv
  <2>2. /\ server[c].rx = Len(heard[c].up) /\ client[c].rx = Len(heard[c].down)
        /\ DOMAIN up[c] = 1 .. Len(up[c]) /\ DOMAIN down[c] = 1 .. Len(down[c])
    BY <2>1, LinesType DEF WireType
  <2>3. (server[c].keys # None => server[c].keys = SessionKeys(c))
        /\ (client[c].keys # None => client[c].keys = SessionKeys(c))
    BY <2>1 DEF ConnOK, ClientOK, ServerOK
  <2> QED BY <2>1, <2>2, <2>3 DEF LinesOK, Wire
<1> QED BY <1>1, ProxyInvariance, LinesInvariance, PTL

-----------------------------------------------------------------------------
(* The two directions, from one end to the other. *)

\* Nothing that the two ends of the chat say or hear.
LinesRest ==
    /\ said'[Front].up = said[Front].up /\ heard'[Last].up = heard[Last].up
    /\ said'[Last].down = said[Last].down /\ heard'[Front].down = heard[Front].down

\* Which steps say or hear something at the two ends.
LEMMA LineSteps ==
    ASSUME ProxyInv, [Next]_vars
    PROVE  /\ creds' = creds /\ Last' = Last
           /\ \/ LinesRest
              \/ Says(Front) \/ Hears(Front) \/ HandlesLine(Last) \/ SendLine(Last)
<1>1. /\ HandshakeTypeOK /\ Front \in Conns /\ Back \in Conns /\ Last \in Conns
      /\ Front # Back /\ proxy \in ProxyType
      /\ \A d \in Conns : ConnOK(d)
      /\ said \in [Conns -> [up : Seq(Nat), down : Seq(Nat)]]
      /\ heard \in [Conns -> [up : Seq(Nat), down : Seq(Nat)]]
  BY ProxyState DEF Last, HandshakeTypeOK
<1>2. CASE Chat
  <2>1. proxy' = proxy
    BY <1>2 DEF Chat
  <2>2. Last' = Last
    BY <2>1 DEF Last, Direct
  <2>3. CASE ClientStep(Front)
    <3>1. creds' = creds
      BY <1>1, <2>3, ClientStepOK DEF Elsewhere
    <3>2. UNCHANGED lines \/ Says(Front) \/ Hears(Front)
      BY <1>1, <2>3, ClientMoves
    <3> QED BY <2>2, <3>1, <3>2 DEF lines, LinesRest
  <2>4. CASE ServerStep(Last)
    <3>1. PICK c \in Conns : c = Last
      BY <1>1
    <3>2. creds' = creds
      BY <1>1, <2>4, <3>1, ServerStepOK DEF Elsewhere
    <3>3. UNCHANGED lines \/ HandlesLine(Last) \/ SendLine(Last)
      BY <1>1, <2>4, ServerMoves
    <3> QED BY <2>2, <3>2, <3>3 DEF lines, LinesRest
  <2>5. ASSUME NEW c \in Conns, Reset(c)
        PROVE  creds' = creds /\ LinesRest
    BY <2>5 DEF Reset, lines, LinesRest
  <2> QED BY <1>2, <2>2, <2>3, <2>4, <2>5
          DEF Chat, Client, User, Server, Others, ClientStep, ServerStep
<1>3. CASE Main
  <2>1. UNCHANGED <<creds, lines>>
    <3>1. CASE Upstream
      BY <3>1 DEF Upstream, ClientGoesOn, Hello, Rejects, Contributes, Installs, ReadCert,
                  ReadKex, ReadProof, Receives, GivesUp, Leaves, ClientEnds
    <3>2. CASE VictimAnswered \/ VictimCompletes
      BY <3>2 DEF VictimAnswered, VictimCompletes, AnswersHello, Completes
    <3>3. CASE VictimFails \/ DialFails \/ UpstreamFails
      BY <3>3 DEF VictimFails, DialFails, UpstreamFails, ForgetsVictim, ServerEnds
    <3>4. CASE Dials \/ StartsPumps \/ Joins
      BY <3>4 DEF Dials, StartsPumps, Joins
    <3> QED BY <1>3, <3>1, <3>2, <3>3, <3>4 DEF Main
  <2>2. Direct' = Direct
    <3>1. CASE Upstream \/ VictimAnswered
      BY <3>1 DEF Upstream, VictimAnswered, Direct
    <3>2. CASE VictimCompletes \/ VictimFails \/ DialFails \/ UpstreamFails
               \/ Dials \/ StartsPumps \/ Joins
      <4>1. PICK at \in {"dial", "accept", "upstream", "pump"} :
                 proxy' = [proxy EXCEPT !.at = at] /\ proxy.at # "none"
        BY <3>2 DEF VictimCompletes, VictimFails, DialFails, UpstreamFails, ForgetsVictim,
                    Dials, StartsPumps, Joins
      <4> QED BY <1>1, <4>1, PlaceType DEF Direct
    <3> QED BY <1>3, <3>1, <3>2 DEF Main
  <2> QED BY <2>1, <2>2 DEF lines, LinesRest, Last
<1>4. CASE PumpUpEnds \/ PumpDownEnds
  <2>1. UNCHANGED <<creds, lines>>
    BY <1>4 DEF PumpUpEnds, PumpDownEnds
  <2>2. proxy'.at = proxy.at
    BY <1>1, <1>4, ProxyState DEF PumpUpEnds, PumpDownEnds
  <2> QED BY <2>1, <2>2 DEF lines, LinesRest, Last, Direct
<1>5. CASE PumpsUp
  <2>1. proxy.at = "pump" /\ creds' = creds /\ proxy'.at = proxy.at /\ Last = Back
    <3>1. proxy' = proxy \/ proxy' = [proxy EXCEPT !.tamper = "done"]
      BY <1>5 DEF PumpsUp
    <3>2. proxy'.at = proxy.at
      BY <3>1, ProxyState
    <3> QED BY <1>5, <3>2 DEF PumpsUp, Last, Direct
  <2>2. CASE UNCHANGED lines
    BY <2>1, <2>2 DEF lines, LinesRest, Last, Direct
  <2>3. CASE ~UNCHANGED lines
    <3> DEFINE line == Head(up[Front]).line
    <3>1. /\ heard' = [heard EXCEPT ![Front].up = Append(@, line)]
          /\ said' = [said EXCEPT ![Back].up = Append(@, line)]
      BY <1>5, <2>3 DEF PumpsUp, ServerOpens
    <3>2. line \in Nat
      <4>1. up[Front] \in Seq(RecordType) /\ up[Front] # <<>> /\ Head(up[Front]).kind = "data"
        BY <1>1, <1>5, <2>3 DEF PumpsUp, HandshakeTypeOK
      <4> QED BY <4>1, TailOf, Received
    <3> HIDE DEF line
    <3>3. said'[Front] = said[Front] /\ heard'[Back] = heard[Back]
      BY <1>1, <3>1
    <3>4. said'[Back].down = said[Back].down /\ heard'[Front].down = heard[Front].down
      BY <1>1, <3>1, <3>2, LineAdded
    <3> QED BY <2>1, <3>3, <3>4 DEF LinesRest, Last, Direct
  <2> QED BY <2>2, <2>3
<1>6. CASE PumpsDown
  <2>1. proxy.at = "pump" /\ creds' = creds /\ proxy' = proxy /\ Last = Back
    BY <1>6 DEF PumpsDown, Last, Direct
  <2>2. CASE UNCHANGED lines
    BY <2>1, <2>2 DEF lines, LinesRest, Last, Direct
  <2>3. CASE ~UNCHANGED lines
    <3> DEFINE line == Head(down[Back]).line
    <3>1. /\ heard' = [heard EXCEPT ![Back].down = Append(@, line)]
          /\ said' = [said EXCEPT ![Front].down = Append(@, line)]
      BY <1>6, <2>3 DEF PumpsDown, ClientOpens
    <3>2. line \in Nat
      <4>1. down[Back] \in Seq(RecordType) /\ down[Back] # <<>>
            /\ Head(down[Back]).kind = "data"
        BY <1>1, <1>6, <2>3 DEF PumpsDown, HandshakeTypeOK
      <4> QED BY <4>1, TailOf, Received
    <3> HIDE DEF line
    <3>3. said'[Back] = said[Back] /\ heard'[Front] = heard[Front]
      BY <1>1, <3>1
    <3>4. said'[Front].up = said[Front].up /\ heard'[Back].up = heard[Back].up
      BY <1>1, <3>1, <3>2, LineAdded
    <3> QED BY <2>1, <3>3, <3>4 DEF LinesRest, Last, Direct
  <2> QED BY <2>2, <2>3
<1>7. CASE UNCHANGED vars
  <2>1. UNCHANGED <<creds, said, heard, proxy>>
    BY <1>7 DEF vars
  <2> QED BY <2>1 DEF LinesRest, Last, Direct
<1> QED BY <1>2, <1>3, <1>4, <1>5, <1>6, <1>7 DEF Next, PumpUp, PumpDown

\* The lines of one connection, without what is on the way.
LEMMA HeardIsSaid ==
    ASSUME ProxyInv, LinesInv, NEW c \in Conns
    PROVE  /\ said[c].up \in Seq(Nat) /\ said[c].down \in Seq(Nat)
           /\ heard[c].up \in Seq(Nat) /\ heard[c].down \in Seq(Nat)
           /\ Len(heard[c].up) <= Len(said[c].up)
           /\ \A k \in 1 .. Len(heard[c].up) : heard[c].up[k] = said[c].up[k]
           /\ Len(heard[c].down) <= Len(said[c].down)
           /\ \A k \in 1 .. Len(heard[c].down) : heard[c].down[k] = said[c].down[k]
<1>1. HandshakeTypeOK /\ LinesOK(c)
  BY ProxyState DEF LinesInv
<1>2. /\ said[c].up \in Seq(Nat) /\ said[c].down \in Seq(Nat)
      /\ heard[c].up \in Seq(Nat) /\ heard[c].down \in Seq(Nat)
  BY <1>1, LinesType DEF WireType
<1> QED BY <1>1, <1>2 DEF LinesOK, Wire

\* And from one end of the chat to the other.
LEMMA EndsAgree ==
    ASSUME ProxyInv, LinesInv
    PROVE  /\ Len(said[Last].up) <= Len(said[Front].up)
           /\ \A k \in 1 .. Len(said[Last].up) : said[Last].up[k] = said[Front].up[k]
           /\ Len(said[Front].down) <= Len(said[Last].down)
           /\ \A k \in 1 .. Len(said[Front].down) : said[Front].down[k] = said[Last].down[k]
           /\ heard[Last].up # <<>> => Genuine(Front)
<1>1. /\ Front \in Conns /\ Back \in Conns /\ ProxyHolds
      /\ \A d \in Conns : ConnOK(d)
  BY ProxyState DEF LinesInv
<1>2. \A d \in Conns : heard[d].up # <<>> => Genuine(d)
  BY <1>1 DEF ConnOK, ServerOK
<1>3. CASE Direct
  <2>1. Last = Front
    BY <1>3 DEF Last
  <2>2. said[Front].up \in Seq(Nat) /\ said[Front].down \in Seq(Nat)
    BY <1>1, HeardIsSaid
  <2> QED BY <1>1, <1>2, <2>1, <2>2
<1>4. CASE ~Direct
  <2>1. Last = Back
    BY <1>4 DEF Last
  <2>2. said[Back].up = heard[Front].up /\ said[Front].down = heard[Back].down
    BY <1>1, <1>4 DEF ProxyHolds
  <2>3. heard[Back].up # <<>> => heard[Front].up # <<>>
    <3>1. heard[Back].up \in Seq(Nat) /\ heard[Front].up \in Seq(Nat)
          /\ Len(heard[Back].up) <= Len(said[Back].up)
      BY <1>1, HeardIsSaid
    <3>2. heard[Back].up # <<>> => Len(heard[Back].up) > 0
      BY <3>1
    <3>3. heard[Front].up = <<>> => Len(heard[Front].up) = 0
      OBVIOUS
    <3>4. Len(heard[Back].up) <= Len(heard[Front].up)
      BY <2>2, <3>1
    <3>5. Len(heard[Back].up) \in Nat /\ Len(heard[Front].up) \in Nat
      BY <3>1
    <3> QED BY <3>2, <3>3, <3>4, <3>5
  <2>4. /\ Len(heard[Front].up) <= Len(said[Front].up)
        /\ \A k \in 1 .. Len(heard[Front].up) : heard[Front].up[k] = said[Front].up[k]
    BY <1>1, HeardIsSaid
  <2>5. /\ Len(heard[Back].down) <= Len(said[Back].down)
        /\ \A k \in 1 .. Len(heard[Back].down) : heard[Back].down[k] = said[Back].down[k]
    BY <1>1, HeardIsSaid
  <2> QED BY <1>1, <1>2, <2>1, <2>2, <2>3, <2>4, <2>5
<1> QED BY <1>3, <1>4

\* What a step does to one direction: a line is said, or the next one is heard.
LEMMA OneLineSaid ==
    ASSUME NEW s \in Seq(Nat), NEW line \in Nat, NEW t, t = Append(s, line)
    PROVE  t # <<>> /\ t = Append(s, t[Len(t)])
<1>1. Append(s, line) # <<>> /\ Append(s, line)[Len(Append(s, line))] = line
  OBVIOUS
<1> QED BY <1>1

\* The client says a line to a genuine server, or the server hears the next one.
LEMMA UpStep ==
    ASSUME ProxyInv, LinesInv, [Next]_vars
    PROVE  [Upwards!Say \/ Upwards!Hear]_<<Genuine(Front), said[Front].up, heard[Last].up>>
<1>1. /\ HandshakeTypeOK /\ Front \in Conns /\ Last \in Conns /\ ConnOK(Front)
      /\ LinesOK(Last)
      /\ said \in [Conns -> [up : Seq(Nat), down : Seq(Nat)]]
      /\ heard \in [Conns -> [up : Seq(Nat), down : Seq(Nat)]]
      /\ up[Last] \in Seq(RecordType)
  BY ProxyState DEF Last, HandshakeTypeOK, LinesInv
<1>2. creds' = creds /\ Last' = Last
  BY LineSteps
<1>3. Genuine(Front)' = Genuine(Front)
  BY <1>2 DEF Genuine
<1>4. CASE LinesRest
  BY <1>2, <1>3, <1>4 DEF LinesRest
<1>5. CASE Says(Front)
  <2> DEFINE line == Len(said[Front].up) + 1
  <2>1. /\ said' = [said EXCEPT ![Front].up = Append(@, line)] /\ heard' = heard
        /\ client[Front].at = "up"
    BY <1>5 DEF Says, ClientSeals
  <2>2. said[Front].up \in Seq(Nat) /\ line \in Nat
    <3>1. said[Front].up \in Seq(Nat)
      BY <1>1
    <3> QED BY <3>1
  <2> HIDE DEF line
  <2>3. said'[Front].up = Append(said[Front].up, line)
    BY <1>1, <2>1, <2>2, LineAdded
  <2>4. Genuine(Front)
    BY <1>1, <2>1 DEF ConnOK, ClientOK
  <2> DEFINE s == said[Front].up
             t == said'[Front].up
  <2>5. t # <<>> /\ t = Append(s, t[Len(t)])
    <3>1. s \in Seq(Nat) /\ t = Append(s, line)
      BY <2>2, <2>3
    <3> HIDE DEF s, t
    <3> QED BY <2>2, <3>1, OneLineSaid
  <2>6. heard'[Last'].up = heard[Last].up
    BY <1>2, <2>1
  <2> HIDE DEF s, t
  <2>7. Upwards!Say
    BY <1>3, <2>4, <2>5, <2>6 DEF Upwards!Say, s, t
  <2> QED BY <2>7
<1>6. CASE HandlesLine(Last)
  <2> DEFINE c == Last
             line == Head(up[c]).line
             l == Len(heard[c].up)
  <2>1. /\ heard' = [heard EXCEPT ![c].up = Append(@, line)] /\ said' = said
        /\ up[c] # <<>> /\ server[c].keys # None /\ Head(up[c]).kind = "data"
        /\ Head(up[c]).key = <<server[c].keys, "c2s">>
    BY <1>6 DEF HandlesLine, Reads, ServerOpens, Opens
  <2>2. line \in Nat /\ Head(up[c]).key # None
    <3>1. server[c].keys \in Maybe(Keys)
      BY <1>1 DEF HandshakeTypeOK, ServerType
    <3>2. Head(up[c]) \in RecordType
      BY <1>1, <2>1, TailOf
    <3> QED BY <2>1, <3>1, <3>2, KeyIsNone, Received
  <2>3. Len(heard[c].up) < Len(said[c].up) /\ line = said[c].up[Len(heard[c].up) + 1]
    <3> DEFINE s == up[c]
               spoken == said[c].up
               listened == heard[c].up
               key == <<SessionKeys(c), "c2s">>
    <3>1. /\ s # <<>> /\ Head(s).kind = "data" /\ Head(s).key # None /\ UpGoes(c) \in BOOLEAN
          /\ WireType(s, spoken, listened) /\ Wire(s, key, spoken, listened, UpGoes(c))
      BY <1>1, <2>1, <2>2, LinesType DEF LinesOK
    <3> HIDE DEF s, spoken, listened, key, c
    <3>2. Len(listened) < Len(spoken) /\ Head(s).line = spoken[Len(listened) + 1]
      BY <3>1, WireHear
    <3> QED BY <3>2 DEF s, spoken, listened
  <2>4. /\ Len(said[c].up) <= Len(said[Front].up)
        /\ \A k \in 1 .. Len(said[c].up) : said[c].up[k] = said[Front].up[k]
    BY EndsAgree
  <2>5. Len(said[c].up) \in Nat /\ Len(said[Front].up) \in Nat /\ Len(heard[c].up) \in Nat
    <3>1. said[c].up \in Seq(Nat) /\ said[Front].up \in Seq(Nat) /\ heard[c].up \in Seq(Nat)
      BY <1>1
    <3> QED BY <3>1
  <2>6. Len(heard[c].up) < Len(said[Front].up) /\ Len(heard[c].up) + 1 \in 1 .. Len(said[c].up)
    <3> DEFINE m == Len(said[c].up)
               n == Len(said[Front].up)
    <3>1. l < m /\ m <= n /\ l \in Nat /\ m \in Nat /\ n \in Nat
      BY <2>3, <2>4, <2>5
    <3> HIDE DEF l, m, n
    <3>2. l < n /\ l + 1 \in 1 .. m
      BY <3>1
    <3> QED BY <3>2 DEF l, m, n
  <2>7. line = said[Front].up[Len(heard[c].up) + 1]
    BY <2>3, <2>4, <2>6
  <2> HIDE DEF line
  <2>8. heard'[c].up = Append(heard[c].up, line)
    BY <1>1, <2>1, <2>2, LineAdded
  <2>9. heard'[c'].up = Append(heard[c].up, said[Front].up[Len(heard[c].up) + 1])
    BY <1>2, <2>7, <2>8
  <2>10. Upwards!Hear
    BY <1>3, <2>1, <2>6, <2>9 DEF Upwards!Hear
  <2> QED BY <2>10
<1>7. CASE Hears(Front) \/ SendLine(Last)
  <2>1. said'[Front].up = said[Front].up /\ heard'[Last].up = heard[Last].up
    <3>1. CASE Hears(Front)
      <4>1. said' = said /\ heard'[Front].up = heard[Front].up
            /\ \A d \in Conns \ {Front} : heard'[d] = heard[d]
        <5>1. ClientStep(Front)
          BY <3>1 DEF ClientStep
        <5>2. heard'[Front].up = heard[Front].up
          BY <1>1, <5>1, ClientLines
        <5> QED BY <1>1, <3>1, <5>2 DEF Hears, ClientOpens
      <4> QED BY <1>1, <4>1
    <3>2. CASE SendLine(Last)
      <4>1. heard' = heard /\ said'[Last].up = said[Last].up
            /\ \A d \in Conns \ {Last} : said'[d] = said[d]
        <5>1. ServerStep(Last)
          BY <3>2 DEF ServerStep
        <5>2. said'[Last].up = said[Last].up
          BY <1>1, <5>1, ServerLines
        <5> QED BY <1>1, <3>2, <5>2 DEF SendLine, ServerSeals
      <4> QED BY <1>1, <4>1
    <3> QED BY <1>7, <3>1, <3>2
  <2> QED BY <1>2, <1>3, <2>1
<1> QED BY <1>4, <1>5, <1>6, <1>7, LineSteps

\* The server says a line, and only a genuine one does, or the client hears the next one.
LEMMA DownStep ==
    ASSUME ProxyInv, LinesInv, [Next]_vars
    PROVE  [Downwards!Say \/ Downwards!Hear]_<<Genuine(Front), said[Last].down, heard[Front].down>>
<1>1. /\ HandshakeTypeOK /\ Front \in Conns /\ Last \in Conns
      /\ LinesOK(Front)
      /\ said \in [Conns -> [up : Seq(Nat), down : Seq(Nat)]]
      /\ heard \in [Conns -> [up : Seq(Nat), down : Seq(Nat)]]
      /\ down[Front] \in Seq(RecordType)
  BY ProxyState DEF Last, HandshakeTypeOK, LinesInv
<1>2. creds' = creds /\ Last' = Last
  BY LineSteps
<1>3. Genuine(Front)' = Genuine(Front)
  BY <1>2 DEF Genuine
<1>4. CASE LinesRest
  BY <1>2, <1>3, <1>4 DEF LinesRest
<1>5. CASE SendLine(Last)
  <2> DEFINE c == Last
             line == Len(said[c].down) + 1
  <2>1. /\ said' = [said EXCEPT ![c].down = Append(@, line)] /\ heard' = heard
        /\ heard[c].up # <<>>
    BY <1>5 DEF SendLine, ServerSeals
  <2>2. said[c].down \in Seq(Nat) /\ line \in Nat
    <3>1. said[c].down \in Seq(Nat)
      BY <1>1
    <3> QED BY <3>1
  <2> HIDE DEF line
  <2>3. said'[c].down = Append(said[c].down, line)
    BY <1>1, <2>1, <2>2, LineAdded
  <2>4. Genuine(Front)
    BY <2>1, EndsAgree
  <2> DEFINE s == said[Last].down
             t == said'[Last'].down
  <2>5. t # <<>> /\ t = Append(s, t[Len(t)])
    <3>1. s \in Seq(Nat) /\ t = Append(s, line)
      BY <1>2, <2>2, <2>3
    <3> HIDE DEF s, t
    <3> QED BY <2>2, <3>1, OneLineSaid
  <2>6. heard'[Front].down = heard[Front].down
    BY <2>1
  <2> HIDE DEF s, t
  <2>7. Downwards!Say
    BY <1>3, <2>4, <2>5, <2>6 DEF Downwards!Say, s, t
  <2> QED BY <2>7
<1>6. CASE Hears(Front)
  <2> DEFINE line == Head(down[Front]).line
             l == Len(heard[Front].down)
  <2>1. /\ heard' = [heard EXCEPT ![Front].down = Append(@, line)] /\ said' = said
        /\ down[Front] # <<>> /\ client[Front].keys # None /\ Head(down[Front]).kind = "data"
        /\ Head(down[Front]).key = <<client[Front].keys, "s2c">>
    BY <1>6 DEF Hears, ClientOpens, Opens
  <2>2. line \in Nat /\ Head(down[Front]).key # None
    <3>1. client[Front].keys \in Maybe(Keys)
      BY <1>1 DEF HandshakeTypeOK, ClientType
    <3>2. Head(down[Front]) \in RecordType
      BY <1>1, <2>1, TailOf
    <3> QED BY <2>1, <3>1, <3>2, KeyIsNone, Received
  <2>3. l < Len(said[Front].down) /\ line = said[Front].down[l + 1]
    <3> DEFINE s == down[Front]
               spoken == said[Front].down
               listened == heard[Front].down
               key == <<SessionKeys(Front), "s2c">>
    <3>1. /\ s # <<>> /\ Head(s).kind = "data" /\ Head(s).key # None
          /\ DownGoes(Front) \in BOOLEAN
          /\ WireType(s, spoken, listened) /\ Wire(s, key, spoken, listened, DownGoes(Front))
      BY <1>1, <2>1, <2>2, LinesType DEF LinesOK
    <3> HIDE DEF s, spoken, listened, key
    <3>2. Len(listened) < Len(spoken) /\ Head(s).line = spoken[Len(listened) + 1]
      BY <3>1, WireHear
    <3> QED BY <3>2 DEF s, spoken, listened
  <2>4. /\ Len(said[Front].down) <= Len(said[Last].down)
        /\ \A k \in 1 .. Len(said[Front].down) : said[Front].down[k] = said[Last].down[k]
    BY EndsAgree
  <2>5. Len(said[Front].down) \in Nat /\ Len(said[Last].down) \in Nat /\ l \in Nat
    <3>1. said[Front].down \in Seq(Nat) /\ said[Last].down \in Seq(Nat)
          /\ heard[Front].down \in Seq(Nat)
      BY <1>1
    <3> QED BY <3>1
  <2>6. l < Len(said[Last].down) /\ l + 1 \in 1 .. Len(said[Front].down)
    <3> DEFINE m == Len(said[Front].down)
               n == Len(said[Last].down)
    <3>1. l < m /\ m <= n /\ l \in Nat /\ m \in Nat /\ n \in Nat
      BY <2>3, <2>4, <2>5
    <3> HIDE DEF l, m, n
    <3>2. l < n /\ l + 1 \in 1 .. m
      BY <3>1
    <3> QED BY <3>2 DEF m, n
  <2>7. line = said[Last].down[l + 1]
    BY <2>3, <2>4, <2>6
  <2> HIDE DEF line
  <2>8. heard'[Front].down = Append(heard[Front].down, line)
    BY <1>1, <2>1, <2>2, LineAdded
  <2>9. said'[Last'].down = said[Last].down
    BY <1>2, <2>1
  <2>10. Downwards!Hear
    BY <1>3, <2>6, <2>7, <2>8, <2>9 DEF Downwards!Hear
  <2> QED BY <2>10
<1>7. CASE Says(Front) \/ HandlesLine(Last)
  <2>1. said'[Last].down = said[Last].down /\ heard'[Front].down = heard[Front].down
    <3>1. CASE Says(Front)
      <4>1. heard' = heard /\ said'[Front].down = said[Front].down
            /\ \A d \in Conns \ {Front} : said'[d] = said[d]
        <5>1. ClientStep(Front)
          BY <3>1 DEF ClientStep
        <5>2. said'[Front].down = said[Front].down
          BY <1>1, <5>1, ClientLines
        <5> QED BY <1>1, <3>1, <5>2 DEF Says, ClientSeals
      <4> QED BY <1>1, <4>1
    <3>2. CASE HandlesLine(Last)
      <4>1. said' = said /\ heard'[Last].down = heard[Last].down
            /\ \A d \in Conns \ {Last} : heard'[d] = heard[d]
        <5>1. ServerStep(Last)
          BY <3>2 DEF ServerStep, LoopGoesOn
        <5>2. heard'[Last].down = heard[Last].down
          BY <1>1, <5>1, ServerLines
        <5> QED BY <1>1, <3>2, <5>2 DEF HandlesLine, ServerOpens
      <4> QED BY <1>1, <4>1
    <3> QED BY <1>7, <3>1, <3>2
  <2> QED BY <1>2, <1>3, <2>1
<1> QED BY <1>4, <1>5, <1>6, <1>7, LineSteps

\* From the client to the chat server and back, with the proxy between them or
\* not, and also when it alters a record: only a genuine server is spoken to or
\* speaks, and the lines of one side reach the other unchanged, once and in order.
THEOREM ProxyBothWays == Spec => BothWays
<1>1. Init => Upwards!Init /\ Downwards!Init
  <2> SUFFICES ASSUME Init PROVE Upwards!Init /\ Downwards!Init
    OBVIOUS
  <2>1. Front \in Conns /\ Last \in Conns
    BY ProxyAssumption DEF ProxyAssumption, Last
  <2>2. \A c \in Conns : /\ said[c].up = <<>> /\ said[c].down = <<>>
                         /\ heard[c].up = <<>> /\ heard[c].down = <<>>
    BY DEF Init, HandshakeInit
  <2>3. Genuine(Front) \in BOOLEAN
    BY DEF Genuine
  <2> QED BY <2>1, <2>2, <2>3 DEF Upwards!Init, Downwards!Init
<1>2. (ProxyInv /\ LinesInv) /\ [Next]_vars =>
        [Upwards!Say \/ Upwards!Hear]_<<Genuine(Front), said[Front].up, heard[Last].up>>
  BY UpStep
<1>3. (ProxyInv /\ LinesInv) /\ [Next]_vars =>
        [Downwards!Say \/ Downwards!Hear]_<<Genuine(Front), said[Last].down, heard[Front].down>>
  BY DownStep
<1>4. Spec => UpLines
  BY <1>1, <1>2, ProxyInvariance, LinesInvariance, PTL DEF Spec, UpLines, Upwards!Spec
<1>5. Spec => DownLines
  BY <1>1, <1>3, ProxyInvariance, LinesInvariance, PTL DEF Spec, DownLines, Downwards!Spec
<1> QED BY <1>4, <1>5 DEF BothWays
=============================================================================
