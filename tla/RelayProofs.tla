----------------------------- MODULE RelayProofs -----------------------------
(***************************************************************************)
(* Proofs about Relay, for any numbers of descriptors and names: its type  *)
(* invariant, that g_by_name is the inverse of the registered connections, *)
(* and, from the invariant of RelayStreams, what a connection is sent.     *)
(***************************************************************************)
EXTENDS RelayStreams, TLAPS, FiniteSetTheorems

Tags == {"OK", "ERR", "INFO", "FROM", "USERS", "ALERT"}

Sound(c) == c \in ConnType /\ c.flushed <= Len(c.stream)

\* d is c with another queue, or another want_close.
SameUser(c, d) == d.open = c.open /\ d.reg = c.reg /\ d.user = c.user

(***************************************************************************)
(* send_line, send_alert, the USERS reply, flush_out and want_close leave  *)
(* a Conn well formed and do not touch who is registered on it.            *)
(***************************************************************************)
LEMMA AppendKeeps ==
    ASSUME NEW c, Sound(c), NEW tag \in Tags, NEW msg \in MsgType \cup {NoMsg},
           NEW seq \in Nat
    PROVE  /\ Append(c.stream, Record(tag, msg, seq)) \in Seq(RecordType)
           /\ c.flushed <= Len(Append(c.stream, Record(tag, msg, seq)))
<1>1. c.stream \in Seq(RecordType) /\ c.flushed \in Nat
  BY DEF Sound, ConnType
<1>2. Record(tag, msg, seq) \in RecordType
  BY DEF Record, RecordType, Tags
<1> DEFINE r == Record(tag, msg, seq)
<1> HIDE DEF r
<1>3. ASSUME NEW s \in Seq(RecordType), NEW x \in RecordType
      PROVE  Append(s, x) \in Seq(RecordType) /\ Len(Append(s, x)) = Len(s) + 1
  OBVIOUS
<1>4. Append(c.stream, r) \in Seq(RecordType) /\ Len(Append(c.stream, r)) = Len(c.stream) + 1
  BY <1>1, <1>2, <1>3 DEF r
<1>5. Len(c.stream) \in Nat
  BY <1>1
<1> QED BY <1>1, <1>4, <1>5 DEF Sound, r

\* send_line: a record and a counter more, or want_close before the handshake is over.
LEMMA SendKeeps ==
    ASSUME NEW c, Sound(c), NEW tag \in Tags, NEW msg \in MsgType \cup {NoMsg}
    PROVE  Sound(SendLine(c, tag, msg)) /\ SameUser(c, SendLine(c, tag, msg))
<1>1. c \in ConnType /\ c.tx \in Nat
  BY DEF Sound, ConnType
<1> DEFINE s == Append(c.stream, Record(tag, msg, c.tx))
<1>2. s \in Seq(RecordType) /\ c.flushed <= Len(s)
  BY <1>1, AppendKeeps
<1> HIDE DEF s
<1>3. CASE c.up
  <2>1. SendLine(c, tag, msg) = [c EXCEPT !.stream = s, !.tx = c.tx + 1]
    BY <1>3 DEF SendLine, s
  <2>2. SendLine(c, tag, msg) \in ConnType
    <3> DEFINE d == [c EXCEPT !.stream = s]
    <3>1. d \in ConnType
      BY <1>1, <1>2 DEF ConnType
    <3>2. SendLine(c, tag, msg) = [d EXCEPT !.tx = c.tx + 1]
      BY <2>1
    <3>3. c.tx + 1 \in Nat
      BY <1>1
    <3> HIDE DEF d
    <3> QED BY <3>1, <3>2, <3>3 DEF ConnType
  <2>3. SendLine(c, tag, msg).stream = s /\ SendLine(c, tag, msg).flushed = c.flushed
    BY <1>1, <2>1 DEF ConnType
  <2>4. SameUser(c, SendLine(c, tag, msg))
    BY <1>1, <2>1 DEF SameUser, ConnType
  <2> QED BY <1>2, <2>2, <2>3, <2>4 DEF Sound
<1>4. CASE ~c.up
  <2>1. SendLine(c, tag, msg) = [c EXCEPT !.want = TRUE]
    BY <1>4 DEF SendLine
  <2> QED BY <1>1, <2>1 DEF Sound, SameUser, ConnType
<1> QED BY <1>3, <1>4

\* send_alert: an alert more, and want_close.
LEMMA AlertKeeps ==
    ASSUME NEW c, Sound(c)
    PROVE  Sound(SendAlert(c)) /\ SameUser(c, SendAlert(c))
<1>1. c \in ConnType
  BY DEF Sound
<1> DEFINE s == Append(c.stream, Record("ALERT", NoMsg, 0))
<1>2. s \in Seq(RecordType) /\ c.flushed <= Len(s)
  BY AppendKeeps DEF Tags
<1> HIDE DEF s
<1>3. SendAlert(c) = [c EXCEPT !.stream = s, !.want = TRUE]
  BY <1>1 DEF SendAlert, s, ConnType
<1> QED BY <1>1, <1>2, <1>3 DEF Sound, SameUser, ConnType

\* Setting want_close changes nothing else.
LEMMA CloseKeeps ==
    ASSUME NEW c, Sound(c)
    PROVE  Sound(Close(c)) /\ SameUser(c, Close(c))
BY DEF Sound, SameUser, Close, ConnType

\* The reply to /who, also when it is too long to be enqueued.
LEMMA UsersKeeps ==
    ASSUME NEW c, Sound(c)
    PROVE  Sound(SendUsers(c)) /\ SameUser(c, SendUsers(c))
<1>1. CASE Cardinality({n \in Names : byName[n] # NoFd}) <= WhoMax
  BY <1>1, SendKeeps DEF SendUsers, Tags
<1>2. CASE ~(Cardinality({n \in Names : byName[n] # NoFd}) <= WhoMax)
  <2>1. SendUsers(c) = [c EXCEPT !.tx = @ + 1]
    BY <1>2 DEF SendUsers
  <2> QED BY <2>1 DEF Sound, SameUser, ConnType
<1> QED BY <1>1, <1>2

\* flush_out: the socket takes the queue or nothing of it.
LEMMA FlushKeeps ==
    ASSUME NEW c, NEW f, Sound(c)
    PROVE  Sound(Flushed(c, f)) /\ SameUser(c, Flushed(c, f))
<1>1. c \in ConnType /\ Len(c.stream) \in Nat
  BY DEF Sound, ConnType
<1>2. CASE f \in slow
  BY <1>2 DEF Flushed, SameUser
<1>3. CASE f \notin slow
  <2> DEFINE n == Len(c.stream)
  <2>1. Flushed(c, f) = [c EXCEPT !.flushed = n]
    BY <1>3 DEF Flushed
  <2>2. n \in Nat /\ n <= Len(c.stream)
    BY <1>1
  <2> HIDE DEF n
  <2> QED BY <1>1, <2>1, <2>2 DEF Sound, SameUser, ConnType
<1> QED BY <1>2, <1>3

\* An unused descriptor and a connection just accepted are well formed.
LEMMA FreshConns == Sound(NoConn) /\ Sound(NewConn)
<1>1. <<>> \in Seq(RecordType) /\ Len(<<>>) = 0
  OBVIOUS
<1>2. NoConn \in ConnType /\ NoConn.stream = <<>> /\ NoConn.flushed = 0
  BY <1>1 DEF NoConn, ConnType
<1>3. Sound(NoConn)
  BY <1>1, <1>2 DEF Sound
<1>4. NewConn \in ConnType /\ NewConn.stream = <<>> /\ NewConn.flushed = 0
  BY <1>2 DEF NewConn, ConnType
<1> QED BY <1>1, <1>3, <1>4 DEF Sound

\* All connections well formed: the part of TypeOK the actions work on.
Conns(cs) == cs \in [Fds -> ConnType] /\ \A f \in Fds : Sound(cs[f])

\* The part of TypeOK the lemmas below work on.
LEMMA ConnsType == TypeOK => Conns(conns)
BY DEF TypeOK, Conns, Sound

\* broadcast sends to some connections and registers nobody.
LEMMA BroadcastKeeps ==
    ASSUME NEW cs, Conns(cs), NEW except
    PROVE  /\ Conns(Broadcast(cs, "INFO", except))
           /\ \A g \in Fds : SameUser(cs[g], Broadcast(cs, "INFO", except)[g])
<1> DEFINE b == Broadcast(cs, "INFO", except)
<1>1. \A g \in Fds : b[g] = IF g # except /\ cs[g].reg
                            THEN SendLine(cs[g], "INFO", NoMsg) ELSE cs[g]
  BY DEF Broadcast
<1>2. ASSUME NEW g \in Fds PROVE Sound(b[g]) /\ SameUser(cs[g], b[g])
  <2>1. Sound(cs[g])
    BY DEF Conns
  <2>2. /\ Sound(SendLine(cs[g], "INFO", NoMsg))
        /\ SameUser(cs[g], SendLine(cs[g], "INFO", NoMsg))
    BY <2>1, SendKeeps DEF Tags
  <2>3. SameUser(cs[g], cs[g])
    BY DEF SameUser
  <2> QED BY <1>1, <2>1, <2>2, <2>3
<1>3. b = [g \in Fds |-> b[g]]
  BY DEF Broadcast
<1> HIDE DEF b
<1>4. b \in [Fds -> ConnType]
  BY <1>2, <1>3 DEF Sound
<1> QED BY <1>2, <1>4 DEF Conns, b

-----------------------------------------------------------------------------
(* Steps that register nobody and drop nobody. *)

\* The loop's own state stays on open connections.
Moves ==
    /\ revents' \in [Fds -> SUBSET {"in", "out", "err"}]
    /\ \A g \in Fds : revents'[g] # {} => revents[g] # {}
    /\ doomed' \subseteq Fds
    /\ \A g \in doomed' : conns[g].open
    /\ turn' \in [fd : Fds \cup {NoFd}, at : {"idle", "read", "finish"}]
    /\ turn'.at = "idle" <=> turn'.fd = NoFd
    /\ turn'.fd \in Fds => conns[turn'.fd].open

\* So do the clients.
Talks ==
    /\ client' \in [Fds -> [st : {"off", "connecting", "on", "gone"},
                            inc : Nat, count : [Names -> Nat], asked : Nat]]
    /\ \A g \in Fds : client'[g].st \in {"on", "gone"} <=> client[g].st \in {"on", "gone"}
    /\ toServer' \in [Fds -> Seq(RequestType)]
    /\ slow' \subseteq Fds
    /\ requests' \in Nat

\* A step that opens and closes no connection keeps the invariant if it keeps
\* the names inverse.
LEMMA OpenStep ==
    ASSUME RelayInv, Moves, Talks, byName' \in [Names -> Fds \cup {NoFd}], Conns(conns'),
           NamesInverse', \A g \in Fds : conns'[g].open = conns[g].open
    PROVE  RelayInv'
<1>1. ServesOpen /\ ClientsMatch
  BY DEF RelayInv
<1>2. TypeOK'
  BY DEF TypeOK, Moves, Talks, Conns, Sound
<1>3. ServesOpen'
  <2>1. (Idle' <=> turn'.fd = NoFd) /\ (turn'.fd \in Fds => conns'[turn'.fd].open)
    BY DEF Idle, Moves
  <2>2. \A g \in Fds : revents'[g] # {} => conns'[g].open
    BY <1>1 DEF ServesOpen, Moves
  <2>3. \A g \in Fds : g \in doomed' => conns'[g].open
    BY DEF Moves
  <2> QED BY <2>1, <2>2, <2>3 DEF ServesOpen
<1>4. ClientsMatch'
  BY <1>1 DEF ClientsMatch, Talks
<1> QED BY <1>2, <1>3, <1>4 DEF RelayInv

\* A step that registers nobody and drops nobody keeps the invariant.
LEMMA QuietStep ==
    ASSUME RelayInv, Moves, Talks, byName' = byName, Conns(conns'),
           \A g \in Fds : SameUser(conns[g], conns'[g])
    PROVE  RelayInv'
<1>1. byName \in [Names -> Fds \cup {NoFd}] /\ NamesInverse
  BY DEF RelayInv, TypeOK
<1>2. \A g \in Fds : /\ conns'[g].open = conns[g].open /\ conns'[g].reg = conns[g].reg
                     /\ conns'[g].user = conns[g].user
  BY DEF SameUser
<1>3. NamesInverse'
  <2>1. ASSUME NEW g \in Fds, conns'[g].reg
        PROVE  conns'[g].open /\ conns'[g].user \in Names /\ byName'[conns'[g].user] = g
    BY <1>1, <1>2, <2>1 DEF NamesInverse
  <2>2. ASSUME NEW n \in Names, byName'[n] # NoFd
        PROVE  conns'[byName'[n]].reg /\ conns'[byName'[n]].user = n
    <3>1. byName[n] \in Fds
      BY <1>1, <2>2
    <3> QED BY <1>1, <1>2, <2>2, <3>1 DEF NamesInverse
  <2> QED BY <2>1, <2>2 DEF NamesInverse
<1> QED BY <1>1, <1>2, <1>3, OpenStep

\* Connections left alone are well formed and registered as before.
LEMMA SameConns == TypeOK => Conns(conns) /\ \A g \in Fds : SameUser(conns[g], conns[g])
BY ConnsType DEF SameUser

\* Replacing one connection by a well-formed one of the same user.
LEMMA OneConn ==
    ASSUME TypeOK, NEW f \in Fds, NEW c, Sound(c), SameUser(conns[f], c),
           conns' = [conns EXCEPT ![f] = c]
    PROVE  Conns(conns') /\ \A g \in Fds : SameUser(conns[g], conns'[g])
<1>1. Conns(conns)
  BY ConnsType
<1>2. /\ conns' \in [Fds -> ConnType]
      /\ \A g \in Fds : conns'[g] = IF g = f THEN c ELSE conns[g]
  BY <1>1 DEF Conns, Sound
<1>3. ASSUME NEW g \in Fds PROVE SameUser(conns[g], conns'[g])
  <2>1. CASE g = f
    <3>1. conns'[g] = c
      BY <1>2, <2>1
    <3> QED BY <2>1, <3>1
  <2>2. CASE g # f
    <3>1. conns'[g] = conns[g]
      BY <1>2, <2>2
    <3> QED BY <3>1 DEF SameUser
  <2> QED BY <2>1, <2>2
<1>4. ASSUME NEW g \in Fds PROVE Sound(conns'[g])
  BY <1>1, <1>2 DEF Conns
<1> QED BY <1>2, <1>3, <1>4 DEF Conns

\* Only an open connection is doomed.
LEMMA Dooms ==
    ASSUME RelayInv, NEW f \in Fds, conns[f].open, Doom(f),
           revents' \in [Fds -> SUBSET {"in", "out", "err"}],
           \A g \in Fds : revents'[g] # {} => revents[g] # {}
    PROVE  Moves
BY RelayAssumption DEF RelayAssumption, RelayInv, TypeOK, ServesOpen, Doom, Moves

\* The loop goes on with an open connection, or with none.
LEMMA GoesOn ==
    ASSUME RelayInv, NEW f \in Fds \cup {NoFd}, NEW at \in {"idle", "read", "finish"},
           at = "idle" <=> f = NoFd, f \in Fds => conns[f].open, Goes(f, at),
           revents' \in [Fds -> SUBSET {"in", "out", "err"}],
           \A g \in Fds : revents'[g] # {} => revents[g] # {}
    PROVE  Moves
BY DEF RelayInv, TypeOK, ServesOpen, Goes, Moves

\* What the server does alone leaves the clients alone.
LEMMA QuietClients ==
    ASSUME TypeOK, UNCHANGED <<client, toServer, slow, requests>>
    PROVE  Talks
BY DEF TypeOK, Talks

-----------------------------------------------------------------------------
(* The loop. *)

\* poll and accept_new: a descriptor that is given out has no connection.
LEMMA PollKeeps == RelayInv /\ Poll => RelayInv'
<1> SUFFICES ASSUME RelayInv, Poll PROVE RelayInv'
  OBVIOUS
<1>1. TypeOK /\ NamesInverse /\ ServesOpen /\ ClientsMatch /\ Conns(conns)
  BY ConnsType DEF RelayInv
<1>2. \A g \in Fds : revents'[g] \subseteq {"in", "out", "err"} /\ (revents'[g] # {} => conns[g].open)
  BY DEF Poll, Events
<1>3. revents' \in [Fds -> SUBSET {"in", "out", "err"}]
  BY <1>2 DEF Poll
<1>4. \A g \in Fds : conns'[g] = IF g \in Connecting THEN NewConn ELSE conns[g]
  BY DEF Poll
<1>5. \A g \in Connecting : g \in Fds /\ ~conns[g].open /\ ~conns[g].reg
  <2>1. \A g \in Connecting : g \in Fds /\ client[g].st = "connecting"
    BY DEF Connecting
  <2> QED BY <1>1, <2>1 DEF ClientsMatch, NamesInverse
<1>6. Conns(conns')
  <2>1. \A g \in Fds : Sound(conns'[g])
    BY <1>1, <1>4, FreshConns DEF Conns
  <2>2. conns' = [g \in Fds |-> IF g \in Connecting THEN NewConn ELSE conns[g]]
    BY DEF Poll
  <2>3. conns' \in [Fds -> ConnType]
    BY <1>4, <2>1, <2>2 DEF Sound
  <2> QED BY <2>1, <2>3 DEF Conns
<1>7. NewConn.open = TRUE /\ NewConn.reg = FALSE
  BY DEF NewConn, NoConn
<1>8. client' \in [Fds -> [st : {"off", "connecting", "on", "gone"},
                          inc : Nat, count : [Names -> Nat], asked : Nat]]
  BY <1>1, ZenonT(30) DEF Poll, TypeOK
<1>9. \A g \in Fds : client'[g].st = IF g \in Connecting THEN "on" ELSE client[g].st
  BY <1>1 DEF Poll, TypeOK
<1>10. UNCHANGED <<byName, turn, doomed, toServer, slow, requests>> /\ Idle /\ doomed = {}
  BY DEF Poll, PassOver
<1>11. TypeOK'
  BY <1>1, <1>3, <1>6, <1>8, <1>10 DEF TypeOK, Conns, Sound
<1>12. NamesInverse'
  <2>1. ASSUME NEW g \in Fds, conns'[g].reg
        PROVE  conns'[g].open /\ conns'[g].user \in Names /\ byName'[conns'[g].user] = g
    <3>1. conns'[g] = conns[g]
      BY <1>4, <1>7, <2>1
    <3> QED BY <1>1, <1>10, <2>1, <3>1 DEF NamesInverse
  <2>2. ASSUME NEW n \in Names, byName'[n] # NoFd
        PROVE  conns'[byName'[n]].reg /\ conns'[byName'[n]].user = n
    <3>1. byName[n] \in Fds /\ conns[byName[n]].reg /\ conns[byName[n]].user = n
      BY <1>1, <1>10, <2>2 DEF NamesInverse, TypeOK
    <3>2. byName[n] \notin Connecting
      BY <1>5, <3>1
    <3>3. conns'[byName[n]] = conns[byName[n]]
      BY <1>4, <3>1, <3>2
    <3> QED BY <1>10, <3>1, <3>3
  <2> QED BY <2>1, <2>2 DEF NamesInverse
<1>13. ServesOpen'
  <2>1. \A g \in Fds : conns[g].open => conns'[g].open
    BY <1>4, <1>7
  <2>2. /\ Idle' <=> turn'.fd = NoFd
        /\ turn'.fd \in Fds => conns'[turn'.fd].open
    BY <1>1, <1>10, <2>1 DEF ServesOpen, Idle
  <2>3. \A g \in Fds : revents'[g] # {} \/ g \in doomed' => conns'[g].open
    BY <1>2, <1>10, <2>1
  <2> QED BY <2>2, <2>3 DEF ServesOpen
<1>14. ClientsMatch'
  BY <1>1, <1>4, <1>7, <1>9 DEF ClientsMatch
<1> QED BY <1>11, <1>12, <1>13, <1>14 DEF RelayInv

\* The first part of a socket's service keeps the invariant.
LEMMA ServeKeeps == \A f \in Fds : RelayInv /\ Serve(f) => RelayInv'
<1> SUFFICES ASSUME NEW f \in Fds, RelayInv, Serve(f) PROVE RelayInv'
  OBVIOUS
<1>1. TypeOK /\ conns[f].open
  BY DEF RelayInv, ServesOpen, Serve
<1>2. /\ revents' \in [Fds -> SUBSET {"in", "out", "err"}]
      /\ \A g \in Fds : revents'[g] # {} => revents[g] # {}
  BY <1>1 DEF Serve, TypeOK
<1>3. Talks /\ byName' = byName
  BY <1>1, QuietClients DEF Serve
<1>4. ASSUME Doom(f), UNCHANGED conns PROVE RelayInv'
  <2>1. Moves
    BY <1>1, <1>2, <1>4, Dooms
  <2>2. Conns(conns') /\ \A g \in Fds : SameUser(conns[g], conns'[g])
    BY <1>1, <1>4, SameConns
  <2> QED BY <1>3, <2>1, <2>2, QuietStep
<1>5. ASSUME Goes(f, IF "in" \in revents[f] THEN "read" ELSE "finish"),
             conns' = [conns EXCEPT ![f] = Flushed(@, f)] \/ UNCHANGED conns
      PROVE  RelayInv'
  <2>1. Moves
    <3> DEFINE at == IF "in" \in revents[f] THEN "read" ELSE "finish"
    <3>1. at \in {"read", "finish"} /\ Goes(f, at) /\ f # NoFd
      BY <1>5, RelayAssumption DEF RelayAssumption
    <3> HIDE DEF at
    <3> QED BY <1>1, <1>2, <3>1, GoesOn
  <2>2. Conns(conns') /\ \A g \in Fds : SameUser(conns[g], conns'[g])
    <3>1. CASE UNCHANGED conns
      BY <1>1, <3>1, SameConns
    <3>2. CASE conns' = [conns EXCEPT ![f] = Flushed(conns[f], f)]
      <4>1. Sound(conns[f])
        BY <1>1, ConnsType DEF Conns
      <4>2. Sound(Flushed(conns[f], f)) /\ SameUser(conns[f], Flushed(conns[f], f))
        BY <4>1, FlushKeeps
      <4> QED BY <1>1, <3>2, <4>2, OneConn
    <3> QED BY <1>5, <3>1, <3>2
  <2> QED BY <1>3, <2>1, <2>2, QuietStep
<1> QED BY <1>4, <1>5 DEF Serve

\* So does its end, and a read that fails.
LEMMA FinishKeeps == \A f \in Fds : RelayInv /\ (Finish(f) \/ ReadFails(f)) => RelayInv'
<1> SUFFICES ASSUME NEW f \in Fds, RelayInv, Finish(f) \/ ReadFails(f) PROVE RelayInv'
  OBVIOUS
<1>1. TypeOK /\ turn.fd = f /\ UNCHANGED <<byName, revents>>
  BY DEF RelayInv, Finish, ReadFails, ReadsEnd
<1>2. conns[f].open
  BY <1>1 DEF RelayInv, ServesOpen
<1>3. Talks
  BY <1>1, QuietClients DEF Finish, ReadFails
<1>4. /\ revents' \in [Fds -> SUBSET {"in", "out", "err"}]
      /\ \A g \in Fds : revents'[g] # {} => revents[g] # {}
  BY <1>1 DEF TypeOK
<1>5. Sound(conns[f])
  BY <1>1, ConnsType DEF Conns
<1>6. Moves
  <2>1. ASSUME Doom(f) PROVE Moves
    BY <1>2, <1>4, <2>1, Dooms
  <2>2. ASSUME Goes(NoFd, "idle") PROVE Moves
    BY <1>4, <2>2, RelayAssumption, GoesOn DEF RelayAssumption
  <2>3. Doom(f) \/ Goes(NoFd, "idle")
    BY DEF Finish, ReadFails
  <2> QED BY <2>1, <2>2, <2>3
<1>7. Conns(conns') /\ \A g \in Fds : SameUser(conns[g], conns'[g])
  <2>1. CASE UNCHANGED conns
    BY <1>1, <2>1, SameConns
  <2>2. CASE conns' = [conns EXCEPT ![f] = Flushed(conns[f], f)]
    <3>1. Sound(Flushed(conns[f], f)) /\ SameUser(conns[f], Flushed(conns[f], f))
      BY <1>5, FlushKeeps
    <3> QED BY <1>1, <2>2, <3>1, OneConn
  <2> QED BY <2>1, <2>2 DEF Finish, ReadFails
<1> QED BY <1>1, <1>3, <1>6, <1>7, QuietStep

-----------------------------------------------------------------------------
(* One record. *)

\* The record comes from an open connection and only toServer changes with it.
LEMMA HandlesKeeps ==
    ASSUME RelayInv, NEW f \in Fds, NEW verbs, Handles(f, verbs)
    PROVE  /\ TypeOK /\ conns[f].open /\ Sound(conns[f]) /\ Talks
           /\ Head(toServer[f]) \in RequestType
           /\ revents' \in [Fds -> SUBSET {"in", "out", "err"}]
           /\ \A g \in Fds : revents'[g] # {} => revents[g] # {}
<1>1. TypeOK /\ turn.fd = f /\ UNCHANGED <<revents, client, slow, requests>>
  BY DEF RelayInv, Handles
<1>2. conns[f].open
  BY <1>1 DEF RelayInv, ServesOpen
<1>3. Sound(conns[f])
  BY <1>1, ConnsType DEF Conns
<1>4. toServer[f] \in Seq(RequestType) /\ toServer[f] # <<>>
  BY <1>1 DEF TypeOK, Handles
<1>5. \A q \in Seq(RequestType) :
          q # <<>> => Head(q) \in RequestType /\ Tail(q) \in Seq(RequestType)
  OBVIOUS
<1>6. toServer' = [toServer EXCEPT ![f] = Tail(toServer[f])]
  BY DEF Handles
<1>7. toServer' \in [Fds -> Seq(RequestType)]
  <2>1. toServer \in [Fds -> Seq(RequestType)] /\ Tail(toServer[f]) \in Seq(RequestType)
    BY <1>1, <1>4, <1>5 DEF TypeOK
  <2> HIDE DEF RequestType
  <2> QED BY <1>6, <2>1
<1>8. Talks
  BY <1>1, <1>7 DEF TypeOK, Talks
<1> QED BY <1>1, <1>2, <1>3, <1>4, <1>5, <1>8 DEF TypeOK

\* After a record the loop reads on or finishes with the same connection.
LEMMA DoneKeeps ==
    ASSUME RelayInv, NEW f \in Fds, NEW verbs, Handles(f, verbs), NEW cs, Done(f, cs)
    PROVE  Moves
<1> DEFINE at == IF cs[f].want THEN "finish" ELSE "read"
<1>1. at \in {"read", "finish"} /\ Goes(f, at) /\ f # NoFd
  BY RelayAssumption DEF RelayAssumption, Done
<1> HIDE DEF at
<1> QED BY <1>1, HandlesKeeps, GoesOn

\* A record that changes only its own connection's queue keeps the invariant.
LEMMA AnswerKeeps ==
    ASSUME RelayInv, NEW f \in Fds, NEW verbs, Handles(f, verbs),
           NEW c, Sound(c), SameUser(conns[f], c), Answers(f, c)
    PROVE  RelayInv'
<1>1. TypeOK /\ Talks
  BY HandlesKeeps
<1>2. Moves
  BY DoneKeeps DEF Answers
<1>3. conns' = [conns EXCEPT ![f] = c] /\ byName' = byName
  BY DEF Answers, Done
<1>4. Conns(conns') /\ \A g \in Fds : SameUser(conns[g], conns'[g])
  BY <1>1, <1>3, OneConn
<1> QED BY <1>1, <1>2, <1>3, <1>4, QuietStep

\* A line and then want_close.
LEMMA SendThenClose ==
    ASSUME NEW c, Sound(c), NEW tag \in Tags, NEW msg \in MsgType \cup {NoMsg}
    PROVE  LET d == Close(SendLine(c, tag, msg)) IN Sound(d) /\ SameUser(c, d)
<1> DEFINE s == SendLine(c, tag, msg)
<1>1. Sound(s) /\ SameUser(c, s)
  BY SendKeeps
<1> HIDE DEF s
<1>2. Sound(Close(s)) /\ SameUser(s, Close(s))
  BY <1>1, CloseKeeps
<1> QED BY <1>1, <1>2 DEF SameUser, s

\* Every reply to the sender alone keeps the invariant.
LEMMA RepliesKeep ==
    ASSUME RelayInv, NEW f \in Fds,
           \/ Handshake(f) \/ HandshakeFails(f) \/ MustLogin(f) \/ LoginAgain(f)
           \/ LoginRefused(f) \/ NoSuchUser(f) \/ Who(f) \/ Quit(f) \/ Unknown(f)
    PROVE  RelayInv'
<1>1. Sound(conns[f])
  BY ConnsType DEF RelayInv, Conns
<1>2. "ERR" \in Tags /\ NoMsg \in MsgType \cup {NoMsg}
  BY DEF Tags
<1> DEFINE c == conns[f]
           err == SendLine(conns[f], "ERR", NoMsg)
           up == [conns[f] EXCEPT !.up = TRUE]
<1>3. Sound(err) /\ SameUser(c, err)
  BY <1>1, <1>2, SendKeeps
<1>4. Sound(Close(err)) /\ SameUser(c, Close(err))
  BY <1>1, <1>2, SendThenClose
<1>5. Sound(up) /\ SameUser(c, up)
  BY <1>1 DEF Sound, SameUser, ConnType
<1> HIDE DEF err, up
<1>6. CASE Handshake(f)
  <2>1. Handles(f, {"handshake"}) /\ Answers(f, up)
    BY <1>6 DEF Handshake, up
  <2> QED BY <1>5, <2>1, AnswerKeeps
<1>7. CASE HandshakeFails(f)
  <2>1. Handles(f, {"handshake"}) /\ Answers(f, SendAlert(conns[f]))
    BY <1>7 DEF HandshakeFails
  <2>2. Sound(SendAlert(conns[f])) /\ SameUser(c, SendAlert(conns[f]))
    BY <1>1, AlertKeeps
  <2> QED BY <2>1, <2>2, AnswerKeeps
<1>8. CASE MustLogin(f)
  <2>1. Handles(f, Commands \ {"LOGIN"}) /\ Answers(f, Close(err))
    BY <1>8 DEF MustLogin, err
  <2> QED BY <1>4, <2>1, AnswerKeeps
<1>9. CASE LoginAgain(f)
  <2>1. Handles(f, {"LOGIN"}) /\ Answers(f, err)
    BY <1>9 DEF LoginAgain, err
  <2> QED BY <1>3, <2>1, AnswerKeeps
<1>10. CASE LoginRefused(f)
  <2>1. Handles(f, {"LOGIN"}) /\ Answers(f, Close(err))
    BY <1>10 DEF LoginRefused, err
  <2> QED BY <1>4, <2>1, AnswerKeeps
<1>11. CASE NoSuchUser(f)
  <2>1. Handles(f, {"MSG"}) /\ Answers(f, err)
    BY <1>11 DEF NoSuchUser, err
  <2> QED BY <1>3, <2>1, AnswerKeeps
<1>12. CASE Who(f)
  <2>1. Handles(f, {"WHO"}) /\ Answers(f, SendUsers(conns[f]))
    BY <1>12 DEF Who
  <2>2. Sound(SendUsers(conns[f])) /\ SameUser(c, SendUsers(conns[f]))
    BY <1>1, UsersKeeps
  <2> QED BY <2>1, <2>2, AnswerKeeps
<1>13. CASE Quit(f)
  <2>1. Handles(f, {"QUIT"}) /\ Answers(f, Close(conns[f]))
    BY <1>13 DEF Quit
  <2>2. Sound(Close(conns[f])) /\ SameUser(c, Close(conns[f]))
    BY <1>1, CloseKeeps
  <2> QED BY <2>1, <2>2, AnswerKeeps
<1>14. CASE Unknown(f)
  <2>1. Handles(f, {"other"}) /\ Answers(f, err)
    BY <1>14 DEF Unknown, err
  <2> QED BY <1>3, <2>1, AnswerKeeps
<1> QED BY <1>6, <1>7, <1>8, <1>9, <1>10, <1>11, <1>12, <1>13, <1>14

\* A record that ends the connection dooms it and changes nothing else.
LEMMA RejectsKeep ==
    ASSUME RelayInv, NEW f \in Fds, Rejects(f)
    PROVE  RelayInv'
<1>1. PICK verbs : Handles(f, verbs)
  BY DEF Rejects
<1>2. Moves
  BY <1>1, HandlesKeeps, Dooms DEF Rejects
<1>3. Talks /\ TypeOK
  BY <1>1, HandlesKeeps
<1>4. UNCHANGED <<conns, byName>>
  BY DEF Rejects
<1>5. Conns(conns') /\ \A g \in Fds : SameUser(conns[g], conns'[g])
  BY <1>3, <1>4, SameConns
<1> QED BY <1>2, <1>3, <1>4, <1>5, QuietStep

\* handle_msg puts the message on one connection's queue.
LEMMA RelaysKeep ==
    ASSUME RelayInv, NEW f \in Fds, Relays(f)
    PROVE  RelayInv'
<1> DEFINE m == Head(toServer[f]).msg
           g == byName[m.to]
<1>1. Handles(f, {"MSG"}) /\ Head(toServer[f]).verb = "MSG"
  BY DEF Relays, Handles
<1>2. TypeOK /\ Talks /\ Head(toServer[f]) \in RequestType
  BY <1>1, HandlesKeeps
<1>3. m \in MsgType
  BY <1>1, <1>2 DEF RequestType
<1>4. g \in Fds
  <2>1. m.to \in Names /\ byName[m.to] # NoFd
    BY DEF Relays
  <2> QED BY <1>2, <2>1 DEF TypeOK
<1>5. Moves
  BY <1>1, DoneKeeps DEF Relays
<1>6. conns' = [conns EXCEPT ![g] = SendLine(conns[g], "FROM", m)] /\ byName' = byName
  BY DEF Relays, Done, RelayTo
<1> HIDE DEF m, g
<1>7. Sound(SendLine(conns[g], "FROM", m)) /\ SameUser(conns[g], SendLine(conns[g], "FROM", m))
  <2>1. Sound(conns[g])
    BY <1>2, <1>4, ConnsType DEF Conns
  <2> QED BY <1>3, <2>1, SendKeeps DEF Tags
<1>8. Conns(conns') /\ \A h \in Fds : SameUser(conns[h], conns'[h])
  BY <1>2, <1>4, <1>6, <1>7, OneConn
<1> QED BY <1>2, <1>5, <1>6, <1>8, QuietStep

\* The new name points to f, and f is registered under it; nobody had it.
LEMMA LoginKeeps ==
    ASSUME RelayInv, NEW f \in Fds, Login(f)
    PROVE  RelayInv'
<1> DEFINE name == Head(toServer[f]).name
           r == Registered(conns[f], name)
           c == SendLine(r, "OK", NoMsg)
           cs == [conns EXCEPT ![f] = c]
           told == Broadcast(cs, "INFO", f)
<1>1. Handles(f, {"LOGIN"})
  BY DEF Login
<1>2. TypeOK /\ Talks /\ NamesInverse /\ conns[f].open /\ Sound(conns[f])
  BY <1>1, HandlesKeeps DEF RelayInv
<1>3. name \in Names /\ byName[name] = NoFd /\ ~conns[f].reg
  BY DEF Login, MayTake
<1>4. conns' = told /\ byName' = [byName EXCEPT ![name] = f]
  BY DEF Login, Done
<1>5. Moves
  BY <1>1, DoneKeeps DEF Login
<1> HIDE DEF name
<1>6. Sound(r) /\ r.open /\ r.reg /\ r.user = name
  BY <1>2, <1>3 DEF Sound, ConnType, Registered
<1> HIDE DEF r
<1>7. Sound(c) /\ c.open /\ c.reg /\ c.user = name
  BY <1>6, SendKeeps DEF SameUser, Tags
<1> HIDE DEF c
<1>8. Conns(cs) /\ cs[f] = c /\ \A g \in Fds : g # f => cs[g] = conns[g]
  <2>1. Conns(conns)
    BY <1>2, ConnsType
  <2>2. cs \in [Fds -> ConnType] /\ cs[f] = c /\ \A g \in Fds : g # f => cs[g] = conns[g]
    BY <1>7, <2>1 DEF Conns, Sound
  <2> HIDE DEF cs
  <2>3. \A g \in Fds : Sound(cs[g])
    BY <1>7, <2>1, <2>2 DEF Conns
  <2> QED BY <2>2, <2>3 DEF Conns
<1> HIDE DEF cs
<1>9. Conns(conns') /\ \A g \in Fds : SameUser(cs[g], conns'[g])
  BY <1>4, <1>8, BroadcastKeeps
<1>10. /\ conns'[f].open /\ conns'[f].reg /\ conns'[f].user = name
       /\ \A g \in Fds : g # f => SameUser(conns[g], conns'[g])
  BY <1>7, <1>8, <1>9 DEF SameUser
<1>11. /\ byName' \in [Names -> Fds \cup {NoFd}] /\ byName'[name] = f
       /\ \A n \in Names : n # name => byName'[n] = byName[n]
  BY <1>2, <1>3, <1>4 DEF TypeOK
<1>12. NamesInverse'
  <2>1. ASSUME NEW g \in Fds, conns'[g].reg
        PROVE  conns'[g].open /\ conns'[g].user \in Names /\ byName'[conns'[g].user] = g
    <3>1. CASE g = f
      BY <1>3, <1>10, <1>11, <3>1
    <3>2. CASE g # f
      <4>1. /\ conns[g].reg /\ conns'[g].open = conns[g].open
            /\ conns'[g].user = conns[g].user
        BY <1>10, <2>1, <3>2 DEF SameUser
      <4>2. conns[g].open /\ conns[g].user \in Names /\ byName[conns[g].user] = g
        BY <1>2, <4>1 DEF NamesInverse
      <4>3. g # NoFd
        BY RelayAssumption DEF RelayAssumption
      <4>4. conns[g].user # name
        BY <1>3, <4>2, <4>3
      <4>5. byName'[conns[g].user] = byName[conns[g].user]
        BY <1>11, <4>2, <4>4
      <4> QED BY <4>1, <4>2, <4>5
    <3> QED BY <3>1, <3>2
  <2>2. ASSUME NEW n \in Names, byName'[n] # NoFd
        PROVE  conns'[byName'[n]].reg /\ conns'[byName'[n]].user = n
    <3>1. CASE n = name
      BY <1>10, <1>11, <3>1
    <3>2. CASE n # name
      <4>1. byName'[n] = byName[n] /\ byName[n] \in Fds
        BY <1>2, <1>11, <2>2, <3>2 DEF TypeOK
      <4>2. conns[byName[n]].reg /\ conns[byName[n]].user = n
        BY <1>2, <2>2, <4>1 DEF NamesInverse
      <4>3. byName[n] # f
        BY <1>3, <4>2
      <4> QED BY <1>10, <4>1, <4>2, <4>3 DEF SameUser
    <3> QED BY <3>1, <3>2
  <2> QED BY <2>1, <2>2 DEF NamesInverse
<1>13. \A g \in Fds : conns'[g].open = conns[g].open
  <2> SUFFICES ASSUME NEW g \in Fds PROVE conns'[g].open = conns[g].open
    OBVIOUS
  <2>1. CASE g # f
    BY <1>10, <2>1 DEF SameUser
  <2>2. CASE g = f
    <3>1. conns'[f] \in ConnType /\ conns[f] \in ConnType
      BY <1>2, <1>9 DEF Sound, Conns
    <3> QED BY <1>2, <1>10, <2>2, <3>1 DEF ConnType
  <2> QED BY <2>1, <2>2
<1> QED BY <1>2, <1>5, <1>9, <1>11, <1>12, <1>13, OpenStep

-----------------------------------------------------------------------------
(* Dropping a connection, and the clients. *)

\* The name leaves g_by_name and the connection is closed in the same step.
LEMMA DropKeeps ==
    ASSUME RelayInv, NEW f \in Fds, Drop(f)
    PROVE  RelayInv'
<1> DEFINE told == IF conns[f].reg THEN Broadcast(conns, "INFO", f) ELSE conns
<1>1. /\ TypeOK /\ NamesInverse /\ ServesOpen /\ ClientsMatch
      /\ Conns(conns) /\ Sound(conns[f])
  BY ConnsType DEF RelayInv, Conns
<1>2. /\ Idle /\ \A g \in Fds : revents[g] = {}
      /\ f \in doomed /\ doomed' = doomed \ {f}
      /\ UNCHANGED <<revents, turn, requests>>
  BY DEF Drop, PassOver
<1>3. conns' = [told EXCEPT ![f] = NoConn]
  BY DEF Drop
<1>4. Conns(told) /\ \A g \in Fds : SameUser(conns[g], told[g])
  <2>1. CASE conns[f].reg
    BY <1>1, <2>1, BroadcastKeeps
  <2>2. CASE ~conns[f].reg
    BY <1>1, <2>2 DEF SameUser
  <2> QED BY <2>1, <2>2
<1> HIDE DEF told
<1>5. /\ conns' \in [Fds -> ConnType] /\ conns'[f] = NoConn
      /\ \A g \in Fds : g # f => conns'[g] = told[g]
  BY <1>3, <1>4, FreshConns DEF Conns, Sound
<1>6. Conns(conns')
  <2>1. \A g \in Fds : Sound(conns'[g])
    BY <1>4, <1>5, FreshConns DEF Conns
  <2> QED BY <1>5, <2>1 DEF Conns
<1>7. ~NoConn.open /\ ~NoConn.reg
  BY DEF NoConn
<1>8. \A g \in Fds : g # f => /\ conns'[g].open = conns[g].open
                              /\ conns'[g].reg = conns[g].reg
                              /\ conns'[g].user = conns[g].user
  BY <1>4, <1>5 DEF SameUser
<1>9. /\ byName' \in [Names -> Fds \cup {NoFd}]
      /\ \A n \in Names : byName'[n] # NoFd => byName'[n] = byName[n] /\ byName[n] # f
      /\ \A n \in Names : byName[n] # f => byName'[n] = byName[n]
  <2>1. CASE conns[f].reg
    <3>1. conns[f].user \in Names /\ byName[conns[f].user] = f
      BY <1>1, <2>1 DEF NamesInverse
    <3>2. byName' = [byName EXCEPT ![conns[f].user] = NoFd]
      BY <2>1 DEF Drop
    <3>3. \A n \in Names : byName[n] = f => n = conns[f].user
      <4>1. f # NoFd
        BY RelayAssumption DEF RelayAssumption
      <4> QED BY <1>1, <4>1 DEF NamesInverse
    <3> QED BY <1>1, <3>1, <3>2, <3>3 DEF TypeOK
  <2>2. CASE ~conns[f].reg
    <3>1. byName' = byName
      BY <2>2 DEF Drop
    <3>2. \A n \in Names : byName[n] # f
      <4>1. f # NoFd
        BY RelayAssumption DEF RelayAssumption
      <4> QED BY <1>1, <2>2, <4>1 DEF NamesInverse
    <3> QED BY <1>1, <3>1, <3>2 DEF TypeOK
  <2> QED BY <2>1, <2>2
<1>10. /\ client' \in [Fds -> [st : {"off", "connecting", "on", "gone"},
                               inc : Nat, count : [Names -> Nat], asked : Nat]]
       /\ client'[f].st = "off" /\ \A g \in Fds : g # f => client'[g] = client[g]
  BY <1>1, ZenonT(30) DEF Drop, TypeOK
<1>11. toServer' \in [Fds -> Seq(RequestType)] /\ slow' \subseteq Fds
  <2>1. <<>> \in Seq(RequestType)
    OBVIOUS
  <2>2. toServer \in [Fds -> Seq(RequestType)] /\ slow \subseteq Fds
    BY <1>1 DEF TypeOK
  <2> HIDE DEF RequestType
  <2> QED BY <2>1, <2>2 DEF Drop
<1>12. TypeOK'
  BY <1>1, <1>2, <1>6, <1>9, <1>10, <1>11 DEF TypeOK, Conns, Sound
<1>13. NamesInverse'
  <2>1. ASSUME NEW g \in Fds, conns'[g].reg
        PROVE  conns'[g].open /\ conns'[g].user \in Names /\ byName'[conns'[g].user] = g
    <3>1. g # f
      BY <1>5, <1>7, <2>1
    <3>2. conns[g].open /\ conns[g].user \in Names /\ byName[conns[g].user] = g
      BY <1>1, <1>8, <2>1, <3>1 DEF NamesInverse
    <3> QED BY <1>8, <1>9, <3>1, <3>2
  <2>2. ASSUME NEW n \in Names, byName'[n] # NoFd
        PROVE  conns'[byName'[n]].reg /\ conns'[byName'[n]].user = n
    <3>1. byName'[n] = byName[n] /\ byName[n] # f /\ byName[n] \in Fds
      BY <1>1, <1>9, <2>2 DEF TypeOK
    <3>2. conns[byName[n]].reg /\ conns[byName[n]].user = n
      BY <1>1, <2>2, <3>1 DEF NamesInverse
    <3> QED BY <1>8, <3>1, <3>2
  <2> QED BY <2>1, <2>2 DEF NamesInverse
<1>14. ServesOpen'
  <2>1. \A g \in Fds : g \in doomed' => conns'[g].open
    BY <1>1, <1>2, <1>8 DEF ServesOpen
  <2>2. turn' = turn /\ Idle /\ turn.fd # f
    <3>1. f # NoFd
      BY RelayAssumption DEF RelayAssumption
    <3> QED BY <1>1, <1>2, <3>1 DEF ServesOpen
  <2> QED BY <1>1, <1>2, <1>8, <2>1, <2>2 DEF ServesOpen, Idle
<1>15. ClientsMatch'
  BY <1>1, <1>5, <1>7, <1>8, <1>10 DEF ClientsMatch
<1> QED BY <1>12, <1>13, <1>14, <1>15 DEF RelayInv

\* A client changes nothing of the server's; it does not open or close a Conn.
LEMMA ClientsKeep == RelayInv /\ Clients => RelayInv'
<1> SUFFICES ASSUME RelayInv, Clients PROVE RelayInv'
  OBVIOUS
<1> DEFINE ClientType == [st : {"off", "connecting", "on", "gone"},
                          inc : Nat, count : [Names -> Nat], asked : Nat]
<1>1. TypeOK /\ ServesOpen
  BY DEF RelayInv
<1>2. UNCHANGED serverVars
  BY DEF Clients, Connect, Request, AskWho, Message, Requesting, Leave, Stall, Resume
<1>3. Moves
  BY <1>1, <1>2 DEF serverVars, Moves, TypeOK, ServesOpen, Idle
<1>4. Conns(conns') /\ \A g \in Fds : SameUser(conns[g], conns'[g])
  BY <1>1, <1>2, SameConns DEF serverVars
<1>5. PICK f \in Fds : \/ Connect(f) \/ Request(f) \/ AskWho(f) \/ (\E to \in Names : Message(f, to))
                       \/ Leave(f) \/ Stall(f) \/ Resume(f)
  BY DEF Clients
<1>6. ASSUME NEW r \in RequestType, Says(f, r) PROVE toServer' \in [Fds -> Seq(RequestType)]
  <2>1. toServer \in [Fds -> Seq(RequestType)]
    BY <1>1 DEF TypeOK
  <2> HIDE DEF RequestType
  <2>2. Append(toServer[f], r) \in Seq(RequestType)
    BY <2>1
  <2> QED BY <1>6, <2>1, <2>2 DEF Says
<1>7. client \in [Fds -> ClientType] /\ toServer \in [Fds -> Seq(RequestType)]
      /\ slow \subseteq Fds /\ requests \in Nat
  BY <1>1 DEF TypeOK
<1>8. CASE Connect(f)
  <2> DEFINE r == [verb |-> "handshake"]
             d == [NoClient EXCEPT !.st = "connecting", !.inc = client[f].inc + 1]
  <2>1. r \in RequestType /\ Says(f, r)
    BY <1>8 DEF Connect, RequestType
  <2>2. d \in ClientType /\ d.st = "connecting"
    <3>1. NoClient \in ClientType
      BY DEF NoClient
    <3>2. client[f].inc + 1 \in Nat
      BY <1>7
    <3> QED BY <3>1, <3>2
  <2>3. client' = [client EXCEPT ![f] = d] /\ client[f].st = "off"
        /\ UNCHANGED <<slow, requests>>
    BY <1>8 DEF Connect
  <2> HIDE DEF d, r, RequestType
  <2>4. toServer' \in [Fds -> Seq(RequestType)]
    BY <1>6, <2>1
  <2>5. client' \in [Fds -> ClientType]
    BY <1>7, <2>2, <2>3
  <2>6. \A g \in Fds : client'[g].st \in {"on", "gone"} <=> client[g].st \in {"on", "gone"}
    BY <1>7, <2>2, <2>3
  <2>7. Talks
    BY <1>7, <2>3, <2>4, <2>5, <2>6 DEF Talks
  <2> QED BY <1>2, <1>3, <1>4, <2>7, QuietStep DEF serverVars
<1>9. CASE Request(f)
  <2>1. PICK r \in RequestType : Says(f, r)
    <3>1. CASE \E verb \in MaySay \ {"LOGIN", "MSG", "WHO"} : Says(f, [verb |-> verb])
      <4>1. PICK verb \in MaySay \ {"LOGIN", "MSG", "WHO"} : Says(f, [verb |-> verb])
        BY <3>1
      <4>2. verb \in {"handshake", "bad", "WHO", "QUIT", "other"}
        BY RelayAssumption DEF RelayAssumption, MaySay
      <4>3. [verb |-> verb] \in RequestType
        BY <4>2 DEF RequestType
      <4> QED BY <4>1, <4>3
    <3>2. CASE \E name \in Names \cup {NoName} : Says(f, [verb |-> "LOGIN", name |-> name])
      <4>1. PICK name \in Names \cup {NoName} : Says(f, [verb |-> "LOGIN", name |-> name])
        BY <3>2
      <4>2. [verb |-> "LOGIN", name |-> name] \in RequestType
        BY DEF RequestType
      <4> QED BY <4>1, <4>2
    <3> QED BY <1>9, <3>1, <3>2 DEF Request
  <2>2. toServer' \in [Fds -> Seq(RequestType)]
    BY <1>6, <2>1
  <2>3. UNCHANGED <<client, slow>> /\ requests' = requests + 1
    BY <1>9 DEF Request, Requesting
  <2>4. Talks
    BY <1>7, <2>2, <2>3 DEF Talks
  <2> QED BY <1>2, <1>3, <1>4, <2>4, QuietStep DEF serverVars
<1>10. ASSUME NEW to \in Names, Message(f, to) PROVE RelayInv'
  <2> DEFINE m == [by |-> f, inc |-> client[f].inc, to |-> to, n |-> client[f].count[to]]
             r == [verb |-> "MSG", msg |-> m]
  <2>1. m \in MsgType
    BY <1>7 DEF MsgType
  <2>2. Says(f, r)
    BY <1>10 DEF Message
  <2>3. r \in RequestType
    <3> HIDE DEF m
    <3> QED BY <2>1 DEF RequestType
  <2> DEFINE d == [client[f] EXCEPT !.count = [client[f].count EXCEPT ![to] = @ + 1]]
  <2>4. UNCHANGED slow /\ requests' = requests + 1 /\ client' = [client EXCEPT ![f] = d]
    BY <1>10 DEF Message, Requesting
  <2> HIDE DEF r, RequestType
  <2>5. toServer' \in [Fds -> Seq(RequestType)]
    BY <1>6, <2>2, <2>3
  <2>6. d \in ClientType /\ d.st = client[f].st
    <3>1. [client[f].count EXCEPT ![to] = @ + 1] \in [Names -> Nat]
      BY <1>7
    <3> QED BY <1>7, <3>1
  <2> HIDE DEF d
  <2>7. client' \in [Fds -> ClientType]
    BY <1>7, <2>4, <2>6
  <2>8. \A g \in Fds : client'[g].st = client[g].st
    BY <1>7, <2>4, <2>6
  <2>9. requests' \in Nat /\ slow' \subseteq Fds
    BY <1>7, <2>4
  <2>10. Talks
    BY <2>5, <2>7, <2>8, <2>9 DEF Talks
  <2> QED BY <1>2, <1>3, <1>4, <2>10, QuietStep DEF serverVars
<1>11. CASE Leave(f) \/ Stall(f) \/ Resume(f)
  <2>1. /\ client' \in [Fds -> ClientType]
        /\ \A g \in Fds : client'[g].st \in {"on", "gone"} <=> client[g].st \in {"on", "gone"}
    <3>1. CASE Leave(f)
      <4>1. client' = [client EXCEPT ![f] = [client[f] EXCEPT !.st = "gone"]]
            /\ client[f].st = "on"
        BY <3>1 DEF Leave
      <4>2. [client[f] EXCEPT !.st = "gone"] \in ClientType
        BY <1>7
      <4> QED BY <1>7, <4>1, <4>2
    <3>2. CASE UNCHANGED client
      BY <1>7, <3>2
    <3> QED BY <1>11, <3>1, <3>2 DEF Stall, Resume
  <2>2. slow' \subseteq Fds
    BY <1>7, <1>11 DEF Leave, Stall, Resume
  <2>3. UNCHANGED <<toServer, requests>>
    BY <1>11 DEF Leave, Stall, Resume
  <2>4. Talks
    BY <1>7, <2>1, <2>2, <2>3 DEF Talks
  <2> QED BY <1>2, <1>3, <1>4, <2>4, QuietStep DEF serverVars
<1>12. CASE AskWho(f)
  <2> DEFINE r == [verb |-> "WHO"]
             d == [client[f] EXCEPT !.asked = client[f].asked + 1]
  <2>1. r \in RequestType /\ Says(f, r)
    BY <1>12 DEF AskWho, RequestType
  <2>2. d \in ClientType /\ d.st = client[f].st
    <3>1. client[f] \in ClientType /\ client[f].asked + 1 \in Nat
      BY <1>7
    <3> QED BY <3>1
  <2>3. client' = [client EXCEPT ![f] = d] /\ UNCHANGED slow /\ requests' = requests + 1
    BY <1>12 DEF AskWho, Requesting
  <2> HIDE DEF d, r, RequestType
  <2>4. toServer' \in [Fds -> Seq(RequestType)]
    BY <1>6, <2>1
  <2>5. client' \in [Fds -> ClientType] /\ \A g \in Fds : client'[g].st = client[g].st
    BY <1>7, <2>2, <2>3
  <2>6. Talks
    BY <1>7, <2>3, <2>4, <2>5 DEF Talks
  <2> QED BY <1>2, <1>3, <1>4, <2>6, QuietStep DEF serverVars
<1> QED BY <1>5, <1>8, <1>9, <1>10, <1>11, <1>12

-----------------------------------------------------------------------------
(* The theorems. *)

\* Nothing is open and nobody is registered at the start.
LEMMA RelayInitInv == Init => RelayInv
<1> SUFFICES ASSUME Init PROVE RelayInv
  OBVIOUS
<1>1. Conns(conns)
  <2>1. \A f \in Fds : conns[f] = NoConn /\ Sound(conns[f])
    BY FreshConns DEF Init
  <2> QED BY <2>1 DEF Init, Conns, Sound
<1>2. client \in [Fds -> [st : {"off", "connecting", "on", "gone"},
                          inc : Nat, count : [Names -> Nat], asked : Nat]]
  BY DEF Init, NoClient
<1>3. toServer \in [Fds -> Seq(RequestType)]
  <2>1. <<>> \in Seq(RequestType)
    OBVIOUS
  <2> QED BY <2>1 DEF Init
<1>4. TypeOK
  BY <1>1, <1>2, <1>3 DEF TypeOK, Conns, Sound, Init
<1>5. NamesInverse /\ ClientsMatch
  BY DEF Init, NoConn, NoClient, NamesInverse, ClientsMatch
<1>6. ServesOpen
  BY RelayAssumption DEF RelayAssumption, Init, ServesOpen, Idle
<1> QED BY <1>4, <1>5, <1>6 DEF RelayInv

\* Every step of the server and of its clients keeps the invariant.
LEMMA RelayNextInv == RelayInv /\ [Next]_vars => RelayInv'
<1> SUFFICES ASSUME RelayInv, [Next]_vars PROVE RelayInv'
  OBVIOUS
<1>1. CASE Server
  <2>1. CASE Poll
    BY <2>1, PollKeeps
  <2>2. ASSUME NEW f \in Fds,
               Serve(f) \/ HandleRecord(f) \/ ReadFails(f) \/ Finish(f) \/ Drop(f)
        PROVE  RelayInv'
    BY <2>2, ServeKeeps, FinishKeeps, DropKeeps, RepliesKeep, RejectsKeep, RelaysKeep,
       LoginKeeps DEF HandleRecord
  <2> QED BY <1>1, <2>1, <2>2 DEF Server
<1>2. CASE Clients
  BY <1>2, ClientsKeep
<1>3. CASE UNCHANGED vars
  BY <1>3 DEF vars, serverVars, RelayInv, TypeOK, NamesInverse, ServesOpen, ClientsMatch, Idle
<1> QED BY <1>1, <1>2, <1>3 DEF Next

\* Whatever clients connect, send and leave, and whatever poll reports in a
\* pass, the server's state stays well formed, the names stay inverse to the
\* connections and the loop serves and dooms open connections only.
THEOREM RelayInvariance == Spec => []RelayInv
BY RelayInitInv, RelayNextInv, PTL DEF Spec

\* The state of server.cpp keeps its types.
THEOREM RelayTypeCorrect == Spec => []TypeOK
<1>1. RelayInv => TypeOK
  BY DEF RelayInv
<1> QED BY <1>1, RelayInvariance, PTL

\* g_by_name is the inverse of the registered connections, for any number of
\* sockets and names: handle_login and drop_conn keep it so in every order.
THEOREM NamesAreInverse == Spec => []NamesInverse
<1>1. RelayInv => NamesInverse
  BY DEF RelayInv
<1> QED BY <1>1, RelayInvariance, PTL

-----------------------------------------------------------------------------
(***************************************************************************)
(* What a step may put on a connection.  Besides a message, which only     *)
(* Relays puts there, it is a verdict, a notice or an answer, and the      *)
(* notices and answers are for connections that are logged in.             *)
(***************************************************************************)
Follows(c, d) == d.reg = c.reg /\ d.user = c.user /\ (c.up => d.up)

Stays(c, d) == Follows(c, d) /\ d.stream = c.stream /\ d.tx = c.tx

Puts(c, d, tag, msg) ==
    /\ Follows(c, d)
    /\ tag # "ALERT" /\ c.up
    /\ d.stream = Append(c.stream, Record(tag, msg, c.tx)) /\ d.tx = c.tx + 1

Alerts(c, d) ==
    /\ Follows(c, d) /\ d.tx = c.tx
    /\ d.stream = Append(c.stream, Record("ALERT", NoMsg, 0))

\* The reply to /who is sealed and does not fit.
Asked == \E f \in Fds : Who(f)

Skips(c, d) == Asked /\ Follows(c, d) /\ d.stream = c.stream /\ d.tx = c.tx + 1

\* A descriptor that is given out, or given back.
Fresh(d) == ~d.reg /\ d.stream = <<>> /\ d.tx = 0

Admits(c, d) ==
    /\ ~c.reg /\ d.reg /\ c.up /\ d.up
    /\ d.stream = Append(c.stream, Record("OK", NoMsg, c.tx)) /\ d.tx = c.tx + 1

Hears(c, d) ==
    \/ Stays(c, d) \/ Alerts(c, d) \/ Skips(c, d) \/ Admits(c, d)
    \/ \E tag \in {"ERR", "INFO", "USERS"} :
        Puts(c, d, tag, NoMsg) /\ (c.reg \/ tag = "ERR")

\* What send_line puts on a connection, or want_close.
LEMMA SendPuts ==
    ASSUME NEW c \in ConnType, NEW tag, tag # "ALERT", NEW msg
    PROVE  /\ c.up => Puts(c, SendLine(c, tag, msg), tag, msg)
           /\ ~c.up => Stays(c, SendLine(c, tag, msg))
<1>1. CASE c.up
  <2>1. SendLine(c, tag, msg) =
          [c EXCEPT !.stream = Append(c.stream, Record(tag, msg, c.tx)), !.tx = c.tx + 1]
    BY <1>1 DEF SendLine
  <2> DEFINE s == Append(c.stream, Record(tag, msg, c.tx))
  <2>2. SendLine(c, tag, msg) = [c EXCEPT !.stream = s, !.tx = c.tx + 1]
    BY <2>1
  <2> HIDE DEF s
  <2>3. /\ SendLine(c, tag, msg).stream = s /\ SendLine(c, tag, msg).tx = c.tx + 1
        /\ SendLine(c, tag, msg).reg = c.reg /\ SendLine(c, tag, msg).user = c.user
        /\ SendLine(c, tag, msg).up = c.up
    BY <2>2 DEF ConnType
  <2> QED BY <1>1, <2>3 DEF Puts, Follows, s
<1>2. CASE ~c.up
  <2>1. SendLine(c, tag, msg) = [c EXCEPT !.want = TRUE]
    BY <1>2 DEF SendLine
  <2> QED BY <1>2, <2>1 DEF Stays, Follows, ConnType
<1> QED BY <1>1, <1>2

\* A connection that is told something, left alone, closed or flushed.
LEMMA HearsOne ==
    ASSUME NEW c \in ConnType, NEW f
    PROVE  /\ Hears(c, c) /\ Hears(c, Close(c)) /\ Hears(c, Flushed(c, f))
           /\ Hears(c, [c EXCEPT !.up = TRUE]) /\ Hears(c, SendAlert(c))
           /\ Hears(c, SendLine(c, "ERR", NoMsg))
           /\ Hears(c, Close(SendLine(c, "ERR", NoMsg)))
           /\ c.reg => Hears(c, SendLine(c, "INFO", NoMsg))
           /\ c.reg /\ Asked => Hears(c, SendUsers(c))
<1>1. Stays(c, c) /\ Stays(c, Close(c)) /\ Stays(c, Flushed(c, f))
  <2> DEFINE n == Len(c.stream)
  <2>1. Stays(c, [c EXCEPT !.flushed = n])
    <3> HIDE DEF n
    <3> QED BY DEF Stays, Follows, ConnType
  <2> QED BY <2>1 DEF Stays, Follows, Close, Flushed, ConnType
<1>2. Stays(c, [c EXCEPT !.up = TRUE])
  BY DEF Stays, Follows, ConnType
<1>3. Alerts(c, SendAlert(c))
  <2> DEFINE s == Append(c.stream, Record("ALERT", NoMsg, 0))
  <2>1. SendAlert(c) = [c EXCEPT !.stream = s, !.want = TRUE]
    BY DEF SendAlert
  <2> HIDE DEF s
  <2>2. /\ SendAlert(c).stream = s /\ SendAlert(c).tx = c.tx
        /\ SendAlert(c).reg = c.reg /\ SendAlert(c).user = c.user /\ SendAlert(c).up = c.up
    BY <2>1 DEF ConnType
  <2> QED BY <2>2 DEF Alerts, Follows, s
<1> DEFINE err == SendLine(c, "ERR", NoMsg)
<1>4. Puts(c, err, "ERR", NoMsg) \/ Stays(c, err)
  BY SendPuts
<1>5. Puts(c, Close(err), "ERR", NoMsg) \/ Stays(c, Close(err))
  <2>1. Close(err).stream = err.stream /\ Close(err).tx = err.tx
        /\ Close(err).reg = err.reg /\ Close(err).user = err.user /\ Close(err).up = err.up
    BY DEF SendLine, Close, ConnType
  <2> HIDE DEF err
  <2> QED BY <1>4, <2>1 DEF Puts, Stays, Follows
<1>6. ASSUME NEW tag \in {"INFO", "USERS"}, c.reg PROVE Hears(c, SendLine(c, tag, NoMsg))
  <2>1. Puts(c, SendLine(c, tag, NoMsg), tag, NoMsg) \/ Stays(c, SendLine(c, tag, NoMsg))
    BY SendPuts
  <2> QED BY <1>6, <2>1 DEF Hears
<1>7. ASSUME c.reg, Asked PROVE Hears(c, SendUsers(c))
  <2>1. CASE Cardinality({n \in Names : byName[n] # NoFd}) <= WhoMax
    BY <1>6, <1>7, <2>1 DEF SendUsers
  <2>2. CASE ~(Cardinality({n \in Names : byName[n] # NoFd}) <= WhoMax)
    <3>1. SendUsers(c) = [c EXCEPT !.tx = @ + 1]
      BY <2>2 DEF SendUsers
    <3>2. Skips(c, SendUsers(c))
      BY <1>7, <3>1 DEF Skips, Follows, ConnType
    <3> QED BY <3>2 DEF Hears
  <2> QED BY <2>1, <2>2
<1> QED BY <1>1, <1>2, <1>3, <1>4, <1>5, <1>6, <1>7 DEF Hears

\* What everybody hears in a step that changes one connection.
LEMMA HearsAll ==
    ASSUME TypeOK, NEW f \in Fds, NEW c, Hears(conns[f], c),
           conns' = [conns EXCEPT ![f] = c] \/ UNCHANGED conns
    PROVE  \A g \in Fds : Hears(conns[g], conns'[g])
<1> SUFFICES ASSUME NEW g \in Fds PROVE Hears(conns[g], conns'[g])
  OBVIOUS
<1>1. conns \in [Fds -> ConnType]
  BY DEF TypeOK
<1>2. conns'[g] = conns[g] \/ (g = f /\ conns'[g] = c)
  BY <1>1
<1>3. Hears(conns[g], conns[g])
  BY <1>1, HearsOne
<1> QED BY <1>2, <1>3

\* broadcast is heard by the connections that are logged in.
LEMMA HearsBroadcast ==
    ASSUME NEW cs \in [Fds -> ConnType], NEW except, NEW g \in Fds
    PROVE  /\ Hears(cs[g], Broadcast(cs, "INFO", except)[g])
           /\ g = except => Broadcast(cs, "INFO", except)[g] = cs[g]
<1>1. Broadcast(cs, "INFO", except)[g] = IF g # except /\ cs[g].reg
                                         THEN SendLine(cs[g], "INFO", NoMsg) ELSE cs[g]
  BY DEF Broadcast
<1>2. Hears(cs[g], cs[g]) /\ (cs[g].reg => Hears(cs[g], SendLine(cs[g], "INFO", NoMsg)))
  BY HearsOne
<1> QED BY <1>1, <1>2

\* A descriptor that is given out, or given back, has nothing on it.
LEMMA FreshConn == Fresh(NoConn) /\ Fresh(NewConn)
BY DEF Fresh, NewConn, NoConn

\* handle_login: the new user reads OK, the others a notice.
LEMMA LoginHears ==
    ASSUME TypeOK, NEW f \in Fds, Login(f), NEW g \in Fds
    PROVE  Hears(conns[g], conns'[g])
<1> DEFINE name == Head(toServer[f]).name
           r == Registered(conns[f], name)
           c == SendLine(r, "OK", NoMsg)
           cs == [conns EXCEPT ![f] = c]
<1>1. conns \in [Fds -> ConnType]
  BY DEF TypeOK
<1>2. /\ conns' = Broadcast(cs, "INFO", f) /\ conns[f].up /\ ~conns[f].reg
      /\ name \in Names
  BY DEF Login, Done, MayTake
<1> HIDE DEF name
<1>3. r \in ConnType /\ r.up /\ r.reg /\ r.stream = conns[f].stream /\ r.tx = conns[f].tx
  BY <1>1, <1>2 DEF Registered, ConnType
<1> HIDE DEF r
<1>4. Admits(conns[f], c)
  <2>1. Puts(r, c, "OK", NoMsg)
    BY <1>3, SendPuts
  <2> QED BY <1>2, <1>3, <2>1 DEF Puts, Follows, Admits
<1>5. c \in ConnType
  <2>1. Append(r.stream, Record("OK", NoMsg, r.tx)) \in Seq(RecordType)
    <3>1. Record("OK", NoMsg, r.tx) \in RecordType /\ r.stream \in Seq(RecordType)
      BY <1>3 DEF Record, RecordType, ConnType
    <3> HIDE DEF Record, RecordType
    <3> QED BY <3>1
  <2> DEFINE s == Append(r.stream, Record("OK", NoMsg, r.tx))
  <2>2. c = [r EXCEPT !.stream = s, !.tx = r.tx + 1]
    BY <1>3 DEF SendLine
  <2>3. s \in Seq(RecordType) /\ r.tx + 1 \in Nat
    BY <1>3, <2>1 DEF ConnType
  <2> HIDE DEF s, c, RecordType
  <2> QED BY <1>3, <2>2, <2>3 DEF ConnType
<1> HIDE DEF c
<1>6. /\ cs \in [Fds -> ConnType] /\ cs[f] = c
      /\ \A h \in Fds : h # f => cs[h] = conns[h]
  BY <1>1, <1>5
<1> HIDE DEF cs
<1>7. CASE g = f
  <2>1. conns'[g] = c
    BY <1>2, <1>6, <1>7, HearsBroadcast
  <2> QED BY <1>4, <1>7, <2>1 DEF Hears
<1>8. CASE g # f
  BY <1>2, <1>6, <1>8, HearsBroadcast
<1> QED BY <1>7, <1>8

\* The answers to a record are heard by its sender alone.
LEMMA AnswerHears ==
    ASSUME TypeOK, NEW f \in Fds,
           \/ Handshake(f) \/ HandshakeFails(f) \/ Rejects(f) \/ MustLogin(f)
           \/ LoginAgain(f) \/ LoginRefused(f) \/ NoSuchUser(f) \/ Who(f) \/ Quit(f)
           \/ Unknown(f)
    PROVE  \A g \in Fds : Hears(conns[g], conns'[g])
<1> DEFINE c == conns[f]
           err == SendLine(c, "ERR", NoMsg)
           up == [c EXCEPT !.up = TRUE]
<1>1. /\ Hears(c, c) /\ Hears(c, Close(c)) /\ Hears(c, up) /\ Hears(c, SendAlert(c))
      /\ Hears(c, err) /\ Hears(c, Close(err)) /\ (c.reg /\ Asked => Hears(c, SendUsers(c)))
  BY HearsOne DEF TypeOK
<1> HIDE DEF err, up
<1>2. \/ UNCHANGED conns
      \/ \E d \in {up, SendAlert(c), err, Close(err), Close(c)} :
            conns' = [conns EXCEPT ![f] = d]
      \/ c.reg /\ Asked /\ conns' = [conns EXCEPT ![f] = SendUsers(c)]
  BY DEF Asked, Handshake, HandshakeFails, Rejects, MustLogin, LoginAgain, LoginRefused,
         NoSuchUser, Who, Quit, Unknown, Answers, Done, err, up
<1>3. CASE UNCHANGED conns
  BY <1>1, <1>3, HearsAll
<1>4. ASSUME NEW d, Hears(c, d), conns' = [conns EXCEPT ![f] = d]
      PROVE  \A g \in Fds : Hears(conns[g], conns'[g])
  BY <1>4, HearsAll
<1> QED BY <1>1, <1>2, <1>3, <1>4

\* The service of a socket around its records only flushes its queue.
LEMMA ServiceHears ==
    ASSUME TypeOK, NEW f \in Fds, Serve(f) \/ ReadFails(f) \/ Finish(f)
    PROVE  \A g \in Fds : Hears(conns[g], conns'[g])
<1>1. Hears(conns[f], Flushed(conns[f], f))
  BY HearsOne DEF TypeOK
<1>2. conns' = [conns EXCEPT ![f] = Flushed(conns[f], f)] \/ UNCHANGED conns
  <2>1. CASE Serve(f)
    BY <2>1 DEF Serve
  <2>2. CASE ReadFails(f) \/ Finish(f)
    BY <2>2 DEF ReadFails, Finish
  <2> QED BY <2>1, <2>2
<1> QED BY <1>1, <1>2, HearsAll

\* drop_conn: the others read a notice, and the connection is gone.
LEMMA DropHears ==
    ASSUME TypeOK, NEW f \in Fds, Drop(f), NEW g \in Fds
    PROVE  /\ g # f => Hears(conns[g], conns'[g])
           /\ g = f => Fresh(conns'[g]) /\ client'[g].st = "off"
<1>1. conns \in [Fds -> ConnType]
  BY DEF TypeOK
<1>2. conns' = [(IF conns[f].reg THEN Broadcast(conns, "INFO", f) ELSE conns)
                    EXCEPT ![f] = NoConn]
  BY DEF Drop
<1>3. DOMAIN Broadcast(conns, "INFO", f) = Fds /\ DOMAIN conns = Fds
  BY <1>1 DEF Broadcast
<1>4. CASE g = f
  <2>1. Fresh(conns'[g])
    BY <1>2, <1>3, <1>4, FreshConn
  <2>2. client'[f].st = "off"
    BY DEF Drop, TypeOK
  <2> QED BY <1>4, <2>1, <2>2
<1>5. CASE g # f
  <2>1. conns'[g] = Broadcast(conns, "INFO", f)[g] \/ conns'[g] = conns[g]
    BY <1>2, <1>3, <1>5
  <2> QED BY <1>1, <1>5, <2>1, HearsBroadcast, HearsOne
<1> QED BY <1>4, <1>5

\* poll and accept_new give out descriptors that nobody is registered at.
LEMMA PollHears ==
    ASSUME RelayInv, Poll, NEW g \in Fds
    PROVE  Hears(conns[g], conns'[g]) \/ (Fresh(conns'[g]) /\ ~conns[g].reg)
<1>1. conns'[g] = IF g \in Connecting THEN NewConn ELSE conns[g]
  BY DEF Poll
<1>2. conns[g] \in ConnType
  BY DEF RelayInv, TypeOK
<1>3. g \in Connecting => ~conns[g].reg
  BY DEF RelayInv, ClientsMatch, NamesInverse, Connecting
<1> QED BY <1>1, <1>2, <1>3, FreshConn, HearsOne

\* Every step that relays no message.
LEMMA StepHears ==
    ASSUME RelayInv, [Next]_vars, \A f \in Fds : ~Relays(f), NEW g \in Fds
    PROVE  \/ Hears(conns[g], conns'[g])
           \/ Fresh(conns'[g]) /\ (~conns[g].reg \/ client'[g].st = "off")
<1>0. TypeOK
  BY DEF RelayInv
<1>1. CASE UNCHANGED conns
  BY <1>0, <1>1, HearsOne DEF TypeOK
<1>2. CASE Poll
  BY <1>2, PollHears
<1>3. ASSUME NEW f \in Fds, Drop(f)
      PROVE  \/ Hears(conns[g], conns'[g])
             \/ Fresh(conns'[g]) /\ (~conns[g].reg \/ client'[g].st = "off")
  BY <1>0, <1>3, DropHears
<1>4. ASSUME NEW f \in Fds, Serve(f) \/ HandleRecord(f) \/ ReadFails(f) \/ Finish(f)
      PROVE  Hears(conns[g], conns'[g])
  BY <1>0, <1>4, ServiceHears, AnswerHears, LoginHears DEF HandleRecord
<1>5. ASSUME Clients PROVE UNCHANGED conns
  BY <1>5 DEF Clients, Connect, Request, AskWho, Requesting, Message, Leave, Stall, Resume,
              serverVars
<1>6. ASSUME UNCHANGED vars PROVE UNCHANGED conns
  BY <1>6 DEF vars, serverVars
<1> QED BY <1>1, <1>2, <1>3, <1>4, <1>5, <1>6 DEF Next, Server

\* And one that does: the message goes to the connection that has the name it is to.
LEMMA RelaysPuts ==
    ASSUME RelayInv, NEW f \in Fds, Relays(f)
    PROVE  LET m == toServer[f][1].msg
               t == byName[m.to]
           IN  /\ toServer[f][1].verb = "MSG" /\ m \in MsgType /\ Len(toServer[f]) >= 1
               /\ t \in Fds /\ conns[t].reg /\ conns[t].user = m.to
               /\ conns[t].up => Puts(conns[t], conns'[t], "FROM", m)
               /\ ~conns[t].up => Stays(conns[t], conns'[t])
               /\ \A g \in Fds : g # t => conns'[g] = conns[g]
               /\ toServer' = [toServer EXCEPT ![f] = Tail(@)] /\ client' = client
               /\ conns[f].reg
<1> DEFINE m == Head(toServer[f]).msg
           t == byName[m.to]
<1>1. TypeOK /\ NamesInverse /\ conns \in [Fds -> ConnType]
  BY DEF RelayInv, TypeOK
<1>2. /\ Handles(f, {"MSG"}) /\ toServer[f] # <<>> /\ Head(toServer[f]).verb = "MSG"
      /\ m.to \in Names /\ t # NoFd /\ conns[f].reg
      /\ conns' = [conns EXCEPT ![t] = SendLine(conns[t], "FROM", m)]
      /\ toServer' = [toServer EXCEPT ![f] = Tail(@)] /\ client' = client
  BY DEF Relays, Handles, Done, RelayTo
<1>3. Head(toServer[f]) \in RequestType
  BY <1>2, HandlesKeeps
<1>4. m \in MsgType
  BY <1>2, <1>3 DEF RequestType
<1>5. Head(toServer[f]) = toServer[f][1] /\ Len(toServer[f]) >= 1
  BY <1>1, <1>2 DEF TypeOK
<1>6. t \in Fds /\ conns[t].reg /\ conns[t].user = m.to
  BY <1>1, <1>2 DEF TypeOK, NamesInverse
<1>7. /\ conns'[t] = SendLine(conns[t], "FROM", m)
      /\ \A g \in Fds : g # t => conns'[g] = conns[g]
  BY <1>1, <1>2, <1>6
<1>9. t = byName[m.to]
  OBVIOUS
<1> HIDE DEF t
<1>8. /\ conns[t].up => Puts(conns[t], conns'[t], "FROM", m)
      /\ ~conns[t].up => Stays(conns[t], conns'[t])
  <2> DEFINE c == conns[t]
             x == m
  <2>1. c \in ConnType /\ conns'[t] = SendLine(c, "FROM", x)
    BY <1>1, <1>6, <1>7
  <2> HIDE DEF c, x
  <2>2. /\ c.up => Puts(c, SendLine(c, "FROM", x), "FROM", x)
        /\ ~c.up => Stays(c, SendLine(c, "FROM", x))
    BY <2>1, SendPuts
  <2> QED BY <2>1, <2>2 DEF c, x
<1> HIDE DEF m
<1>10. m = toServer[f][1].msg
  BY <1>5 DEF m
<1> QED BY <1>2, <1>4, <1>5, <1>6, <1>7, <1>8, <1>9, <1>10

-----------------------------------------------------------------------------
(***************************************************************************)
(* One connection: the verdict comes first, messages are for its user, and *)
(* the counter counts.                                                     *)
(***************************************************************************)
\* A record at the end of a stream.
LEMMA AppendParts ==
    ASSUME NEW S, NEW s \in Seq(S), NEW r
    PROVE  /\ Len(Append(s, r)) = Len(s) + 1 /\ Append(s, r)[Len(s) + 1] = r
           /\ \A i \in 1 .. Len(s) : Append(s, r)[i] = s[i]
           /\ Append(s, r) # <<>>
           /\ s # <<>> => 1 \in 1 .. Len(s)
           /\ s = <<>> => Len(s) = 0
<1>1. s \in Seq(S \cup {r})
  OBVIOUS
<1>2. /\ Len(Append(s, r)) = Len(s) + 1 /\ Append(s, r)[Len(s) + 1] = r
      /\ \A i \in 1 .. Len(s) : Append(s, r)[i] = s[i]
  BY <1>1
<1>3. Append(s, r) # <<>>
  BY <1>1
<1>4. (s # <<>> => 1 \in 1 .. Len(s)) /\ (s = <<>> => Len(s) = 0)
  OBVIOUS
<1> QED BY <1>2, <1>3, <1>4

\* A record more, of the connection's user and not the first unless a verdict.
LEMMA SaidMore ==
    ASSUME NEW c \in ConnType, NEW d \in ConnType, Said(c), NEW r,
           d.stream = Append(c.stream, r), d.user = c.user, c.reg => d.reg, d.reg => d.up,
           c.stream = <<>> => r.tag \in {"OK", "ERR", "ALERT"},
           r.tag = "FROM" => c.reg /\ r.msg \in MsgType /\ r.msg.to = c.user
    PROVE  Said(d)
<1>1. c.stream \in Seq(RecordType)
  BY DEF ConnType
<1> DEFINE s == c.stream
<1>2. /\ Len(d.stream) = Len(s) + 1 /\ d.stream[Len(s) + 1] = r /\ Len(s) \in Nat
      /\ \A i \in 1 .. Len(s) : d.stream[i] = s[i]
      /\ d.stream # <<>> /\ (s # <<>> => 1 \in 1 .. Len(s)) /\ (s = <<>> => Len(s) = 0)
  <2>1. Len(s) \in Nat
    BY <1>1
  <2> QED BY <1>1, <2>1, AppendParts
<1>3. d.stream[1].tag \in {"OK", "ERR", "ALERT"}
  <2>1. CASE s = <<>>
    BY <1>2, <2>1
  <2>2. CASE s # <<>>
    BY <1>2, <2>2 DEF Said
  <2> QED BY <2>1, <2>2
<1>4. ASSUME NEW i \in 1 .. Len(d.stream), d.stream[i].tag = "FROM"
      PROVE  d.reg /\ d.stream[i].msg \in MsgType /\ d.stream[i].msg.to = d.user
  <2>1. CASE i = Len(s) + 1
    BY <1>2, <1>4, <2>1
  <2>2. CASE i # Len(s) + 1
    <3>1. i \in 1 .. Len(s)
      BY <1>2, <2>2
    <3>2. d.stream[i] = s[i]
      BY <1>2, <3>1
    <3> QED BY <1>4, <3>1, <3>2 DEF Said
  <2> QED BY <2>1, <2>2
<1> QED BY <1>2, <1>3, <1>4 DEF Said

\* A registered connection keeps its user and hears what it may hear.
LEMMA SaidHears ==
    ASSUME NEW c \in ConnType, NEW d \in ConnType, Said(c), Hears(c, d) \/ Fresh(d)
    PROVE  Said(d)
<1>1. c.reg => c.up /\ c.stream # <<>>
  BY DEF Said
<1>2. CASE Stays(c, d) \/ Skips(c, d)
  BY <1>2 DEF Stays, Skips, Follows, Said
<1>3. CASE Fresh(d)
  <2>1. d.stream = <<>> /\ ~d.reg /\ Len(<<>>) = 0
    BY <1>3 DEF Fresh
  <2> QED BY <2>1 DEF Said
<1>4. CASE Alerts(c, d)
  <2> DEFINE r == Record("ALERT", NoMsg, 0)
  <2>1. r.tag = "ALERT" /\ d.stream = Append(c.stream, r)
    BY <1>4 DEF Record, Alerts
  <2>2. d.user = c.user /\ (c.reg => d.reg) /\ (d.reg => d.up)
    BY <1>1, <1>4 DEF Alerts, Follows
  <2> HIDE DEF r
  <2> QED BY <2>1, <2>2, SaidMore
<1>5. CASE \E tag \in {"ERR", "INFO", "USERS"} :
              Puts(c, d, tag, NoMsg) /\ (c.reg \/ tag = "ERR")
  <2>1. PICK tag \in {"ERR", "INFO", "USERS"} :
              Puts(c, d, tag, NoMsg) /\ (c.reg \/ tag = "ERR")
    BY <1>5
  <2> DEFINE r == Record(tag, NoMsg, c.tx)
  <2>2. r.tag = tag /\ d.stream = Append(c.stream, r)
    BY <2>1 DEF Record, Puts
  <2>3. d.user = c.user /\ (c.reg => d.reg) /\ (d.reg => d.up)
    BY <1>1, <2>1 DEF Puts, Follows
  <2> HIDE DEF r
  <2> QED BY <1>1, <2>1, <2>2, <2>3, SaidMore
<1>6. CASE Admits(c, d)
  <2> DEFINE r == Record("OK", NoMsg, c.tx)
  <2>1. r.tag = "OK" /\ d.stream = Append(c.stream, r)
    BY <1>6 DEF Record, Admits
  <2>2. ~c.reg /\ d.reg /\ d.up
    BY <1>6 DEF Admits
  <2> DEFINE e == [c EXCEPT !.user = d.user]
  <2>3. /\ e \in ConnType /\ e.stream = c.stream /\ e.user = d.user
        /\ e.reg = c.reg /\ e.up = c.up
    BY DEF ConnType
  <2>4. Said(e)
    BY <2>2, <2>3 DEF Said
  <2> HIDE DEF r, e
  <2> QED BY <2>1, <2>2, <2>3, <2>4, SaidMore
<1> QED BY <1>2, <1>3, <1>4, <1>5, <1>6 DEF Hears

\* A message comes to the user it names.
LEMMA SaidFrom ==
    ASSUME NEW c \in ConnType, NEW d \in ConnType, Said(c), NEW m \in MsgType,
           c.reg, m.to = c.user, Puts(c, d, "FROM", m)
    PROVE  Said(d)
<1> DEFINE r == Record("FROM", m, c.tx)
<1>1. r.tag = "FROM" /\ r.msg = m /\ d.stream = Append(c.stream, r)
  BY DEF Record, Puts
<1>2. d.user = c.user /\ d.reg /\ d.up /\ c.stream # <<>>
  BY DEF Said, Puts, Follows
<1> HIDE DEF r
<1> QED BY <1>1, <1>2, SaidMore

\* Everybody's connection.
LEMMA SaidNext ==
    ASSUME RelayInv, TypeOK', [Next]_vars, \A f \in Fds : Said(conns[f])
    PROVE  \A f \in Fds : Said(conns'[f])
<1>1. conns \in [Fds -> ConnType] /\ conns' \in [Fds -> ConnType] /\ TypeOK
  BY DEF RelayInv, TypeOK
<1>2. CASE \A f \in Fds : ~Relays(f)
  BY <1>1, <1>2, StepHears, SaidHears
<1>3. ASSUME NEW f \in Fds, Relays(f) PROVE \A g \in Fds : Said(conns'[g])
  <2> DEFINE m == toServer[f][1].msg
             t == byName[m.to]
  <2>1. /\ m \in MsgType /\ t \in Fds /\ conns[t].reg /\ m.to = conns[t].user
        /\ conns[t].up => Puts(conns[t], conns'[t], "FROM", m)
        /\ \A g \in Fds : g # t => conns'[g] = conns[g]
    BY <1>3, RelaysPuts
  <2> HIDE DEF t, m
  <2>2. conns[t].up
    BY <2>1 DEF Said
  <2>3. Said(conns'[t])
    BY <1>1, <2>1, <2>2, SaidFrom
  <2> QED BY <2>1, <2>3
<1> QED BY <1>2, <1>3

\* At first nothing is open.
LEMMA SaidInit == Init => \A f \in Fds : Said(conns[f])
<1>1. NoConn.stream = <<>> /\ ~NoConn.reg /\ Len(<<>>) = 0
  BY DEF NoConn
<1>2. Said(NoConn)
  BY <1>1 DEF Said
<1> QED BY <1>2 DEF Init

-----------------------------------------------------------------------------
(* The counters. *)

\* The sealed records of a stream with one more.
LEMMA SealedMore ==
    ASSUME NEW S, NEW s \in Seq(S), NEW r
    PROVE  LET s2 == Append(s, r) IN
           /\ \A i \in 1 .. Len(s) + 1 : SealedBefore(s2, i) = SealedBefore(s, i)
           /\ r.tag = "ALERT" =>
                SealedBefore(s2, Len(s2) + 1) = SealedBefore(s, Len(s) + 1)
           /\ r.tag # "ALERT" =>
                /\ SealedBefore(s2, Len(s2) + 1) = SealedBefore(s, Len(s) + 1) \cup {Len(s) + 1}
                /\ Len(s) + 1 \notin SealedBefore(s, Len(s) + 1)
           /\ IsFiniteSet(SealedBefore(s, Len(s) + 1))
<1> DEFINE s2 == Append(s, r)
           n == Len(s)
<1>1. /\ Len(s2) = n + 1 /\ s2[n + 1] = r /\ n \in Nat
      /\ \A i \in 1 .. n : s2[i] = s[i]
  BY AppendParts
<1> HIDE DEF s2, n
<1>2. ASSUME NEW i \in 1 .. n + 1 PROVE SealedBefore(s2, i) = SealedBefore(s, i)
  <2>1. \A j \in 1 .. i - 1 : s2[j] = s[j]
    BY <1>1, <1>2
  <2> QED BY <2>1 DEF SealedBefore
<1>3. 1 .. (Len(s2) + 1) - 1 = (1 .. (n + 1) - 1) \cup {n + 1} /\ (n + 1) \notin 1 .. (n + 1) - 1
  BY <1>1
<1>4. \A j \in 1 .. (n + 1) - 1 : s2[j] = s[j]
  BY <1>1
<1>5. r.tag = "ALERT" => SealedBefore(s2, Len(s2) + 1) = SealedBefore(s, n + 1)
  BY <1>1, <1>3, <1>4 DEF SealedBefore
<1>6. r.tag # "ALERT" =>
        /\ SealedBefore(s2, Len(s2) + 1) = SealedBefore(s, n + 1) \cup {n + 1}
        /\ n + 1 \notin SealedBefore(s, n + 1)
  BY <1>1, <1>3, <1>4 DEF SealedBefore
<1>7. IsFiniteSet(SealedBefore(s, n + 1))
  <2>1. IsFiniteSet(1 .. (n + 1) - 1)
    BY <1>1, FS_Interval
  <2>2. SealedBefore(s, n + 1) \in SUBSET (1 .. (n + 1) - 1)
    BY DEF SealedBefore
  <2> QED BY <2>1, <2>2, FS_Subset
<1> QED BY <1>2, <1>5, <1>6, <1>7 DEF s2, n

\* A sealed record carries the counter and advances it; an alert does neither.
LEMMA CountedMore ==
    ASSUME NEW c \in ConnType, NEW d, NEW n \in Nat, Counted(c, n), NEW r,
           d.stream = Append(c.stream, r),
           r.tag = "ALERT" => d.tx = c.tx,
           r.tag # "ALERT" => r.seq = c.tx /\ d.tx = c.tx + 1
    PROVE  Counted(d, n)
<1> DEFINE s == c.stream
           s2 == d.stream
           k == Len(s)
           K(i) == Cardinality(SealedBefore(s, i))
<1>1. s \in Seq(RecordType) /\ c.tx \in Nat
  BY DEF ConnType
<1>2. /\ Len(s2) = k + 1 /\ s2[k + 1] = r /\ k \in Nat
      /\ \A i \in 1 .. k : s2[i] = s[i] /\ s[i].seq \in Nat
  <2>1. /\ Len(s2) = k + 1 /\ s2[k + 1] = r /\ k \in Nat
        /\ \A i \in 1 .. k : s2[i] = s[i]
    BY <1>1, AppendParts
  <2>2. \A i \in 1 .. k : s[i] \in RecordType
    BY <1>1
  <2> QED BY <2>1, <2>2 DEF RecordType
<1>3. /\ \A i \in 1 .. k + 1 : SealedBefore(s2, i) = SealedBefore(s, i)
      /\ r.tag = "ALERT" => SealedBefore(s2, Len(s2) + 1) = SealedBefore(s, k + 1)
      /\ r.tag # "ALERT" =>
            /\ SealedBefore(s2, Len(s2) + 1) = SealedBefore(s, k + 1) \cup {k + 1}
            /\ k + 1 \notin SealedBefore(s, k + 1)
      /\ IsFiniteSet(SealedBefore(s, k + 1))
  BY <1>1, SealedMore
<1>4. c.tx <= K(k + 1) + n /\ K(k + 1) \in Nat
  BY <1>3, FS_CardinalityType DEF Counted
<1>5. d.tx <= Cardinality(SealedBefore(s2, Len(s2) + 1)) + n
  <2>1. CASE r.tag = "ALERT"
    BY <1>3, <1>4, <2>1
  <2>2. CASE r.tag # "ALERT"
    <3>1. Cardinality(SealedBefore(s, k + 1) \cup {k + 1}) = K(k + 1) + 1
      BY <1>3, <2>2, FS_AddElement
    <3>2. Cardinality(SealedBefore(s2, Len(s2) + 1)) = K(k + 1) + 1
      BY <1>3, <2>2, <3>1
    <3>3. d.tx = c.tx + 1 /\ c.tx \in Nat
      BY <1>1, <2>2
    <3> HIDE DEF s, s2, k, K
    <3> QED BY <1>4, <3>2, <3>3
  <2> QED BY <2>1, <2>2
<1>6. \A i \in 1 .. k + 1 : \A j \in SealedBefore(s2, i) :
        j \in 1 .. k /\ j \in SealedBefore(s, i) /\ s2[j] = s[j] /\ s[j].tag # "ALERT"
  BY <1>2, <1>3 DEF SealedBefore
<1>7. ASSUME NEW i \in 1 .. k + 1, s2[i].tag # "ALERT"
      PROVE  /\ \A j \in SealedBefore(s2, i) : s2[j].seq < s2[i].seq
             /\ s2[i].seq <= Cardinality(SealedBefore(s2, i)) + n
             /\ s2[i].seq < d.tx
  <2>1. CASE i = k + 1
    <3>1. r.tag # "ALERT" /\ s2[i].seq = c.tx /\ d.tx = c.tx + 1
      BY <1>2, <1>7, <2>1
    <3>2. \A j \in SealedBefore(s2, i) : s2[j].seq < c.tx
      BY <1>6 DEF Counted
    <3>3. c.tx <= Cardinality(SealedBefore(s2, i)) + n
      BY <1>3, <1>4, <2>1
    <3>4. s2[i].seq < d.tx
      <4>1. c.tx < c.tx + 1
        BY <1>1
      <4> QED BY <3>1, <4>1
    <3>5. \A j \in SealedBefore(s2, i) : s2[j].seq < s2[i].seq
      BY <3>1, <3>2
    <3>6. s2[i].seq <= Cardinality(SealedBefore(s2, i)) + n
      BY <3>1, <3>3
    <3> QED BY <3>4, <3>5, <3>6
  <2>2. CASE i \in 1 .. k
    <3>1. s2[i] = s[i] /\ s[i].tag # "ALERT" /\ s[i].seq \in Nat
      BY <1>2, <1>7, <2>2
    <3>2. /\ \A j \in SealedBefore(s, i) : s[j].seq < s[i].seq
          /\ s[i].seq <= K(i) + n /\ s[i].seq < c.tx
      BY <2>2, <3>1 DEF Counted
    <3>3. d.tx = c.tx \/ d.tx = c.tx + 1
      OBVIOUS
    <3>4. SealedBefore(s2, i) = SealedBefore(s, i)
      BY <1>2, <1>3, <2>2
    <3>5. \A j \in SealedBefore(s2, i) : s2[j].seq < s2[i].seq
      BY <1>6, <3>1, <3>2, <3>4
    <3>6. s2[i].seq < d.tx
      <4>1. s[i].seq < c.tx /\ s[i].seq < c.tx + 1
        BY <1>1, <3>1, <3>2
      <4> QED BY <3>1, <3>3, <4>1
    <3>7. s2[i].seq <= Cardinality(SealedBefore(s2, i)) + n
      BY <3>1, <3>2, <3>4
    <3> QED BY <3>5, <3>6, <3>7
  <2>3. i \in 1 .. k \/ i = k + 1
    BY <1>2, <1>7
  <2> QED BY <2>1, <2>2, <2>3
<1> QED BY <1>2, <1>5, <1>7 DEF Counted

\* A counter that is on no record.
LEMMA CountedSkip ==
    ASSUME NEW c \in ConnType, NEW d, NEW n \in Nat, Counted(c, n),
           d.stream = c.stream, d.tx = c.tx + 1
    PROVE  Counted(d, n + 1)
<1> DEFINE s == c.stream
<1>1. s \in Seq(RecordType) /\ c.tx \in Nat /\ Len(s) \in Nat
  BY DEF ConnType
<1>2. \A i \in 1 .. Len(s) + 1 : Cardinality(SealedBefore(s, i)) \in Nat
  <2> TAKE i \in 1 .. Len(s) + 1
  <2>1. i - 1 \in Int /\ IsFiniteSet(1 .. i - 1)
    BY <1>1, FS_Interval
  <2>2. SealedBefore(s, i) \in SUBSET (1 .. i - 1)
    BY DEF SealedBefore
  <2> QED BY <2>1, <2>2, FS_Subset, FS_CardinalityType
<1>3. \A i \in 1 .. Len(s) : s[i].seq \in Nat
  <2>1. \A i \in 1 .. Len(s) : s[i] \in RecordType
    BY <1>1
  <2> QED BY <2>1 DEF RecordType
<1>4. Len(s) + 1 \in 1 .. Len(s) + 1 /\ \A i \in 1 .. Len(s) : i \in 1 .. Len(s) + 1
  BY <1>1
<1>5. d.tx <= Cardinality(SealedBefore(s, Len(s) + 1)) + (n + 1)
  BY <1>1, <1>2, <1>4 DEF Counted
<1>6. \A i \in 1 .. Len(s) : s[i].tag # "ALERT" =>
        /\ \A j \in SealedBefore(s, i) : s[j].seq < s[i].seq
        /\ s[i].seq <= Cardinality(SealedBefore(s, i)) + (n + 1)
        /\ s[i].seq < d.tx
  BY <1>1, <1>2, <1>3, <1>4 DEF Counted
<1> QED BY <1>5, <1>6 DEF Counted

\* An empty stream has counted nothing.
LEMMA CountedEmpty == \A d, n : n \in Nat /\ d.stream = <<>> /\ d.tx = 0 => Counted(d, n)
<1> SUFFICES ASSUME NEW d, NEW n \in Nat, d.stream = <<>>, d.tx = 0 PROVE Counted(d, n)
  OBVIOUS
<1>1. Len(d.stream) = 0 /\ SealedBefore(d.stream, Len(d.stream) + 1) = {}
  BY DEF SealedBefore
<1>2. Cardinality(SealedBefore(d.stream, Len(d.stream) + 1)) = 0
  BY <1>1, FS_EmptySet
<1>3. 1 .. Len(d.stream) = {}
  BY <1>1
<1>4. d.tx <= Cardinality(SealedBefore(d.stream, Len(d.stream) + 1)) + n
  BY <1>2
<1> QED BY <1>3, <1>4 DEF Counted

\* What a connection hears is counted, unless somebody asked for the roster.
LEMMA CountedHears ==
    ASSUME NEW c \in ConnType, NEW d, NEW n \in Nat, Counted(c, n),
           Hears(c, d) \/ Fresh(d), ~Asked
    PROVE  Counted(d, n)
<1>1. CASE Stays(c, d)
  BY <1>1 DEF Stays, Counted
<1>2. CASE Fresh(d)
  BY <1>2, CountedEmpty DEF Fresh
<1>3. CASE Alerts(c, d)
  BY <1>3, CountedMore DEF Alerts, Record
<1>4. CASE Admits(c, d)
  BY <1>4, CountedMore DEF Admits, Record
<1>5. CASE \E tag \in {"ERR", "INFO", "USERS"} : Puts(c, d, tag, NoMsg)
  BY <1>5, CountedMore DEF Puts, Record
<1> QED BY <1>1, <1>2, <1>3, <1>4, <1>5 DEF Hears, Skips

-----------------------------------------------------------------------------
(***************************************************************************)
(* A sender's queue and the stream its messages come out on.               *)
(***************************************************************************)
\* The rest of a queue goes on as before.
LEMMA TailParts ==
    ASSUME NEW S, NEW q \in Seq(S), Len(q) >= 1
    PROVE  /\ Tail(q) \in Seq(S) /\ Len(q) = Len(Tail(q)) + 1
           /\ \A i \in 1 .. Len(Tail(q)) : Tail(q)[i] = q[i + 1] /\ i + 1 \in 1 .. Len(q)
<1>1. q # <<>>
  OBVIOUS
<1> QED BY <1>1

\* A request at the end of the queue that is not to t.
LEMMA ContinuesOther ==
    ASSUME NEW S, NEW q \in Seq(S), NEW r, NEW i \in 0 .. Len(q), NEW t, NEW n, NEW cnt,
           ~MsgTo(r, t), Continues(q, i, t, n, cnt)
    PROVE  Continues(Append(q, r), i, t, n, cnt)
<1> DEFINE q2 == Append(q, r)
<1>1. /\ Len(q2) = Len(q) + 1 /\ q2[Len(q) + 1] = r /\ Len(q) \in Nat
      /\ \A j \in 1 .. Len(q) : q2[j] = q[j]
  BY AppendParts
<1> HIDE DEF q2
<1>2. \A j \in i + 1 .. Len(q) : q2[j] = q[j] /\ j \in i + 1 .. Len(q2)
  BY <1>1
<1>3. CASE n + 1 = cnt /\ \A j \in i + 1 .. Len(q) : ~MsgTo(q[j], t)
  <2>1. \A j \in i + 1 .. Len(q2) : j = Len(q) + 1 \/ j \in i + 1 .. Len(q)
    BY <1>1
  <2>2. \A j \in i + 1 .. Len(q2) : ~MsgTo(q2[j], t)
    BY <1>1, <1>2, <1>3, <2>1
  <2> QED BY <1>3, <2>2 DEF Continues
<1>4. ASSUME NEW j \in i + 1 .. Len(q), MsgTo(q[j], t), q[j].msg.n = n + 1,
             \A k \in i + 1 .. j - 1 : ~MsgTo(q[k], t)
      PROVE  Continues(q2, i, t, n, cnt)
  <2>1. \A k \in i + 1 .. j - 1 : k \in i + 1 .. Len(q)
    BY <1>1
  <2>2. \A k \in i + 1 .. j - 1 : ~MsgTo(q2[k], t)
    BY <1>2, <1>4, <2>1
  <2> QED BY <1>2, <1>4, <2>2 DEF Continues
<1> QED BY <1>3, <1>4 DEF Continues, q2

\* The next message to t joins the queue.
LEMMA ContinuesMsg ==
    ASSUME NEW S, NEW q \in Seq(S), NEW r, NEW i \in 0 .. Len(q), NEW t, NEW n, NEW cnt,
           MsgTo(r, t), r.msg.n = cnt, Continues(q, i, t, n, cnt)
    PROVE  Continues(Append(q, r), i, t, n, cnt + 1)
<1> DEFINE q2 == Append(q, r)
<1>1. /\ Len(q2) = Len(q) + 1 /\ q2[Len(q) + 1] = r /\ Len(q) \in Nat
      /\ \A j \in 1 .. Len(q) : q2[j] = q[j]
  BY AppendParts
<1> HIDE DEF q2
<1>2. \A j \in i + 1 .. Len(q) : q2[j] = q[j] /\ j \in i + 1 .. Len(q2)
  BY <1>1
<1>3. CASE n + 1 = cnt /\ \A j \in i + 1 .. Len(q) : ~MsgTo(q[j], t)
  <2> DEFINE j == Len(q) + 1
  <2>1. j \in i + 1 .. Len(q2) /\ MsgTo(q2[j], t) /\ q2[j].msg.n = n + 1
    BY <1>1, <1>3
  <2>2. \A k \in i + 1 .. j - 1 : ~MsgTo(q2[k], t)
    BY <1>1, <1>2, <1>3
  <2> HIDE DEF j
  <2> QED BY <2>1, <2>2 DEF Continues
<1>4. ASSUME NEW j \in i + 1 .. Len(q), MsgTo(q[j], t), q[j].msg.n = n + 1,
             \A k \in i + 1 .. j - 1 : ~MsgTo(q[k], t)
      PROVE  Continues(q2, i, t, n, cnt + 1)
  <2>1. \A k \in i + 1 .. j - 1 : k \in i + 1 .. Len(q)
    BY <1>1
  <2>2. \A k \in i + 1 .. j - 1 : ~MsgTo(q2[k], t)
    BY <1>2, <1>4, <2>1
  <2> QED BY <1>2, <1>4, <2>2 DEF Continues
<1> QED BY <1>3, <1>4 DEF Continues, q2

\* The first request leaves the queue: from a place behind it,
LEMMA ContinuesBehind ==
    ASSUME NEW S, NEW q \in Seq(S), Len(q) >= 1, NEW i \in 0 .. Len(q) - 1, NEW t, NEW n,
           NEW cnt, Continues(q, i + 1, t, n, cnt)
    PROVE  Continues(Tail(q), i, t, n, cnt)
<1> DEFINE q2 == Tail(q)
<1>1. /\ Len(q) = Len(q2) + 1 /\ Len(q2) \in Nat
      /\ \A j \in 1 .. Len(q2) : q2[j] = q[j + 1]
  BY TailParts
<1> HIDE DEF q2
<1>2. CASE n + 1 = cnt /\ \A j \in (i + 1) + 1 .. Len(q) : ~MsgTo(q[j], t)
  <2>1. \A j \in i + 1 .. Len(q2) : j \in 1 .. Len(q2) /\ j + 1 \in (i + 1) + 1 .. Len(q)
    BY <1>1
  <2>2. \A j \in i + 1 .. Len(q2) : ~MsgTo(q2[j], t)
    BY <1>1, <1>2, <2>1
  <2> QED BY <1>2, <2>2 DEF Continues
<1>3. ASSUME NEW j \in (i + 1) + 1 .. Len(q), MsgTo(q[j], t), q[j].msg.n = n + 1,
             \A k \in (i + 1) + 1 .. j - 1 : ~MsgTo(q[k], t)
      PROVE  Continues(q2, i, t, n, cnt)
  <2> DEFINE h == j - 1
  <2>1. h \in i + 1 .. Len(q2) /\ h \in 1 .. Len(q2) /\ h + 1 = j
    BY <1>1
  <2>2. \A k \in i + 1 .. h - 1 : k \in 1 .. Len(q2) /\ k + 1 \in (i + 1) + 1 .. j - 1
    BY <1>1
  <2>3. \A k \in i + 1 .. h - 1 : ~MsgTo(q2[k], t)
    BY <1>1, <1>3, <2>2
  <2>4. q2[h] = q[j]
    BY <1>1, <2>1
  <2> HIDE DEF h
  <2> QED BY <1>3, <2>1, <2>3, <2>4 DEF Continues
<1> QED BY <1>2, <1>3 DEF Continues, q2

\* and from the start, where it may be the one that goes on.
LEMMA ContinuesFirst ==
    ASSUME NEW S, NEW q \in Seq(S), Len(q) >= 1, NEW t, NEW n, NEW cnt,
           Continues(q, 0, t, n, cnt)
    PROVE  /\ MsgTo(q[1], t) => q[1].msg.n = n + 1
           /\ ~MsgTo(q[1], t) => Continues(Tail(q), 0, t, n, cnt)
<1>1. 0 + 1 = 1 /\ 1 \in 0 + 1 .. Len(q) /\ Len(q) \in Nat
  OBVIOUS
<1>2. CASE n + 1 = cnt /\ \A j \in 0 + 1 .. Len(q) : ~MsgTo(q[j], t)
  <2>1. \A j \in (0 + 1) + 1 .. Len(q) : j \in 0 + 1 .. Len(q)
    BY <1>1
  <2>2. \A j \in (0 + 1) + 1 .. Len(q) : ~MsgTo(q[j], t)
    BY <1>2, <2>1
  <2>3. Continues(q, 0 + 1, t, n, cnt)
    BY <1>2, <2>2 DEF Continues
  <2>4. 0 \in 0 .. Len(q) - 1
    BY <1>1
  <2>5. Continues(Tail(q), 0, t, n, cnt)
    BY <2>3, <2>4, ContinuesBehind
  <2> QED BY <1>1, <1>2, <2>5
<1>3. ASSUME NEW j \in 0 + 1 .. Len(q), MsgTo(q[j], t), q[j].msg.n = n + 1,
             \A k \in 0 + 1 .. j - 1 : ~MsgTo(q[k], t)
      PROVE  /\ MsgTo(q[1], t) => q[1].msg.n = n + 1
             /\ ~MsgTo(q[1], t) => Continues(Tail(q), 0, t, n, cnt)
  <2>1. j = 1 \/ 1 \in 0 + 1 .. j - 1
    BY <1>1
  <2>2. CASE j = 1
    BY <1>3, <2>2
  <2>3. CASE j # 1
    <3>1. ~MsgTo(q[1], t)
      BY <1>3, <2>1, <2>3
    <3>2. j \in (0 + 1) + 1 .. Len(q)
      BY <1>1, <2>3
    <3>3. \A k \in (0 + 1) + 1 .. j - 1 : k \in 0 + 1 .. j - 1
      BY <1>1
    <3>4. Continues(q, 0 + 1, t, n, cnt)
      BY <1>3, <3>2, <3>3 DEF Continues
    <3>5. 0 \in 0 .. Len(q) - 1
      BY <1>1
    <3> QED BY <3>1, <3>4, <3>5, ContinuesBehind
  <2> QED BY <2>2, <2>3
<1> QED BY <1>2, <1>3 DEF Continues

-----------------------------------------------------------------------------
(***************************************************************************)
(* What a step that relays nothing does to one client cl at g and to its   *)
(* queue q.  A message the server takes from the queue without relaying it *)
(* is from a sender that is not logged in, or to a name nobody has.        *)
(***************************************************************************)
ClientType ==
    [st : {"off", "connecting", "on", "gone"}, inc : Nat, count : [Names -> Nat], asked : Nat]

Lost(d, r) ==
    /\ r.verb = "MSG"
    /\ d.reg /\ d.up => (r.msg.to \in Names => byName[r.msg.to] = NoFd)

TakesOne(d, q, q2) == Len(q) >= 1 /\ q2 = Tail(q) /\ (q[1].verb # "MSG" \/ Lost(d, q[1]))

Numbered(m, g, cl) ==
    m.by = g /\ m.inc = cl.inc /\ m.to \in Names /\ m.n = cl.count[m.to]

Turns(g, d, q, q2, cl, cl2) ==
    \/ /\ q2 = q /\ cl2.inc = cl.inc /\ cl2.count = cl.count
       /\ cl2.st = "off" <=> cl.st = "off"
    \/ TakesOne(d, q, q2) /\ cl2 = cl
    \/ q2 = <<>> /\ cl2.st = "off" /\ cl2.inc = cl.inc
    \/ /\ cl.st = "off" /\ cl2.st # "off" /\ cl2.inc = cl.inc + 1
       /\ \E r : r.verb # "MSG" /\ q2 = Append(q, r)
    \/ /\ cl.st # "off" /\ cl2.st # "off" /\ cl2.inc = cl.inc /\ cl2.count = cl.count
       /\ \E r : r.verb # "MSG" /\ q2 = Append(q, r)
    \/ /\ cl.st # "off" /\ cl2.st = cl.st /\ cl2.inc = cl.inc
       /\ \E r : /\ r.verb = "MSG" /\ Numbered(r.msg, g, cl) /\ q2 = Append(q, r)
                 /\ cl2.count = [cl.count EXCEPT ![r.msg.to] = @ + 1]

\* The records the server handles without relaying.
LEMMA HandlesTurns ==
    ASSUME RelayInv, NEW f \in Fds, HandleRecord(f), ~Relays(f), NEW g \in Fds
    PROVE  Turns(g, conns[g], toServer[g], toServer'[g], client[g], client'[g])
<1>1. toServer \in [Fds -> Seq(RequestType)] /\ TypeOK
  BY DEF RelayInv, TypeOK
<1>2. /\ toServer[f] # <<>> /\ toServer' = [toServer EXCEPT ![f] = Tail(@)]
      /\ client' = client
  BY DEF HandleRecord, Handles, Handshake, HandshakeFails, Rejects, MustLogin, LoginAgain,
         LoginRefused, Login, NoSuchUser, Who, Quit, Unknown
<1>3. CASE g # f
  BY <1>1, <1>2, <1>3 DEF Turns
<1>4. CASE g = f
  <2> DEFINE q == toServer[f]
  <2>1. q \in Seq(RequestType) /\ q # <<>>
    BY <1>1, <1>2
  <2>2. Len(q) >= 1 /\ Head(q) = q[1] /\ toServer'[f] = Tail(q)
    <3>1. Len(q) >= 1 /\ Head(q) = q[1]
      BY <2>1
    <3> QED BY <1>1, <1>2, <3>1
  <2>3. q[1].verb # "MSG" \/ Lost(conns[f], q[1])
    <3>1. CASE \/ Handshake(f) \/ HandshakeFails(f) \/ LoginAgain(f) \/ LoginRefused(f)
               \/ Login(f) \/ Who(f) \/ Quit(f) \/ Unknown(f)
      <4>1. Head(q).verb # "MSG"
        BY <3>1 DEF Handshake, HandshakeFails, LoginAgain, LoginRefused, Login, Who, Quit,
                    Unknown, Handles
      <4> QED BY <2>2, <4>1
    <3>2. CASE MustLogin(f)
      <4>1. ~conns[f].reg
        BY <3>2 DEF MustLogin
      <4> QED BY <4>1 DEF Lost
    <3>3. CASE Rejects(f)
      <4>1. Head(q).verb # "MSG" \/ ~conns[f].up
        BY <3>3 DEF Rejects, Handles
      <4> QED BY <2>2, <4>1 DEF Lost
    <3>4. CASE NoSuchUser(f)
      <4>1. Head(q).msg.to \in Names => byName[Head(q).msg.to] = NoFd
        BY <3>4 DEF NoSuchUser
      <4> QED BY <2>2, <4>1 DEF Lost
    <3> QED BY <3>1, <3>2, <3>3, <3>4 DEF HandleRecord
  <2>4. TakesOne(conns[f], q, toServer'[f])
    BY <2>2, <2>3 DEF TakesOne
  <2> QED BY <1>2, <1>4, <2>4 DEF Turns
<1> QED BY <1>3, <1>4

\* The clients.
LEMMA ClientsTurn ==
    ASSUME RelayInv, Clients, NEW g \in Fds
    PROVE  Turns(g, conns[g], toServer[g], toServer'[g], client[g], client'[g])
<1>1. toServer \in [Fds -> Seq(RequestType)] /\ client \in [Fds -> ClientType]
  BY DEF RelayInv, TypeOK, ClientType
<1>2. PICK f \in Fds : \/ Connect(f) \/ Request(f) \/ AskWho(f) \/ (\E to \in Names : Message(f, to))
                       \/ Leave(f) \/ Stall(f) \/ Resume(f)
  BY DEF Clients
<1>3. ASSUME NEW r, Says(f, r)
      PROVE  /\ toServer'[f] = Append(toServer[f], r)
             /\ \A h \in Fds : h # f => toServer'[h] = toServer[h]
  BY <1>1, <1>3 DEF Says
<1>4. CASE Connect(f)
  <2>1. /\ client[f].st = "off" /\ Says(f, [verb |-> "handshake"])
        /\ client' = [client EXCEPT ![f] = [NoClient EXCEPT !.st = "connecting",
                                                            !.inc = client[f].inc + 1]]
    BY <1>4 DEF Connect
  <2>2. CASE g = f
    <3>1. client'[f].inc = client[f].inc + 1 /\ client'[f].st # "off"
      BY <1>1, <2>1 DEF NoClient
    <3>2. [verb |-> "handshake"].verb # "MSG"
      OBVIOUS
    <3> DEFINE r == [verb |-> "handshake"]
    <3>3. r.verb # "MSG" /\ toServer'[f] = Append(toServer[f], r)
      BY <1>3, <2>1, <3>2
    <3> HIDE DEF r
    <3> QED BY <2>1, <2>2, <3>1, <3>3 DEF Turns
  <2>3. CASE g # f
    BY <1>1, <1>3, <2>1, <2>3 DEF Turns
  <2> QED BY <2>2, <2>3
<1>5. CASE Request(f)
  <2>1. PICK r : r.verb # "MSG" /\ Says(f, r)
    <3>1. CASE \E verb \in MaySay \ {"LOGIN", "MSG", "WHO"} : Says(f, [verb |-> verb])
      <4>1. PICK verb \in MaySay \ {"LOGIN", "MSG", "WHO"} : Says(f, [verb |-> verb])
        BY <3>1
      <4>2. [verb |-> verb].verb # "MSG"
        OBVIOUS
      <4> QED BY <4>1, <4>2
    <3>2. CASE \E name \in Names \cup {NoName} : Says(f, [verb |-> "LOGIN", name |-> name])
      <4>1. PICK name \in Names \cup {NoName} : Says(f, [verb |-> "LOGIN", name |-> name])
        BY <3>2
      <4>2. [verb |-> "LOGIN", name |-> name].verb # "MSG"
        OBVIOUS
      <4> QED BY <4>1, <4>2
    <3> QED BY <1>5, <3>1, <3>2 DEF Request
  <2>2. client' = client /\ client[f].st # "off"
    BY <1>5 DEF Request, Requesting
  <2> QED BY <1>3, <2>1, <2>2 DEF Turns
<1>6. ASSUME NEW to \in Names, Message(f, to)
      PROVE  Turns(g, conns[g], toServer[g], toServer'[g], client[g], client'[g])
  <2> DEFINE m == [by |-> f, inc |-> client[f].inc, to |-> to, n |-> client[f].count[to]]
             r == [verb |-> "MSG", msg |-> m]
  <2>1. /\ client[f].st # "off" /\ Says(f, r)
        /\ client' = [client EXCEPT ![f].count[to] = @ + 1]
    BY <1>6 DEF Message, Requesting
  <2>2. Numbered(m, f, client[f]) /\ m.to = to
    BY DEF Numbered
  <2>3. r.verb = "MSG" /\ r.msg = m
    OBVIOUS
  <2>4. /\ client'[f].st = client[f].st /\ client'[f].inc = client[f].inc
        /\ client'[f].count = [client[f].count EXCEPT ![to] = @ + 1]
        /\ \A h \in Fds : h # f => client'[h] = client[h]
    BY <1>1, <2>1 DEF ClientType
  <2> HIDE DEF m, r
  <2>5. /\ toServer'[f] = Append(toServer[f], r)
        /\ \A h \in Fds : h # f => toServer'[h] = toServer[h]
    BY <1>3, <2>1
  <2>6. CASE g = f
    <3>1. /\ r.verb = "MSG" /\ Numbered(r.msg, g, client[g])
          /\ toServer'[g] = Append(toServer[g], r)
          /\ client'[g].count = [client[g].count EXCEPT ![r.msg.to] = @ + 1]
          /\ client[g].st # "off" /\ client'[g].st = client[g].st
          /\ client'[g].inc = client[g].inc
      BY <2>1, <2>2, <2>3, <2>4, <2>5, <2>6
    <3> QED BY <3>1 DEF Turns
  <2>7. CASE g # f
    BY <2>4, <2>5, <2>7 DEF Turns
  <2> QED BY <2>6, <2>7
<1>8. CASE AskWho(f)
  <2> DEFINE r == [verb |-> "WHO"]
  <2>1. /\ client[f].st # "off" /\ Says(f, r) /\ r.verb # "MSG"
        /\ client' = [client EXCEPT ![f].asked = @ + 1]
    BY <1>8 DEF AskWho, Requesting
  <2> HIDE DEF r
  <2>2. /\ client'[g].st = client[g].st /\ client'[g].inc = client[g].inc
        /\ client'[g].count = client[g].count
    BY <1>1, <2>1 DEF ClientType
  <2>3. IF g = f THEN toServer'[g] = Append(toServer[g], r) ELSE toServer'[g] = toServer[g]
    BY <1>3, <2>1
  <2> QED BY <2>1, <2>2, <2>3 DEF Turns
<1>7. CASE Leave(f) \/ Stall(f) \/ Resume(f)
  <2>1. toServer' = toServer
    BY <1>7 DEF Leave, Stall, Resume
  <2>2. client' = client \/ (client[f].st = "on" /\ client' = [client EXCEPT ![f].st = "gone"])
    BY <1>7 DEF Leave, Stall, Resume
  <2>3. /\ client'[g].inc = client[g].inc /\ client'[g].count = client[g].count
        /\ client'[g].st = "off" <=> client[g].st = "off"
    <3>1. \/ client'[g] = client[g]
          \/ client[g].st = "on" /\ client'[g] = [client[g] EXCEPT !.st = "gone"]
      BY <1>1, <2>2
    <3>2. client[g] \in ClientType
      BY <1>1
    <3> QED BY <3>1, <3>2 DEF ClientType
  <2> QED BY <2>1, <2>3 DEF Turns
<1> QED BY <1>2, <1>4, <1>5, <1>6, <1>7, <1>8

\* Every step that relays no message.
LEMMA StepTurns ==
    ASSUME RelayInv, [Next]_vars, \A f \in Fds : ~Relays(f), NEW g \in Fds
    PROVE  Turns(g, conns[g], toServer[g], toServer'[g], client[g], client'[g])
<1>1. toServer \in [Fds -> Seq(RequestType)] /\ client \in [Fds -> ClientType]
  BY DEF RelayInv, TypeOK, ClientType
<1>2. CASE Poll
  <2>1. toServer' = toServer
    BY <1>2 DEF Poll
  <2>2. client'[g] = IF g \in Connecting THEN [client[g] EXCEPT !.st = "on"] ELSE client[g]
    BY <1>2 DEF Poll
  <2>3. g \in Connecting => client[g].st = "connecting"
    BY DEF Connecting
  <2>4. /\ client'[g].inc = client[g].inc /\ client'[g].count = client[g].count
        /\ client'[g].st = "off" <=> client[g].st = "off"
    BY <1>1, <2>2, <2>3 DEF ClientType
  <2> QED BY <2>1, <2>4 DEF Turns
<1>3. ASSUME NEW f \in Fds, Serve(f) \/ ReadFails(f) \/ Finish(f)
      PROVE  toServer' = toServer /\ client' = client
  BY <1>3 DEF Serve, ReadFails, Finish
<1>4. ASSUME NEW f \in Fds, Drop(f)
      PROVE  Turns(g, conns[g], toServer[g], toServer'[g], client[g], client'[g])
  <2>1. /\ client' = [client EXCEPT ![f].st = "off"]
        /\ toServer' = [toServer EXCEPT ![f] = <<>>]
    BY <1>4 DEF Drop
  <2>2. CASE g = f
    <3>1. toServer'[g] = <<>> /\ client'[g].st = "off" /\ client'[g].inc = client[g].inc
      BY <1>1, <2>1, <2>2 DEF ClientType
    <3> QED BY <3>1 DEF Turns
  <2>3. CASE g # f
    BY <1>1, <2>1, <2>3 DEF Turns
  <2> QED BY <2>2, <2>3
<1>5. ASSUME UNCHANGED vars PROVE toServer' = toServer /\ client' = client
  BY <1>5 DEF vars
<1> QED BY <1>2, <1>3, <1>4, <1>5, HandlesTurns, ClientsTurn DEF Next, Server, Turns

-----------------------------------------------------------------------------
\* The first request leaves the queue.
LEMMA QueuePop ==
    ASSUME NEW q \in Seq(RequestType), Len(q) >= 1, NEW g, NEW cl, cl.st # "off",
           QueueInv(q, g, cl)
    PROVE  QueueInv(Tail(q), g, cl)
<1> DEFINE q2 == Tail(q)
<1>1. /\ Len(q) = Len(q2) + 1 /\ Len(q2) \in Nat
      /\ \A i \in 1 .. Len(q2) : q2[i] = q[i + 1] /\ i + 1 \in 1 .. Len(q)
  BY TailParts
<1> HIDE DEF q2
<1>2. ASSUME NEW i \in 1 .. Len(q2), q2[i].verb = "MSG"
      PROVE  LET m == q2[i].msg IN
             /\ m.by = g /\ m.inc = cl.inc
             /\ Continues(q2, i, m.to, m.n, cl.count[m.to])
  <2> DEFINE m == q2[i].msg
  <2>1. /\ q2[i] = q[i + 1] /\ m.by = g /\ m.inc = cl.inc
        /\ Continues(q, i + 1, m.to, m.n, cl.count[m.to])
    BY <1>1, <1>2 DEF QueueInv
  <2>2. i \in 0 .. Len(q) - 1
    BY <1>1
  <2> HIDE DEF m
  <2>3. Continues(q2, i, m.to, m.n, cl.count[m.to])
    BY <2>1, <2>2, ContinuesBehind DEF q2
  <2> QED BY <2>1, <2>3 DEF m
<1> QED BY <1>2 DEF QueueInv, q2

\* A request joins the queue; a message with the next number to its name.
LEMMA QueuePush ==
    ASSUME NEW q \in Seq(RequestType), NEW r, NEW g, NEW cl \in ClientType, NEW cl2,
           QueueInv(q, g, cl), cl2.st # "off", cl2.inc = cl.inc,
           \/ r.verb # "MSG" /\ cl2.count = cl.count
           \/ /\ r.verb = "MSG" /\ Numbered(r.msg, g, cl)
              /\ cl2.count = [cl.count EXCEPT ![r.msg.to] = @ + 1]
    PROVE  QueueInv(Append(q, r), g, cl2)
<1> DEFINE q2 == Append(q, r)
           n == Len(q)
<1>1. /\ Len(q2) = n + 1 /\ q2[n + 1] = r /\ n \in Nat
      /\ \A j \in 1 .. n : q2[j] = q[j]
  BY AppendParts
<1> HIDE DEF q2, n
<1>2. ASSUME NEW i \in 1 .. Len(q2), q2[i].verb = "MSG"
      PROVE  LET m == q2[i].msg IN
             /\ m.by = g /\ m.inc = cl2.inc
             /\ Continues(q2, i, m.to, m.n, cl2.count[m.to])
  <2> DEFINE m == q2[i].msg
  <2>1. CASE i = n + 1
    <3>1. m = r.msg /\ Numbered(m, g, cl) /\ cl2.count = [cl.count EXCEPT ![m.to] = @ + 1]
      BY <1>1, <1>2, <2>1
    <3>2. cl2.count[m.to] = m.n + 1
      BY <3>1 DEF Numbered, ClientType
    <3>3. \A j \in i + 1 .. Len(q2) : FALSE
      BY <1>1, <2>1
    <3> HIDE DEF m
    <3>4. Continues(q2, i, m.to, m.n, cl2.count[m.to])
      BY <3>2, <3>3 DEF Continues
    <3> QED BY <3>1, <3>4 DEF Numbered, m
  <2>2. CASE i # n + 1
    <3>1. i \in 1 .. n /\ i \in 0 .. Len(q)
      BY <1>1, <2>2 DEF n
    <3>2. /\ q[i].verb = "MSG" /\ m = q[i].msg /\ m.by = g /\ m.inc = cl.inc
          /\ Continues(q, i, m.to, m.n, cl.count[m.to])
      BY <1>1, <1>2, <3>1 DEF QueueInv, n
    <3>3. m.to \in Names
      <4>1. q[i] \in RequestType
        BY <3>1 DEF n
      <4> QED BY <3>2, <4>1 DEF RequestType, MsgType
    <3> HIDE DEF m
    <3>4. Continues(q2, i, m.to, m.n, cl2.count[m.to])
      <4>1. CASE r.verb # "MSG" /\ cl2.count = cl.count
        <5>1. ~MsgTo(r, m.to)
          BY <4>1 DEF MsgTo
        <5> QED BY <3>1, <3>2, <4>1, <5>1, ContinuesOther DEF q2
      <4>2. CASE /\ r.verb = "MSG" /\ Numbered(r.msg, g, cl)
                 /\ cl2.count = [cl.count EXCEPT ![r.msg.to] = @ + 1]
        <5>1. CASE r.msg.to = m.to
          <6>1. /\ MsgTo(r, m.to) /\ r.msg.n = cl.count[m.to]
                /\ cl2.count[m.to] = cl.count[m.to] + 1
            BY <3>3, <4>2, <5>1 DEF MsgTo, Numbered, ClientType
          <6> QED BY <3>1, <3>2, <6>1, ContinuesMsg DEF q2
        <5>2. CASE r.msg.to # m.to
          <6>1. ~MsgTo(r, m.to) /\ cl2.count[m.to] = cl.count[m.to]
            BY <3>3, <4>2, <5>2 DEF MsgTo, Numbered, ClientType
          <6> QED BY <3>1, <3>2, <6>1, ContinuesOther DEF q2
        <5> QED BY <5>1, <5>2
      <4> QED BY <4>1, <4>2
    <3> QED BY <3>2, <3>4 DEF m
  <2> QED BY <2>1, <2>2
<1> QED BY <1>2 DEF QueueInv, q2

\* Whatever is not a relayed message keeps the queues numbered.
LEMMA QueueTurns ==
    ASSUME NEW q \in Seq(RequestType), NEW cl \in ClientType, NEW cl2 \in ClientType,
           NEW g, NEW d, NEW q2, QueueInv(q, g, cl), Turns(g, d, q, q2, cl, cl2)
    PROVE  QueueInv(q2, g, cl2)
<1>1. CASE q2 = q /\ cl2.inc = cl.inc /\ cl2.count = cl.count
           /\ (cl2.st = "off" <=> cl.st = "off")
  BY <1>1 DEF QueueInv
<1>2. CASE TakesOne(d, q, q2) /\ cl2 = cl
  <2>1. Len(q) >= 1 /\ q2 = Tail(q)
    BY <1>2 DEF TakesOne
  <2>2. q # <<>>
    BY <2>1
  <2>3. cl.st # "off"
    BY <2>2 DEF QueueInv
  <2> QED BY <1>2, <2>1, <2>3, QueuePop
<1>3. \A x : QueueInv(<<>>, g, x)
  <2>1. 1 .. Len(<<>>) = {}
    OBVIOUS
  <2> QED BY <2>1 DEF QueueInv
<1>4. CASE q2 = <<>>
  BY <1>3, <1>4
<1>5. CASE /\ cl.st = "off" /\ cl2.st # "off"
           /\ \E r : r.verb # "MSG" /\ q2 = Append(q, r)
  <2>1. PICK r : r.verb # "MSG" /\ q2 = Append(q, r)
    BY <1>5
  <2>2. q = <<>>
    BY <1>5 DEF QueueInv
  <2>3. QueueInv(q, g, cl2)
    BY <1>3, <2>2
  <2> QED BY <1>5, <2>1, <2>3, QueuePush
<1>6. CASE /\ cl.st # "off" /\ cl2.st # "off" /\ cl2.inc = cl.inc /\ cl2.count = cl.count
           /\ \E r : r.verb # "MSG" /\ q2 = Append(q, r)
  BY <1>6, QueuePush
<1>7. CASE /\ cl.st # "off" /\ cl2.st = cl.st /\ cl2.inc = cl.inc
           /\ \E r : /\ r.verb = "MSG" /\ Numbered(r.msg, g, cl) /\ q2 = Append(q, r)
                     /\ cl2.count = [cl.count EXCEPT ![r.msg.to] = @ + 1]
  <2>1. PICK r : /\ r.verb = "MSG" /\ Numbered(r.msg, g, cl) /\ q2 = Append(q, r)
                 /\ cl2.count = [cl.count EXCEPT ![r.msg.to] = @ + 1]
    BY <1>7
  <2> QED BY <1>7, <2>1, QueuePush
<1> QED BY <1>1, <1>2, <1>4, <1>5, <1>6, <1>7 DEF Turns

\* And the link between a queue and the stream its last message came out on.
LEMMA LinkTurns ==
    ASSUME NEW q \in Seq(RequestType), NEW cl \in ClientType, NEW cl2 \in ClientType,
           NEW g, NEW c, NEW d, NEW d2, NEW q2, LinkInv(c, g, d, q, cl),
           Turns(g, d, q, q2, cl, cl2), Said(c), Said(d),
           c.reg => c.user \in Names /\ byName[c.user] # NoFd,
           d.reg => d2.reg \/ cl2.st = "off"
    PROVE  LinkInv(c, g, d2, q2, cl2)
<1> SUFFICES ASSUME NEW i \in 1 .. Len(c.stream),
                    c.stream[i].tag = "FROM", c.stream[i].msg.by = g
             PROVE  LET m == c.stream[i].msg IN
                    /\ m.inc <= cl2.inc
                    /\ (m.inc = cl2.inc /\ cl2.st # "off") =>
                        /\ d2.reg
                        /\ LastFrom(c.stream, i, g, cl2.inc) =>
                                Continues(q2, 0, m.to, m.n, cl2.count[m.to])
  BY DEF LinkInv
<1> DEFINE m == c.stream[i].msg
<1>1. m.inc \in Nat /\ m.to \in Names /\ m.to = c.user /\ c.reg /\ byName[m.to] # NoFd
  BY DEF Said, MsgType
<1>2. cl.inc \in Nat /\ cl.count \in [Names -> Nat]
  BY DEF ClientType
<1>3. /\ m.inc <= cl.inc
      /\ (m.inc = cl.inc /\ cl.st # "off") =>
            /\ d.reg /\ d.up
            /\ LastFrom(c.stream, i, g, cl.inc) =>
                    Continues(q, 0, m.to, m.n, cl.count[m.to])
  BY DEF LinkInv, Said
<1>4. 0 \in 0 .. Len(q)
  OBVIOUS
<1> HIDE DEF m
<1>5. CASE q2 = q /\ cl2.inc = cl.inc /\ cl2.count = cl.count
           /\ (cl2.st = "off" <=> cl.st = "off")
  BY <1>3, <1>5 DEF m
<1>6. CASE TakesOne(d, q, q2) /\ cl2 = cl
  <2>1. Len(q) >= 1 /\ q2 = Tail(q)
    BY <1>6 DEF TakesOne
  <2>2. d.reg /\ d.up => ~MsgTo(q[1], m.to)
    BY <1>1, <1>6 DEF TakesOne, Lost, MsgTo
  <2>3. Continues(q, 0, m.to, m.n, cl.count[m.to]) /\ ~MsgTo(q[1], m.to)
            => Continues(q2, 0, m.to, m.n, cl.count[m.to])
    BY <2>1, ContinuesFirst
  <2> QED BY <1>3, <1>6, <2>2, <2>3 DEF m
<1>7. CASE cl2.st = "off" /\ cl2.inc = cl.inc
  BY <1>3, <1>7 DEF m
<1>8. CASE cl2.inc = cl.inc + 1
  <2>1. m.inc <= cl2.inc /\ m.inc # cl2.inc
    BY <1>1, <1>2, <1>3, <1>8
  <2> QED BY <2>1 DEF m
<1>9. CASE /\ cl.st # "off" /\ cl2.st # "off" /\ cl2.inc = cl.inc /\ cl2.count = cl.count
           /\ \E r : r.verb # "MSG" /\ q2 = Append(q, r)
  <2>1. PICK r : r.verb # "MSG" /\ q2 = Append(q, r)
    BY <1>9
  <2>2. ~MsgTo(r, m.to)
    BY <2>1 DEF MsgTo
  <2>3. Continues(q, 0, m.to, m.n, cl.count[m.to])
            => Continues(q2, 0, m.to, m.n, cl.count[m.to])
    BY <1>4, <2>1, <2>2, ContinuesOther
  <2> QED BY <1>3, <1>9, <2>3 DEF m
<1>10. CASE /\ cl.st # "off" /\ cl2.st = cl.st /\ cl2.inc = cl.inc
            /\ \E r : /\ r.verb = "MSG" /\ Numbered(r.msg, g, cl) /\ q2 = Append(q, r)
                      /\ cl2.count = [cl.count EXCEPT ![r.msg.to] = @ + 1]
  <2>1. PICK r : /\ r.verb = "MSG" /\ Numbered(r.msg, g, cl) /\ q2 = Append(q, r)
                 /\ cl2.count = [cl.count EXCEPT ![r.msg.to] = @ + 1]
    BY <1>10
  <2>2. Continues(q, 0, m.to, m.n, cl.count[m.to])
            => Continues(q2, 0, m.to, m.n, cl2.count[m.to])
    <3>1. CASE r.msg.to = m.to
      <4>1. /\ MsgTo(r, m.to) /\ r.msg.n = cl.count[m.to]
            /\ cl2.count[m.to] = cl.count[m.to] + 1
        BY <1>1, <1>2, <2>1, <3>1 DEF MsgTo, Numbered
      <4> QED BY <1>4, <2>1, <4>1, ContinuesMsg, SMTT(30)
    <3>2. CASE r.msg.to # m.to
      <4>1. ~MsgTo(r, m.to) /\ cl2.count[m.to] = cl.count[m.to]
        BY <1>1, <1>2, <2>1, <3>2 DEF MsgTo
      <4> QED BY <1>4, <2>1, <4>1, ContinuesOther
    <3> QED BY <3>1, <3>2
  <2> QED BY <1>3, <1>10, <2>2 DEF m
<1> QED BY <1>5, <1>6, <1>7, <1>8, <1>9, <1>10 DEF Turns

\* A record on the stream that is no message of g.
LEMMA LinkMore ==
    ASSUME NEW c \in ConnType, NEW c2, NEW r, c2.stream = Append(c.stream, r),
           NEW g, NEW d, NEW q, NEW cl, ~(r.tag = "FROM" /\ r.msg.by = g),
           LinkInv(c, g, d, q, cl)
    PROVE  LinkInv(c2, g, d, q, cl)
<1> DEFINE s == c.stream
           s2 == c2.stream
           n == Len(s)
<1>1. s \in Seq(RecordType)
  BY DEF ConnType
<1>2. /\ Len(s2) = n + 1 /\ s2[n + 1] = r /\ n \in Nat
      /\ \A i \in 1 .. n : s2[i] = s[i]
  BY <1>1, AppendParts
<1> SUFFICES ASSUME NEW i \in 1 .. Len(s2), s2[i].tag = "FROM", s2[i].msg.by = g
             PROVE  LET m == s2[i].msg IN
                    /\ m.inc <= cl.inc
                    /\ (m.inc = cl.inc /\ cl.st # "off") =>
                        /\ d.reg
                        /\ LastFrom(s2, i, g, cl.inc) =>
                                Continues(q, 0, m.to, m.n, cl.count[m.to])
  BY DEF LinkInv
<1>3. i \in 1 .. n /\ s2[i] = s[i]
  BY <1>2
<1>4. LastFrom(s2, i, g, cl.inc) => LastFrom(s, i, g, cl.inc)
  <2>1. \A k \in i + 1 .. n : k \in i + 1 .. Len(s2) /\ s2[k] = s[k]
    BY <1>2, <1>3
  <2> HIDE DEF s, s2
  <2>2. \A k : s2[k] = s[k] => (From(s2, k, g, cl.inc) <=> From(s, k, g, cl.inc))
    BY DEF From
  <2> QED BY <1>3, <2>1, <2>2 DEF LastFrom
<1> QED BY <1>3, <1>4 DEF LinkInv

\* A connection hears something.
LEMMA LinkHears ==
    ASSUME NEW c \in ConnType, NEW c2, Hears(c, c2) \/ Fresh(c2),
           NEW g, NEW d, NEW q, NEW cl, LinkInv(c, g, d, q, cl)
    PROVE  LinkInv(c2, g, d, q, cl)
<1>1. CASE c2.stream = c.stream
  BY <1>1 DEF LinkInv
<1>2. CASE c2.stream = <<>>
  <2>1. 1 .. Len(c2.stream) = {}
    BY <1>2
  <2> QED BY <2>1 DEF LinkInv
<1>3. ASSUME NEW tag, tag # "FROM", NEW n, c2.stream = Append(c.stream, Record(tag, NoMsg, n))
      PROVE  LinkInv(c2, g, d, q, cl)
  <2> DEFINE r == Record(tag, NoMsg, n)
  <2>1. r.tag # "FROM" /\ c2.stream = Append(c.stream, r)
    BY <1>3 DEF Record
  <2> HIDE DEF r
  <2> QED BY <2>1, LinkMore
<1> QED BY <1>1, <1>2, <1>3 DEF Hears, Fresh, Stays, Alerts, Skips, Admits, Puts

-----------------------------------------------------------------------------
\* A record at the end of a stream; if a message, the next of its sender's.
LEMMA SuccessiveMore ==
    ASSUME NEW s \in Seq(RecordType), Successive(s), NEW r,
           r.tag = "FROM" => \A i \in 1 .. Len(s) :
                LastFrom(s, i, r.msg.by, r.msg.inc) => r.msg.n = s[i].msg.n + 1
    PROVE  Successive(Append(s, r))
<1> DEFINE s2 == Append(s, r)
           n == Len(s)
<1>1. /\ Len(s2) = n + 1 /\ s2[n + 1] = r /\ n \in Nat
      /\ \A i \in 1 .. n : s2[i] = s[i]
  BY AppendParts
<1> HIDE DEF s2
<1> SUFFICES ASSUME NEW i \in 1 .. Len(s2), NEW j \in 1 .. Len(s2), i < j,
                    s2[i].tag = "FROM", From(s2, j, s2[i].msg.by, s2[i].msg.inc),
                    \A k \in i + 1 .. j - 1 : ~From(s2, k, s2[i].msg.by, s2[i].msg.inc)
             PROVE  s2[j].msg.n = s2[i].msg.n + 1
  BY DEF Successive, s2
<1>2. i \in 1 .. n /\ s2[i] = s[i]
  BY <1>1
<1> DEFINE g == s[i].msg.by
           inc == s[i].msg.inc
<1>3. From(s2, j, g, inc) /\ \A k \in i + 1 .. j - 1 : ~From(s2, k, g, inc)
  BY <1>2
<1>4. s[i].tag = "FROM" /\ From(s, i, g, inc)
  BY <1>2 DEF From
<1> HIDE DEF g, inc
<1>5. \A k \in 1 .. n : From(s2, k, g, inc) <=> From(s, k, g, inc)
  BY <1>1 DEF From
<1>6. CASE j = n + 1
  <2>1. \A k \in i + 1 .. n : k \in i + 1 .. j - 1 /\ k \in 1 .. n
    BY <1>1, <1>2, <1>6
  <2>2. LastFrom(s, i, g, inc)
    BY <1>2, <1>3, <1>4, <1>5, <2>1 DEF LastFrom
  <2>3. r.tag = "FROM" /\ r.msg.by = g /\ r.msg.inc = inc
    BY <1>1, <1>3, <1>6 DEF From
  <2> QED BY <1>1, <1>2, <1>6, <2>2, <2>3
<1>7. CASE j # n + 1
  <2>1. j \in 1 .. n /\ s2[j] = s[j]
    BY <1>1, <1>7
  <2>2. \A k \in i + 1 .. j - 1 : k \in 1 .. n
    BY <1>2, <2>1
  <2>3. From(s, j, g, inc) /\ \A k \in i + 1 .. j - 1 : ~From(s, k, g, inc)
    BY <1>3, <1>5, <2>1, <2>2
  <2>4. s[j].msg.n = s[i].msg.n + 1
    BY <1>2, <1>4, <2>1, <2>3 DEF Successive, g, inc
  <2> QED BY <1>2, <2>1, <2>4
<1> QED BY <1>6, <1>7

\* What is heard is no message.
LEMMA SuccessiveHears ==
    ASSUME NEW c \in ConnType, NEW c2, Hears(c, c2) \/ Fresh(c2), Successive(c.stream)
    PROVE  Successive(c2.stream)
<1>0. c.stream \in Seq(RecordType)
  BY DEF ConnType
<1>1. CASE c2.stream = c.stream
  BY <1>1
<1>2. CASE c2.stream = <<>>
  <2>1. 1 .. Len(c2.stream) = {}
    BY <1>2
  <2> QED BY <2>1 DEF Successive
<1>3. ASSUME NEW tag, tag # "FROM", NEW n, c2.stream = Append(c.stream, Record(tag, NoMsg, n))
      PROVE  Successive(c2.stream)
  <2> DEFINE r == Record(tag, NoMsg, n)
  <2>1. r.tag # "FROM" /\ c2.stream = Append(c.stream, r)
    BY <1>3 DEF Record
  <2> HIDE DEF r
  <2> QED BY <1>0, <2>1, SuccessiveMore
<1> QED BY <1>1, <1>2, <1>3 DEF Hears, Fresh, Stays, Alerts, Skips, Admits, Puts

-----------------------------------------------------------------------------
(***************************************************************************)
(* A message is relayed: the first request of the queue goes to the end of *)
(* the stream it belongs to.                                               *)
(***************************************************************************)
\* On a connection the message is not for, nothing changes for its sender.
LEMMA LinkElsewhere ==
    ASSUME NEW q \in Seq(RequestType), Len(q) >= 1, NEW g, NEW c, NEW d, NEW d2, NEW cl,
           d.reg => d2.reg, Said(c), c.user # q[1].msg.to, LinkInv(c, g, d, q, cl)
    PROVE  LinkInv(c, g, d2, Tail(q), cl)
<1> SUFFICES ASSUME NEW i \in 1 .. Len(c.stream),
                    c.stream[i].tag = "FROM", c.stream[i].msg.by = g
             PROVE  LET m == c.stream[i].msg IN
                    /\ m.inc <= cl.inc
                    /\ (m.inc = cl.inc /\ cl.st # "off") =>
                        /\ d2.reg
                        /\ LastFrom(c.stream, i, g, cl.inc) =>
                                Continues(Tail(q), 0, m.to, m.n, cl.count[m.to])
  BY DEF LinkInv
<1> DEFINE m == c.stream[i].msg
<1>1. ~MsgTo(q[1], m.to)
  BY DEF Said, MsgTo
<1>2. Continues(q, 0, m.to, m.n, cl.count[m.to])
            => Continues(Tail(q), 0, m.to, m.n, cl.count[m.to])
  <2> HIDE DEF m
  <2> QED BY <1>1, ContinuesFirst
<1> QED BY <1>2 DEF LinkInv

\* On the connection it is for, the queue goes on behind it.
LEMMA LinkRelayed ==
    ASSUME NEW c \in ConnType, NEW c2, NEW r, c2.stream = Append(c.stream, r),
           NEW q \in Seq(RequestType), Len(q) >= 1, NEW g, NEW d, NEW d2, NEW cl,
           q[1].verb = "MSG", r.tag = "FROM", r.msg = q[1].msg,
           cl.inc \in Nat, d2.reg, QueueInv(q, g, cl), LinkInv(c, g, d, q, cl)
    PROVE  LinkInv(c2, g, d2, Tail(q), cl)
<1> DEFINE s == c.stream
           s2 == c2.stream
           n == Len(s)
           q2 == Tail(q)
<1>1. s \in Seq(RecordType)
  BY DEF ConnType
<1>2. /\ Len(s2) = n + 1 /\ s2[n + 1] = r /\ n \in Nat
      /\ \A i \in 1 .. n : s2[i] = s[i]
  BY <1>1, AppendParts
<1>3. /\ r.msg.by = g /\ r.msg.inc = cl.inc
      /\ Continues(q, 1, r.msg.to, r.msg.n, cl.count[r.msg.to])
  <2>1. 1 \in 1 .. Len(q)
    OBVIOUS
  <2> QED BY <2>1 DEF QueueInv
<1>4. Continues(q2, 0, r.msg.to, r.msg.n, cl.count[r.msg.to])
  <2>1. 0 \in 0 .. Len(q) - 1 /\ 0 + 1 = 1
    OBVIOUS
  <2>2. Continues(q, 0 + 1, r.msg.to, r.msg.n, cl.count[r.msg.to])
    BY <1>3, <2>1
  <2> QED BY <2>1, <2>2, ContinuesBehind
<1> HIDE DEF s, s2, n, q2
<1>5. ASSUME NEW i \in 1 .. Len(s2), s2[i].tag = "FROM", s2[i].msg.by = g
      PROVE  LET m == s2[i].msg IN
             /\ m.inc <= cl.inc
             /\ (m.inc = cl.inc /\ cl.st # "off") =>
                    /\ d2.reg
                    /\ LastFrom(s2, i, g, cl.inc) =>
                            Continues(q2, 0, m.to, m.n, cl.count[m.to])
  <2>1. CASE i = n + 1
    BY <1>2, <1>3, <1>4, <2>1
  <2>2. CASE i # n + 1
    <3>1. i \in 1 .. n /\ s2[i] = s[i] /\ n + 1 \in i + 1 .. Len(s2)
      BY <1>2, <2>2
    <3>2. s2[i].msg.inc <= cl.inc
      BY <1>5, <3>1 DEF LinkInv, s, n
    <3>3. From(s2, n + 1, g, cl.inc)
      BY <1>2, <1>3 DEF From
    <3>4. ~LastFrom(s2, i, g, cl.inc)
      BY <3>1, <3>3 DEF LastFrom
    <3> QED BY <3>2, <3>4
  <2> QED BY <2>1, <2>2
<1> QED BY <1>5 DEF LinkInv, s2, q2

\* And it is the next one there.
LEMMA SuccessiveRelayed ==
    ASSUME NEW c \in ConnType, NEW r, NEW g, NEW d, NEW cl,
           NEW q \in Seq(RequestType), Len(q) >= 1, cl.st # "off", Said(c),
           q[1].verb = "MSG", r.tag = "FROM", r.msg = q[1].msg, q[1].msg.to = c.user,
           QueueInv(q, g, cl), LinkInv(c, g, d, q, cl), Successive(c.stream)
    PROVE  Successive(Append(c.stream, r))
<1> DEFINE s == c.stream
<1>1. s \in Seq(RecordType)
  BY DEF ConnType
<1>2. r.msg.by = g /\ r.msg.inc = cl.inc
  <2>1. 1 \in 1 .. Len(q)
    OBVIOUS
  <2> QED BY <2>1 DEF QueueInv
<1>3. ASSUME NEW i \in 1 .. Len(s), LastFrom(s, i, r.msg.by, r.msg.inc)
      PROVE  r.msg.n = s[i].msg.n + 1
  <2>1. s[i].tag = "FROM" /\ s[i].msg.by = g /\ s[i].msg.inc = cl.inc
    BY <1>2, <1>3 DEF LastFrom, From
  <2>2. s[i].msg.to = q[1].msg.to
    BY <2>1 DEF Said
  <2> DEFINE m == s[i].msg
  <2>3. Continues(q, 0, m.to, m.n, cl.count[m.to])
    BY <1>2, <1>3, <2>1 DEF LinkInv
  <2>4. MsgTo(q[1], m.to)
    BY <2>2 DEF MsgTo
  <2> HIDE DEF m
  <2>5. q[1].msg.n = m.n + 1
    BY <2>3, <2>4, ContinuesFirst
  <2> QED BY <2>5 DEF m
<1> HIDE DEF s
<1>4. Successive(Append(s, r))
  BY <1>1, <1>3, SuccessiveMore DEF s
<1> QED BY <1>4 DEF s

-----------------------------------------------------------------------------
(* The streams and the queues, step by step. *)

\* What the invariant says of names and of clients.
LEMMA StreamTypes ==
    ASSUME RelayInv
    PROVE  /\ conns \in [Fds -> ConnType] /\ client \in [Fds -> ClientType]
           /\ toServer \in [Fds -> Seq(RequestType)]
           /\ \A f \in Fds : conns[f].reg =>
                conns[f].user \in Names /\ byName[conns[f].user] = f
           /\ \A f \in Fds : conns[f].reg =>
                conns[f].user \in Names /\ byName[conns[f].user] # NoFd
BY RelayAssumption DEF RelayAssumption, RelayInv, TypeOK, NamesInverse, ClientType

\* Every step but a message that is relayed.
LEMMA StreamQuiet ==
    ASSUME RelayInv, StreamInv, RelayInv', [Next]_vars, \A f \in Fds : ~Relays(f)
    PROVE  StreamInv'
<1>1. /\ conns \in [Fds -> ConnType] /\ client \in [Fds -> ClientType]
      /\ toServer \in [Fds -> Seq(RequestType)]
      /\ \A f \in Fds : conns[f].reg =>
            conns[f].user \in Names /\ byName[conns[f].user] # NoFd
  BY StreamTypes
<1>2. conns' \in [Fds -> ConnType] /\ client' \in [Fds -> ClientType] /\ TypeOK'
  BY DEF RelayInv, TypeOK, ClientType
<1>3. \A f \in Fds : Said(conns'[f])
  BY <1>2, SaidNext DEF StreamInv
<1>4. ASSUME NEW f \in Fds
      PROVE  /\ Hears(conns[f], conns'[f]) \/ Fresh(conns'[f])
             /\ conns[f].reg => conns'[f].reg \/ client'[f].st = "off"
  <2>1. \/ Hears(conns[f], conns'[f])
        \/ Fresh(conns'[f]) /\ (~conns[f].reg \/ client'[f].st = "off")
    BY <1>4, StepHears
  <2>2. Hears(conns[f], conns'[f]) /\ conns[f].reg => conns'[f].reg
    BY DEF Hears, Stays, Alerts, Skips, Admits, Puts, Follows
  <2> QED BY <2>1, <2>2
<1>5. \A g \in Fds :
        Turns(g, conns[g], toServer[g], toServer'[g], client[g], client'[g])
  BY StepTurns
<1>6. \A f \in Fds : Successive(conns'[f].stream)
  <2> SUFFICES ASSUME NEW f \in Fds PROVE Successive(conns'[f].stream)
    OBVIOUS
  <2>1. Successive(conns[f].stream) /\ conns[f] \in ConnType
    BY <1>1 DEF StreamInv
  <2> QED BY <1>4, <2>1, SuccessiveHears
<1>7. \A g \in Fds : QueueInv(toServer'[g], g, client'[g])
  <2> SUFFICES ASSUME NEW g \in Fds PROVE QueueInv(toServer'[g], g, client'[g])
    OBVIOUS
  <2>1. /\ QueueInv(toServer[g], g, client[g]) /\ toServer[g] \in Seq(RequestType)
        /\ client[g] \in ClientType /\ client'[g] \in ClientType
    BY <1>1, <1>2 DEF StreamInv
  <2> QED BY <1>5, <2>1, QueueTurns
<1>8. ASSUME NEW f \in Fds, NEW g \in Fds
      PROVE  LinkInv(conns'[f], g, conns'[g], toServer'[g], client'[g])
  <2>1. /\ LinkInv(conns[f], g, conns[g], toServer[g], client[g])
        /\ Said(conns[f]) /\ Said(conns[g]) /\ toServer[g] \in Seq(RequestType)
        /\ client[g] \in ClientType /\ client'[g] \in ClientType
        /\ conns[f] \in ConnType
        /\ conns[f].reg => conns[f].user \in Names /\ byName[conns[f].user] # NoFd
    BY <1>1, <1>2 DEF StreamInv
  <2>2. LinkInv(conns[f], g, conns'[g], toServer'[g], client'[g])
    BY <1>4, <1>5, <2>1, LinkTurns
  <2> QED BY <1>4, <2>1, <2>2, LinkHears
<1> QED BY <1>3, <1>6, <1>7, <1>8 DEF StreamInv

\* And that.
LEMMA StreamRelays ==
    ASSUME RelayInv, StreamInv, RelayInv', NEW f \in Fds, Relays(f), [Next]_vars
    PROVE  StreamInv'
<1> DEFINE m == toServer[f][1].msg
           t == byName[m.to]
           q == toServer[f]
           r == Record("FROM", m, conns[t].tx)
<1>1. /\ conns \in [Fds -> ConnType] /\ client \in [Fds -> ClientType]
      /\ toServer \in [Fds -> Seq(RequestType)]
      /\ \A h \in Fds : conns[h].reg => byName[conns[h].user] = h
      /\ TypeOK'
  BY StreamTypes DEF RelayInv
<1>2. /\ q[1].verb = "MSG" /\ m \in MsgType /\ Len(q) >= 1
      /\ t \in Fds /\ conns[t].reg /\ conns[t].user = m.to
      /\ conns[t].up => Puts(conns[t], conns'[t], "FROM", m)
      /\ \A g \in Fds : g # t => conns'[g] = conns[g]
      /\ toServer' = [toServer EXCEPT ![f] = Tail(@)] /\ client' = client
      /\ conns[f].reg
  BY RelaysPuts
<1>3. r.tag = "FROM" /\ r.msg = q[1].msg
  BY DEF Record
<1>4. \A h \in Fds : Said(conns[h]) /\ Successive(conns[h].stream)
  BY DEF StreamInv
<1>5. Puts(conns[t], conns'[t], "FROM", m)
  <2> HIDE DEF t, m
  <2> QED BY <1>2, <1>4 DEF Said
<1>6. conns'[t].stream = Append(conns[t].stream, r)
  <2> HIDE DEF t, m
  <2> QED BY <1>5 DEF Puts, r
<1>7. \A h \in Fds : conns[h].reg => conns'[h].reg
  <2> HIDE DEF t, m
  <2> QED BY <1>2, <1>5 DEF Puts, Follows
<1>8. /\ q \in Seq(RequestType) /\ toServer'[f] = Tail(q)
      /\ \A g \in Fds : g # f => toServer'[g] = toServer[g]
  BY <1>1, <1>2
<1>9. /\ QueueInv(q, f, client[f]) /\ client[f].inc \in Nat
      /\ \A g \in Fds : QueueInv(toServer[g], g, client[g])
      /\ \A h, g \in Fds : LinkInv(conns[h], g, conns[g], toServer[g], client[g])
  BY <1>1 DEF StreamInv, ClientType
<1>10. m = q[1].msg
  OBVIOUS
<1>11. \A h \in Fds : h # t => conns[h].user # m.to \/ ~conns[h].reg
  BY <1>1
<1> HIDE DEF m, t, q, r
<1>12. client[f].st # "off"
  <2>1. q # <<>>
    BY <1>2, <1>8
  <2> QED BY <1>9, <2>1 DEF QueueInv
<1>13. \A h \in Fds : Said(conns'[h])
  BY <1>1, <1>4, SaidNext
<1>14. \A h \in Fds : Successive(conns'[h].stream)
  <2>1. LinkInv(conns[t], f, conns[f], q, client[f]) /\ conns[t] \in ConnType
    BY <1>1, <1>2, <1>9 DEF q
  <2>2. Successive(conns'[t].stream)
    BY <1>2, <1>3, <1>4, <1>6, <1>8, <1>9, <1>10, <1>12, <2>1, SuccessiveRelayed
  <2> QED BY <1>2, <1>4, <2>2
<1>15. \A g \in Fds : QueueInv(toServer'[g], g, client'[g])
  <2>1. QueueInv(Tail(q), f, client[f])
    BY <1>2, <1>8, <1>9, <1>12, QueuePop
  <2> QED BY <1>2, <1>8, <1>9, <2>1
<1>16. ASSUME NEW h \in Fds, NEW g \in Fds
       PROVE  LinkInv(conns'[h], g, conns'[g], toServer'[g], client'[g])
  <2>1. LinkInv(conns[h], g, conns[g], toServer[g], client[g]) /\ client'[g] = client[g]
    BY <1>2, <1>9
  <2>2. \A c, q1 : LinkInv(c, g, conns[g], q1, client[g])
                        => LinkInv(c, g, conns'[g], q1, client[g])
    BY <1>7 DEF LinkInv
  <2>3. CASE h # t /\ g # f
    BY <1>2, <1>8, <2>1, <2>2, <2>3
  <2>4. CASE h # t /\ g = f
    <3>1. LinkInv(conns[h], f, conns[f], q, client[f]) /\ Said(conns[h])
      BY <1>4, <2>1, <2>4 DEF q
    <3>2. CASE conns[h].reg
      <4>1. conns[h].user # q[1].msg.to
        BY <1>10, <1>11, <2>4, <3>2
      <4>2. LinkInv(conns[h], f, conns'[f], Tail(q), client[f])
        BY <1>2, <1>7, <1>8, <3>1, <4>1, LinkElsewhere
      <4> QED BY <1>2, <1>8, <2>1, <2>4, <4>2
    <3>3. CASE ~conns[h].reg
      <4>1. \A i \in 1 .. Len(conns[h].stream) : conns[h].stream[i].tag # "FROM"
        BY <3>1, <3>3 DEF Said
      <4>2. LinkInv(conns[h], f, conns'[f], Tail(q), client[f])
        BY <4>1 DEF LinkInv
      <4> QED BY <1>2, <1>8, <2>1, <2>4, <4>2
    <3> QED BY <3>2, <3>3
  <2>5. CASE h = t /\ g # f
    <3>1. r.msg.by = f
      <4>1. 1 \in 1 .. Len(q)
        BY <1>2, <1>8
      <4> QED BY <1>2, <1>3, <1>9, <4>1 DEF QueueInv
    <3>2. ~(r.tag = "FROM" /\ r.msg.by = g)
      BY <2>5, <3>1
    <3>3. /\ LinkInv(conns[t], g, conns[g], toServer[g], client[g])
          /\ conns[t] \in ConnType
      BY <1>1, <2>1, <2>5
    <3> DEFINE c2 == conns'[t]
    <3>5. c2.stream = Append(conns[t].stream, r)
      BY <1>6
    <3> HIDE DEF c2
    <3>6. LinkInv(c2, g, conns[g], toServer[g], client[g])
      BY <3>2, <3>3, <3>5, LinkMore
    <3>4. LinkInv(conns'[t], g, conns[g], toServer[g], client[g])
      BY <3>6 DEF c2
    <3> QED BY <1>8, <2>1, <2>2, <2>5, <3>4
  <2>6. CASE h = t /\ g = f
    <3>1. LinkInv(conns[t], f, conns[f], q, client[f]) /\ conns[t] \in ConnType
      BY <1>1, <2>1, <2>6 DEF q
    <3>2. conns'[f].reg
      BY <1>2, <1>7
    <3>3. LinkInv(conns'[t], f, conns'[f], Tail(q), client[f])
      BY <1>2, <1>3, <1>6, <1>8, <1>9, <3>1, <3>2, LinkRelayed
    <3> QED BY <1>8, <2>1, <2>6, <3>3
  <2> QED BY <2>3, <2>4, <2>5, <2>6
<1> QED BY <1>13, <1>14, <1>15, <1>16 DEF StreamInv

\* At first nothing has been sent.
LEMMA StreamInit == Init => StreamInv
<1> SUFFICES ASSUME Init PROVE StreamInv
  OBVIOUS
<1>1. \A f \in Fds : Said(conns[f])
  BY SaidInit
<1>2. \A f \in Fds : conns[f].stream = <<>> /\ toServer[f] = <<>>
  BY DEF Init, NoConn
<1>3. 1 .. Len(<<>>) = {}
  OBVIOUS
<1>4. Successive(<<>>) /\ \A g, cl : QueueInv(<<>>, g, cl)
  BY <1>3 DEF Successive, QueueInv
<1>5. \A f \in Fds : \A g, d, q, cl : LinkInv(conns[f], g, d, q, cl)
  BY <1>2, <1>3 DEF LinkInv
<1> QED BY <1>1, <1>2, <1>4, <1>5 DEF StreamInv

-----------------------------------------------------------------------------
(***************************************************************************)
(* The requests for the roster, and the replies that were too long.        *)
(***************************************************************************)
\* How many requests for the roster a queue holds when one comes or goes.
LEMMA AsksParts ==
    ASSUME NEW q \in Seq(RequestType)
    PROVE  /\ Cardinality(Asks(q)) \in Nat
           /\ Len(q) >= 1 =>
                /\ Cardinality(Asks(Tail(q))) <= Cardinality(Asks(q))
                /\ q[1].verb = "WHO" => Cardinality(Asks(Tail(q))) + 1 <= Cardinality(Asks(q))
           /\ \A r : /\ r.verb # "WHO" => Asks(Append(q, r)) = Asks(q)
                     /\ r.verb = "WHO" =>
                            Cardinality(Asks(Append(q, r))) = Cardinality(Asks(q)) + 1
<1> DEFINE A == Asks(q)
           k == Len(q)
<1>1. k \in Nat /\ IsFiniteSet(1 .. k) /\ A \in SUBSET (1 .. k)
  BY FS_Interval DEF Asks
<1>2. IsFiniteSet(A) /\ Cardinality(A) \in Nat
  BY <1>1, FS_Subset, FS_CardinalityType
<1>3. ASSUME k >= 1
      PROVE  /\ Cardinality(Asks(Tail(q))) <= Cardinality(A)
             /\ q[1].verb = "WHO" => Cardinality(Asks(Tail(q))) + 1 <= Cardinality(A)
  <2> DEFINE B == Asks(Tail(q))
             T == A \ {1}
             f == [i \in B |-> i + 1]
  <2>1. /\ Tail(q) \in Seq(RequestType) /\ k = Len(Tail(q)) + 1
        /\ \A i \in 1 .. Len(Tail(q)) : Tail(q)[i] = q[i + 1] /\ i + 1 \in 1 .. k
    BY <1>3, TailParts
  <2>2. \A i \in B : i \in Nat /\ i + 1 \in T
    BY <2>1 DEF Asks
  <2> HIDE DEF B, T
  <2>3. f \in Injection(B, T)
    BY <2>2 DEF Injection, IsInjective
  <2>4. IsFiniteSet(T) /\ Cardinality(T) = Cardinality(A) - (IF 1 \in A THEN 1 ELSE 0)
    BY <1>2, FS_RemoveElement DEF T
  <2>5. IsFiniteSet(B) /\ Cardinality(B) <= Cardinality(T)
    BY <2>3, <2>4, FS_Injection
  <2>6. Cardinality(B) \in Nat
    BY <2>5, FS_CardinalityType
  <2>7. q[1].verb = "WHO" => 1 \in A
    BY <1>1, <1>3 DEF Asks
  <2> QED BY <1>2, <2>4, <2>5, <2>6, <2>7 DEF B
<1>4. ASSUME NEW r
      PROVE  /\ r.verb # "WHO" => Asks(Append(q, r)) = A
             /\ r.verb = "WHO" => Cardinality(Asks(Append(q, r))) = Cardinality(A) + 1
  <2>1. /\ Len(Append(q, r)) = k + 1 /\ Append(q, r)[k + 1] = r
        /\ \A i \in 1 .. k : Append(q, r)[i] = q[i]
    BY AppendParts
  <2>2. r.verb # "WHO" => Asks(Append(q, r)) = A
    BY <1>1, <2>1 DEF Asks
  <2>3. r.verb = "WHO" => Asks(Append(q, r)) = A \cup {k + 1} /\ k + 1 \notin A
    BY <1>1, <2>1 DEF Asks
  <2> QED BY <1>2, <2>2, <2>3, FS_AddElement
<1> QED BY <1>2, <1>3, <1>4

\* What a step does to a queue that asks of nothing, and to who has asked.
Awaits(q, q2, cl, cl2) ==
    \/ /\ cl2.asked = cl.asked
       /\ \/ q2 = q \/ q2 = <<>>
          \/ Len(q) >= 1 /\ q2 = Tail(q)
          \/ \E r : r.verb # "WHO" /\ q2 = Append(q, r)
    \/ cl2.asked = cl.asked + 1 /\ \E r : r.verb = "WHO" /\ q2 = Append(q, r)

\* A descriptor that a client connects at.
Starts(g) ==
    /\ client[g].st = "off" /\ client'[g].asked = 0 /\ conns'[g] = conns[g]
    /\ \E r : r.verb # "WHO" /\ toServer'[g] = Append(toServer[g], r)

\* Every step.
LEMMA StepAsks ==
    ASSUME RelayInv, [Next]_vars, NEW g \in Fds
    PROVE  Starts(g) \/ Awaits(toServer[g], toServer'[g], client[g], client'[g])
<1>1. toServer \in [Fds -> Seq(RequestType)] /\ client \in [Fds -> ClientType]
  BY DEF RelayInv, TypeOK, ClientType
<1>2. CASE client' = client /\ toServer' = toServer
  BY <1>2 DEF Awaits
<1>3. ASSUME NEW f \in Fds, HandleRecord(f)
      PROVE  Awaits(toServer[g], toServer'[g], client[g], client'[g])
  <2>1. /\ toServer[f] # <<>> /\ toServer' = [toServer EXCEPT ![f] = Tail(@)]
        /\ client' = client
    BY <1>3 DEF HandleRecord, Handles, Handshake, HandshakeFails, Rejects, MustLogin,
                LoginAgain, LoginRefused, Login, Relays, NoSuchUser, Who, Quit, Unknown
  <2>2. Len(toServer[f]) >= 1
    BY <1>1, <2>1
  <2> QED BY <1>1, <2>1, <2>2 DEF Awaits
<1>4. ASSUME NEW f \in Fds, Drop(f)
      PROVE  Awaits(toServer[g], toServer'[g], client[g], client'[g])
  <2>1. /\ client' = [client EXCEPT ![f].st = "off"]
        /\ toServer' = [toServer EXCEPT ![f] = <<>>]
    BY <1>4 DEF Drop
  <2>2. client'[g].asked = client[g].asked
    BY <1>1, <2>1 DEF ClientType
  <2> QED BY <1>1, <2>1, <2>2 DEF Awaits
<1>5. CASE Poll
  <2>1. /\ toServer' = toServer
        /\ client'[g] = client[g] \/ client'[g] = [client[g] EXCEPT !.st = "on"]
    BY <1>5 DEF Poll
  <2>2. client'[g].asked = client[g].asked
    BY <1>1, <2>1 DEF ClientType
  <2> QED BY <2>1, <2>2 DEF Awaits
<1>6. ASSUME NEW f \in Fds, Serve(f) \/ ReadFails(f) \/ Finish(f)
      PROVE  toServer' = toServer /\ client' = client
  BY <1>6 DEF Serve, ReadFails, Finish
<1>7. ASSUME NEW f \in Fds, NEW r, Says(f, r)
      PROVE  toServer'[g] = IF g = f THEN Append(toServer[g], r) ELSE toServer[g]
  BY <1>1, <1>7 DEF Says
<1>8. ASSUME NEW f \in Fds, Connect(f)
      PROVE  Starts(g) \/ Awaits(toServer[g], toServer'[g], client[g], client'[g])
  <2> DEFINE r == [verb |-> "handshake"]
  <2>1. /\ client[f].st = "off" /\ Says(f, r) /\ r.verb # "WHO" /\ conns' = conns
        /\ client' = [client EXCEPT ![f] = [NoClient EXCEPT !.st = "connecting",
                                                            !.inc = client[f].inc + 1]]
    BY <1>8 DEF Connect, serverVars
  <2> HIDE DEF r
  <2>2. g = f => client'[g].asked = 0
    BY <1>1, <2>1 DEF NoClient
  <2>3. g # f => client'[g] = client[g]
    BY <1>1, <2>1
  <2> QED BY <1>7, <2>1, <2>2, <2>3 DEF Starts, Awaits
<1>9. ASSUME NEW f \in Fds, Request(f)
      PROVE  Awaits(toServer[g], toServer'[g], client[g], client'[g])
  <2>1. PICK r : r.verb # "WHO" /\ Says(f, r)
    <3>1. CASE \E verb \in MaySay \ {"LOGIN", "MSG", "WHO"} : Says(f, [verb |-> verb])
      <4>1. PICK verb \in MaySay \ {"LOGIN", "MSG", "WHO"} : Says(f, [verb |-> verb])
        BY <3>1
      <4>2. [verb |-> verb].verb # "WHO"
        OBVIOUS
      <4> QED BY <4>1, <4>2
    <3>2. CASE \E name \in Names \cup {NoName} : Says(f, [verb |-> "LOGIN", name |-> name])
      <4>1. PICK name \in Names \cup {NoName} : Says(f, [verb |-> "LOGIN", name |-> name])
        BY <3>2
      <4>2. [verb |-> "LOGIN", name |-> name].verb # "WHO"
        OBVIOUS
      <4> QED BY <4>1, <4>2
    <3> QED BY <1>9, <3>1, <3>2 DEF Request
  <2>2. client' = client
    BY <1>9 DEF Request
  <2> QED BY <1>7, <2>1, <2>2 DEF Awaits
<1>10. ASSUME NEW f \in Fds, AskWho(f)
       PROVE  Awaits(toServer[g], toServer'[g], client[g], client'[g])
  <2> DEFINE r == [verb |-> "WHO"]
  <2>1. Says(f, r) /\ r.verb = "WHO" /\ client' = [client EXCEPT ![f].asked = @ + 1]
    BY <1>10 DEF AskWho
  <2> HIDE DEF r
  <2>2. client'[g].asked = IF g = f THEN client[g].asked + 1 ELSE client[g].asked
    BY <1>1, <2>1 DEF ClientType
  <2> QED BY <1>7, <2>1, <2>2 DEF Awaits
<1>11. ASSUME NEW f \in Fds, NEW to \in Names, Message(f, to)
       PROVE  Awaits(toServer[g], toServer'[g], client[g], client'[g])
  <2> DEFINE r == [verb |-> "MSG",
                   msg |-> [by |-> f, inc |-> client[f].inc, to |-> to,
                            n |-> client[f].count[to]]]
  <2>1. Says(f, r) /\ r.verb # "WHO" /\ client' = [client EXCEPT ![f].count[to] = @ + 1]
    BY <1>11 DEF Message
  <2> HIDE DEF r
  <2>2. CASE g # f
    BY <1>1, <1>7, <2>1, <2>2 DEF Awaits
  <2>3. CASE g = f
    <3>1. client'[f] = [client[f] EXCEPT !.count[to] = @ + 1]
      BY <1>1, <2>1
    <3>2. client[f] \in ClientType
      BY <1>1
    <3>3. client'[g].asked = client[g].asked
      BY <2>3, <3>1, <3>2 DEF ClientType
    <3> QED BY <1>7, <2>1, <2>3, <3>3 DEF Awaits
  <2> QED BY <2>2, <2>3
<1>12. ASSUME NEW f \in Fds, Leave(f) \/ Stall(f) \/ Resume(f)
       PROVE  Awaits(toServer[g], toServer'[g], client[g], client'[g])
  <2>1. toServer' = toServer
    BY <1>12 DEF Leave, Stall, Resume
  <2>2. client' = client \/ client' = [client EXCEPT ![f].st = "gone"]
    BY <1>12 DEF Leave, Stall, Resume
  <2>3. client'[g].asked = client[g].asked
    <3>1. CASE client' = client
      BY <3>1
    <3>2. CASE client' = [client EXCEPT ![f].st = "gone"]
      BY <1>1, <3>2 DEF ClientType
    <3> QED BY <2>2, <3>1, <3>2
  <2> QED BY <2>1, <2>3 DEF Awaits
<1>13. CASE UNCHANGED vars
  BY <1>2, <1>13 DEF vars
<1> QED BY <1>2, <1>3, <1>4, <1>5, <1>6, <1>8, <1>9, <1>10, <1>11, <1>12, <1>13
        DEF Next, Server, Clients

\* Nothing happens to a descriptor at which no connection is open, but that one
\* ends there.
LEMMA ClosedStays ==
    ASSUME RelayInv, [Next]_vars, NEW g \in Fds, ~conns'[g].open
    PROVE  conns'[g] = NoConn \/ (conns'[g] = conns[g] /\ ~conns[g].open)
<1>1. TypeOK /\ NamesInverse /\ ServesOpen /\ ClientsMatch /\ ClientsMatch'
  <2>1. RelayInv'
    BY RelayNextInv
  <2> QED BY <2>1 DEF RelayInv
<1>2. conns \in [Fds -> ConnType] /\ client \in [Fds -> ClientType]
  BY <1>1 DEF TypeOK, ClientType
<1>3. client'[g].st \notin {"on", "gone"}
  BY <1>1 DEF ClientsMatch
<1>4. CASE UNCHANGED conns
  BY <1>4
<1>5. ASSUME NEW f \in Fds, Drop(f) PROVE conns'[g] = NoConn \/ conns'[g] = conns[g]
  <2>1. conns' = [(IF conns[f].reg THEN Broadcast(conns, "INFO", f) ELSE conns)
                        EXCEPT ![f] = NoConn]
        /\ client' = [client EXCEPT ![f].st = "off"]
    BY <1>5 DEF Drop
  <2>2. DOMAIN Broadcast(conns, "INFO", f) = Fds /\ DOMAIN conns = Fds
    BY <1>2 DEF Broadcast
  <2>3. CASE g = f
    BY <2>1, <2>2, <2>3
  <2>4. CASE g # f
    <3>1. ~conns[g].open
      BY <1>1, <1>2, <1>3, <2>1, <2>4 DEF ClientsMatch
    <3>2. ~conns[g].reg
      BY <1>1, <3>1 DEF NamesInverse
    <3> QED BY <2>1, <2>2, <2>4, <3>2 DEF Broadcast
  <2> QED BY <2>3, <2>4
<1>6. CASE Poll
  <2>1. conns'[g] = IF g \in Connecting THEN NewConn ELSE conns[g]
    BY <1>6 DEF Poll
  <2> QED BY <2>1 DEF NewConn, NoConn
<1>7. ASSUME NEW f \in Fds, Serve(f) \/ HandleRecord(f) \/ ReadFails(f) \/ Finish(f)
      PROVE  conns'[g] = conns[g]
  <2>1. client' = client
    BY <1>7 DEF Serve, ReadFails, Finish, HandleRecord, Handles, Handshake, HandshakeFails,
                Rejects, MustLogin, LoginAgain, LoginRefused, Login, Relays, NoSuchUser, Who,
                Quit, Unknown
  <2>2. ~conns[g].open
    BY <1>1, <1>3, <2>1 DEF ClientsMatch
  <2>3. conns[f].open
    <3>1. turn.fd = f \/ revents[f] # {}
      BY <1>7 DEF Serve, ReadFails, ReadsEnd, Finish, HandleRecord, Handles, Handshake,
                  HandshakeFails, Rejects, MustLogin, LoginAgain, LoginRefused, Login, Relays,
                  NoSuchUser, Who, Quit, Unknown
    <3> QED BY <1>1, <3>1 DEF ServesOpen
  <2>4. g # f /\ ~conns[g].reg
    BY <1>1, <2>2, <2>3 DEF NamesInverse
  <2>5. CASE Login(f)
    <3> DEFINE c == SendLine(Registered(conns[f], Head(toServer[f]).name), "OK", NoMsg)
    <3>1. conns' = Broadcast([conns EXCEPT ![f] = c], "INFO", f)
      BY <2>5 DEF Login, Done
    <3> HIDE DEF c
    <3> QED BY <1>2, <2>4, <3>1 DEF Broadcast
  <2>6. CASE Relays(f)
    <3> DEFINE t == byName[toServer[f][1].msg.to]
    <3>1. t \in Fds /\ conns[t].reg /\ \A h \in Fds : h # t => conns'[h] = conns[h]
      BY <2>6, RelaysPuts
    <3> QED BY <2>4, <3>1
  <2>7. CASE ~Login(f) /\ ~Relays(f)
    <3>1. \E c : conns' = [conns EXCEPT ![f] = c] \/ UNCHANGED conns
      BY <1>7, <2>7 DEF Serve, ReadFails, Finish, HandleRecord, Handshake, HandshakeFails,
                        Rejects, MustLogin, LoginAgain, LoginRefused, NoSuchUser, Who, Quit,
                        Unknown, Answers, Done
    <3> QED BY <1>2, <2>4, <3>1
  <2> QED BY <2>5, <2>6, <2>7
<1>8. ASSUME Clients PROVE UNCHANGED conns
  BY <1>8 DEF Clients, Connect, Request, AskWho, Requesting, Message, Leave, Stall, Resume,
              serverVars
<1>9. ASSUME UNCHANGED vars PROVE UNCHANGED conns
  BY <1>9 DEF vars, serverVars
<1>10. conns'[g] = NoConn \/ conns'[g] = conns[g]
  BY <1>4, <1>5, <1>6, <1>7, <1>8, <1>9 DEF Next, Server
<1> QED BY <1>10

\* The counters of everybody.
LEMMA CountNext ==
    ASSUME RelayInv, StreamInv, [Next]_vars, CountInv
    PROVE  CountInv'
<1> SUFFICES ASSUME NEW g \in Fds
             PROVE  /\ ~conns'[g].open => Empty(conns'[g])
                    /\ \E n \in Nat :
                        /\ n + Cardinality(Asks(toServer'[g])) <= client'[g].asked
                        /\ Counted(conns'[g], n)
  BY DEF CountInv
<1>1. /\ TypeOK /\ conns \in [Fds -> ConnType] /\ toServer \in [Fds -> Seq(RequestType)]
      /\ client[g].asked \in Nat
  BY DEF RelayInv, TypeOK
<1>2. Empty(NoConn)
  BY DEF Empty, NoConn
<1>3. ~conns'[g].open => Empty(conns'[g])
  BY <1>2, ClosedStays DEF CountInv
<1>4. PICK n \in Nat : /\ n + Cardinality(Asks(toServer[g])) <= client[g].asked
                       /\ Counted(conns[g], n)
  BY DEF CountInv
<1>5. CASE Starts(g)
  <2>1. toServer[g] = <<>> /\ ~conns[g].open
    BY <1>5 DEF Starts, RelayInv, ClientsMatch, StreamInv, QueueInv
  <2>2. Asks(toServer'[g]) = {}
    <3>1. Asks(toServer[g]) = {}
      BY <2>1 DEF Asks
    <3> QED BY <1>1, <1>5, <3>1, AsksParts DEF Starts
  <2>3. Empty(conns'[g]) /\ client'[g].asked = 0
    BY <1>5, <2>1 DEF CountInv, Starts
  <2>4. 0 + Cardinality(Asks(toServer'[g])) <= client'[g].asked
    BY <2>2, <2>3, FS_EmptySet
  <2>5. Counted(conns'[g], 0)
    BY <2>3, CountedEmpty DEF Empty
  <2> QED BY <1>3, <2>4, <2>5
<1>6. ASSUME Awaits(toServer[g], toServer'[g], client[g], client'[g])
      PROVE  n + Cardinality(Asks(toServer'[g])) <= client'[g].asked
  <2> DEFINE q == toServer[g]
             q2 == toServer'[g]
  <2>1. /\ Cardinality(Asks(q)) \in Nat /\ Cardinality(Asks(<<>>)) = 0
        /\ Len(q) >= 1 => Cardinality(Asks(Tail(q))) <= Cardinality(Asks(q))
    <3>1. Asks(<<>>) = {}
      BY DEF Asks
    <3> QED BY <1>1, <3>1, AsksParts, FS_EmptySet
  <2>2. Len(q) >= 1 => Cardinality(Asks(Tail(q))) \in Nat
    <3>1. Len(q) >= 1 => Tail(q) \in Seq(RequestType)
      BY <1>1, TailParts
    <3> QED BY <3>1, AsksParts
  <2>3. \A r : /\ r.verb # "WHO" => Asks(Append(q, r)) = Asks(q)
               /\ r.verb = "WHO" => Cardinality(Asks(Append(q, r))) = Cardinality(Asks(q)) + 1
    BY <1>1, AsksParts
  <2>4. CASE client'[g].asked = client[g].asked
    <3>1. \/ q2 = q \/ q2 = <<>>
          \/ Len(q) >= 1 /\ q2 = Tail(q)
          \/ \E r : r.verb # "WHO" /\ q2 = Append(q, r)
      BY <1>1, <1>6, <2>4 DEF Awaits
    <3>2. Cardinality(Asks(q2)) <= Cardinality(Asks(q)) /\ Cardinality(Asks(q2)) \in Nat
      <4>1. CASE q2 = q
        BY <2>1, <4>1
      <4>2. CASE q2 = <<>>
        BY <2>1, <4>2
      <4>3. CASE Len(q) >= 1 /\ q2 = Tail(q)
        BY <2>1, <2>2, <4>3
      <4>4. CASE \E r : r.verb # "WHO" /\ q2 = Append(q, r)
        <5>1. Asks(q2) = Asks(q)
          BY <2>3, <4>4
        <5> QED BY <2>1, <5>1
      <4> QED BY <3>1, <4>1, <4>2, <4>3, <4>4
    <3> QED BY <1>1, <1>4, <2>1, <2>4, <3>2
  <2>5. CASE client'[g].asked = client[g].asked + 1
    <3>1. \E r : r.verb = "WHO" /\ q2 = Append(q, r)
      BY <1>1, <1>6, <2>5 DEF Awaits
    <3>2. Cardinality(Asks(q2)) = Cardinality(Asks(q)) + 1
      BY <2>3, <3>1
    <3> QED BY <1>1, <1>4, <2>1, <2>5, <3>2
  <2> QED BY <1>6, <2>4, <2>5 DEF Awaits
<1>7. ASSUME NEW f \in Fds, Who(f)
      PROVE  \E k \in Nat : /\ k + Cardinality(Asks(toServer'[g])) <= client'[g].asked
                            /\ Counted(conns'[g], k)
  <2>1. /\ toServer[f] # <<>> /\ Head(toServer[f]).verb = "WHO" /\ client' = client
        /\ toServer' = [toServer EXCEPT ![f] = Tail(@)]
        /\ conns' = [conns EXCEPT ![f] = SendUsers(conns[f])]
    BY <1>7 DEF Who, Handles, Answers, Done
  <2>2. CASE g # f
    BY <1>1, <1>4, <2>1, <2>2
  <2>3. CASE g = f
    <3> DEFINE q == toServer[f]
               c == conns[f]
    <3>1. Len(q) >= 1 /\ q[1].verb = "WHO" /\ q \in Seq(RequestType)
      <4>1. Len(q) >= 1 /\ Head(q) = q[1]
        BY <1>1, <2>1
      <4> QED BY <1>1, <2>1, <4>1
    <3>2. /\ Cardinality(Asks(q)) \in Nat /\ Cardinality(Asks(Tail(q))) \in Nat
          /\ Cardinality(Asks(Tail(q))) + 1 <= Cardinality(Asks(q))
      <4>1. Tail(q) \in Seq(RequestType)
        BY <3>1, TailParts
      <4> QED BY <3>1, <4>1, AsksParts
    <3>3. toServer'[g] = Tail(q) /\ conns'[g] = SendUsers(c) /\ c \in ConnType
      BY <1>1, <2>1, <2>3
    <3>4. Counted(SendUsers(c), n) \/ Counted(SendUsers(c), n + 1)
      <4>1. CASE SendUsers(c) = SendLine(c, "USERS", NoMsg)
        <5>1. \/ Puts(c, SendLine(c, "USERS", NoMsg), "USERS", NoMsg)
              \/ Stays(c, SendLine(c, "USERS", NoMsg))
          BY <3>3, SendPuts
        <5>2. Counted(SendLine(c, "USERS", NoMsg), n)
          <6>1. CASE Stays(c, SendLine(c, "USERS", NoMsg))
            BY <1>4, <2>3, <6>1 DEF Stays, Counted
          <6>2. CASE Puts(c, SendLine(c, "USERS", NoMsg), "USERS", NoMsg)
            BY <1>4, <2>3, <3>3, <6>2, CountedMore DEF Puts, Record
          <6> QED BY <5>1, <6>1, <6>2
        <5> QED BY <4>1, <5>2
      <4>2. CASE SendUsers(c) = [c EXCEPT !.tx = @ + 1]
        <5>1. SendUsers(c).stream = c.stream /\ SendUsers(c).tx = c.tx + 1
          BY <3>3, <4>2 DEF ConnType
        <5> QED BY <1>4, <2>3, <3>3, <5>1, CountedSkip
      <4> QED BY <4>1, <4>2 DEF SendUsers
    <3>5. /\ n + Cardinality(Asks(Tail(q))) <= client'[g].asked
          /\ (n + 1) + Cardinality(Asks(Tail(q))) <= client'[g].asked
      BY <1>1, <1>4, <2>1, <2>3, <3>2
    <3> QED BY <3>3, <3>4, <3>5
  <2> QED BY <2>2, <2>3
<1>8. ASSUME NEW f \in Fds, Relays(f) PROVE Counted(conns'[g], n)
  <2> DEFINE m == toServer[f][1].msg
             t == byName[m.to]
  <2>1. /\ t \in Fds
        /\ conns[t].up => Puts(conns[t], conns'[t], "FROM", m)
        /\ ~conns[t].up => Stays(conns[t], conns'[t])
        /\ \A h \in Fds : h # t => conns'[h] = conns[h]
    BY <1>8, RelaysPuts
  <2> HIDE DEF t, m
  <2>2. CASE g # t
    BY <1>4, <2>1, <2>2
  <2>3. CASE g = t /\ conns[t].up
    <3>1. Puts(conns[g], conns'[g], "FROM", m)
      BY <2>1, <2>3
    <3> QED BY <1>1, <1>4, <3>1, CountedMore DEF Puts, Record
  <2>4. CASE g = t /\ ~conns[t].up
    BY <1>4, <2>1, <2>4 DEF Stays, Counted
  <2> QED BY <2>2, <2>3, <2>4
<1>9. ASSUME \A f \in Fds : ~Relays(f), ~Asked PROVE Counted(conns'[g], n)
  <2>1. Hears(conns[g], conns'[g]) \/ Fresh(conns'[g])
    BY <1>9, StepHears
  <2> QED BY <1>1, <1>4, <1>9, <2>1, CountedHears
<1>10. Starts(g) \/ Awaits(toServer[g], toServer'[g], client[g], client'[g])
  BY StepAsks
<1> QED BY <1>3, <1>5, <1>6, <1>7, <1>8, <1>9, <1>10 DEF Asked

-----------------------------------------------------------------------------
(* What holds throughout. *)

\* Every connection is sent the verdict first, messages for its user only, and
\* the messages of a sender numbered through to what is still in its queue.
THEOREM StreamInvariance == Spec => []StreamInv
<1>1. RelayInv /\ RelayInv' /\ StreamInv /\ [Next]_vars => StreamInv'
  BY StreamQuiet, StreamRelays
<1> QED BY <1>1, StreamInit, RelayInvariance, PTL DEF Spec

\* A client's first record is the verdict on its LOGIN, whoever logs in, leaves
\* or sends in between: handle_login answers before it broadcasts.
THEOREM VerdictComesFirst == Spec => []VerdictFirst
<1>1. RelayInv /\ StreamInv => VerdictFirst
  <2> SUFFICES ASSUME RelayInv, StreamInv, NEW f \in Fds, conns[f].stream # <<>>
               PROVE  Head(conns[f].stream).tag \in {"OK", "ERR", "ALERT"}
    BY DEF VerdictFirst
  <2>1. conns[f].stream \in Seq(RecordType)
    BY DEF RelayInv, TypeOK, ConnType
  <2>2. Head(conns[f].stream) = conns[f].stream[1]
    BY <2>1
  <2> QED BY <2>2 DEF StreamInv, Said
<1> QED BY <1>1, RelayInvariance, StreamInvariance, PTL

\* A message comes to the user it names and to nobody else, and what comes from
\* one connection of a sender comes in its order with none left out, however
\* descriptors and names are used again.
THEOREM RelayDelivers == Spec => []Delivery
<1>1. RelayInv /\ StreamInv => Delivery
  <2> SUFFICES ASSUME RelayInv, StreamInv PROVE NoMisdelivery /\ NoGaps
    BY DEF Delivery
  <2>1. \A f \in Fds : DOMAIN conns[f].stream = 1 .. Len(conns[f].stream)
    <3>1. \A f \in Fds : conns[f].stream \in Seq(RecordType)
      BY DEF RelayInv, TypeOK, ConnType
    <3> QED BY <3>1
  <2>2. NoMisdelivery
    BY <2>1 DEF NoMisdelivery, StreamInv, Said
  <2>3. NoGaps
    BY <2>1, ZenonT(30) DEF NoGaps, StreamInv, Successive, From
  <2> QED BY <2>2, <2>3
<1> QED BY <1>1, RelayInvariance, StreamInvariance, PTL

\* On one connection no counter is used twice, and those that are on no record are
\* no more than the requests for the roster its client has sent on it.
THEOREM RelayDriftIsOwn == Spec => []DriftIsOwn
<1>1. Init => CountInv
  <2> SUFFICES ASSUME Init, NEW f \in Fds
               PROVE  /\ Empty(conns[f]) /\ Counted(conns[f], 0)
                      /\ 0 + Cardinality(Asks(toServer[f])) <= client[f].asked
    BY DEF CountInv
  <2>1. NoConn.stream = <<>> /\ NoConn.tx = 0 /\ NoClient.asked = 0
    BY DEF NoConn, NoClient
  <2>2. conns[f] = NoConn /\ client[f] = NoClient /\ toServer[f] = <<>>
    BY DEF Init
  <2>3. Asks(<<>>) = {}
    BY DEF Asks
  <2>4. Empty(conns[f])
    BY <2>1, <2>2 DEF Empty
  <2>5. Counted(conns[f], 0)
    BY <2>4, CountedEmpty DEF Empty
  <2>6. Cardinality(Asks(toServer[f])) = 0 /\ client[f].asked = 0
    BY <2>1, <2>2, <2>3, FS_EmptySet
  <2> QED BY <2>4, <2>5, <2>6
<1>2. RelayInv /\ StreamInv /\ CountInv /\ [Next]_vars => CountInv'
  BY CountNext
<1>3. RelayInv /\ CountInv => DriftIsOwn
  <2> SUFFICES ASSUME RelayInv, CountInv, NEW f \in Fds, NEW i \in DOMAIN conns[f].stream,
                      conns[f].stream[i].tag # "ALERT"
               PROVE  LET s == conns[f].stream
                          Sealed(k) == {j \in 1 .. k - 1 : s[j].tag # "ALERT"}
                      IN  /\ \A j \in Sealed(i) : s[j].seq < s[i].seq
                          /\ s[i].seq <= Cardinality(Sealed(i)) + client[f].asked
    BY DEF DriftIsOwn
  <2> DEFINE s == conns[f].stream
  <2>1. /\ s \in Seq(RecordType) /\ toServer[f] \in Seq(RequestType) /\ client[f].asked \in Nat
    BY DEF RelayInv, TypeOK, ConnType
  <2>2. DOMAIN s = 1 .. Len(s) /\ s[i] \in RecordType
    BY <2>1
  <2>3. PICK n \in Nat : n + Cardinality(Asks(toServer[f])) <= client[f].asked
                         /\ Counted(conns[f], n)
    BY DEF CountInv
  <2>4. Cardinality(Asks(toServer[f])) \in Nat
    BY <2>1, AsksParts
  <2>5. n <= client[f].asked
    BY <2>1, <2>3, <2>4
  <2>6. /\ \A j \in SealedBefore(s, i) : s[j].seq < s[i].seq
        /\ s[i].seq <= Cardinality(SealedBefore(s, i)) + n
    BY <2>2, <2>3 DEF Counted
  <2>7. Cardinality(SealedBefore(s, i)) \in Nat
    <3>1. IsFiniteSet(1 .. i - 1) /\ SealedBefore(s, i) \in SUBSET (1 .. i - 1)
      <4>1. i - 1 \in Int
        BY <2>1, <2>2
      <4> QED BY <4>1, FS_Interval DEF SealedBefore
    <3> QED BY <3>1, FS_Subset, FS_CardinalityType
  <2>8. s[i].seq \in Nat
    BY <2>2 DEF RecordType
  <2>9. s[i].seq <= Cardinality(SealedBefore(s, i)) + client[f].asked
    BY <2>1, <2>5, <2>6, <2>7, <2>8
  <2> QED BY <2>6, <2>9 DEF SealedBefore
<1> QED BY <1>1, <1>2, <1>3, RelayInvariance, StreamInvariance, PTL DEF Spec

=============================================================================
