--------------------------- MODULE PlainChatProofs ---------------------------
(***************************************************************************)
(* Proofs about PlainChat, for any descriptors, names and bounds: the      *)
(* invariant of PlainRoster, what it says of the news and of a client      *)
(* whose prompt is up, and that relay and clients together do nothing the  *)
(* chat service does not allow.                                            *)
(***************************************************************************)
EXTENDS PlainRoster, TLAPS, SequenceTheorems

ConnType ==
    [reg : BOOLEAN, user : Names \cup {NoName}, want : BOOLEAN,
     out : Seq(LineType), news : [Names -> {"none", "joined", "left"}]]

ClientType ==
    [st : {"off", "login", "on", "strange", "gone"},
     user : Names \cup {NoName}, partner : Names \cup {NoName}]

ClientsType == [Fds -> ClientType]
LinkType == [Fds -> {"unused", "backlog", "open", "closed"}]
WireType == [Fds -> Seq(LineType)]
FateType == [Messages -> {"unsent", "sent", "relayed", "undelivered", "shown"}]

\* TypeOK under these names.
LEMMA TypesHeld ==
    ASSUME TypeOK
    PROVE  /\ conns \in [Fds -> ConnType] /\ link \in LinkType /\ clients \in ClientsType
           /\ up \in WireType /\ down \in WireType /\ fate \in FateType
BY DEF TypeOK, ConnType, LinkType, ClientsType, ClientType, WireType, FateType

\* A connection whose user is told a line, and one whose user is told who came or left.
Told(c, d, line) ==
    /\ d.reg = c.reg /\ d.user = c.user /\ d.news = c.news
    /\ d.out = Append(c.out, line)

ToldNews(c, d, line) ==
    /\ d.reg = c.reg /\ d.user = c.user
    /\ d.news = [c.news EXCEPT ![line.name] = line.verb]
    /\ d.out = Append(c.out, line)

Same(c, d) == d.reg = c.reg /\ d.user = c.user /\ d.news = c.news /\ d.out = c.out

-----------------------------------------------------------------------------
(* Lines and queues. *)

\* A line of one of the verbs is a line.
LEMMA LineIsTyped ==
    ASSUME NEW verb \in {"LOGIN", "MSG", "WHO", "QUIT", "other", "bad",
                         "OK", "ERR", "FROM", "USERS", "joined", "left"},
           NEW name \in Names \cup {NoName}, NEW msg \in 0 .. MaxMessages
    PROVE  /\ Line(verb, name, msg) \in LineType
           /\ Line(verb, name, msg).verb = verb /\ Line(verb, name, msg).name = name
           /\ Line(verb, name, msg).msg = msg
BY DEF Line, LineType

\* send_line, for a line that is no news and for one that is.
LEMMA SendLineTells ==
    ASSUME NEW c \in ConnType, NEW line \in LineType, line.verb \notin {"joined", "left"}
    PROVE  SendLine(c, line) \in ConnType /\ Told(c, SendLine(c, line), line)
           /\ SendLine(c, line).want = c.want
<1>1. SendLine(c, line) = [c EXCEPT !.out = Append(@, line), !.news = @]
  BY DEF SendLine
<1>2. Append(c.out, line) \in Seq(LineType)
  BY DEF ConnType
<1> QED BY <1>1, <1>2 DEF ConnType, Told

\* send_line, for a line that says who came or left.
LEMMA SendLineTellsNews ==
    ASSUME NEW c \in ConnType, NEW line \in LineType, line.verb \in {"joined", "left"},
           line.name \in Names
    PROVE  SendLine(c, line) \in ConnType /\ ToldNews(c, SendLine(c, line), line)
<1>1. SendLine(c, line) = [c EXCEPT !.out = Append(@, line),
                                    !.news = [@ EXCEPT ![line.name] = line.verb]]
  BY DEF SendLine
<1>2. [c.news EXCEPT ![line.name] = line.verb] \in [Names -> {"none", "joined", "left"}]
  BY DEF ConnType
<1>3. Append(c.out, line) \in Seq(LineType)
  BY DEF ConnType
<1> QED BY <1>1, <1>2, <1>3 DEF ConnType, ToldNews

\* A descriptor without a connection.
LEMMA NoConnTyped ==
    NoConn \in ConnType /\ ~NoConn.reg /\ NoConn.user = NoName /\ NoConn.out = <<>>
    /\ ~NoConn.want /\ \A n \in Names : NoConn.news[n] = "none"
BY DEF NoConn, ConnType

\* broadcast reaches whoever is logged in, but one.
LEMMA BroadcastTells ==
    ASSUME NEW cs \in [Fds -> ConnType], NEW line \in LineType,
           line.verb \in {"joined", "left"}, line.name \in Names, NEW f
    PROVE  /\ Broadcast(cs, line, f) \in [Fds -> ConnType]
           /\ \A g \in Fds :
                IF g # f /\ cs[g].reg THEN ToldNews(cs[g], Broadcast(cs, line, f)[g], line)
                                      ELSE Broadcast(cs, line, f)[g] = cs[g]
<1>1. \A g \in Fds :
        SendLine(cs[g], line) \in ConnType /\ ToldNews(cs[g], SendLine(cs[g], line), line)
  BY SendLineTellsNews
<1> QED BY <1>1 DEF Broadcast

-----------------------------------------------------------------------------
(* What a line does to the connections. *)

Becoming == conns' \in [Fds -> ConnType]

Others(f) == \A g \in Fds \ {f} : conns'[g] = conns[g]

Reply(f) ==
    /\ byName' = byName /\ Others(f)
    /\ \E verb \in {"ERR", "USERS"} : Told(conns[f], conns'[f], Line(verb, NoName, 0))

Wants(f) == byName' = byName /\ Others(f) /\ Same(conns[f], conns'[f])

Post(f, to, m) ==
    /\ conns[f].reg /\ byName[to] # NoFd /\ byName' = byName /\ Others(byName[to])
    /\ Told(conns[byName[to]], conns'[byName[to]], Line("FROM", conns[f].user, m))

Join(f, n) ==
    /\ ~conns[f].reg /\ byName[n] = NoFd /\ byName' = [byName EXCEPT ![n] = f]
    /\ conns'[f].reg /\ conns'[f].user = n /\ conns'[f].news = conns[f].news
    /\ conns'[f].out = Append(conns[f].out, Line("OK", n, 0))
    /\ \A g \in Fds \ {f} :
        IF conns[g].reg THEN ToldNews(conns[g], conns'[g], Line("joined", n, 0))
                        ELSE conns'[g] = conns[g]

LineEffect(f, line) ==
    \/ Reply(f) \/ Wants(f)
    \/ \E to \in Names, m \in Messages : Post(f, to, m)
    \/ line.verb = "LOGIN" /\ line.name \in Names /\ Join(f, line.name)

\* An error or an answer, and perhaps the end of the connection.
LEMMA ReplyHolds ==
    ASSUME TypeOK, NEW f \in Fds, NEW verb \in {"ERR", "USERS"}, NEW b \in BOOLEAN,
           conns' = [conns EXCEPT ![f] = [SendLine(conns[f], Line(verb, NoName, 0))
                                              EXCEPT !.want = b]],
           byName' = byName
    PROVE  Reply(f) /\ Becoming
<1>1. conns \in [Fds -> ConnType] /\ conns[f] \in ConnType
  BY DEF TypeOK, ConnType
<1>2. PICK line : line = Line(verb, NoName, 0)
  OBVIOUS
<1>3. line \in LineType /\ line.verb = verb
  <2>1. 0 \in 0 .. MaxMessages
    BY PlainChatAssumption
  <2> QED BY <1>2, <2>1, LineIsTyped
<1>4. PICK d : d = SendLine(conns[f], line)
  OBVIOUS
<1>5. d \in ConnType /\ Told(conns[f], d, line)
  BY <1>1, <1>3, <1>4, SendLineTells
<1>6. PICK e : e = [d EXCEPT !.want = b]
  OBVIOUS
<1>7. e \in ConnType /\ Told(conns[f], e, line)
  BY <1>5, <1>6 DEF ConnType, Told
<1>8. conns' = [conns EXCEPT ![f] = e]
  BY <1>2, <1>4, <1>6
<1>9. conns'[f] = e /\ Others(f) /\ Becoming
  BY <1>1, <1>7, <1>8 DEF Others, Becoming
<1> QED BY <1>2, <1>7, <1>9 DEF Reply

\* The same, where nothing is said of want.
LEMMA PlainReplyHolds ==
    ASSUME TypeOK, NEW f \in Fds, NEW verb \in {"ERR", "USERS"},
           conns' = [conns EXCEPT ![f] = SendLine(conns[f], Line(verb, NoName, 0))],
           byName' = byName
    PROVE  Reply(f) /\ Becoming
<1>1. conns \in [Fds -> ConnType] /\ conns[f] \in ConnType
  BY DEF TypeOK, ConnType
<1>2. PICK line : line = Line(verb, NoName, 0)
  OBVIOUS
<1>3. line \in LineType /\ line.verb = verb
  <2>1. 0 \in 0 .. MaxMessages
    BY PlainChatAssumption
  <2> QED BY <1>2, <2>1, LineIsTyped
<1>4. PICK d : d = SendLine(conns[f], line)
  OBVIOUS
<1>5. d \in ConnType /\ Told(conns[f], d, line)
  BY <1>1, <1>3, <1>4, SendLineTells
<1>6. conns' = [conns EXCEPT ![f] = d]
  BY <1>2, <1>4
<1>7. conns'[f] = d /\ Others(f) /\ Becoming
  BY <1>1, <1>5, <1>6 DEF Others, Becoming
<1> QED BY <1>2, <1>5, <1>7 DEF Reply

\* LOGIN is granted: the name is taken, the user told OK and the others the news.
LEMMA JoinHolds ==
    ASSUME TypeOK, NEW f \in Fds, NEW n \in Names, ~conns[f].reg, byName[n] = NoFd,
           byName' = [byName EXCEPT ![n] = f],
           conns' = Broadcast([conns EXCEPT ![f] =
                        [SendLine(conns[f], Line("OK", n, 0)) EXCEPT !.reg = TRUE, !.user = n]],
                        Line("joined", n, 0), f)
    PROVE  Join(f, n) /\ Becoming
<1>1. conns \in [Fds -> ConnType] /\ conns[f] \in ConnType /\ 0 \in 0 .. MaxMessages
  BY PlainChatAssumption DEF TypeOK, ConnType
<1>2. PICK ok, joined : ok = Line("OK", n, 0) /\ joined = Line("joined", n, 0)
  OBVIOUS
<1>3. /\ ok \in LineType /\ ok.verb = "OK"
      /\ joined \in LineType /\ joined.verb = "joined" /\ joined.name = n
  BY <1>1, <1>2, LineIsTyped
<1>4. PICK d : d = SendLine(conns[f], ok)
  OBVIOUS
<1>5. d \in ConnType /\ Told(conns[f], d, ok)
  BY <1>1, <1>3, <1>4, SendLineTells
<1>6. PICK e : e = [d EXCEPT !.reg = TRUE, !.user = n]
  OBVIOUS
<1>7. e \in ConnType /\ e.reg /\ e.user = n /\ e.news = conns[f].news
      /\ e.out = Append(conns[f].out, ok)
  BY <1>5, <1>6 DEF ConnType, Told
<1>8. PICK cs : cs = [conns EXCEPT ![f] = e]
  OBVIOUS
<1>9. cs \in [Fds -> ConnType] /\ cs[f] = e /\ \A g \in Fds \ {f} : cs[g] = conns[g]
  BY <1>1, <1>7, <1>8
<1>10. conns' = Broadcast(cs, joined, f)
  BY <1>2, <1>4, <1>6, <1>8
<1>11. /\ Becoming
       /\ \A g \in Fds : IF g # f /\ cs[g].reg THEN ToldNews(cs[g], conns'[g], joined)
                                               ELSE conns'[g] = cs[g]
  <2>1. /\ Broadcast(cs, joined, f) \in [Fds -> ConnType]
        /\ \A g \in Fds :
             IF g # f /\ cs[g].reg THEN ToldNews(cs[g], Broadcast(cs, joined, f)[g], joined)
                                   ELSE Broadcast(cs, joined, f)[g] = cs[g]
    BY <1>3, <1>9, BroadcastTells
  <2> QED BY <1>10, <2>1 DEF Becoming
<1>12. conns'[f] = e
  BY <1>9, <1>11
<1>13. \A g \in Fds \ {f} : IF conns[g].reg THEN ToldNews(conns[g], conns'[g], joined)
                                            ELSE conns'[g] = conns[g]
  BY <1>9, <1>11
<1> QED BY <1>2, <1>7, <1>11, <1>12, <1>13 DEF Join

\* MSG finds its user, who is told FROM.
LEMMA PostHolds ==
    ASSUME TypeOK, NEW f \in Fds, NEW to \in Names, NEW m \in Messages,
           conns[f].reg, byName[to] # NoFd, byName' = byName,
           conns' = [conns EXCEPT ![byName[to]] =
                        SendLine(@, Line("FROM", conns[f].user, m))]
    PROVE  Post(f, to, m) /\ Becoming
<1>1. conns \in [Fds -> ConnType] /\ conns[f].user \in Names \cup {NoName}
      /\ m \in 0 .. MaxMessages /\ byName[to] \in Fds
  BY PlainChatAssumption DEF TypeOK, ConnType, Messages
<1>2. PICK g, line : g = byName[to] /\ line = Line("FROM", conns[f].user, m)
  OBVIOUS
<1>3. line \in LineType /\ line.verb = "FROM"
  BY <1>1, <1>2, LineIsTyped
<1>4. PICK d : d = SendLine(conns[g], line)
  OBVIOUS
<1>5. d \in ConnType /\ Told(conns[g], d, line)
  BY <1>1, <1>2, <1>3, <1>4, SendLineTells
<1>6. conns' = [conns EXCEPT ![g] = d]
  BY <1>2, <1>4
<1>7. conns'[g] = d /\ Others(g) /\ Becoming
  BY <1>1, <1>2, <1>5, <1>6 DEF Others, Becoming
<1> QED BY <1>2, <1>5, <1>7 DEF Post

\* Whatever a line says, it does one of these things.
LEMMA HandleLineEffect ==
    ASSUME TypeOK, NEW f \in Fds, NEW line \in LineType, HandleLine(f, line)
    PROVE  LineEffect(f, line) /\ Becoming /\ fate' \in FateType
<1>1. conns \in [Fds -> ConnType] /\ conns[f] \in ConnType
  BY DEF TypeOK, ConnType
<1>2. fate' \in FateType
  BY TypesHeld DEF FateType, HandleLine, HandleLogin, HandleMsg, HandleWho, Becomes, Logs
<1>3. ASSUME NEW c, Becomes(f, c) PROVE conns' = [conns EXCEPT ![f] = c] /\ byName' = byName
  BY <1>3 DEF Becomes
<1>4. ASSUME Becomes(f, SendLine(conns[f], Err)) \/ HandleWho(f)
      PROVE  Reply(f) /\ Becoming
  BY <1>4, <1>3, PlainReplyHolds DEF Err, HandleWho
<1>5. ASSUME Becomes(f, [SendLine(conns[f], Err) EXCEPT !.want = TRUE])
      PROVE  Reply(f) /\ Becoming
  BY <1>5, <1>3, ReplyHolds DEF Err
<1>6. CASE ~conns[f].reg /\ line.verb # "LOGIN"
           /\ Becomes(f, [SendLine(conns[f], Err) EXCEPT !.want = TRUE])
  BY <1>2, <1>5, <1>6 DEF LineEffect
<1>7. CASE line.verb = "LOGIN" /\ HandleLogin(f, line.name)
  <2>1. CASE ~conns[f].reg /\ line.name \in Names /\ byName[line.name] = NoFd
             /\ byName' = [byName EXCEPT ![line.name] = f]
             /\ conns' = Broadcast([conns EXCEPT ![f] =
                            [SendLine(conns[f], Line("OK", line.name, 0))
                                EXCEPT !.reg = TRUE, !.user = line.name]],
                            Line("joined", line.name, 0), f)
    <3>1. Join(f, line.name) /\ Becoming
      BY <2>1, JoinHolds
    <3> QED BY <1>2, <1>7, <2>1, <3>1 DEF LineEffect
  <2>2. CASE Becomes(f, SendLine(conns[f], Err))
             \/ Becomes(f, [SendLine(conns[f], Err) EXCEPT !.want = TRUE])
    BY <1>2, <1>4, <1>5, <2>2 DEF LineEffect
  <2> QED BY <1>7, <2>1, <2>2 DEF HandleLogin
<1>8. CASE conns[f].reg /\ line.verb = "MSG" /\ HandleMsg(f, line.name, line.msg)
  <2>1. line.msg \in 0 .. MaxMessages
    BY DEF LineType
  <2>2. CASE line.msg = 0 /\ Becomes(f, SendLine(conns[f], Err))
    BY <1>2, <1>4, <2>2 DEF LineEffect
  <2>3. CASE line.msg # 0 /\ line.name \in Names /\ byName[line.name] # NoFd
             /\ conns' = [conns EXCEPT ![byName[line.name]] =
                            SendLine(@, Line("FROM", conns[f].user, line.msg))]
             /\ byName' = byName
    <3>1. line.msg \in Messages
      BY <2>1, <2>3, PlainChatAssumption DEF Messages
    <3>2. Post(f, line.name, line.msg) /\ Becoming
      BY <1>8, <2>3, <3>1, PostHolds
    <3> QED BY <1>2, <2>3, <3>1, <3>2 DEF LineEffect
  <2>4. CASE conns' = [conns EXCEPT ![f] = SendLine(@, Err)] /\ byName' = byName
    <3>1. Reply(f) /\ Becoming
      BY <2>4, PlainReplyHolds DEF Err
    <3> QED BY <1>2, <3>1 DEF LineEffect
  <2> QED BY <1>8, <2>2, <2>3, <2>4 DEF HandleMsg
<1>9. CASE HandleWho(f) \/ Becomes(f, SendLine(conns[f], Err))
  BY <1>2, <1>4, <1>9 DEF LineEffect
<1>10. CASE Becomes(f, [conns[f] EXCEPT !.want = TRUE])
  <2>1. PICK d : d = [conns[f] EXCEPT !.want = TRUE]
    OBVIOUS
  <2>2. d \in ConnType /\ Same(conns[f], d)
    BY <1>1, <2>1 DEF ConnType, Same
  <2>3. conns' = [conns EXCEPT ![f] = d] /\ byName' = byName
    BY <1>10, <2>1 DEF Becomes
  <2>4. Wants(f) /\ Becoming
    BY <1>1, <2>2, <2>3 DEF Wants, Others, Becoming
  <2> QED BY <1>2, <2>4 DEF LineEffect
<1> QED BY <1>6, <1>7, <1>8, <1>9, <1>10 DEF HandleLine

-----------------------------------------------------------------------------
(* What a socket takes. *)

\* What the socket takes of the queue was at its front, and comes after what is
\* there already.
Moves(f) ==
    /\ Others(f) /\ \A g \in Fds \ {f} : down'[g] = down[g]
    /\ conns'[f].reg = conns[f].reg /\ conns'[f].user = conns[f].user
    /\ conns'[f].news = conns[f].news /\ conns'[f].want = conns[f].want
    /\ \E t \in 0 .. Len(conns[f].out) :
        /\ conns'[f].out = SubSeq(conns[f].out, t + 1, Len(conns[f].out))
        /\ down'[f] = down[f] \o SubSeq(conns[f].out, 1, t)

\* A queue cut in two, with the first part put after another sequence.
LEMMA CutInTwo ==
    ASSUME NEW s \in Seq(LineType), NEW r \in Seq(LineType), NEW t \in 0 .. Len(s)
    PROVE  /\ SubSeq(s, 1, t) \in Seq(LineType) /\ SubSeq(s, t + 1, Len(s)) \in Seq(LineType)
           /\ Len(SubSeq(s, 1, t)) = t /\ Len(SubSeq(s, t + 1, Len(s))) = Len(s) - t
           /\ \A i \in 1 .. t : SubSeq(s, 1, t)[i] = s[i]
           /\ \A i \in 1 .. Len(s) - t : SubSeq(s, t + 1, Len(s))[i] = s[t + i]
           /\ r \o SubSeq(s, 1, t) \in Seq(LineType)
           /\ Len(r \o SubSeq(s, 1, t)) = Len(r) + t
<1>1. Len(s) \in Nat /\ t \in Nat /\ t <= Len(s)
  OBVIOUS
<1>2. SubSeq(s, 1, t) \in Seq(LineType) /\ Len(SubSeq(s, 1, t)) = t
      /\ \A i \in 1 .. t : SubSeq(s, 1, t)[i] = s[i]
  BY <1>1
<1>3. SubSeq(s, t + 1, Len(s)) \in Seq(LineType) /\ Len(SubSeq(s, t + 1, Len(s))) = Len(s) - t
      /\ \A i \in 1 .. Len(s) - t : SubSeq(s, t + 1, Len(s))[i] = s[t + i]
  BY <1>1
<1> QED BY <1>2, <1>3

\* flush_out moves lines from the queue to the socket, which holds no more than it can.
LEMMA FlushMoves ==
    ASSUME TypeOK, NEW f \in Fds, Flush(f)
    PROVE  /\ Moves(f) /\ Becoming /\ down' \in WireType
           /\ \A g \in Fds : Len(down'[g]) <= SocketRoom
<1>1. /\ conns \in [Fds -> ConnType] /\ down \in WireType
      /\ \A g \in Fds : Len(down[g]) <= SocketRoom
      /\ SocketRoom \in Nat
  BY PlainChatAssumption DEF TypeOK, ConnType, WireType
<1>2. PICK s, r, t : s = conns[f].out /\ r = down[f] /\ t = Takes(f)
  OBVIOUS
<1>3. s \in Seq(LineType) /\ r \in Seq(LineType) /\ Len(r) <= SocketRoom /\ Len(r) \in Nat
      /\ Len(s) \in Nat
  BY <1>1, <1>2 DEF ConnType, WireType
<1>4. t \in 0 .. Len(s) /\ Len(r) + t <= SocketRoom
  <2>1. t = IF Len(s) < SocketRoom - Len(r) THEN Len(s) ELSE SocketRoom - Len(r)
    BY <1>2 DEF Takes
  <2> QED BY <1>1, <1>3, <2>1
<1>5. PICK d : d = [conns[f] EXCEPT !.out = SubSeq(s, t + 1, Len(s))]
  OBVIOUS
<1>6. /\ conns' = [conns EXCEPT ![f] = d]
      /\ down' = [down EXCEPT ![f] = r \o SubSeq(s, 1, t)]
  BY <1>1, <1>2, <1>5 DEF Flush
<1>7. /\ SubSeq(s, t + 1, Len(s)) \in Seq(LineType) /\ r \o SubSeq(s, 1, t) \in Seq(LineType)
      /\ Len(r \o SubSeq(s, 1, t)) = Len(r) + t
  BY <1>3, <1>4, CutInTwo
<1>8. conns[f] \in ConnType
  BY <1>1
<1>9. d \in ConnType /\ d.reg = conns[f].reg /\ d.user = conns[f].user /\ d.news = conns[f].news
      /\ d.want = conns[f].want /\ d.out = SubSeq(s, t + 1, Len(s))
  BY <1>5, <1>7, <1>8 DEF ConnType
<1>10. conns'[f] = d /\ Others(f) /\ Becoming
  BY <1>1, <1>6, <1>9 DEF Others, Becoming
<1>11. /\ down' \in WireType /\ down'[f] = r \o SubSeq(s, 1, t)
       /\ \A g \in Fds \ {f} : down'[g] = down[g]
  BY <1>1, <1>6, <1>7 DEF WireType
<1>12. \A g \in Fds : Len(down'[g]) <= SocketRoom
  BY <1>1, <1>4, <1>7, <1>11
<1>13. Moves(f)
  BY <1>2, <1>4, <1>9, <1>10, <1>11 DEF Moves
<1> QED BY <1>10, <1>11, <1>12, <1>13

-----------------------------------------------------------------------------
(* The clients' part. *)

\* A process that ends changes its own client, and gives up a socket that was closed.
LEMMA EndsEffect ==
    ASSUME TypeOK, NEW f \in Fds, Ends(f)
    PROVE  /\ clients' \in ClientsType /\ clients'[f].st \in {"off", "gone"}
           /\ \A g \in Fds \ {f} : clients'[g] = clients[g]
           /\ link' \in LinkType
           /\ \A g \in Fds \ {f} : link'[g] = link[g]
           /\ link'[f] = IF link[f] = "closed" THEN "unused" ELSE link[f]
<1>1. /\ NoClient \in ClientType /\ NoClient.st = "off"
      /\ [NoClient EXCEPT !.st = "gone"] \in ClientType
      /\ [NoClient EXCEPT !.st = "gone"].st = "gone"
  BY DEF NoClient, ClientType
<1>2. PICK d \in ClientType : d.st \in {"off", "gone"} /\ clients' = [clients EXCEPT ![f] = d]
  BY <1>1 DEF Ends
<1>3. clients \in ClientsType /\ link \in LinkType
  BY DEF TypeOK, ClientType, ClientsType, LinkType
<1>4. /\ clients' \in ClientsType /\ clients'[f].st \in {"off", "gone"}
      /\ \A g \in Fds \ {f} : clients'[g] = clients[g]
  BY <1>2, <1>3 DEF ClientsType
<1>5. /\ link' \in LinkType
      /\ \A g \in Fds \ {f} : link'[g] = link[g]
      /\ link'[f] = IF link[f] = "closed" THEN "unused" ELSE link[f]
  BY <1>3 DEF Ends, LinkType
<1> QED BY <1>4, <1>5

\* What a client sends is last on its wire, unless the socket is closed.
LEMMA SendsEffect ==
    ASSUME TypeOK, NEW f \in Fds, NEW line \in LineType, Sends(f, line)
    PROVE  /\ up' \in WireType /\ \A g \in Fds \ {f} : up'[g] = up[g]
           /\ up'[f] = up[f] \/ up'[f] = Append(up[f], line)
<1>1. up \in WireType /\ up[f] \in Seq(LineType)
  BY DEF TypeOK, WireType
<1>2. Append(up[f], line) \in Seq(LineType)
  BY <1>1
<1> QED BY <1>1, <1>2 DEF Sends, WireType

\* All that changes of TypeOK in a step of a client.
LEMMA TypeFromParts ==
    ASSUME TypeOK,
           conns' = conns \/ Becoming,
           relay' \in [runs : Nat, on : BOOLEAN, room : {0} \cup Rooms],
           byName' \in [Names -> Fds \cup {NoFd}],
           ready' \in [Fds -> SUBSET {"in", "out"}],
           turn' \in [fd : Fds \cup {NoFd}, reads : BOOLEAN],
           doomed' \subseteq Open',
           \A f \in Fds : Len(down'[f]) <= SocketRoom,
           link' \in LinkType, clients' \in ClientsType,
           up' \in WireType, down' \in WireType,
           fate' \in [Messages -> {"unsent", "sent", "relayed", "undelivered", "shown"}],
           asks' \in Nat
    PROVE  TypeOK'
BY DEF TypeOK, Becoming, ConnType, LinkType, ClientsType, ClientType, WireType

\* A step of the client at f, whatever else it does.
ClientFrame(f) ==
    /\ UNCHANGED relayVars
    /\ \A g \in Fds \ {f} :
        link'[g] = link[g] /\ clients'[g] = clients[g] /\ up'[g] = up[g] /\ down'[g] = down[g]
    /\ link' \in LinkType /\ clients' \in ClientsType /\ up' \in WireType /\ down' \in WireType
    /\ fate' \in FateType /\ asks' \in Nat
    /\ \/ link'[f] = link[f]
       \/ link[f] = "closed" /\ link'[f] = "unused"
       \/ link[f] = "unused" /\ link'[f] = "backlog" /\ down'[f] = <<>>
    /\ \/ down'[f] = down[f]
       \/ link[f] # "open" /\ down'[f] = <<>>
       \/ down[f] # <<>> /\ down'[f] = Tail(down[f])

\* A step of a client leaves no more lines in a socket than there is room for.
LEMMA ShorterDown ==
    ASSUME TypeOK, NEW f \in Fds, ClientFrame(f)
    PROVE  \A g \in Fds : Len(down'[g]) <= SocketRoom
<1>1. SocketRoom \in Nat /\ \A g \in Fds : down[g] \in Seq(LineType) /\ Len(down[g]) <= SocketRoom
  BY PlainChatAssumption, TypesHeld DEF TypeOK, WireType
<1>2. Len(<<>>) = 0 /\ (down[f] # <<>> => Len(Tail(down[f])) <= SocketRoom)
  BY <1>1
<1>3. Len(down'[f]) <= SocketRoom
  <2>1. CASE down'[f] = down[f]
    BY <1>1, <2>1
  <2>2. CASE down'[f] = <<>>
    BY <1>1, <1>2, <2>2
  <2>3. CASE down[f] # <<>> /\ down'[f] = Tail(down[f])
    BY <1>2, <2>3
  <2> QED BY <2>1, <2>2, <2>3 DEF ClientFrame
<1> QED BY <1>1, <1>3 DEF ClientFrame

\* A step of a client keeps the types and what is known of the sockets.
LEMMA ClientKeepsTypes ==
    ASSUME TypeOK, SocketsOK, NEW f \in Fds, ClientFrame(f)
    PROVE  TypeOK' /\ SocketsOK'
<1>1. \A g \in Fds : Len(down'[g]) <= SocketRoom
  BY ShorterDown
<1>2. \A g \in Fds : (link'[g] = "open") = (link[g] = "open")
  BY DEF ClientFrame
<1>3. UNCHANGED <<relay, conns, byName, ready, turn, doomed>>
  BY DEF ClientFrame, relayVars
<1>4. doomed' \subseteq Open'
  BY <1>2, <1>3 DEF TypeOK, Open
<1>5. TypeOK'
  <2>1. /\ relay \in [runs : Nat, on : BOOLEAN, room : {0} \cup Rooms]
        /\ byName \in [Names -> Fds \cup {NoFd}]
        /\ ready \in [Fds -> SUBSET {"in", "out"}]
        /\ turn \in [fd : Fds \cup {NoFd}, reads : BOOLEAN]
    BY DEF TypeOK
  <2>2. /\ link' \in LinkType /\ clients' \in ClientsType /\ up' \in WireType
        /\ down' \in WireType /\ asks' \in Nat
        /\ fate' \in [Messages -> {"unsent", "sent", "relayed", "undelivered", "shown"}]
    BY DEF ClientFrame, FateType
  <2> QED BY <1>1, <1>3, <1>4, <2>1, <2>2, TypeFromParts
<1>6. \A g \in Fds : link'[g] = "backlog" => down'[g] = <<>>
  BY DEF SocketsOK, ClientFrame
<1>7. turn.fd # NoFd => turn.fd \in Fds
  BY DEF TypeOK
<1> QED BY <1>2, <1>3, <1>5, <1>6, <1>7 DEF SocketsOK

-----------------------------------------------------------------------------
(* Each step of a client is such a step. *)

\* connect_to and the LOGIN line.
LEMMA ConnectFrame ==
    ASSUME TypeOK, NEW f \in Fds, NEW name \in Names, Connect(f, name)
    PROVE  ClientFrame(f) /\ link[f] = "unused" /\ link'[f] = "backlog" /\ down'[f] = <<>>
           /\ clients'[f].user = name /\ clients'[f].st = "login"
           /\ up'[f] = <<Line("LOGIN", name, 0)>>
<1>1. 0 \in 0 .. MaxMessages
  BY PlainChatAssumption
<1>2. PICK line \in LineType : line = Line("LOGIN", name, 0)
  BY <1>1, LineIsTyped
<1>3. <<line>> \in Seq(LineType) /\ <<>> \in Seq(LineType)
  OBVIOUS
<1>4. PICK d \in ClientType : d = [NoClient EXCEPT !.st = "login", !.user = name]
  BY DEF NoClient, ClientType
<1>5. d.st = "login" /\ d.user = name
  BY <1>4 DEF NoClient
<1>6. /\ link[f] = "unused" /\ link' = [link EXCEPT ![f] = "backlog"]
      /\ down' = [down EXCEPT ![f] = <<>>]
      /\ clients' = [clients EXCEPT ![f] = d]
      /\ up' = [up EXCEPT ![f] = <<line>>]
      /\ UNCHANGED <<relayVars, fate>> /\ asks' = asks + 1
  BY <1>2, <1>4 DEF Connect, Dials, Asks
<1>7. asks' \in Nat
  BY <1>6 DEF TypeOK
<1>8. /\ link' \in LinkType /\ link'[f] = "backlog" /\ clients' \in ClientsType /\ clients'[f] = d
      /\ up' \in WireType /\ up'[f] = <<line>> /\ down' \in WireType /\ down'[f] = <<>>
      /\ fate' \in FateType
  BY <1>3, <1>6, TypesHeld DEF LinkType, ClientsType, WireType
<1>9. \A g \in Fds \ {f} :
        link'[g] = link[g] /\ clients'[g] = clients[g] /\ up'[g] = up[g] /\ down'[g] = down[g]
  BY <1>6, TypesHeld DEF LinkType, ClientsType, WireType
<1>10. ClientFrame(f)
  BY <1>6, <1>7, <1>8, <1>9 DEF ClientFrame
<1> QED BY <1>2, <1>5, <1>6, <1>8, <1>10

\* Of what a client step leaves alone.
LEMMA TakesOne ==
    ASSUME TypeOK, NEW f \in Fds, down[f] # <<>>, down' = [down EXCEPT ![f] = Tail(@)]
    PROVE  /\ down' \in WireType /\ down'[f] = Tail(down[f])
           /\ \A g \in Fds \ {f} : down'[g] = down[g]
           /\ Head(down[f]) \in LineType /\ Head(down[f]) = down[f][1] /\ 1 \in DOMAIN down[f]
<1>1. down \in WireType /\ down[f] \in Seq(LineType)
  BY TypesHeld DEF WireType
<1>2. Tail(down[f]) \in Seq(LineType) /\ Head(down[f]) \in LineType
      /\ Head(down[f]) = down[f][1] /\ 1 \in DOMAIN down[f]
  BY <1>1
<1> QED BY <1>1, <1>2 DEF WireType

\* The verdict: the prompt, or the end of the client.
LEMMA VerdictFrame ==
    ASSUME TypeOK, NEW f \in Fds, Verdict(f)
    PROVE  /\ ClientFrame(f) /\ clients[f].st = "login" /\ up' = up
           /\ down[f] # <<>> /\ down'[f] = Tail(down[f])
           /\ \/ /\ clients'[f].st = "on" /\ clients'[f].user = clients[f].user
                 /\ down[f][1].verb = "OK" /\ 1 \in DOMAIN down[f] /\ link' = link
              \/ clients'[f].st \in {"off", "gone"}
<1>1. /\ clients[f].st = "login" /\ down[f] # <<>> /\ down' = [down EXCEPT ![f] = Tail(@)]
      /\ UNCHANGED <<relayVars, up, fate, asks>>
  BY DEF Verdict
<1>2. /\ down' \in WireType /\ down'[f] = Tail(down[f])
      /\ \A g \in Fds \ {f} : down'[g] = down[g]
      /\ Head(down[f]) = down[f][1] /\ 1 \in DOMAIN down[f]
  BY <1>1, TakesOne
<1>3. up' \in WireType /\ fate' \in FateType /\ asks' \in Nat
  BY <1>1, TypesHeld DEF TypeOK
<1>4. CASE Head(down[f]).verb = "OK"
  <2>1. PICK d : d = [clients[f] EXCEPT !.st = "on"]
    OBVIOUS
  <2>2. clients' = [clients EXCEPT ![f] = d] /\ link' = link
    BY <1>4, <2>1 DEF Verdict
  <2>3. d \in ClientType /\ d.st = "on" /\ d.user = clients[f].user
    <3>1. clients[f] \in ClientType
      BY TypesHeld DEF ClientsType
    <3> QED BY <2>1, <3>1 DEF ClientType
  <2>4. clients' \in ClientsType /\ clients'[f] = d /\ \A g \in Fds \ {f} : clients'[g] = clients[g]
    BY <2>2, <2>3, TypesHeld DEF ClientsType
  <2>5. link' \in LinkType
    BY <2>2, TypesHeld
  <2>6. ClientFrame(f)
    BY <1>1, <1>2, <1>3, <2>2, <2>4, <2>5 DEF ClientFrame
  <2> QED BY <1>1, <1>2, <1>4, <2>2, <2>3, <2>4, <2>6
<1>5. CASE Head(down[f]).verb # "OK"
  <2>1. Ends(f)
    BY <1>5 DEF Verdict
  <2>2. ClientFrame(f)
    BY <1>1, <1>2, <1>3, <2>1, EndsEffect DEF ClientFrame
  <2> QED BY <1>1, <1>2, <2>1, <2>2, EndsEffect
<1> QED BY <1>4, <1>5

\* The reader thread takes one line.
LEMMA ReadsFrame ==
    ASSUME TypeOK, NEW f \in Fds, Reads(f)
    PROVE  /\ ClientFrame(f) /\ UNCHANGED <<link, clients, up>>
           /\ down[f] # <<>> /\ down'[f] = Tail(down[f])
<1>1. /\ down[f] # <<>> /\ down' = [down EXCEPT ![f] = Tail(@)]
      /\ UNCHANGED <<relayVars, link, clients, up, asks>> /\ Display(Head(down[f]))
  BY DEF Reads
<1>2. fate' \in FateType
  BY <1>1, TypesHeld DEF Display, Logs, FateType
<1>3. link' \in LinkType /\ clients' \in ClientsType /\ up' \in WireType /\ asks' \in Nat
  BY <1>1, TypesHeld DEF TypeOK
<1> QED BY <1>1, <1>2, <1>3, TakesOne DEF ClientFrame

\* The reader thread finds the connection closed.
LEMMA SeesCloseFrame ==
    ASSUME TypeOK, NEW f \in Fds, SeesClose(f)
    PROVE  ClientFrame(f) /\ clients'[f].st \in {"off", "gone"} /\ UNCHANGED <<up, down>>
<1>1. Ends(f) /\ UNCHANGED <<relayVars, up, down, fate, asks>>
  BY DEF SeesClose
<1>2. up' \in WireType /\ down' \in WireType /\ fate' \in FateType /\ asks' \in Nat
  BY <1>1, TypesHeld DEF TypeOK
<1> QED BY <1>1, <1>2, EndsEffect DEF ClientFrame

\* /quit, and the end of the input.
LEMMA QuitsFrame ==
    ASSUME TypeOK, NEW f \in Fds, Quits(f), UNCHANGED <<relayVars, down>>
    PROVE  ClientFrame(f) /\ clients'[f].st \in {"off", "gone"} /\ down' = down
<1>1. PICK line \in LineType : line = Line("QUIT", NoName, 0)
  BY PlainChatAssumption, LineIsTyped, 0 \in 0 .. MaxMessages
<1>2. Sends(f, line) /\ Ends(f) /\ UNCHANGED <<fate, asks>>
  BY <1>1 DEF Quits
<1>3. down' \in WireType /\ fate' \in FateType /\ asks' \in Nat
  BY <1>2, TypesHeld DEF TypeOK
<1> QED BY <1>2, <1>3, EndsEffect, SendsEffect DEF ClientFrame

\* The process is killed.
LEMMA DiesFrame ==
    ASSUME TypeOK, NEW f \in Fds, Dies(f)
    PROVE  ClientFrame(f) /\ clients'[f].st \in {"off", "gone"} /\ up' = up
           /\ \/ down' = down
              \/ link[f] # "open" /\ down'[f] = <<>>
<1>1. /\ Ends(f) /\ UNCHANGED <<relayVars, up, fate, asks>>
      /\ down' = [down EXCEPT ![f] = IF link[f] = "closed" THEN <<>> ELSE @]
  BY DEF Dies
<1>2. up' \in WireType /\ fate' \in FateType /\ asks' \in Nat
  BY <1>1, TypesHeld DEF TypeOK
<1>3. /\ down' \in WireType /\ \A g \in Fds \ {f} : down'[g] = down[g]
      /\ down'[f] = IF link[f] = "closed" THEN <<>> ELSE down[f]
  BY <1>1, TypesHeld DEF WireType
<1>4. link[f] # "closed" => down' = down
  BY <1>1, TypesHeld DEF WireType
<1> QED BY <1>1, <1>2, <1>3, <1>4, EndsEffect DEF ClientFrame

\* Another peer connects.
LEMMA StrangerConnectsFrame ==
    ASSUME TypeOK, NEW f \in Fds, StrangerConnects(f)
    PROVE  ClientFrame(f) /\ clients'[f].st = "strange" /\ up' = up
           /\ link[f] = "unused" /\ down'[f] = <<>>
<1>1. PICK d \in ClientType : d = [NoClient EXCEPT !.st = "strange"] /\ d.st = "strange"
  <2>1. [NoClient EXCEPT !.st = "strange"] \in ClientType
        /\ [NoClient EXCEPT !.st = "strange"].st = "strange"
    BY DEF NoClient, ClientType
  <2> QED BY <2>1
<1>2. /\ link[f] = "unused" /\ link' = [link EXCEPT ![f] = "backlog"]
      /\ down' = [down EXCEPT ![f] = <<>>]
      /\ clients' = [clients EXCEPT ![f] = d]
      /\ UNCHANGED <<relayVars, up, fate, asks>>
  BY <1>1 DEF StrangerConnects, Dials
<1>3. /\ link' \in LinkType /\ link'[f] = "backlog" /\ clients' \in ClientsType /\ clients'[f] = d
      /\ up' \in WireType /\ down' \in WireType /\ down'[f] = <<>>
      /\ fate' \in FateType /\ asks' \in Nat
  BY <1>2, TypesHeld, SMTT(30) DEF LinkType, ClientsType, WireType, TypeOK
<1>4. \A g \in Fds \ {f} :
        link'[g] = link[g] /\ clients'[g] = clients[g] /\ up'[g] = up[g] /\ down'[g] = down[g]
  BY <1>2, TypesHeld DEF LinkType, ClientsType, WireType
<1> QED BY <1>1, <1>2, <1>3, <1>4 DEF ClientFrame

\* Another peer says a line.
LEMMA StrangerSaysFrame ==
    ASSUME TypeOK, NEW f \in Fds, StrangerSays(f)
    PROVE  ClientFrame(f) /\ clients[f].st = "strange" /\ clients' = clients /\ down' = down
<1>1. PICK verb \in StrangeVerbs, name \in Names \cup {NoName} : Sends(f, Line(verb, name, 0))
  BY DEF StrangerSays
<1>2. PICK line \in LineType : line = Line(verb, name, 0)
  BY PlainChatAssumption, LineIsTyped, 0 \in 0 .. MaxMessages
<1>3. /\ clients[f].st = "strange" /\ asks' = asks + 1
      /\ UNCHANGED <<relayVars, link, clients, down, fate>>
  BY DEF StrangerSays, Asks
<1>4. /\ link' \in LinkType /\ clients' \in ClientsType /\ down' \in WireType
      /\ fate' \in FateType /\ asks' \in Nat
  BY <1>3, TypesHeld DEF TypeOK
<1> QED BY <1>1, <1>2, <1>3, <1>4, SendsEffect DEF ClientFrame

\* What the user types, unless it is /quit.
Types(f) ==
    /\ clients[f].st = "on" /\ clients'[f].st = "on" /\ clients'[f].user = clients[f].user
    /\ UNCHANGED <<link, down>>
    /\ up'[f] = up[f]
       \/ \E line \in LineType : line.verb # "LOGIN" /\ up'[f] = Append(up[f], line)

\* /chat changes the partner and nothing else.
LEMMA PartnerEffect ==
    ASSUME TypeOK, NEW f \in Fds, NEW to \in Names \cup {NoName},
           clients' = [clients EXCEPT ![f].partner = to]
    PROVE  /\ clients' \in ClientsType /\ \A g \in Fds \ {f} : clients'[g] = clients[g]
           /\ clients'[f].st = clients[f].st /\ clients'[f].user = clients[f].user
<1>1. clients[f] \in ClientType /\ clients \in ClientsType
  BY TypesHeld DEF ClientsType
<1>2. PICK d : d = [clients[f] EXCEPT !.partner = to]
  OBVIOUS
<1>3. d \in ClientType /\ d.st = clients[f].st /\ d.user = clients[f].user
  BY <1>1, <1>2 DEF ClientType
<1>4. clients' = [clients EXCEPT ![f] = d]
  BY <1>1, <1>2
<1> QED BY <1>1, <1>3, <1>4 DEF ClientsType

\* A message typed is a MSG line, never a LOGIN.
LEMMA SendsMessageTypes ==
    ASSUME TypeOK, NEW f \in Fds, NEW to \in Names \cup {NoName}, SendsMessage(f, to),
           clients[f].st = "on", UNCHANGED <<relayVars, down>>
    PROVE  ClientFrame(f) /\ Types(f)
<1>1. PICK m \in Unsent : /\ Sends(f, Line("MSG", to, m)) /\ Logs(m, "sent")
                          /\ clients' = [clients EXCEPT ![f].partner = to]
                          /\ UNCHANGED <<link, asks>>
  BY DEF SendsMessage
<1>2. m \in 0 .. MaxMessages
  BY PlainChatAssumption DEF Unsent, Messages
<1>3. PICK line \in LineType : line = Line("MSG", to, m) /\ line.verb = "MSG"
  BY <1>2, LineIsTyped
<1>4. fate' \in FateType
  BY <1>1, TypesHeld DEF Logs, FateType
<1>5. link' \in LinkType /\ down' \in WireType /\ asks' \in Nat
  BY <1>1, TypesHeld DEF TypeOK
<1>6. /\ up' \in WireType /\ \A g \in Fds \ {f} : up'[g] = up[g]
      /\ up'[f] = up[f] \/ up'[f] = Append(up[f], line)
  BY <1>1, <1>3, SendsEffect
<1>7. /\ clients' \in ClientsType /\ \A g \in Fds \ {f} : clients'[g] = clients[g]
      /\ clients'[f].st = clients[f].st /\ clients'[f].user = clients[f].user
  BY <1>1, PartnerEffect
<1>8. ClientFrame(f)
  BY <1>1, <1>4, <1>5, <1>6, <1>7 DEF ClientFrame
<1>9. Types(f)
  BY <1>1, <1>3, <1>6, <1>7 DEF Types
<1> QED BY <1>8, <1>9

\* Whatever the user types is a step of its client.
LEMMA HandleInputFrame ==
    ASSUME TypeOK, NEW f \in Fds, HandleInput(f) \/ EndOfInput(f)
    PROVE  /\ ClientFrame(f) /\ down' = down
           /\ Types(f) \/ clients'[f].st \in {"off", "gone"}
<1>1. clients[f].st = "on" /\ UNCHANGED <<relayVars, down>>
  BY DEF HandleInput, EndOfInput
<1>2. ASSUME NEW to \in Names \cup {NoName}, SendsMessage(f, to)
      PROVE  ClientFrame(f) /\ Types(f)
  BY <1>1, <1>2, SendsMessageTypes
<1>3. CASE Quits(f)
  BY <1>1, <1>3, QuitsFrame
<1>4. ASSUME NEW to \in Names, clients' = [clients EXCEPT ![f].partner = to],
             UNCHANGED <<link, up, fate, asks>>
      PROVE  ClientFrame(f) /\ Types(f)
  <2>1. /\ link' \in LinkType /\ up' \in WireType /\ down' \in WireType
        /\ fate' \in FateType /\ asks' \in Nat
    BY <1>1, <1>4, TypesHeld DEF TypeOK
  <2>2. ClientFrame(f)
    BY <1>1, <1>4, <2>1, PartnerEffect DEF ClientFrame
  <2> QED BY <1>1, <1>4, <2>2, PartnerEffect DEF Types
<1>5. CASE Asks /\ Sends(f, Line("WHO", NoName, 0)) /\ UNCHANGED <<link, clients, fate>>
  <2>1. PICK line \in LineType : line = Line("WHO", NoName, 0) /\ line.verb = "WHO"
    BY PlainChatAssumption, LineIsTyped, 0 \in 0 .. MaxMessages
  <2>2. /\ link' \in LinkType /\ clients' \in ClientsType /\ down' \in WireType
        /\ fate' \in FateType /\ asks' \in Nat
    BY <1>1, <1>5, TypesHeld DEF TypeOK, Asks
  <2>3. /\ up' \in WireType /\ \A g \in Fds \ {f} : up'[g] = up[g]
        /\ up'[f] = up[f] \/ up'[f] = Append(up[f], line)
    BY <1>5, <2>1, SendsEffect
  <2>4. ClientFrame(f)
    BY <1>1, <1>5, <2>2, <2>3 DEF ClientFrame
  <2> QED BY <1>1, <1>5, <2>1, <2>3, <2>4 DEF Types
<1>6. clients[f].partner \in Names \cup {NoName}
  BY TypesHeld DEF ClientsType, ClientType
<1>7. \/ \E to \in Names \cup {NoName} : SendsMessage(f, to)
      \/ \E to \in Names : clients' = [clients EXCEPT ![f].partner = to]
                           /\ UNCHANGED <<link, up, fate, asks>>
      \/ SendsMessage(f, clients[f].partner)
      \/ Asks /\ Sends(f, Line("WHO", NoName, 0)) /\ UNCHANGED <<link, clients, fate>>
      \/ Quits(f)
  BY DEF HandleInput, EndOfInput
<1> QED BY <1>1, <1>2, <1>3, <1>4, <1>5, <1>6, <1>7

-----------------------------------------------------------------------------
(* Steps of the relay within a pass. *)

\* What a step of the relay leaves alone, when it does not end a connection.
PassFrame == UNCHANGED <<relay, link, clients, asks>>

\* Only connections that are open are told anything.
LEMMA LineEffectOpen ==
    ASSUME TypeOK, SocketsOK, NamesInverse, NEW f \in Fds, NEW line, link[f] = "open",
           LineEffect(f, line)
    PROVE  \A g \in Fds : link[g] # "open" => conns'[g] = conns[g]
<1> SUFFICES ASSUME NEW g \in Fds, link[g] # "open" PROVE conns'[g] = conns[g]
  OBVIOUS
<1>1. ~conns[g].reg /\ g # f
  BY NoConnTyped DEF SocketsOK
<1>2. CASE Reply(f) \/ Wants(f)
  BY <1>1, <1>2 DEF Reply, Wants, Others
<1>3. ASSUME NEW to \in Names, NEW m \in Messages, Post(f, to, m) PROVE conns'[g] = conns[g]
  <2>1. byName[to] # g
    BY <1>1, <1>3 DEF Post, NamesInverse
  <2> QED BY <1>3, <2>1 DEF Post, Others
<1>4. CASE Join(f, line.name)
  BY <1>1, <1>4 DEF Join
<1> QED BY <1>2, <1>3, <1>4 DEF LineEffect

\* The socket that poll reported is flushed or doomed, and then has its turn.
LEMMA ServeParts ==
    ASSUME TypeOK, SocketsOK, NEW f \in Fds, Serve(f)
    PROVE  /\ link[f] = "open" /\ f \notin doomed /\ ready' = [ready EXCEPT ![f] = {}]
           /\ PassFrame /\ UNCHANGED <<byName, up, fate>>
           /\ \/ doomed' = doomed \cup {f} /\ turn' = [fd |-> NoFd, reads |-> FALSE]
              \/ doomed' = doomed /\ turn' \in [fd : {f}, reads : BOOLEAN]
           /\ UNCHANGED <<conns, down>> \/ Flush(f)
<1>1. /\ turn.fd = NoFd /\ ready[f] # {} /\ ready' = [ready EXCEPT ![f] = {}]
      /\ UNCHANGED <<relay, byName, link, clients, up, fate, asks>>
  BY DEF Serve
<1>2. link[f] = "open" /\ f \notin doomed
  BY <1>1 DEF SocketsOK
<1>3. CASE Doom(f) /\ UNCHANGED <<conns, down>>
  BY <1>1, <1>2, <1>3 DEF Doom, PassFrame
<1>4. CASE /\ IF "out" \in ready[f] THEN Flush(f) ELSE UNCHANGED <<conns, down>>
           /\ turn' = [fd |-> f, reads |-> "in" \in ready[f]]
           /\ UNCHANGED doomed
  <2>1. turn' \in [fd : {f}, reads : BOOLEAN]
    BY <1>4
  <2>2. UNCHANGED <<conns, down>> \/ Flush(f)
    BY <1>4
  <2> QED BY <1>1, <1>2, <1>4, <2>1, <2>2 DEF PassFrame
<1> QED BY <1>3, <1>4 DEF Serve

\* The socket that has been read is flushed or doomed, and the turn is over.
LEMMA FinishParts ==
    ASSUME TypeOK, SocketsOK, NEW f \in Fds, Finish(f)
    PROVE  /\ link[f] = "open" /\ f \notin doomed /\ ready[f] = {} /\ ready' = ready
           /\ PassFrame /\ UNCHANGED <<byName, up, fate>>
           /\ \/ doomed' = doomed \cup {f} /\ turn' = [fd |-> NoFd, reads |-> FALSE]
              \/ doomed' = doomed /\ turn' = [fd |-> NoFd, reads |-> FALSE]
           /\ UNCHANGED <<conns, down>> \/ Flush(f)
BY PlainChatAssumption DEF Finish, Doom, SocketsOK, PassFrame

\* What is left of a wire when a line has been taken.
LEMMA TailTyped ==
    ASSUME TypeOK, NEW f \in Fds, up[f] # <<>>, up' = [up EXCEPT ![f] = Tail(@)]
    PROVE  /\ up' \in WireType /\ Head(up[f]) \in LineType /\ Head(up[f]) = up[f][1]
           /\ 1 \in DOMAIN up[f] /\ up'[f] = Tail(up[f])
           /\ \A g \in Fds \ {f} : up'[g] = up[g]
<1>1. up \in WireType /\ up[f] \in Seq(LineType)
  BY TypesHeld DEF WireType
<1>2. Tail(up[f]) \in Seq(LineType) /\ Head(up[f]) \in LineType
      /\ Head(up[f]) = up[f][1] /\ 1 \in DOMAIN up[f]
  BY <1>1
<1> QED BY <1>1, <1>2 DEF WireType

\* drain_records takes one line: it is handled, or the connection is doomed.
LEMMA DrainParts ==
    ASSUME TypeOK, SocketsOK, NEW f \in Fds, DrainRecord(f)
    PROVE  /\ link[f] = "open" /\ f \notin doomed /\ ready[f] = {} /\ ready' = ready
           /\ PassFrame /\ down' = down
           /\ up[f] # <<>> /\ up' = [up EXCEPT ![f] = Tail(@)]
           /\ \/ /\ doomed' = doomed \cup {f} /\ turn' = [fd |-> NoFd, reads |-> FALSE]
                 /\ UNCHANGED <<conns, byName, fate>>
              \/ /\ doomed' = doomed
                 /\ turn' \in [fd : {f}, reads : BOOLEAN]
                 /\ HandleLine(f, Head(up[f]))
<1>1. /\ turn.fd = f /\ up[f] # <<>> /\ up' = [up EXCEPT ![f] = Tail(@)]
      /\ UNCHANGED <<relay, ready, link, clients, down, asks>>
  BY DEF DrainRecord
<1>2. link[f] = "open" /\ f \notin doomed /\ ready[f] = {}
  BY <1>1, PlainChatAssumption DEF SocketsOK
<1>3. CASE Head(up[f]).verb = "bad"
  BY <1>1, <1>2, <1>3 DEF DrainRecord, Doom, PassFrame
<1>4. CASE Head(up[f]).verb # "bad"
  <2>1. /\ HandleLine(f, Head(up[f])) /\ doomed' = doomed
        /\ turn' = [turn EXCEPT !.reads = ~conns'[f].want]
    BY <1>4 DEF DrainRecord
  <2>2. conns'[f].want \in BOOLEAN
    <3>1. Head(up[f]) \in LineType
      BY <1>1, TailTyped
    <3>2. Becoming
      BY <2>1, <3>1, HandleLineEffect
    <3> QED BY <3>2 DEF Becoming, ConnType
  <2>3. turn' \in [fd : {f}, reads : BOOLEAN]
    BY <1>1, <2>1, <2>2 DEF TypeOK
  <2> QED BY <1>1, <1>2, <2>1, <2>3 DEF PassFrame
<1> QED BY <1>3, <1>4

\* The types and the sockets after such a step.
LEMMA PassKeepsTypes ==
    ASSUME TypeOK, SocketsOK, NEW f \in Fds, link[f] = "open", f \notin doomed,
           ready' = [ready EXCEPT ![f] = {}], PassFrame,
           \/ doomed' = doomed \cup {f} /\ turn' = [fd |-> NoFd, reads |-> FALSE]
           \/ doomed' = doomed /\ turn' \in [fd : {f, NoFd}, reads : BOOLEAN],
           conns' = conns \/ Becoming,
           \A g \in Fds : link[g] # "open" => conns'[g] = conns[g] /\ down'[g] = down[g],
           byName' \in [Names -> Fds \cup {NoFd}],
           \A g \in Fds : Len(down'[g]) <= SocketRoom,
           up' \in WireType, down' \in WireType, fate' \in FateType
    PROVE  TypeOK' /\ SocketsOK'
<1>1. /\ relay' \in [runs : Nat, on : BOOLEAN, room : {0} \cup Rooms]
      /\ ready' \in [Fds -> SUBSET {"in", "out"}]
      /\ turn' \in [fd : Fds \cup {NoFd}, reads : BOOLEAN]
      /\ link' \in LinkType /\ clients' \in ClientsType /\ asks' \in Nat
  <2>1. /\ relay' \in [runs : Nat, on : BOOLEAN, room : {0} \cup Rooms]
        /\ link' \in LinkType /\ clients' \in ClientsType /\ asks' \in Nat
    BY TypesHeld DEF TypeOK, PassFrame
  <2>2. ready' \in [Fds -> SUBSET {"in", "out"}]
    BY DEF TypeOK
  <2>3. turn' \in [fd : Fds \cup {NoFd}, reads : BOOLEAN]
    <3>1. CASE turn' = [fd |-> NoFd, reads |-> FALSE]
      BY <3>1
    <3>2. CASE turn' \in [fd : {f, NoFd}, reads : BOOLEAN]
      BY <3>2
    <3> QED BY <3>1, <3>2
  <2> QED BY <2>1, <2>2, <2>3
<1>2. doomed' \subseteq Open'
  BY DEF TypeOK, Open, PassFrame
<1>3. TypeOK'
  BY <1>1, <1>2, TypeFromParts DEF FateType
<1>4. \A g \in Fds : link'[g] # "open" => conns'[g] = NoConn /\ ready'[g] = {}
  BY DEF SocketsOK, PassFrame, TypeOK
<1>5. \A g \in Fds : link'[g] = "backlog" => down'[g] = <<>>
  BY DEF SocketsOK, PassFrame
<1>6. \A g \in doomed' : ready'[g] = {}
  BY DEF SocketsOK, TypeOK, Open
<1>7. turn'.fd # NoFd => /\ link'[turn'.fd] = "open" /\ turn'.fd \notin doomed'
                         /\ ready'[turn'.fd] = {}
  BY DEF TypeOK, PassFrame
<1> QED BY <1>3, <1>4, <1>5, <1>6, <1>7 DEF SocketsOK

\* A socket that is served is not reported any more.
LEMMA SameReady ==
    ASSUME TypeOK, NEW f \in Fds, ready[f] = {}, ready' = ready
    PROVE  ready' = [ready EXCEPT ![f] = {}]
BY DEF TypeOK

\* A flush, or none, keeps the types and touches an open connection only.
LEMMA FlushTypes ==
    ASSUME TypeOK, SocketsOK, NEW f \in Fds, link[f] = "open",
           UNCHANGED <<conns, down>> \/ Flush(f)
    PROVE  /\ conns' = conns \/ Becoming
           /\ down' \in WireType /\ \A g \in Fds : Len(down'[g]) <= SocketRoom
           /\ \A g \in Fds : link[g] # "open" => conns'[g] = conns[g] /\ down'[g] = down[g]
<1>1. CASE UNCHANGED <<conns, down>>
  BY <1>1, TypesHeld DEF TypeOK
<1>2. CASE Flush(f)
  BY <1>2, FlushMoves DEF Moves, Others
<1> QED BY <1>1, <1>2

\* A step within a pass keeps the types and what is known of the sockets.
LEMMA PassStepKeepsTypes ==
    ASSUME TypeOK, SocketsOK, NamesInverse, NEW f \in Fds,
           Serve(f) \/ Finish(f) \/ DrainRecord(f)
    PROVE  TypeOK' /\ SocketsOK'
<1>1. CASE Serve(f)
  <2>1. up' \in WireType /\ fate' \in FateType /\ byName' \in [Names -> Fds \cup {NoFd}]
    BY <1>1, ServeParts, TypesHeld DEF TypeOK
  <2> QED BY <1>1, <2>1, ServeParts, FlushTypes, PassKeepsTypes
<1>2. CASE Finish(f)
  <2>1. up' \in WireType /\ fate' \in FateType /\ byName' \in [Names -> Fds \cup {NoFd}]
    BY <1>2, FinishParts, TypesHeld DEF TypeOK
  <2>2. ready' = [ready EXCEPT ![f] = {}]
    BY <1>2, FinishParts, SameReady
  <2>3. [fd |-> NoFd, reads |-> FALSE] \in [fd : {f, NoFd}, reads : BOOLEAN]
    OBVIOUS
  <2>4. \/ doomed' = doomed \cup {f} /\ turn' = [fd |-> NoFd, reads |-> FALSE]
        \/ doomed' = doomed /\ turn' \in [fd : {f, NoFd}, reads : BOOLEAN]
    BY <1>2, <2>3, FinishParts
  <2> QED BY <1>2, <2>1, <2>2, <2>4, FinishParts, FlushTypes, PassKeepsTypes
<1>3. CASE DrainRecord(f)
  <2>1. /\ link[f] = "open" /\ f \notin doomed /\ ready[f] = {} /\ ready' = ready
        /\ PassFrame /\ down' = down
        /\ up[f] # <<>> /\ up' = [up EXCEPT ![f] = Tail(@)]
    BY <1>3, DrainParts
  <2>2. ready' = [ready EXCEPT ![f] = {}]
    BY <2>1, SameReady
  <2>3. up' \in WireType /\ Head(up[f]) \in LineType
    BY <2>1, TailTyped
  <2>4. down' \in WireType /\ \A g \in Fds : Len(down'[g]) <= SocketRoom
    BY <2>1, TypesHeld DEF TypeOK
  <2>5. CASE doomed' = doomed \cup {f} /\ turn' = [fd |-> NoFd, reads |-> FALSE]
             /\ UNCHANGED <<conns, byName, fate>>
    <3>1. fate' \in FateType /\ byName' \in [Names -> Fds \cup {NoFd}]
      BY <2>5, TypesHeld DEF TypeOK
    <3>2. \A g \in Fds : link[g] # "open" => conns'[g] = conns[g] /\ down'[g] = down[g]
      BY <2>1, <2>5
    <3> QED BY <2>1, <2>2, <2>3, <2>4, <2>5, <3>1, <3>2, PassKeepsTypes
  <2>6. CASE doomed' = doomed /\ turn' \in [fd : {f}, reads : BOOLEAN]
             /\ HandleLine(f, Head(up[f]))
    <3>1. LineEffect(f, Head(up[f])) /\ Becoming /\ fate' \in FateType
      BY <2>3, <2>6, HandleLineEffect DEF FateType
    <3>2. byName' \in [Names -> Fds \cup {NoFd}]
      BY <3>1 DEF LineEffect, Reply, Wants, Post, Join, TypeOK
    <3>3. \A g \in Fds : link[g] # "open" => conns'[g] = conns[g] /\ down'[g] = down[g]
      BY <2>1, <3>1, LineEffectOpen
    <3> QED BY <2>1, <2>2, <2>3, <2>4, <2>6, <3>1, <3>2, <3>3, PassKeepsTypes
  <2> QED BY <1>3, <2>5, <2>6, DrainParts
<1> QED BY <1>1, <1>2, <1>3

-----------------------------------------------------------------------------
(* drop_conn. *)

DropOthers(f) ==
    \A g \in Fds \ {f} :
        IF conns[f].reg /\ conns[g].reg
        THEN ToldNews(conns[g], conns'[g], Line("left", conns[f].user, 0))
        ELSE conns'[g] = conns[g]

\* drop_conn: the name is free, the others have the news, the socket is closed.
LEMMA DropEffect ==
    ASSUME TypeOK, SocketsOK, NamesInverse, NEW f \in Fds, Drop(f)
    PROVE  /\ link[f] = "open" /\ ready[f] = {} /\ Becoming
           /\ conns'[f] = NoConn /\ DropOthers(f)
           /\ byName' = [n \in Names |-> IF byName[n] = f THEN NoFd ELSE byName[n]]
           /\ link' \in LinkType /\ link'[f] \in {"unused", "closed"}
           /\ clients' \in ClientsType /\ up' \in WireType /\ down' \in WireType
           /\ down'[f] \in {down[f], <<>>}
           /\ \A g \in Fds \ {f} : link'[g] = link[g] /\ clients'[g] = clients[g]
                                   /\ up'[g] = up[g] /\ down'[g] = down[g]
           /\ UNCHANGED <<relay, ready, turn, fate, asks>>
           /\ doomed' = doomed \ {f} /\ turn.fd = NoFd
<1>1. conns \in [Fds -> ConnType] /\ 0 \in 0 .. MaxMessages
  BY PlainChatAssumption, TypesHeld
<1>2. PICK line : line = Line("left", conns[f].user, 0)
  OBVIOUS
<1>3. PICK cs : cs = IF conns[f].reg THEN Broadcast(conns, line, f) ELSE conns
  OBVIOUS
<1>4. cs \in [Fds -> ConnType]
      /\ \A g \in Fds \ {f} : IF conns[f].reg /\ conns[g].reg
                              THEN ToldNews(conns[g], cs[g], line) ELSE cs[g] = conns[g]
  <2>1. CASE conns[f].reg
    <3>1. conns[f].user \in Names
      BY <2>1 DEF NamesInverse
    <3>2. line \in LineType /\ line.verb = "left" /\ line.name \in Names
      BY <1>1, <1>2, <3>1, LineIsTyped
    <3>3. /\ Broadcast(conns, line, f) \in [Fds -> ConnType]
          /\ \A g \in Fds :
               IF g # f /\ conns[g].reg
               THEN ToldNews(conns[g], Broadcast(conns, line, f)[g], line)
               ELSE Broadcast(conns, line, f)[g] = conns[g]
      BY <1>1, <3>2, BroadcastTells
    <3> QED BY <1>3, <2>1, <3>3
  <2>2. CASE ~conns[f].reg
    BY <1>1, <1>3, <2>2
  <2> QED BY <2>1, <2>2
<1>5. PICK no : no = NoConn
  OBVIOUS
<1>6. no \in ConnType
  BY <1>5, NoConnTyped
<1>7. conns' = [cs EXCEPT ![f] = no]
  BY <1>2, <1>3, <1>5 DEF Drop
<1>8. Becoming /\ conns'[f] = no /\ \A g \in Fds \ {f} : conns'[g] = cs[g]
  BY <1>4, <1>6, <1>7 DEF Becoming
<1>9. DropOthers(f)
  BY <1>2, <1>4, <1>8 DEF DropOthers
<1>10. link[f] = "open" /\ ready[f] = {} /\ turn.fd = NoFd
  BY DEF Drop, PassOver, TypeOK, Open
<1>11. /\ NoClient \in ClientType /\ <<>> \in Seq(LineType)
  BY DEF NoClient, ClientType
<1>12. /\ link' \in LinkType /\ link'[f] \in {"unused", "closed"}
       /\ clients' \in ClientsType /\ up' \in WireType /\ down' \in WireType
       /\ down'[f] \in {down[f], <<>>}
       /\ \A g \in Fds \ {f} : link'[g] = link[g] /\ clients'[g] = clients[g]
                               /\ up'[g] = up[g] /\ down'[g] = down[g]
  BY <1>11, TypesHeld DEF Drop, LinkType, ClientsType, WireType
<1> QED BY <1>5, <1>8, <1>9, <1>10, <1>12 DEF Drop

\* drop_conn keeps the types and what is known of the sockets.
LEMMA DropKeepsTypes ==
    ASSUME TypeOK, SocketsOK, NamesInverse, NEW f \in Fds, Drop(f)
    PROVE  TypeOK' /\ SocketsOK'
<1>1. \A g \in Fds : Len(down'[g]) <= SocketRoom
  <2>1. Len(<<>>) = 0 /\ SocketRoom \in Nat
    BY PlainChatAssumption
  <2>2. down'[f] = down[f] \/ down'[f] = <<>>
    BY DropEffect
  <2>3. Len(down'[f]) <= SocketRoom
    BY <2>1, <2>2 DEF TypeOK
  <2> QED BY <2>3, DropEffect DEF TypeOK
<1>2. byName' \in [Names -> Fds \cup {NoFd}]
  BY DropEffect DEF TypeOK
<1>3. doomed' \subseteq Open'
  BY DropEffect DEF TypeOK, Open
<1>4. /\ relay' \in [runs : Nat, on : BOOLEAN, room : {0} \cup Rooms]
      /\ ready' \in [Fds -> SUBSET {"in", "out"}]
      /\ turn' \in [fd : Fds \cup {NoFd}, reads : BOOLEAN]
      /\ fate' \in FateType /\ asks' \in Nat
  BY DropEffect, TypesHeld DEF TypeOK
<1>5. TypeOK'
  BY <1>1, <1>2, <1>3, <1>4, DropEffect, TypeFromParts DEF FateType
<1>6. ASSUME NEW g \in Fds, link'[g] # "open" PROVE conns'[g] = NoConn /\ ready'[g] = {}
  <2>1. CASE g = f
    BY <2>1, DropEffect
  <2>2. CASE g # f
    <3>1. link[g] # "open" /\ conns[g] = NoConn /\ ready[g] = {} /\ ready' = ready
      BY <1>6, <2>2, DropEffect DEF SocketsOK
    <3>2. ~conns[g].reg
      BY <3>1, NoConnTyped
    <3> QED BY <2>2, <3>1, <3>2, DropEffect DEF DropOthers
  <2> QED BY <2>1, <2>2
<1>7. \A g \in Fds : link'[g] = "backlog" => down'[g] = <<>>
  BY DropEffect DEF SocketsOK
<1>8. (\A g \in doomed' : ready'[g] = {}) /\ turn'.fd = NoFd
  BY DropEffect DEF SocketsOK
<1> QED BY <1>5, <1>6, <1>7, <1>8 DEF SocketsOK

-----------------------------------------------------------------------------
(* Start, stop and poll: the types and the sockets. *)

\* The relay starts.
LEMMA StartKeepsTypes ==
    ASSUME TypeOK, SocketsOK, StartRelay
    PROVE  TypeOK' /\ SocketsOK'
<1>1. UNCHANGED <<conns, byName, ready, turn, doomed, link, clients, up, down, fate, asks>>
  BY DEF StartRelay
<1>2. relay' \in [runs : Nat, on : BOOLEAN, room : {0} \cup Rooms]
  <2>1. PICK room \in Rooms : relay' = [on |-> TRUE, runs |-> relay.runs + 1, room |-> room]
    BY DEF StartRelay
  <2>2. relay.runs + 1 \in Nat
    BY DEF TypeOK
  <2> QED BY <2>1, <2>2
<1>3. TypeOK'
  BY <1>1, <1>2, TypesHeld, TypeFromParts DEF TypeOK, Open
<1> QED BY <1>1, <1>3 DEF SocketsOK

\* The relay stops: nobody is registered and every socket is closed.
LEMMA StopEffect ==
    ASSUME TypeOK, StopRelay
    PROVE  /\ Becoming /\ conns' = [f \in Fds |-> NoConn]
           /\ byName' = [n \in Names |-> NoFd]
           /\ link' \in LinkType /\ clients' \in ClientsType /\ up' \in WireType /\ down' \in WireType
           /\ \A f \in Fds : link'[f] \in {"unused", "closed"} /\ down'[f] \in {down[f], <<>>}
           /\ relay' \in [runs : Nat, on : BOOLEAN, room : {0} \cup Rooms]
           /\ UNCHANGED <<ready, turn, doomed, fate, asks>>
           /\ turn.fd = NoFd /\ doomed = {} /\ \A f \in Fds : ready[f] = {}
<1>1. NoClient \in ClientType /\ <<>> \in Seq(LineType)
  BY DEF NoClient, ClientType
<1>2. Becoming /\ conns' = [f \in Fds |-> NoConn]
  BY NoConnTyped DEF StopRelay, Becoming
<1>3. /\ link' = [f \in Fds |-> IF clients[f].st \in {"off", "gone"} THEN "unused" ELSE "closed"]
      /\ clients' = [f \in Fds |-> IF clients[f].st = "gone" THEN NoClient ELSE clients[f]]
      /\ down' = [f \in Fds |-> IF clients[f].st = "gone" THEN <<>> ELSE down[f]]
      /\ up' = [f \in Fds |-> <<>>]
  BY DEF StopRelay
<1>4. /\ link' \in LinkType /\ clients' \in ClientsType /\ up' \in WireType /\ down' \in WireType
      /\ \A f \in Fds : link'[f] \in {"unused", "closed"} /\ down'[f] \in {down[f], <<>>}
  <2>1. link' \in LinkType /\ \A f \in Fds : link'[f] \in {"unused", "closed"}
    BY <1>3 DEF LinkType
  <2>2. clients' \in ClientsType
    BY <1>1, <1>3, TypesHeld DEF ClientsType
  <2>3. up' \in WireType
    BY <1>1, <1>3 DEF WireType
  <2>4. down' \in WireType /\ \A f \in Fds : down'[f] \in {down[f], <<>>}
    BY <1>1, <1>3, TypesHeld DEF WireType
  <2> QED BY <2>1, <2>2, <2>3, <2>4
<1>5. relay' \in [runs : Nat, on : BOOLEAN, room : {0} \cup Rooms]
  BY DEF StopRelay, TypeOK
<1> QED BY <1>2, <1>4, <1>5 DEF StopRelay, PassOver

\* A stop keeps the types and what is known of the sockets.
LEMMA StopKeepsTypes ==
    ASSUME TypeOK, SocketsOK, StopRelay
    PROVE  TypeOK' /\ SocketsOK'
<1>1. \A f \in Fds : Len(down'[f]) <= SocketRoom
  <2>1. Len(<<>>) = 0 /\ SocketRoom \in Nat
    BY PlainChatAssumption
  <2> QED BY <2>1, StopEffect DEF TypeOK
<1>2. byName' \in [Names -> Fds \cup {NoFd}]
  BY StopEffect
<1>3. doomed' \subseteq Open'
  BY StopEffect
<1>4. /\ ready' \in [Fds -> SUBSET {"in", "out"}]
      /\ turn' \in [fd : Fds \cup {NoFd}, reads : BOOLEAN]
      /\ fate' \in FateType /\ asks' \in Nat
  BY StopEffect, TypesHeld DEF TypeOK
<1>5. TypeOK'
  BY <1>1, <1>2, <1>3, <1>4, StopEffect, TypeFromParts DEF FateType
<1>6. \A f \in Fds : conns'[f] = NoConn /\ ready'[f] = {} /\ link'[f] # "backlog"
  BY StopEffect
<1>7. turn'.fd = NoFd /\ doomed' = {}
  BY StopEffect
<1> QED BY <1>5, <1>6, <1>7 DEF SocketsOK

\* poll and accept_new: sockets of the backlog are opened, those that are open reported.
LEMMA PollEffect ==
    ASSUME TypeOK, Poll
    PROVE  /\ link' \in LinkType
           /\ ready' = [f \in Fds |-> IF f \in Open THEN Events(f) ELSE {}]
           /\ \A f \in Fds : link'[f] = link[f] \/ (link[f] = "backlog" /\ link'[f] = "open")
           /\ turn.fd = NoFd /\ doomed = {} /\ \A f \in Fds : ready[f] = {}
           /\ UNCHANGED <<relay, conns, byName, turn, doomed, clients, up, down, fate, asks>>
<1>1. PICK A \in Accepted :
         /\ ready' = [f \in Fds |-> IF f \in Open THEN Events(f) ELSE {}]
         /\ link' = [f \in Fds |-> IF f \in A THEN "open" ELSE link[f]]
  BY DEF Poll
<1>2. A \subseteq Backlog
  BY DEF Accepted
<1>3. link' \in LinkType
      /\ \A f \in Fds : link'[f] = link[f] \/ (link[f] = "backlog" /\ link'[f] = "open")
  <2>1. \A f \in Fds : link[f] \in {"unused", "backlog", "open", "closed"}
    BY TypesHeld DEF LinkType
  <2>2. \A f \in A : link[f] = "backlog"
    BY <1>2 DEF Backlog
  <2>3. ASSUME NEW f \in Fds
        PROVE  /\ link'[f] = link[f] \/ (link[f] = "backlog" /\ link'[f] = "open")
               /\ link'[f] \in {"unused", "backlog", "open", "closed"}
    <3>1. link'[f] = IF f \in A THEN "open" ELSE link[f]
      BY <1>1
    <3> QED BY <2>1, <2>2, <3>1
  <2>4. link' \in LinkType
    BY <1>1, <2>3 DEF LinkType
  <2> QED BY <2>3, <2>4
<1> QED BY <1>1, <1>3 DEF Poll, PassOver

\* poll keeps the types and what is known of the sockets.
LEMMA PollKeepsTypes ==
    ASSUME TypeOK, SocketsOK, Poll
    PROVE  TypeOK' /\ SocketsOK'
<1>1. ready' \in [Fds -> SUBSET {"in", "out"}]
  BY PollEffect DEF Events
<1>2. doomed' \subseteq Open'
  BY PollEffect
<1>3. /\ relay' \in [runs : Nat, on : BOOLEAN, room : {0} \cup Rooms]
      /\ byName' \in [Names -> Fds \cup {NoFd}]
      /\ turn' \in [fd : Fds \cup {NoFd}, reads : BOOLEAN]
      /\ clients' \in ClientsType /\ up' \in WireType /\ down' \in WireType
      /\ fate' \in FateType /\ asks' \in Nat
      /\ \A f \in Fds : Len(down'[f]) <= SocketRoom
  BY PollEffect, TypesHeld DEF TypeOK
<1>4. TypeOK'
  BY <1>1, <1>2, <1>3, PollEffect, TypeFromParts DEF FateType
<1>5. \A f \in Fds : link'[f] # "open" => conns'[f] = NoConn /\ ready'[f] = {}
  BY PollEffect DEF SocketsOK, Open
<1>6. \A f \in Fds : link'[f] = "backlog" => down'[f] = <<>>
  BY PollEffect DEF SocketsOK
<1>7. turn'.fd = NoFd /\ doomed' = {}
  BY PollEffect
<1> QED BY <1>4, <1>5, <1>6, <1>7 DEF SocketsOK

-----------------------------------------------------------------------------
(* The roster and the news. *)

Roster == NamesInverse /\ NewsOK /\ NewsAgree

SameRoster ==
    /\ byName' = byName
    /\ \A g \in Fds : /\ conns'[g].reg = conns[g].reg /\ conns'[g].user = conns[g].user
                      /\ conns'[g].news = conns[g].news

\* Names and news that do not change agree as before.
LEMMA SameRosterKeeps ==
    ASSUME TypeOK, Roster, SameRoster
    PROVE  Roster'
<1>1. \A n \in Names : byName[n] \in Fds \cup {NoFd}
  BY DEF TypeOK
<1>2. NamesInverse'
  BY <1>1 DEF Roster, SameRoster, NamesInverse
<1>3. NewsOK'
  BY DEF Roster, SameRoster, NewsOK
<1>4. NewsAgree'
  BY DEF Roster, SameRoster, NewsAgree
<1> QED BY <1>2, <1>3, <1>4 DEF Roster

\* So it is when one connection changes, and neither its user nor its news.
LEMMA OthersSame ==
    ASSUME NEW f \in Fds, Others(f), byName' = byName,
           conns'[f].reg = conns[f].reg, conns'[f].user = conns[f].user,
           conns'[f].news = conns[f].news
    PROVE  SameRoster
BY DEF SameRoster, Others

\* A login keeps names and news in agreement.
LEMMA JoinKeepsRoster ==
    ASSUME TypeOK, Roster, NEW f \in Fds, NEW n \in Names, Join(f, n)
    PROVE  Roster'
<1>1. /\ byName \in [Names -> Fds \cup {NoFd}] /\ byName[n] = NoFd /\ ~conns[f].reg
      /\ byName'[n] = f /\ \A m \in Names \ {n} : byName'[m] = byName[m]
      /\ NoFd \notin Fds
  BY PlainChatAssumption DEF TypeOK, Join
<1>2. conns'[f].reg /\ conns'[f].user = n /\ conns'[f].news = conns[f].news
  BY DEF Join
<1>3. /\ Line("joined", n, 0).verb = "joined" /\ Line("joined", n, 0).name = n
  BY DEF Line
<1>4. ASSUME NEW g \in Fds \ {f}
      PROVE  /\ conns'[g].reg = conns[g].reg /\ conns'[g].user = conns[g].user
             /\ ~conns[g].reg => conns'[g].news = conns[g].news
             /\ conns[g].reg => /\ conns'[g].news[n] = "joined"
                                /\ \A m \in Names \ {n} : conns'[g].news[m] = conns[g].news[m]
  <2>1. CASE conns[g].reg
    <3>1. ToldNews(conns[g], conns'[g], Line("joined", n, 0))
      BY <2>1 DEF Join
    <3>2. conns'[g].news = [conns[g].news EXCEPT ![n] = "joined"]
      BY <1>3, <3>1 DEF ToldNews
    <3>3. conns[g].news \in [Names -> {"none", "joined", "left"}]
      BY DEF TypeOK
    <3> QED BY <2>1, <3>1, <3>2, <3>3 DEF ToldNews
  <2>2. CASE ~conns[g].reg
    BY <2>2 DEF Join
  <2> QED BY <2>1, <2>2
<1>5. NamesInverse'
  <2>1. ASSUME NEW m \in Names, byName'[m] # NoFd
        PROVE  conns'[byName'[m]].reg /\ conns'[byName'[m]].user = m
    <3>1. CASE m = n
      BY <1>1, <1>2, <3>1
    <3>2. CASE m # n
      <4>1. byName'[m] = byName[m] /\ byName[m] \in Fds
        BY <1>1, <2>1, <3>2
      <4>2. conns[byName[m]].reg /\ conns[byName[m]].user = m
        BY <2>1, <4>1 DEF Roster, NamesInverse
      <4>3. byName[m] # f
        BY <1>1, <4>2
      <4> QED BY <1>4, <4>1, <4>2, <4>3
    <3> QED BY <3>1, <3>2
  <2>2. ASSUME NEW g \in Fds, conns'[g].reg
        PROVE  conns'[g].user \in Names /\ byName'[conns'[g].user] = g
    <3>1. CASE g = f
      BY <1>1, <1>2, <3>1
    <3>2. CASE g # f
      <4>1. conns[g].reg /\ conns'[g].user = conns[g].user
        BY <1>4, <2>2, <3>2
      <4>2. conns[g].user \in Names /\ byName[conns[g].user] = g
        BY <4>1 DEF Roster, NamesInverse
      <4>3. conns[g].user # n
        BY <1>1, <4>2
      <4> QED BY <1>1, <4>1, <4>2, <4>3
    <3> QED BY <3>1, <3>2
  <2> QED BY <2>1, <2>2 DEF NamesInverse
<1>6. NewsOK'
  <2>1. ASSUME NEW g \in Fds, ~conns'[g].reg PROVE \A m \in Names : conns'[g].news[m] = "none"
    <3>1. g # f
      BY <1>2, <2>1
    <3>2. ~conns[g].reg /\ conns'[g].news = conns[g].news
      BY <1>4, <2>1, <3>1
    <3> QED BY <3>2 DEF Roster, NewsOK
  <2> QED BY <2>1 DEF NewsOK
<1>7. NewsAgree'
  <2>1. ASSUME NEW g \in Fds, conns'[g].reg, NEW m \in Names
        PROVE  /\ conns'[g].news[m] = "joined" => byName'[m] # NoFd
               /\ conns'[g].news[m] = "left" => byName'[m] = NoFd
    <3>1. CASE g = f
      <4>1. conns'[g].news[m] = "none"
        BY <1>1, <1>2, <3>1 DEF Roster, NewsOK
      <4> QED BY <4>1
    <3>2. CASE g # f
      <4>1. conns[g].reg
        BY <1>4, <2>1, <3>2
      <4>2. CASE m = n
        BY <1>1, <1>4, <3>2, <4>1, <4>2
      <4>3. CASE m # n
        <5>1. conns'[g].news[m] = conns[g].news[m] /\ byName'[m] = byName[m]
          BY <1>1, <1>4, <3>2, <4>1, <4>3
        <5> QED BY <4>1, <5>1 DEF Roster, NewsAgree
      <4> QED BY <4>2, <4>3
    <3> QED BY <3>1, <3>2
  <2>2. ASSUME NEW g \in Fds, conns'[g].reg, NEW h \in Fds \ {g}, conns'[h].reg
        PROVE  \/ conns'[g].news[conns'[h].user] = "joined"
               \/ conns'[h].news[conns'[g].user] = "joined"
    <3>1. CASE g = f
      <4>1. h \in Fds \ {f} /\ conns[h].reg
        BY <1>4, <2>2, <3>1
      <4> QED BY <1>2, <1>4, <3>1, <4>1
    <3>2. CASE h = f
      <4>1. g \in Fds \ {f} /\ conns[g].reg
        BY <1>4, <2>2, <3>2
      <4> QED BY <1>2, <1>4, <3>2, <4>1
    <3>3. CASE g # f /\ h # f
      <4>1. /\ conns[g].reg /\ conns'[g].user = conns[g].user
            /\ conns[h].reg /\ conns'[h].user = conns[h].user
        BY <1>4, <2>2, <3>3
      <4>2. /\ conns[g].user \in Names /\ byName[conns[g].user] = g
            /\ conns[h].user \in Names /\ byName[conns[h].user] = h
        BY <4>1 DEF Roster, NamesInverse
      <4>3. conns[g].user # n /\ conns[h].user # n
        BY <1>1, <4>2
      <4>4. conns[g].news[conns[h].user] = "joined" \/ conns[h].news[conns[g].user] = "joined"
        BY <4>1 DEF Roster, NewsAgree
      <4> QED BY <1>4, <3>3, <4>1, <4>2, <4>3, <4>4
    <3> QED BY <3>1, <3>2, <3>3
  <2> QED BY <2>1, <2>2 DEF NewsAgree
<1> QED BY <1>5, <1>6, <1>7 DEF Roster

\* drop_conn keeps names and news in agreement.
LEMMA DropKeepsRoster ==
    ASSUME TypeOK, SocketsOK, Roster, NEW f \in Fds, Drop(f)
    PROVE  Roster'
<1>1. /\ byName \in [Names -> Fds \cup {NoFd}] /\ NoFd \notin Fds
      /\ conns'[f] = NoConn /\ DropOthers(f)
      /\ byName' = [n \in Names |-> IF byName[n] = f THEN NoFd ELSE byName[n]]
  BY PlainChatAssumption, DropEffect DEF TypeOK, Roster
<1>2. \A n \in Names : byName'[n] = IF byName[n] = f THEN NoFd ELSE byName[n]
  BY <1>1
<1>3. PICK u : u = conns[f].user
  OBVIOUS
<1>4. /\ Line("left", u, 0).verb = "left" /\ Line("left", u, 0).name = u
  BY DEF Line
<1>5. ASSUME NEW n \in Names PROVE byName[n] = f <=> conns[f].reg /\ n = u
  BY <1>1, <1>3 DEF Roster, NamesInverse
<1>6. ~conns'[f].reg /\ \A n \in Names : conns'[f].news[n] = "none"
  BY <1>1, NoConnTyped
<1>7. ASSUME NEW g \in Fds \ {f}
      PROVE  /\ conns'[g].reg = conns[g].reg /\ conns'[g].user = conns[g].user
             /\ ~conns[f].reg \/ ~conns[g].reg => conns'[g].news = conns[g].news
             /\ conns[f].reg /\ conns[g].reg =>
                    /\ u \in Names /\ conns'[g].news[u] = "left"
                    /\ \A m \in Names \ {u} : conns'[g].news[m] = conns[g].news[m]
  <2>1. CASE conns[f].reg /\ conns[g].reg
    <3>1. ToldNews(conns[g], conns'[g], Line("left", u, 0))
      BY <1>1, <1>3, <2>1 DEF DropOthers
    <3>2. conns'[g].news = [conns[g].news EXCEPT ![u] = "left"]
      BY <1>4, <3>1 DEF ToldNews
    <3>3. conns[g].news \in [Names -> {"none", "joined", "left"}] /\ u \in Names
      BY <1>3, <2>1 DEF TypeOK, Roster, NamesInverse
    <3> QED BY <2>1, <3>1, <3>2, <3>3 DEF ToldNews
  <2>2. CASE ~(conns[f].reg /\ conns[g].reg)
    BY <1>1, <2>2 DEF DropOthers
  <2> QED BY <2>1, <2>2
<1>8. NamesInverse'
  <2>1. ASSUME NEW m \in Names, byName'[m] # NoFd
        PROVE  conns'[byName'[m]].reg /\ conns'[byName'[m]].user = m
    <3>1. byName'[m] = byName[m] /\ byName[m] # f /\ byName[m] \in Fds
      BY <1>1, <1>2, <2>1
    <3>2. conns[byName[m]].reg /\ conns[byName[m]].user = m
      BY <2>1, <3>1 DEF Roster, NamesInverse
    <3> QED BY <1>7, <3>1, <3>2
  <2>2. ASSUME NEW g \in Fds, conns'[g].reg
        PROVE  conns'[g].user \in Names /\ byName'[conns'[g].user] = g
    <3>1. g # f
      BY <1>6, <2>2
    <3>2. conns[g].reg /\ conns'[g].user = conns[g].user
      BY <1>7, <2>2, <3>1
    <3>3. conns[g].user \in Names /\ byName[conns[g].user] = g
      BY <3>2 DEF Roster, NamesInverse
    <3> QED BY <1>2, <3>1, <3>2, <3>3
  <2> QED BY <2>1, <2>2 DEF NamesInverse
<1>9. NewsOK'
  <2>1. ASSUME NEW g \in Fds, ~conns'[g].reg PROVE \A m \in Names : conns'[g].news[m] = "none"
    <3>1. CASE g = f
      BY <1>6, <3>1
    <3>2. CASE g # f
      <4>1. ~conns[g].reg /\ conns'[g].news = conns[g].news
        BY <1>7, <2>1, <3>2
      <4> QED BY <4>1 DEF Roster, NewsOK
    <3> QED BY <3>1, <3>2
  <2> QED BY <2>1 DEF NewsOK
<1>10. NewsAgree'
  <2>1. ASSUME NEW g \in Fds, conns'[g].reg, NEW m \in Names
        PROVE  /\ conns'[g].news[m] = "joined" => byName'[m] # NoFd
               /\ conns'[g].news[m] = "left" => byName'[m] = NoFd
    <3>1. g # f
      BY <1>6, <2>1
    <3>2. conns[g].reg
      BY <1>7, <2>1, <3>1
    <3>3. /\ conns[g].news[m] = "joined" => byName[m] # NoFd
          /\ conns[g].news[m] = "left" => byName[m] = NoFd
      BY <3>2 DEF Roster, NewsAgree
    <3>4. CASE byName[m] = f
      <4>1. conns[f].reg /\ m = u /\ byName'[m] = NoFd
        BY <1>2, <1>5, <3>4
      <4> QED BY <1>7, <3>1, <3>2, <4>1
    <3>5. CASE byName[m] # f
      <4>1. byName'[m] = byName[m] /\ ~(conns[f].reg /\ m = u)
        BY <1>2, <1>5, <3>5
      <4>2. conns'[g].news[m] = conns[g].news[m]
        BY <1>7, <3>1, <3>2, <4>1
      <4> QED BY <3>3, <4>1, <4>2
    <3> QED BY <3>4, <3>5
  <2>2. ASSUME NEW g \in Fds, conns'[g].reg, NEW h \in Fds \ {g}, conns'[h].reg
        PROVE  \/ conns'[g].news[conns'[h].user] = "joined"
               \/ conns'[h].news[conns'[g].user] = "joined"
    <3>1. g # f /\ h # f
      BY <1>6, <2>2
    <3>2. /\ conns[g].reg /\ conns'[g].user = conns[g].user
          /\ conns[h].reg /\ conns'[h].user = conns[h].user
      BY <1>7, <2>2, <3>1
    <3>3. /\ conns[g].user \in Names /\ byName[conns[g].user] = g
          /\ conns[h].user \in Names /\ byName[conns[h].user] = h
      BY <3>2 DEF Roster, NamesInverse
    <3>4. ~(conns[f].reg /\ conns[g].user = u) /\ ~(conns[f].reg /\ conns[h].user = u)
      BY <1>5, <3>1, <3>3
    <3>5. conns[g].news[conns[h].user] = "joined" \/ conns[h].news[conns[g].user] = "joined"
      BY <3>2 DEF Roster, NewsAgree
    <3> QED BY <1>7, <3>1, <3>2, <3>3, <3>4, <3>5
  <2> QED BY <2>1, <2>2 DEF NewsAgree
<1> QED BY <1>8, <1>9, <1>10 DEF Roster

\* So does every line that is handled.
LEMMA LineKeepsRoster ==
    ASSUME TypeOK, Roster, NEW f \in Fds, NEW line, LineEffect(f, line)
    PROVE  Roster'
<1>1. CASE Reply(f) \/ Wants(f)
  <2>1. SameRoster
    BY <1>1, OthersSame DEF Reply, Wants, Told, Same
  <2> QED BY <2>1, SameRosterKeeps
<1>2. ASSUME NEW to \in Names, NEW m \in Messages, Post(f, to, m) PROVE Roster'
  <2>1. byName[to] \in Fds
    BY <1>2 DEF Post, TypeOK
  <2>2. SameRoster
    BY <1>2, <2>1, OthersSame DEF Post, Told
  <2> QED BY <2>2, SameRosterKeeps
<1>3. CASE line.name \in Names /\ Join(f, line.name)
  BY <1>3, JoinKeepsRoster
<1> QED BY <1>1, <1>2, <1>3 DEF LineEffect

\* And so does a stop.
LEMMA StopKeepsRoster ==
    ASSUME TypeOK, StopRelay
    PROVE  Roster'
<1>1. \A f \in Fds : ~conns'[f].reg /\ \A n \in Names : conns'[f].news[n] = "none"
  BY StopEffect, NoConnTyped
<1>2. \A n \in Names : byName'[n] = NoFd
  BY StopEffect
<1>3. NamesInverse'
  BY <1>1, <1>2 DEF NamesInverse
<1>4. NewsOK'
  BY <1>1 DEF NewsOK
<1>5. NewsAgree'
  BY <1>1 DEF NewsAgree
<1> QED BY <1>3, <1>4, <1>5 DEF Roster

-----------------------------------------------------------------------------
(* What is told on a wire. *)

\* A line that is no LOGIN asks for no other name.
LEMMA AskedAppend ==
    ASSUME NEW wire \in Seq(LineType), NEW line \in LineType, NEW name,
           AsksFor(wire, name), line.verb # "LOGIN"
    PROVE  AsksFor(Append(wire, line), name)
<1>1. Len(Append(wire, line)) = Len(wire) + 1 /\ Append(wire, line)[Len(wire) + 1] = line
      /\ \A i \in 1 .. Len(wire) : Append(wire, line)[i] = wire[i]
      /\ DOMAIN wire = 1 .. Len(wire) /\ Len(wire) \in Nat
      /\ DOMAIN Append(wire, line) = 1 .. Len(wire) + 1
  OBVIOUS
<1>2. ASSUME NEW i \in DOMAIN Append(wire, line), Append(wire, line)[i].verb = "LOGIN"
      PROVE  Append(wire, line)[i].name = name
  <2>1. i \in DOMAIN wire /\ Append(wire, line)[i] = wire[i]
    BY <1>1, <1>2
  <2> QED BY <1>2, <2>1 DEF AsksFor
<1> QED BY <1>2 DEF AsksFor

\* Nor does taking a line.
LEMMA AskedTail ==
    ASSUME NEW wire \in Seq(LineType), wire # <<>>, NEW name, AsksFor(wire, name)
    PROVE  AsksFor(Tail(wire), name)
<1>1. DOMAIN wire = 1 .. Len(wire) /\ Len(wire) \in Nat /\ DOMAIN Tail(wire) = 1 .. Len(wire) - 1
      /\ \A i \in 1 .. Len(wire) - 1 : Tail(wire)[i] = wire[i + 1]
  OBVIOUS
<1>2. ASSUME NEW i \in DOMAIN Tail(wire), Tail(wire)[i].verb = "LOGIN"
      PROVE  Tail(wire)[i].name = name
  <2>1. i + 1 \in DOMAIN wire /\ Tail(wire)[i] = wire[i + 1]
    BY <1>1
  <2> QED BY <1>2, <2>1 DEF AsksFor
<1> QED BY <1>2 DEF AsksFor

\* Whoever is told OK by a queue with another line at its end was told before.
LEMMA OkAppend ==
    ASSUME NEW wire \in Seq(LineType), NEW line \in LineType, line.verb # "OK",
           ToldOk(Append(wire, line))
    PROVE  ToldOk(wire)
<1>1. Len(Append(wire, line)) = Len(wire) + 1 /\ Append(wire, line)[Len(wire) + 1] = line
      /\ \A i \in 1 .. Len(wire) : Append(wire, line)[i] = wire[i]
      /\ DOMAIN wire = 1 .. Len(wire) /\ Len(wire) \in Nat
      /\ DOMAIN Append(wire, line) = 1 .. Len(wire) + 1
  OBVIOUS
<1>2. PICK i \in DOMAIN Append(wire, line) : Append(wire, line)[i].verb = "OK"
  BY DEF ToldOk
<1>3. i \in DOMAIN wire /\ Append(wire, line)[i] = wire[i]
  BY <1>1, <1>2
<1> QED BY <1>2, <1>3 DEF ToldOk

\* Whoever is told OK by the rest was told by the whole.
LEMMA OkTail ==
    ASSUME NEW wire \in Seq(LineType), wire # <<>>, ToldOk(Tail(wire))
    PROVE  ToldOk(wire)
<1>1. DOMAIN wire = 1 .. Len(wire) /\ Len(wire) \in Nat /\ DOMAIN Tail(wire) = 1 .. Len(wire) - 1
      /\ \A i \in 1 .. Len(wire) - 1 : Tail(wire)[i] = wire[i + 1]
  OBVIOUS
<1>2. PICK i \in DOMAIN Tail(wire) : Tail(wire)[i].verb = "OK"
  BY DEF ToldOk
<1>3. i + 1 \in DOMAIN wire /\ Tail(wire)[i] = wire[i + 1]
  BY <1>1
<1> QED BY <1>2, <1>3 DEF ToldOk

\* What the socket takes was in the queue, what it does not take stays there.
LEMMA OkCut ==
    ASSUME NEW s \in Seq(LineType), NEW r \in Seq(LineType), NEW t \in 0 .. Len(s),
           ToldOk(r \o SubSeq(s, 1, t)) \/ ToldOk(SubSeq(s, t + 1, Len(s)))
    PROVE  ToldOk(r) \/ ToldOk(s)
<1>1. /\ Len(s) \in Nat /\ Len(r) \in Nat /\ t \in Nat /\ t <= Len(s)
      /\ DOMAIN s = 1 .. Len(s) /\ DOMAIN r = 1 .. Len(r)
  OBVIOUS
<1>2. PICK a, b : a = SubSeq(s, 1, t) /\ b = SubSeq(s, t + 1, Len(s))
  OBVIOUS
<1>3. /\ a \in Seq(LineType) /\ b \in Seq(LineType)
      /\ Len(a) = t /\ Len(b) = Len(s) - t
      /\ \A i \in 1 .. t : a[i] = s[i]
      /\ \A i \in 1 .. Len(s) - t : b[i] = s[t + i]
  BY <1>2, CutInTwo
<1>4. CASE ToldOk(b)
  <2>1. PICK i \in DOMAIN b : b[i].verb = "OK"
    BY <1>4 DEF ToldOk
  <2>2. i \in 1 .. Len(s) - t
    BY <1>1, <1>3
  <2>3. i \in Nat /\ t + i \in 1 .. Len(s)
    BY <1>1, <2>2
  <2>4. b[i] = s[t + i]
    BY <1>3, <2>2
  <2>5. t + i \in DOMAIN s /\ s[t + i].verb = "OK"
    BY <1>1, <2>1, <2>3, <2>4
  <2> QED BY <2>5 DEF ToldOk
<1>5. CASE ToldOk(r \o a)
  <2>1. PICK i \in DOMAIN (r \o a) : (r \o a)[i].verb = "OK"
    BY <1>5 DEF ToldOk
  <2>2. DOMAIN (r \o a) = 1 .. Len(r) + t
        /\ (r \o a)[i] = IF i <= Len(r) THEN r[i] ELSE a[i - Len(r)]
    <3>1. r \o a \in Seq(LineType) /\ Len(r \o a) = Len(r) + t
      BY <1>2, CutInTwo
    <3>2. DOMAIN (r \o a) = 1 .. Len(r \o a)
      BY <3>1
    <3>3. i \in 1 .. Len(r) + Len(a)
      BY <1>3, <2>1, <3>1, <3>2
    <3>4. (r \o a)[i] = IF i <= Len(r) THEN r[i] ELSE a[i - Len(r)]
      BY <1>3, <3>3
    <3> QED BY <3>1, <3>2, <3>4
  <2>3. CASE i <= Len(r)
    <3>1. i \in DOMAIN r /\ r[i].verb = "OK"
      BY <1>1, <2>1, <2>2, <2>3
    <3> QED BY <3>1 DEF ToldOk
  <2>4. CASE ~(i <= Len(r))
    <3>1. i - Len(r) \in 1 .. t
      BY <1>1, <2>2, <2>4
    <3>2. i - Len(r) \in DOMAIN s /\ s[i - Len(r)].verb = "OK"
      BY <1>1, <1>3, <2>1, <2>2, <2>4, <3>1
    <3> QED BY <3>2 DEF ToldOk
  <2> QED BY <2>3, <2>4
<1> QED BY <1>2, <1>4, <1>5

\* An empty queue tells nobody anything.
LEMMA NothingTold == ~ToldOk(<<>>)
BY DEF ToldOk

-----------------------------------------------------------------------------
(* The client that waits for its prompt. *)

Waiting(f) == link[f] \in {"backlog", "open"} /\ clients[f].st \in {"login", "on"}

Asked(f) == clients[f].user \in Names /\ AsksFor(up[f], clients[f].user)

Granted(f) ==
    ToldOk(down[f]) \/ ToldOk(conns[f].out) \/ clients[f].st = "on" =>
        byName[clients[f].user] = f

\* LoginOK in three parts.
LEMMA LoginIs == LoginOK <=> \A f \in Fds : Waiting(f) => Asked(f) /\ Granted(f)
BY DEF LoginOK, Waiting, Asked, Granted

\* In a step of a client the others wait as they did.
LEMMA ClientKeepsLogin ==
    ASSUME LoginOK, NEW f \in Fds, ClientFrame(f), Waiting(f)' => Asked(f)' /\ Granted(f)'
    PROVE  LoginOK'
<1>1. UNCHANGED <<conns, byName>>
  BY DEF ClientFrame, relayVars
<1>2. \A g \in Fds \ {f} :
        link'[g] = link[g] /\ clients'[g] = clients[g] /\ up'[g] = up[g] /\ down'[g] = down[g]
  BY DEF ClientFrame
<1>3. ASSUME NEW g \in Fds, Waiting(g)' PROVE Asked(g)' /\ Granted(g)'
  <2>1. CASE g = f
    BY <1>3, <2>1
  <2>2. CASE g # f
    <3>1. Waiting(g)
      BY <1>2, <1>3, <2>2 DEF Waiting
    <3>2. Asked(g) /\ Granted(g)
      BY <3>1, LoginIs
    <3> QED BY <1>1, <1>2, <2>2, <3>2 DEF Asked, Granted
  <2> QED BY <2>1, <2>2
<1> QED BY <1>3 DEF LoginOK, Waiting, Asked, Granted

\* A client that connects asks for its own name and has been told nothing.
LEMMA ConnectKeepsLogin ==
    ASSUME TypeOK, SocketsOK, LoginOK, NEW f \in Fds, NEW name \in Names, Connect(f, name)
    PROVE  LoginOK'
<1>1. /\ ClientFrame(f) /\ link[f] = "unused" /\ down'[f] = <<>>
      /\ clients'[f].user = name /\ clients'[f].st = "login"
      /\ up'[f] = <<Line("LOGIN", name, 0)>>
  BY ConnectFrame
<1>2. Asked(f)'
  BY <1>1 DEF Asked, AsksFor, Line
<1>3. Granted(f)'
  <2>1. conns'[f].out = <<>>
    BY <1>1, NoConnTyped DEF SocketsOK, ClientFrame, relayVars
  <2> QED BY <1>1, <2>1, NothingTold DEF Granted
<1> QED BY <1>1, <1>2, <1>3, ClientKeepsLogin

\* The prompt comes up only after an OK.
LEMMA VerdictKeepsLogin ==
    ASSUME TypeOK, LoginOK, NEW f \in Fds, Verdict(f)
    PROVE  LoginOK'
<1>1. /\ ClientFrame(f) /\ clients[f].st = "login" /\ up' = up
      /\ \/ /\ clients'[f].st = "on" /\ clients'[f].user = clients[f].user
            /\ down[f][1].verb = "OK" /\ 1 \in DOMAIN down[f] /\ link' = link
         \/ clients'[f].st \in {"off", "gone"}
  BY VerdictFrame
<1>2. ASSUME Waiting(f)' PROVE Asked(f)' /\ Granted(f)'
  <2>1. /\ clients'[f].user = clients[f].user
        /\ down[f][1].verb = "OK" /\ 1 \in DOMAIN down[f] /\ link' = link
    BY <1>1, <1>2 DEF Waiting
  <2>2. Waiting(f)
    BY <1>1, <1>2, <2>1 DEF Waiting
  <2>3. Asked(f) /\ Granted(f) /\ ToldOk(down[f])
    BY <2>1, <2>2, LoginIs DEF ToldOk
  <2>4. byName' = byName
    BY <1>1 DEF ClientFrame, relayVars
  <2> QED BY <1>1, <2>1, <2>3, <2>4 DEF Asked, Granted
<1> QED BY <1>1, <1>2, ClientKeepsLogin

\* Reading a line keeps LoginOK.
LEMMA ReadsKeepsLogin ==
    ASSUME TypeOK, LoginOK, NEW f \in Fds, Reads(f)
    PROVE  LoginOK'
<1>1. /\ ClientFrame(f) /\ UNCHANGED <<link, clients, up>>
      /\ down[f] # <<>> /\ down'[f] = Tail(down[f]) /\ UNCHANGED <<conns, byName>>
  BY ReadsFrame DEF ClientFrame, relayVars
<1>2. down[f] \in Seq(LineType)
  BY TypesHeld DEF WireType
<1>3. ASSUME Waiting(f)' PROVE Asked(f)' /\ Granted(f)'
  <2>1. Asked(f) /\ Granted(f)
    BY <1>1, <1>3, LoginIs DEF Waiting
  <2>2. ToldOk(down'[f]) => ToldOk(down[f])
    BY <1>1, <1>2, OkTail
  <2> QED BY <1>1, <2>1, <2>2 DEF Asked, Granted
<1> QED BY <1>1, <1>3, ClientKeepsLogin

\* A client that has ended, and a stranger, wait for nothing.
LEMMA NotWaitingKeepsLogin ==
    ASSUME LoginOK, NEW f \in Fds, ClientFrame(f), clients'[f].st \notin {"login", "on"}
    PROVE  LoginOK'
BY ClientKeepsLogin DEF Waiting

\* So does what the user types.
LEMMA InputKeepsLogin ==
    ASSUME TypeOK, LoginOK, NEW f \in Fds, HandleInput(f) \/ EndOfInput(f)
    PROVE  LoginOK'
<1>1. ClientFrame(f) /\ (Types(f) \/ clients'[f].st \in {"off", "gone"})
  BY HandleInputFrame
<1>2. CASE Types(f)
  <2>1. ASSUME Waiting(f)' PROVE Asked(f)' /\ Granted(f)'
    <3>1. Waiting(f)
      BY <1>2, <2>1 DEF Waiting, Types
    <3>2. Asked(f) /\ Granted(f)
      BY <3>1, LoginIs
    <3>3. up[f] \in Seq(LineType)
      BY TypesHeld DEF WireType
    <3>4. Asked(f)'
      <4>1. CASE up'[f] = up[f]
        BY <1>2, <3>2, <4>1 DEF Types, Asked
      <4>2. ASSUME NEW line \in LineType, line.verb # "LOGIN", up'[f] = Append(up[f], line)
            PROVE  Asked(f)'
        BY <1>2, <3>2, <3>3, <4>2, AskedAppend DEF Types, Asked
      <4> QED BY <1>2, <4>1, <4>2 DEF Types
    <3>5. Granted(f)'
      BY <1>1, <1>2, <3>2 DEF Types, Granted, ClientFrame, relayVars
    <3> QED BY <3>4, <3>5
  <2> QED BY <1>1, <2>1, ClientKeepsLogin
<1>3. CASE clients'[f].st \in {"off", "gone"}
  BY <1>1, <1>3, NotWaitingKeepsLogin
<1> QED BY <1>1, <1>2, <1>3

-----------------------------------------------------------------------------
(* The relay and the clients that wait. *)

\* A line of no news that anybody is told is no OK.
LEMMA ToldNoOk ==
    ASSUME TypeOK, NEW g \in Fds, NEW line \in LineType, line.verb # "OK",
           conns'[g].out = Append(conns[g].out, line), ToldOk(conns'[g].out)
    PROVE  ToldOk(conns[g].out)
<1>1. conns[g].out \in Seq(LineType)
  BY TypesHeld DEF ConnType
<1> QED BY <1>1, OkAppend

\* A line handled tells OK only to the one who then has the name.
LEMMA LineKeepsGranted ==
    ASSUME TypeOK, Roster, NEW f \in Fds, NEW line \in LineType, LineEffect(f, line),
           NEW g \in Fds, Granted(g), Asked(g), g = f /\ line.verb = "LOGIN" =>
                                                    line.name = clients[f].user,
           down' = down, clients' = clients
    PROVE  Granted(g)'
<1>0. 0 \in 0 .. MaxMessages
  BY PlainChatAssumption
<1>1. ASSUME ToldOk(conns'[g].out) => ToldOk(conns[g].out), byName' = byName
      PROVE  Granted(g)'
  BY <1>1 DEF Granted
<1>2. CASE Reply(f)
  <2>1. PICK verb \in {"ERR", "USERS"} : Told(conns[f], conns'[f], Line(verb, NoName, 0))
    BY <1>2 DEF Reply
  <2>2. PICK l \in LineType : l = Line(verb, NoName, 0) /\ l.verb = verb
    BY <1>0, LineIsTyped
  <2>3. ToldOk(conns'[f].out) => ToldOk(conns[f].out)
    BY <2>1, <2>2, ToldNoOk DEF Told
  <2> QED BY <1>1, <1>2, <2>3 DEF Reply, Others
<1>3. CASE Wants(f)
  BY <1>1, <1>3 DEF Wants, Others, Same
<1>4. ASSUME NEW to \in Names, NEW m \in Messages, Post(f, to, m) PROVE Granted(g)'
  <2>1. byName[to] \in Fds /\ conns[f].user \in Names \cup {NoName} /\ m \in 0 .. MaxMessages
    BY <1>4, TypesHeld, PlainChatAssumption DEF Post, TypeOK, ConnType, Messages
  <2>2. PICK l \in LineType : l = Line("FROM", conns[f].user, m) /\ l.verb = "FROM"
    BY <2>1, LineIsTyped
  <2>3. ToldOk(conns'[byName[to]].out) => ToldOk(conns[byName[to]].out)
    BY <1>4, <2>1, <2>2, ToldNoOk DEF Post, Told
  <2> QED BY <1>1, <1>4, <2>1, <2>3 DEF Post, Others
<1>5. CASE line.verb = "LOGIN" /\ line.name \in Names /\ Join(f, line.name)
  <2>1. byName \in [Names -> Fds \cup {NoFd}] /\ byName' = [byName EXCEPT ![line.name] = f]
    BY <1>5 DEF Join, TypeOK
  <2>2. CASE g = f
    BY <1>5, <2>1, <2>2 DEF Granted
  <2>3. CASE g # f
    <3>1. ToldOk(conns'[g].out) => ToldOk(conns[g].out)
      <4>1. CASE conns[g].reg
        <5>1. PICK l \in LineType : l = Line("joined", line.name, 0) /\ l.verb = "joined"
          BY <1>0, <1>5, LineIsTyped
        <5> QED BY <1>5, <2>3, <4>1, <5>1, ToldNoOk DEF Join, ToldNews
      <4>2. CASE ~conns[g].reg
        BY <1>5, <2>3, <4>2 DEF Join
      <4> QED BY <4>1, <4>2
    <3>2. ASSUME byName[clients[g].user] = g PROVE byName'[clients[g].user] = g
      <4>1. byName[line.name] = NoFd /\ NoFd \notin Fds
        BY <1>5, PlainChatAssumption DEF Join
      <4> QED BY <2>1, <3>2, <4>1 DEF Asked
    <3> QED BY <3>1, <3>2 DEF Granted
  <2> QED BY <2>2, <2>3
<1> QED BY <1>2, <1>3, <1>4, <1>5 DEF LineEffect

\* The relay taking a line leaves nothing else asked for.
LEMMA TailKeepsAsked ==
    ASSUME TypeOK, NEW f \in Fds, up[f] # <<>>, up' = [up EXCEPT ![f] = Tail(@)],
           clients' = clients, NEW g \in Fds, Asked(g)
    PROVE  Asked(g)'
<1>1. up[f] \in Seq(LineType)
  BY TypesHeld DEF WireType
<1>2. up'[f] = Tail(up[f]) /\ \A h \in Fds \ {f} : up'[h] = up[h]
  BY TailTyped
<1> QED BY <1>1, <1>2, AskedTail DEF Asked

\* drain_records keeps LoginOK.
LEMMA DrainKeepsLogin ==
    ASSUME TypeOK, SocketsOK, Roster, LoginOK, NEW f \in Fds, DrainRecord(f)
    PROVE  LoginOK'
<1>1. /\ PassFrame /\ down' = down /\ up[f] # <<>> /\ up' = [up EXCEPT ![f] = Tail(@)]
      /\ UNCHANGED <<conns, byName>> \/ HandleLine(f, Head(up[f]))
  BY DrainParts
<1>2. Head(up[f]) \in LineType /\ Head(up[f]) = up[f][1] /\ 1 \in DOMAIN up[f]
  BY <1>1, TailTyped
<1>3. ASSUME NEW g \in Fds, Waiting(g)' PROVE Asked(g)' /\ Granted(g)'
  <2>1. Asked(g) /\ Granted(g) /\ clients' = clients
    BY <1>1, <1>3, LoginIs DEF Waiting, PassFrame
  <2>2. Asked(g)'
    BY <1>1, <2>1, TailKeepsAsked
  <2>3. Granted(g)'
    <3>1. CASE UNCHANGED <<conns, byName>>
      BY <1>1, <2>1, <3>1 DEF Granted
    <3>2. CASE HandleLine(f, Head(up[f]))
      <4>1. LineEffect(f, Head(up[f]))
        BY <1>2, <3>2, HandleLineEffect
      <4>2. g = f /\ Head(up[f]).verb = "LOGIN" => Head(up[f]).name = clients[f].user
        BY <1>2, <2>1 DEF Asked, AsksFor
      <4> QED BY <1>1, <1>2, <2>1, <4>1, <4>2, LineKeepsGranted
    <3> QED BY <1>1, <3>1, <3>2
  <2> QED BY <2>2, <2>3
<1> QED BY <1>3, LoginIs DEF LoginOK, Waiting, Asked, Granted

\* So does flush_out.
LEMMA FlushKeepsLogin ==
    ASSUME TypeOK, LoginOK, NEW f \in Fds, UNCHANGED <<conns, down>> \/ Flush(f),
           PassFrame, UNCHANGED <<byName, up>>
    PROVE  LoginOK'
<1>1. \A g \in Fds : ToldOk(down'[g]) \/ ToldOk(conns'[g].out) =>
                        ToldOk(down[g]) \/ ToldOk(conns[g].out)
  <2>1. CASE UNCHANGED <<conns, down>>
    BY <2>1
  <2>2. CASE Flush(f)
    <3>1. Moves(f)
      BY <2>2, FlushMoves
    <3>2. conns[f].out \in Seq(LineType) /\ down[f] \in Seq(LineType)
      BY TypesHeld DEF ConnType, WireType
    <3>3. ToldOk(down'[f]) \/ ToldOk(conns'[f].out) => ToldOk(down[f]) \/ ToldOk(conns[f].out)
      <4>1. PICK t \in 0 .. Len(conns[f].out) :
               /\ conns'[f].out = SubSeq(conns[f].out, t + 1, Len(conns[f].out))
               /\ down'[f] = down[f] \o SubSeq(conns[f].out, 1, t)
        BY <3>1 DEF Moves
      <4> QED BY <3>2, <4>1, OkCut
    <3> QED BY <3>1, <3>3 DEF Moves, Others
  <2> QED BY <2>1, <2>2
<1>2. ASSUME NEW g \in Fds, Waiting(g)' PROVE Asked(g)' /\ Granted(g)'
  <2>1. Asked(g) /\ Granted(g)
    BY <1>2, LoginIs DEF Waiting, PassFrame
  <2> QED BY <1>1, <2>1 DEF Asked, Granted, PassFrame
<1> QED BY <1>2, LoginIs DEF LoginOK, Waiting, Asked, Granted

\* drop_conn frees the name of the one who goes and of nobody else.
LEMMA DropKeepsLogin ==
    ASSUME TypeOK, SocketsOK, Roster, LoginOK, NEW f \in Fds, Drop(f)
    PROVE  LoginOK'
<1>1. /\ link'[f] \in {"unused", "closed"} /\ DropOthers(f)
      /\ byName' = [n \in Names |-> IF byName[n] = f THEN NoFd ELSE byName[n]]
      /\ \A g \in Fds \ {f} : link'[g] = link[g] /\ clients'[g] = clients[g]
                              /\ up'[g] = up[g] /\ down'[g] = down[g]
  BY DropEffect DEF Roster
<1>2. ASSUME NEW g \in Fds, Waiting(g)' PROVE Asked(g)' /\ Granted(g)'
  <2>1. g # f
    BY <1>1, <1>2 DEF Waiting
  <2>2. Asked(g) /\ Granted(g)
    BY <1>1, <1>2, <2>1, LoginIs DEF Waiting
  <2>3. ToldOk(conns'[g].out) => ToldOk(conns[g].out)
    <3>1. CASE conns[f].reg /\ conns[g].reg
      <4>1. conns[f].user \in Names \cup {NoName} /\ 0 \in 0 .. MaxMessages
        BY TypesHeld, PlainChatAssumption DEF ConnType
      <4>2. PICK l \in LineType : l = Line("left", conns[f].user, 0) /\ l.verb = "left"
        BY <4>1, LineIsTyped
      <4> QED BY <1>1, <2>1, <3>1, <4>2, ToldNoOk DEF DropOthers, ToldNews
    <3>2. CASE ~(conns[f].reg /\ conns[g].reg)
      BY <1>1, <2>1, <3>2 DEF DropOthers
    <3> QED BY <3>1, <3>2
  <2>4. ASSUME byName[clients[g].user] = g PROVE byName'[clients[g].user] = g
    BY <1>1, <2>1, <2>2, <2>4 DEF Asked
  <2>5. Asked(g)'
    BY <1>1, <2>1, <2>2 DEF Asked
  <2>6. Granted(g)'
    BY <1>1, <2>1, <2>2, <2>3, <2>4 DEF Granted
  <2> QED BY <2>5, <2>6
<1> QED BY <1>2 DEF LoginOK, Waiting, Asked, Granted

\* accept_new keeps LoginOK.
LEMMA PollKeepsLogin ==
    ASSUME TypeOK, LoginOK, Poll
    PROVE  LoginOK'
<1>1. /\ \A f \in Fds : link'[f] = link[f] \/ (link[f] = "backlog" /\ link'[f] = "open")
      /\ UNCHANGED <<conns, byName, clients, up, down>>
  BY PollEffect
<1> QED BY <1>1 DEF LoginOK

-----------------------------------------------------------------------------
(* The invariant. *)

\* The invariant, with the three parts about names and news as one.
LEMMA RosterInvIs == RosterInv <=> TypeOK /\ SocketsOK /\ Roster /\ LoginOK
BY DEF RosterInv, Roster

\* It holds when nothing has been started.
LEMMA RosterInit == Init => RosterInv
<1> SUFFICES ASSUME Init PROVE RosterInv
  OBVIOUS
<1>1. /\ \A f \in Fds : conns[f] = NoConn /\ ready[f] = {} /\ link[f] = "unused" /\ down[f] = <<>>
      /\ \A n \in Names : byName[n] = NoFd
      /\ turn.fd = NoFd /\ doomed = {}
  BY DEF Init
<1>2. NoClient \in ClientType /\ <<>> \in Seq(LineType) /\ Len(<<>>) = 0 /\ SocketRoom \in Nat
  BY PlainChatAssumption DEF NoClient, ClientType
<1>3. conns \in [Fds -> ConnType] /\ clients \in ClientsType /\ up \in WireType /\ down \in WireType
  BY <1>2, NoConnTyped DEF Init, ClientsType, WireType
<1>4. \A f \in Fds : Len(down[f]) <= SocketRoom
  BY <1>1, <1>2
<1>5. /\ relay \in [runs : Nat, on : BOOLEAN, room : {0} \cup Rooms]
      /\ byName \in [Names -> Fds \cup {NoFd}]
      /\ ready \in [Fds -> SUBSET {"in", "out"}]
      /\ turn \in [fd : Fds \cup {NoFd}, reads : BOOLEAN]
      /\ doomed \subseteq Open /\ link \in LinkType /\ fate \in FateType /\ asks \in Nat
  BY DEF Init, LinkType, FateType
<1>6. TypeOK
  BY <1>3, <1>4, <1>5 DEF TypeOK, ConnType, ClientsType, ClientType, WireType, LinkType, FateType
<1>7. SocketsOK
  BY <1>1 DEF SocketsOK
<1>8. Roster
  BY <1>1, NoConnTyped DEF Roster, NamesInverse, NewsOK, NewsAgree
<1>9. LoginOK
  BY <1>1 DEF LoginOK
<1> QED BY <1>6, <1>7, <1>8, <1>9, RosterInvIs

\* Every step of the clients is a step of one, and keeps LoginOK.
LEMMA ClientStep ==
    ASSUME RosterInv, Clients
    PROVE  \E f \in Fds : ClientFrame(f) /\ LoginOK'
<1>0. TypeOK /\ SocketsOK /\ LoginOK
  BY RosterInvIs
<1>1. PICK f \in Fds :
        \/ \E name \in Names : Connect(f, name)
        \/ Verdict(f) \/ Reads(f) \/ SeesClose(f) \/ HandleInput(f) \/ EndOfInput(f) \/ Dies(f)
        \/ StrangerConnects(f) \/ StrangerSays(f)
  BY DEF Clients
<1>2. ASSUME NEW name \in Names, Connect(f, name) PROVE ClientFrame(f) /\ LoginOK'
  BY <1>0, <1>2, ConnectFrame, ConnectKeepsLogin
<1>3. CASE Verdict(f)
  BY <1>0, <1>3, VerdictFrame, VerdictKeepsLogin
<1>4. CASE Reads(f)
  BY <1>0, <1>4, ReadsFrame, ReadsKeepsLogin
<1>5. CASE SeesClose(f)
  BY <1>0, <1>5, SeesCloseFrame, NotWaitingKeepsLogin
<1>6. CASE HandleInput(f) \/ EndOfInput(f)
  BY <1>0, <1>6, HandleInputFrame, InputKeepsLogin
<1>7. CASE Dies(f)
  BY <1>0, <1>7, DiesFrame, NotWaitingKeepsLogin
<1>8. CASE StrangerConnects(f)
  BY <1>0, <1>8, StrangerConnectsFrame, NotWaitingKeepsLogin
<1>9. CASE StrangerSays(f)
  <2>1. ClientFrame(f) /\ clients[f].st = "strange" /\ clients' = clients
    BY <1>0, <1>9, StrangerSaysFrame
  <2>2. clients'[f].st \notin {"login", "on"}
    BY <2>1
  <2> QED BY <1>0, <2>1, <2>2, NotWaitingKeepsLogin
<1> QED BY <1>1, <1>2, <1>3, <1>4, <1>5, <1>6, <1>7, <1>8, <1>9

\* Every step keeps the invariant.
LEMMA RosterNext == RosterInv /\ [Next]_vars => RosterInv'
<1> SUFFICES ASSUME RosterInv, [Next]_vars PROVE RosterInv'
  OBVIOUS
<1>0. TypeOK /\ SocketsOK /\ Roster /\ NamesInverse /\ LoginOK
  BY RosterInvIs DEF Roster
<1>1. ASSUME TypeOK', SocketsOK', Roster', LoginOK' PROVE RosterInv'
  BY <1>1 DEF RosterInv, Roster
<1>2. ASSUME UNCHANGED <<conns, byName>> PROVE Roster'
  BY <1>0, <1>2, SameRosterKeeps DEF SameRoster
<1>3. CASE StartRelay
  <2>1. UNCHANGED <<conns, byName, link, clients, up, down>>
    BY <1>3 DEF StartRelay
  <2>2. LoginOK'
    BY <1>0, <2>1 DEF LoginOK
  <2> QED BY <1>0, <1>1, <1>2, <1>3, <2>1, <2>2, StartKeepsTypes
<1>4. CASE StopRelay
  <2>1. LoginOK'
    BY <1>0, <1>4, StopEffect DEF LoginOK
  <2> QED BY <1>0, <1>1, <1>4, <2>1, StopKeepsTypes, StopKeepsRoster
<1>5. CASE Poll
  <2>1. UNCHANGED <<conns, byName>>
    BY <1>0, <1>5, PollEffect
  <2> QED BY <1>0, <1>1, <1>2, <1>5, <2>1, PollKeepsTypes, PollKeepsLogin
<1>6. ASSUME NEW f \in Fds, Serve(f) \/ Finish(f) PROVE RosterInv'
  <2>1. /\ UNCHANGED <<conns, down>> \/ Flush(f)
        /\ PassFrame /\ UNCHANGED <<byName, up>>
    BY <1>0, <1>6, ServeParts, FinishParts
  <2>2. Roster'
    <3>1. CASE UNCHANGED <<conns, down>>
      BY <1>2, <2>1, <3>1
    <3>2. CASE Flush(f)
      <4>1. Moves(f)
        BY <1>0, <3>2, FlushMoves
      <4>2. SameRoster
        BY <2>1, <4>1, OthersSame DEF Moves
      <4> QED BY <1>0, <4>2, SameRosterKeeps
    <3> QED BY <2>1, <3>1, <3>2
  <2>3. LoginOK'
    BY <1>0, <2>1, FlushKeepsLogin
  <2> QED BY <1>0, <1>1, <1>6, <2>2, <2>3, PassStepKeepsTypes
<1>7. ASSUME NEW f \in Fds, DrainRecord(f) PROVE RosterInv'
  <2>1. UNCHANGED <<conns, byName>> \/ HandleLine(f, Head(up[f]))
    BY <1>0, <1>7, DrainParts
  <2>2. Head(up[f]) \in LineType
    BY <1>0, <1>7, DrainParts, TailTyped
  <2>3. Roster'
    BY <1>0, <1>2, <2>1, <2>2, HandleLineEffect, LineKeepsRoster
  <2> QED BY <1>0, <1>1, <1>7, <2>3, DrainKeepsLogin, PassStepKeepsTypes
<1>8. ASSUME NEW f \in Fds, Drop(f) PROVE RosterInv'
  BY <1>0, <1>1, <1>8, DropKeepsTypes, DropKeepsRoster, DropKeepsLogin
<1>9. CASE Clients
  <2>1. PICK f \in Fds : ClientFrame(f) /\ LoginOK'
    BY <1>9, ClientStep
  <2>2. UNCHANGED <<conns, byName>>
    BY <2>1 DEF ClientFrame, relayVars
  <2> QED BY <1>0, <1>1, <1>2, <2>1, <2>2, ClientKeepsTypes
<1>10. CASE UNCHANGED vars
  <2>1. /\ UNCHANGED <<relay, conns, byName, ready, turn, doomed>>
        /\ UNCHANGED <<link, clients, up, down, fate, asks>>
    BY <1>10 DEF vars, relayVars
  <2>2. TypeOK'
    BY <1>0, <2>1 DEF TypeOK, Open
  <2>3. SocketsOK' /\ LoginOK'
    BY <1>0, <2>1 DEF SocketsOK, LoginOK
  <2> QED BY <1>1, <1>2, <2>1, <2>2, <2>3
<1> QED BY <1>3, <1>4, <1>5, <1>6, <1>7, <1>8, <1>9, <1>10 DEF Next, Relay

\* The inductive invariant of the first version.
THEOREM PlainRosterInvariance == Spec => []RosterInv
<1>1. Init => RosterInv
  BY RosterInit
<1>2. RosterInv /\ [Next]_vars => RosterInv'
  BY RosterNext
<1> QED BY <1>1, <1>2, PTL DEF Spec

\* Of any two users who are logged in one was told of the other, and broadcast
\* leaves nobody with a wrong idea of who is there.
THEOREM PlainNewsAgree == Spec => []NewsAgree
<1>1. RosterInv => NewsAgree
  BY DEF RosterInv
<1> QED BY <1>1, PlainRosterInvariance, PTL

\* A client whose prompt is up has its name in g_by_name while its connection lives.
THEOREM PlainAdmitted == Spec => []AdmittedIsRegistered
<1>1. RosterInv => AdmittedIsRegistered
  BY DEF RosterInv, LoginOK, AdmittedIsRegistered
<1> QED BY <1>1, PlainRosterInvariance, PTL

-----------------------------------------------------------------------------
(* Queue and socket together. *)

Inbox == [f \in Fds |-> down[f] \o conns[f].out]

\* A line put at the end of the queue is at the end of the inbox.
LEMMA TellAtEnd ==
    ASSUME NEW r \in Seq(LineType), NEW s \in Seq(LineType), NEW e \in LineType
    PROVE  r \o Append(s, e) = Append(r \o s, e)
<1>1. <<e>> \in Seq(LineType) /\ r \o s \in Seq(LineType)
  OBVIOUS
<1>2. Append(s, e) = s \o <<e>> /\ Append(r \o s, e) = (r \o s) \o <<e>>
  BY <1>1, AppendIsConcat
<1>3. (r \o s) \o <<e>> = r \o (s \o <<e>>)
  BY <1>1, ConcatAssociative
<1> QED BY <1>2, <1>3

\* Moving lines from the queue to the socket keeps the inbox.
LEMMA MoveKeeps ==
    ASSUME NEW r \in Seq(LineType), NEW s \in Seq(LineType), NEW t \in 0 .. Len(s)
    PROVE  (r \o SubSeq(s, 1, t)) \o SubSeq(s, t + 1, Len(s)) = r \o s
<1>1. PICK a, b : a = SubSeq(s, 1, t) /\ b = SubSeq(s, t + 1, Len(s))
  OBVIOUS
<1>2. a \in Seq(LineType) /\ b \in Seq(LineType)
  BY <1>1, CutInTwo
<1>3. (r \o a) \o b = r \o (a \o b)
  BY <1>2, ConcatAssociative, SMTT(30)
<1>4. a \o b = s
  <2>1. Len(s) \in Nat /\ 1 \in 1 .. Len(s) + 1 /\ t \in 1 - 1 .. Len(s) /\ Len(s) \in t .. Len(s)
    OBVIOUS
  <2>2. SubSeq(s, 1, t) \o SubSeq(s, t + 1, Len(s)) = SubSeq(s, 1, Len(s))
    BY <2>1, ConcatAdjacentSubSeq
  <2>3. SubSeq(s, 1, Len(s)) = s
    BY SubSeqFull
  <2> QED BY <1>1, <2>2, <2>3
<1> QED BY <1>1, <1>3, <1>4

\* The line a client takes is the first of its inbox.
LEMMA TakeFront ==
    ASSUME NEW r \in Seq(LineType), NEW s \in Seq(LineType), r # <<>>
    PROVE  Tail(r \o s) = Tail(r) \o s /\ r \o s # <<>> /\ Tail(r) \o s # r \o s
<1>1. /\ Tail(r) \in Seq(LineType) /\ Len(r) \in Nat /\ Len(s) \in Nat /\ Len(r) > 0
      /\ Len(Tail(r)) = Len(r) - 1
      /\ \A i \in 1 .. Len(r) - 1 : Tail(r)[i] = r[i + 1]
  OBVIOUS
<1>2. PICK x : x = r \o s
  OBVIOUS
<1>3. /\ x \in Seq(LineType) /\ Len(x) = Len(r) + Len(s) /\ x # <<>>
      /\ \A i \in 1 .. Len(r) + Len(s) : x[i] = IF i <= Len(r) THEN r[i] ELSE s[i - Len(r)]
  BY <1>1, <1>2, ConcatProperties
<1>4. PICK y : y = Tail(r) \o s
  OBVIOUS
<1>5. /\ y \in Seq(LineType) /\ Len(y) = Len(r) - 1 + Len(s)
      /\ \A i \in 1 .. Len(r) - 1 + Len(s) :
            y[i] = IF i <= Len(r) - 1 THEN Tail(r)[i] ELSE s[i - (Len(r) - 1)]
  BY <1>1, <1>4, ConcatProperties
<1>6. /\ Tail(x) \in Seq(LineType) /\ Len(Tail(x)) = Len(x) - 1
      /\ \A i \in 1 .. Len(x) - 1 : Tail(x)[i] = x[i + 1]
  BY <1>3
<1>7. ASSUME NEW i \in 1 .. Len(y) PROVE Tail(x)[i] = y[i]
  <2>1. i \in 1 .. Len(x) - 1 /\ Tail(x)[i] = x[i + 1]
    BY <1>1, <1>3, <1>5, <1>6
  <2>2. CASE i <= Len(r) - 1
    <3>1. x[i + 1] = r[i + 1]
      BY <1>1, <1>3, <1>5, <2>2
    <3>2. y[i] = Tail(r)[i] /\ Tail(r)[i] = r[i + 1]
      BY <1>1, <1>5, <2>2
    <3> QED BY <2>1, <3>1, <3>2
  <2>3. CASE ~(i <= Len(r) - 1)
    <3>1. x[i + 1] = s[i + 1 - Len(r)]
      BY <1>1, <1>3, <1>5, <2>3
    <3>2. y[i] = s[i - (Len(r) - 1)]
      BY <1>1, <1>5, <2>3
    <3>3. i + 1 - Len(r) = i - (Len(r) - 1)
      BY <1>1, <1>5
    <3> QED BY <2>1, <3>1, <3>2, <3>3
  <2> QED BY <2>2, <2>3
<1>8. Len(Tail(x)) = Len(y) /\ Len(y) # Len(x)
  BY <1>1, <1>3, <1>5, <1>6
<1>9. Tail(x) = y
  BY <1>5, <1>6, <1>7, <1>8, SeqEqual
<1> QED BY <1>2, <1>3, <1>4, <1>8, <1>9

\* What the socket has taken is the front of the inbox.
LEMMA KeepFront ==
    ASSUME NEW r \in Seq(LineType), NEW s \in Seq(LineType)
    PROVE  /\ SubSeq(r \o s, 1, Len(r)) = r /\ SubSeq(r \o s, 1, 0) = <<>>
           /\ Len(r) \in 0 .. Len(r \o s) /\ 0 \in 0 .. Len(r \o s)
<1>1. r \o s \in Seq(LineType) /\ Len(r \o s) = Len(r) + Len(s) /\ Len(r) \in Nat /\ Len(s) \in Nat
      /\ \A i \in 1 .. Len(r) + Len(s) : (r \o s)[i] = IF i <= Len(r) THEN r[i] ELSE s[i - Len(r)]
  BY ConcatProperties
<1>2. PICK x : x = r \o s
  OBVIOUS
<1>3. /\ SubSeq(x, 1, Len(r)) \in Seq(LineType) /\ Len(SubSeq(x, 1, Len(r))) = Len(r)
      /\ \A i \in 1 .. Len(r) : SubSeq(x, 1, Len(r))[i] = x[i]
  BY <1>1, <1>2
<1>4. \A i \in 1 .. Len(r) : SubSeq(x, 1, Len(r))[i] = r[i]
  BY <1>1, <1>2, <1>3
<1>5. SubSeq(x, 1, Len(r)) = r
  BY <1>3, <1>4, SeqEqual
<1>6. SubSeq(x, 1, 0) = <<>>
  BY <1>1, <1>2, SubSeqEmpty
<1> QED BY <1>1, <1>2, <1>5, <1>6

\* Inboxes are sequences of lines.
LEMMA InboxTyped ==
    ASSUME TypeOK
    PROVE  /\ Inbox \in [Fds -> Seq(LineType)]
           /\ \A f \in Fds : /\ Inbox[f] = down[f] \o conns[f].out
                             /\ down[f] \in Seq(LineType) /\ conns[f].out \in Seq(LineType)
<1>1. \A f \in Fds : down[f] \in Seq(LineType) /\ conns[f].out \in Seq(LineType)
  BY TypesHeld DEF ConnType, WireType
<1>2. \A f \in Fds : down[f] \o conns[f].out \in Seq(LineType)
  BY <1>1, ConcatProperties
<1> QED BY <1>1, <1>2 DEF Inbox

\* A socket told a line, and one told nothing.
LEMMA InboxTold ==
    ASSUME TypeOK, NEW g \in Fds, NEW line \in LineType, down' = down,
           conns'[g].out = Append(conns[g].out, line)
    PROVE  Inbox'[g] = Append(Inbox[g], line) /\ Inbox'[g] # Inbox[g]
<1>1. Inbox'[g] = down'[g] \o conns'[g].out /\ Inbox[g] = down[g] \o conns[g].out
  BY DEF Inbox
<1>2. down[g] \in Seq(LineType) /\ conns[g].out \in Seq(LineType) /\ Inbox[g] \in Seq(LineType)
  BY InboxTyped
<1>3. Inbox'[g] = Append(Inbox[g], line)
  BY <1>1, <1>2, TellAtEnd, ZenonT(30)
<1>4. Len(Append(Inbox[g], line)) = Len(Inbox[g]) + 1 /\ Len(Inbox[g]) \in Nat
  BY <1>2
<1>5. Append(Inbox[g], line) # Inbox[g]
  <2>1. Len(Inbox[g]) + 1 # Len(Inbox[g])
    BY <1>4
  <2> QED BY <1>4, <2>1
<1> QED BY <1>3, <1>5

\* An inbox of which nothing is touched.
LEMMA InboxSame ==
    ASSUME NEW g \in Fds, down'[g] = down[g], conns'[g].out = conns[g].out
    PROVE  Inbox'[g] = Inbox[g]
BY DEF Inbox

\* Inboxes are the same when each is.
LEMMA InboxAllSame ==
    ASSUME \A g \in Fds : Inbox'[g] = Inbox[g]
    PROVE  Inbox' = Inbox
<1>1. Inbox = [g \in Fds |-> Inbox[g]] /\ Inbox' = [g \in Fds |-> Inbox'[g]]
  BY DEF Inbox
<1> QED BY <1>1

-----------------------------------------------------------------------------
(* Each step of the relay is a step of the service, or none. *)

ServiceStep == Service!Next \/ (byName' = byName /\ Inbox' = Inbox)

\* Who is online at the service is registered at the relay.
LEMMA OnlineIs ==
    ASSUME TypeOK, NamesInverse, NEW f \in Fds
    PROVE  f \in Service!Online <=> conns[f].reg
<1>1. NoFd \notin Fds
  BY PlainChatAssumption
<1>2. f \in Service!Online <=> \E n \in Names : byName[n] = f
  BY <1>1 DEF Service!Online
<1> QED BY <1>1, <1>2 DEF NamesInverse

\* A function on the sockets is what it is at each of them.
LEMMA TellIs ==
    ASSUME NEW boxes, NEW whom, NEW line,
           \A g \in Fds : Inbox'[g] = IF g \in whom THEN Append(boxes[g], line) ELSE boxes[g]
    PROVE  Inbox' = Service!Tell(boxes, whom, line)
<1>1. Inbox' = [g \in Fds |-> Inbox'[g]]
  BY DEF Inbox
<1>2. Service!Tell(boxes, whom, line)
         = [g \in Fds |-> IF g \in whom THEN Append(boxes[g], line) ELSE boxes[g]]
  BY DEF Service!Tell
<1> QED BY <1>1, <1>2

\* Service and relay have the same lines.
LEMMA SameLine ==
    ASSUME NEW verb, NEW name, NEW msg
    PROVE  Service!Line(verb, name, msg) = Line(verb, name, msg)
BY DEF Service!Line, Line

\* An answer of the relay is an answer of the service.
LEMMA ReplyServes ==
    ASSUME TypeOK, NEW f \in Fds, Reply(f), down' = down
    PROVE  Service!Next
<1>1. PICK verb \in {"ERR", "USERS"} : Told(conns[f], conns'[f], Line(verb, NoName, 0))
  BY DEF Reply
<1>2. 0 \in 0 .. MaxMessages
  BY PlainChatAssumption
<1>3. Line(verb, NoName, 0) \in LineType
  BY <1>2, LineIsTyped
<1>4. Inbox'[f] = Append(Inbox[f], Line(verb, NoName, 0)) /\ Inbox'[f] # Inbox[f]
  BY <1>1, <1>3, InboxTold DEF Told
<1>5. \A g \in Fds \ {f} : Inbox'[g] = Inbox[g]
  BY InboxSame DEF Reply, Others
<1>6. Inbox' = Service!Tell(Inbox, {f}, Line(verb, NoName, 0))
  BY <1>4, <1>5, TellIs
<1>7. Service!Answer(f, verb, NoName)
  BY <1>6, SameLine DEF Service!Answer, Inbox, Reply
<1>8. Service!Seen
  BY <1>4 DEF Service!Seen, Inbox
<1> QED BY <1>7, <1>8 DEF Service!Next

\* A FROM line queued is a message posted.
LEMMA PostServes ==
    ASSUME TypeOK, NamesInverse, NEW f \in Fds, NEW to \in Names, NEW m \in Messages,
           Post(f, to, m), down' = down
    PROVE  Service!Next
<1>1. /\ byName[to] \in Fds /\ m \in 0 .. MaxMessages /\ NoFd \notin Fds
      /\ conns[f].user \in Names /\ byName[conns[f].user] = f
  BY PlainChatAssumption DEF Post, TypeOK, NamesInverse, Messages
<1>2. PICK g, line : g = byName[to] /\ line = Line("FROM", conns[f].user, m)
  OBVIOUS
<1>3. line \in LineType
  BY <1>1, <1>2, LineIsTyped
<1>4. Inbox'[g] = Append(Inbox[g], line) /\ Inbox'[g] # Inbox[g]
  BY <1>1, <1>2, <1>3, InboxTold DEF Post, Told
<1>5. \A h \in Fds \ {g} : Inbox'[h] = Inbox[h]
  BY <1>2, InboxSame DEF Post, Others
<1>6. Inbox' = Service!Tell(Inbox, {g}, line)
  BY <1>4, <1>5, TellIs
<1>7. Service!Post(conns[f].user, to, m)
  BY <1>1, <1>2, <1>6, SameLine DEF Service!Post, Inbox, Post
<1>8. Service!Seen
  BY <1>1, <1>2, <1>4 DEF Service!Seen, Inbox
<1> QED BY <1>1, <1>7, <1>8 DEF Service!Next

\* A LOGIN granted is a user who joins.
LEMMA JoinServes ==
    ASSUME TypeOK, NamesInverse, NEW f \in Fds, NEW n \in Names, Join(f, n), down' = down
    PROVE  Service!Next
<1>1. 0 \in 0 .. MaxMessages /\ NoFd \notin Fds
  BY PlainChatAssumption
<1>2. PICK ok, joined : ok = Line("OK", n, 0) /\ joined = Line("joined", n, 0)
  OBVIOUS
<1>3. ok \in LineType /\ joined \in LineType
  BY <1>1, <1>2, LineIsTyped
<1>4. Inbox'[f] = Append(Inbox[f], ok)
  BY <1>2, <1>3, InboxTold DEF Join
<1>5. ASSUME NEW g \in Fds \ {f}
      PROVE  Inbox'[g] = IF conns[g].reg THEN Append(Inbox[g], joined) ELSE Inbox[g]
  <2>1. CASE conns[g].reg
    <3>1. conns'[g].out = Append(conns[g].out, joined)
      BY <1>2, <2>1 DEF Join, ToldNews
    <3> QED BY <1>3, <2>1, <3>1, InboxTold
  <2>2. CASE ~conns[g].reg
    BY <2>2, InboxSame DEF Join
  <2> QED BY <2>1, <2>2
<1>6. f \notin Service!Online /\ \A g \in Fds : g \in Service!Online <=> conns[g].reg
  BY OnlineIs DEF Join
<1>7. PICK first : first = Service!Tell(Inbox, {f}, ok)
  OBVIOUS
<1>8. \A g \in Fds : first[g] = IF g = f THEN Append(Inbox[g], ok) ELSE Inbox[g]
  BY <1>7 DEF Service!Tell
<1>9. \A g \in Fds :
        Inbox'[g] = IF g \in Service!Online THEN Append(first[g], joined) ELSE first[g]
  BY <1>4, <1>5, <1>6, <1>8
<1>10. Inbox' = Service!Tell(first, Service!Online, joined)
  BY <1>9, TellIs
<1>11. Service!Join(f, n)
  BY <1>2, <1>6, <1>7, <1>10, SameLine DEF Service!Join, Inbox, Join
<1>12. Service!Seen
  <2>1. byName'[n] # byName[n]
    BY <1>1 DEF Join, TypeOK
  <2> QED BY <2>1 DEF Service!Seen
<1> QED BY <1>11, <1>12 DEF Service!Next

\* A line handled is one of these, or nothing the service shows.
LEMMA LineServes ==
    ASSUME TypeOK, NamesInverse, NEW f \in Fds, NEW line, LineEffect(f, line), down' = down
    PROVE  ServiceStep
<1>1. CASE Reply(f)
  BY <1>1, ReplyServes DEF ServiceStep
<1>2. CASE Wants(f)
  <2>1. \A g \in Fds : Inbox'[g] = Inbox[g]
    BY <1>2, InboxSame DEF Wants, Others, Same
  <2> QED BY <1>2, <2>1, InboxAllSame DEF ServiceStep, Wants
<1>3. ASSUME NEW to \in Names, NEW m \in Messages, Post(f, to, m) PROVE ServiceStep
  BY <1>3, PostServes DEF ServiceStep
<1>4. CASE line.name \in Names /\ Join(f, line.name)
  BY <1>4, JoinServes DEF ServiceStep
<1> QED BY <1>1, <1>2, <1>3, <1>4 DEF LineEffect

\* A flush is nothing the service shows.
LEMMA MovesServes ==
    ASSUME TypeOK, NEW f \in Fds, Moves(f), byName' = byName
    PROVE  ServiceStep
<1>1. PICK t \in 0 .. Len(conns[f].out) :
         /\ conns'[f].out = SubSeq(conns[f].out, t + 1, Len(conns[f].out))
         /\ down'[f] = down[f] \o SubSeq(conns[f].out, 1, t)
  BY DEF Moves
<1>2. down[f] \in Seq(LineType) /\ conns[f].out \in Seq(LineType)
  BY InboxTyped
<1>3. Inbox'[f] = Inbox[f]
  BY <1>1, <1>2, MoveKeeps DEF Inbox
<1>4. \A g \in Fds \ {f} : Inbox'[g] = Inbox[g]
  BY InboxSame DEF Moves, Others
<1> QED BY <1>3, <1>4, InboxAllSame DEF ServiceStep

\* What is left of an inbox whose connection ends: what the socket had taken, or nothing.
LEMMA WhatIsLeft ==
    ASSUME TypeOK, NEW f \in Fds, down'[f] \in {down[f], <<>>}, conns'[f] = NoConn
    PROVE  \E k \in 0 .. Len(Inbox[f]) : Inbox'[f] = SubSeq(Inbox[f], 1, k)
<1>1. /\ down[f] \in Seq(LineType) /\ conns[f].out \in Seq(LineType)
      /\ Inbox[f] = down[f] \o conns[f].out
  BY InboxTyped
<1>2. Inbox'[f] = down'[f] \o <<>>
  BY NoConnTyped DEF Inbox
<1>3. down'[f] \in Seq(LineType) /\ Inbox'[f] = down'[f]
  <2>1. <<>> \in Seq(LineType)
    OBVIOUS
  <2>2. down'[f] \in Seq(LineType)
    BY <1>1, <2>1
  <2> QED BY <1>2, <2>2, ConcatEmptySeq
<1>4. CASE down'[f] = down[f]
  <2>1. Len(down[f]) \in 0 .. Len(Inbox[f]) /\ Inbox'[f] = SubSeq(Inbox[f], 1, Len(down[f]))
    BY <1>1, <1>3, <1>4, KeepFront
  <2> QED BY <2>1
<1>5. CASE down'[f] = <<>>
  <2>1. 0 \in 0 .. Len(Inbox[f])
    BY <1>1, KeepFront
  <2>2. SubSeq(Inbox[f], 1, 0) = <<>>
    BY <1>1, KeepFront
  <2>3. Inbox'[f] = SubSeq(Inbox[f], 1, 0)
    BY <1>3, <1>5, <2>2
  <2> QED BY <2>1, <2>3
<1> QED BY <1>4, <1>5

\* A connection without a user that ends is forgotten.
LEMMA ForgetServes ==
    ASSUME TypeOK, NamesInverse, NEW f \in Fds, ~conns[f].reg, byName' = byName,
           \E k \in 0 .. Len(Inbox[f]) : Inbox'[f] = SubSeq(Inbox[f], 1, k),
           \A g \in Fds \ {f} : Inbox'[g] = Inbox[g]
    PROVE  ServiceStep
<1>1. PICK k \in 0 .. Len(Inbox[f]) : Inbox'[f] = SubSeq(Inbox[f], 1, k)
  OBVIOUS
<1>2. Inbox \in [Fds -> Seq(LineType)]
  BY InboxTyped
<1>3. Inbox' = [Inbox EXCEPT ![f] = SubSeq(@, 1, k)]
  <2>1. Inbox' = [g \in Fds |-> Inbox'[g]]
    BY DEF Inbox
  <2> QED BY <1>1, <1>2, <2>1
<1>4. f \notin Service!Online /\ k <= Len(Inbox[f])
  BY <1>1, <1>2, OnlineIs
<1>5. Service!Forget(f, k)
  BY <1>3, <1>4 DEF Service!Forget, Service!Cut, Inbox
<1>6. CASE Inbox' = Inbox
  BY <1>6 DEF ServiceStep
<1>7. CASE Inbox' # Inbox
  <2>1. Service!Seen
    BY <1>7 DEF Service!Seen, Inbox
  <2>2. \E l \in 0 .. Len(Inbox[f]) : Service!Forget(f, l)
    BY <1>5
  <2> QED BY <2>1, <2>2 DEF ServiceStep, Service!Next, Inbox
<1> QED BY <1>6, <1>7

\* drop_conn is a user who leaves, or a connection forgotten.
LEMMA DropServes ==
    ASSUME TypeOK, SocketsOK, NamesInverse, NEW f \in Fds, Drop(f)
    PROVE  ServiceStep
<1>1. /\ conns'[f] = NoConn /\ DropOthers(f)
      /\ byName' = [n \in Names |-> IF byName[n] = f THEN NoFd ELSE byName[n]]
      /\ down'[f] \in {down[f], <<>>} /\ \A g \in Fds \ {f} : down'[g] = down[g]
  BY DropEffect
<1>2. PICK k \in 0 .. Len(Inbox[f]) : Inbox'[f] = SubSeq(Inbox[f], 1, k)
  BY <1>1, WhatIsLeft
<1>3. CASE ~conns[f].reg
  <2>1. \A g \in Fds \ {f} : Inbox'[g] = Inbox[g]
    BY <1>1, <1>3, InboxSame DEF DropOthers
  <2>2. byName' = byName
    <3>1. \A n \in Names : byName[n] # f
      BY <1>3, PlainChatAssumption DEF NamesInverse
    <3> QED BY <1>1, <3>1 DEF TypeOK
  <2> QED BY <1>2, <1>3, <2>1, <2>2, ForgetServes
<1>4. CASE conns[f].reg
  <2>1. PICK u \in Names : u = conns[f].user /\ byName[u] = f
    BY <1>4 DEF NamesInverse
  <2>2. f # NoFd /\ 0 \in 0 .. MaxMessages
    BY PlainChatAssumption
  <2>3. PICK line : line = Line("left", u, 0)
    OBVIOUS
  <2>4. line \in LineType
    BY <2>2, <2>3, LineIsTyped
  <2>5. ASSUME NEW g \in Fds \ {f}
        PROVE  Inbox'[g] = IF conns[g].reg THEN Append(Inbox[g], line) ELSE Inbox[g]
    <3>1. CASE conns[g].reg
      <4>1. conns'[g].out = Append(conns[g].out, line)
        BY <1>1, <1>4, <2>1, <2>3, <3>1 DEF DropOthers, ToldNews
      <4>2. Inbox[g] = down[g] \o conns[g].out /\ Inbox'[g] = down'[g] \o conns'[g].out
            /\ down[g] \in Seq(LineType) /\ conns[g].out \in Seq(LineType)
        BY InboxTyped DEF Inbox
      <4>3. Inbox'[g] = Append(Inbox[g], line)
        BY <1>1, <2>4, <4>1, <4>2, TellAtEnd
      <4> QED BY <3>1, <4>3
    <3>2. CASE ~conns[g].reg
      BY <1>1, <3>2, InboxSame DEF DropOthers
    <3> QED BY <3>1, <3>2
  <2>6. \A g \in Fds : g \in Service!Online <=> conns[g].reg
    BY OnlineIs
  <2>7. PICK cut : cut = [Inbox EXCEPT ![f] = SubSeq(@, 1, k)]
    OBVIOUS
  <2>8. cut[f] = SubSeq(Inbox[f], 1, k) /\ \A g \in Fds \ {f} : cut[g] = Inbox[g]
    BY <2>7, InboxTyped
  <2>9. PICK whom : whom = Service!Online \ {byName[u]}
    OBVIOUS
  <2>10. \A g \in Fds : g \in whom <=> g # f /\ conns[g].reg
    BY <2>1, <2>6, <2>9
  <2>11. Inbox' = Service!Tell(cut, whom, line)
    <3>1. \A g \in Fds : Inbox'[g] = IF g \in whom THEN Append(cut[g], line) ELSE cut[g]
      BY <1>2, <2>5, <2>8, <2>10
    <3> QED BY <3>1, TellIs
  <2>12. byName' = [byName EXCEPT ![u] = NoFd]
    <3>1. \A n \in Names : byName[n] = f <=> n = u
      BY <2>1, <2>2 DEF NamesInverse
    <3>2. byName \in [Names -> Fds \cup {NoFd}]
      BY DEF TypeOK
    <3> QED BY <1>1, <3>1, <3>2
  <2>13. k <= Len(Inbox[byName[u]]) /\ byName[u] # NoFd /\ k \in 0 .. Len(Inbox[byName[u]])
    BY <1>2, <2>1, <2>2
  <2>14. cut = Service!Cut(byName[u], k)
    BY <2>1, <2>7 DEF Service!Cut, Inbox
  <2>15. Service!Leave(u, k)
    BY <2>3, <2>9, <2>11, <2>12, <2>13, <2>14, SameLine DEF Service!Leave, Inbox
  <2>16. Service!Seen
    <3>1. byName'[u] = NoFd /\ byName[u] # NoFd
      BY <2>12, <2>13 DEF TypeOK
    <3> QED BY <3>1 DEF Service!Seen
  <2>17. \E l \in 0 .. Len(Inbox[byName[u]]) : Service!Leave(u, l)
    BY <2>13, <2>15
  <2> QED BY <2>13, <2>16, <2>17 DEF ServiceStep, Service!Next, Inbox
<1> QED BY <1>3, <1>4

\* The relay stopping ends the service for everybody.
LEMMA StopServes ==
    ASSUME TypeOK, StopRelay
    PROVE  ServiceStep
<1>1. /\ \A f \in Fds : conns'[f] = NoConn /\ down'[f] \in {down[f], <<>>}
      /\ byName' = [n \in Names |-> NoFd]
  BY StopEffect
<1>2. \A f \in Fds : \E k \in 0 .. Len(Inbox[f]) : Inbox'[f] = SubSeq(Inbox[f], 1, k)
  BY <1>1, WhatIsLeft
<1>3. DOMAIN Inbox' = Fds
  BY DEF Inbox
<1>4. Service!Halt
  BY <1>1, <1>2, <1>3 DEF Service!Halt, Inbox
<1>5. CASE Inbox' = Inbox /\ byName' = byName
  BY <1>5 DEF ServiceStep
<1>6. CASE Inbox' # Inbox \/ byName' # byName
  <2>1. Service!Seen
    BY <1>6 DEF Service!Seen, Inbox
  <2> QED BY <1>4, <2>1 DEF ServiceStep, Service!Next
<1> QED BY <1>5, <1>6

\* A client takes its next line, or forgets what it had when it dials again or dies.
LEMMA ClientServes ==
    ASSUME TypeOK, SocketsOK, NamesInverse, NEW f \in Fds, ClientFrame(f)
    PROVE  ServiceStep
<1>1. UNCHANGED <<conns, byName>> /\ \A g \in Fds \ {f} : down'[g] = down[g]
  BY DEF ClientFrame, relayVars
<1>2. \A g \in Fds \ {f} : Inbox'[g] = Inbox[g]
  BY <1>1, InboxSame
<1>3. CASE down'[f] = down[f]
  <2>1. Inbox'[f] = Inbox[f]
    BY <1>1, <1>3, InboxSame
  <2> QED BY <1>1, <1>2, <2>1, InboxAllSame DEF ServiceStep
<1>4. CASE link[f] # "open" /\ down'[f] = <<>>
  <2>1. conns[f] = NoConn /\ conns'[f] = NoConn /\ ~conns[f].reg
    BY <1>1, <1>4, NoConnTyped DEF SocketsOK
  <2>2. \E k \in 0 .. Len(Inbox[f]) : Inbox'[f] = SubSeq(Inbox[f], 1, k)
    BY <1>4, <2>1, WhatIsLeft
  <2> QED BY <1>1, <1>2, <2>1, <2>2, ForgetServes
<1>5. CASE down[f] # <<>> /\ down'[f] = Tail(down[f])
  <2>1. /\ down[f] \in Seq(LineType) /\ conns[f].out \in Seq(LineType)
        /\ Inbox[f] = down[f] \o conns[f].out /\ Inbox'[f] = Tail(down[f]) \o conns[f].out
        /\ Inbox \in [Fds -> Seq(LineType)]
    BY <1>1, <1>5, InboxTyped DEF Inbox
  <2>2. Inbox'[f] = Tail(Inbox[f]) /\ Inbox[f] # <<>> /\ Inbox'[f] # Inbox[f]
    BY <1>5, <2>1, TakeFront
  <2>3. Inbox' = [Inbox EXCEPT ![f] = Tail(@)]
    <3>1. Inbox' = [g \in Fds |-> Inbox'[g]]
      BY DEF Inbox
    <3> QED BY <1>2, <2>1, <2>2, <3>1
  <2>4. Service!See(f)
    BY <1>1, <2>2, <2>3 DEF Service!See, Inbox
  <2>5. Service!Seen
    BY <2>2 DEF Service!Seen, Inbox
  <2> QED BY <2>4, <2>5 DEF ServiceStep, Service!Next
<1> QED BY <1>3, <1>4, <1>5 DEF ClientFrame

\* A step that touches neither connections, names nor sockets is not seen.
LEMMA ServiceSame ==
    ASSUME UNCHANGED <<conns, byName, down>>
    PROVE  ServiceStep
<1>1. \A g \in Fds : Inbox'[g] = Inbox[g]
  BY InboxSame
<1> QED BY <1>1, InboxAllSame DEF ServiceStep

\* Every step of relay and clients is a step of the service, or none.
LEMMA EveryStepServes ==
    ASSUME RosterInv, [Next]_vars
    PROVE  ServiceStep
<1>0. TypeOK /\ SocketsOK /\ NamesInverse
  BY RosterInvIs DEF Roster
<1>1. CASE StartRelay
  BY <1>1, ServiceSame DEF StartRelay
<1>2. CASE StopRelay
  BY <1>0, <1>2, StopServes
<1>3. CASE Poll
  BY <1>3, ServiceSame DEF Poll
<1>4. ASSUME NEW f \in Fds, Serve(f) \/ Finish(f) PROVE ServiceStep
  <2>1. /\ UNCHANGED <<conns, down>> \/ Flush(f)
        /\ byName' = byName
    BY <1>0, <1>4, ServeParts, FinishParts
  <2> QED BY <1>0, <2>1, FlushMoves, MovesServes, ServiceSame
<1>5. ASSUME NEW f \in Fds, DrainRecord(f) PROVE ServiceStep
  <2>1. /\ UNCHANGED <<conns, byName>> \/ HandleLine(f, Head(up[f]))
        /\ down' = down
    BY <1>0, <1>5, DrainParts
  <2>2. Head(up[f]) \in LineType
    BY <1>0, <1>5, DrainParts, TailTyped
  <2>3. CASE UNCHANGED <<conns, byName>>
    BY <2>1, <2>3, ServiceSame
  <2>4. CASE HandleLine(f, Head(up[f]))
    <3>1. LineEffect(f, Head(up[f]))
      BY <1>0, <2>2, <2>4, HandleLineEffect
    <3> QED BY <1>0, <2>1, <3>1, LineServes
  <2> QED BY <2>1, <2>3, <2>4
<1>6. ASSUME NEW f \in Fds, Drop(f) PROVE ServiceStep
  BY <1>0, <1>6, DropServes
<1>7. CASE Clients
  <2>1. PICK f \in Fds : ClientFrame(f)
    BY <1>7, ClientStep
  <2> QED BY <1>0, <2>1, ClientServes
<1>8. CASE UNCHANGED vars
  BY <1>8, ServiceSame DEF vars, relayVars
<1> QED BY <1>1, <1>2, <1>3, <1>4, <1>5, <1>6, <1>7, <1>8 DEF Next, Relay

\* Queue and socket together are the inbox of the service, and g_by_name its roster.
THEOREM PlainChatServes == Spec => ServiceSpec
<1>1. Init => Service!Init
  <2> SUFFICES ASSUME Init PROVE Service!Init
    OBVIOUS
  <2>1. \A f \in Fds : down[f] \o conns[f].out = <<>>
    BY NoConnTyped, ConcatEmptySeq DEF Init
  <2> QED BY <2>1 DEF Init, Service!Init
<1>2. RosterInv /\ [Next]_vars => [Service!Next]_<<byName, Inbox>>
  BY EveryStepServes DEF ServiceStep
<1>3. RosterInv /\ [Next]_vars
        => [Service!Next]_<<byName, [f \in Fds |-> down[f] \o conns[f].out]>>
  BY <1>2 DEF Inbox
<1> QED BY <1>1, <1>3, PlainRosterInvariance, PTL DEF Spec, ServiceSpec, Service!Spec
=============================================================================
