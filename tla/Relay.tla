-------------------------------- MODULE Relay --------------------------------
(***************************************************************************)
(* The chat server: one thread around poll(), one Conn per socket, and the *)
(* map g_by_name from the names that are logged in to their sockets.  A    *)
(* pass of the main loop polls, accepts, serves the sockets poll reported  *)
(* one after the other, and drops the ones it found doomed.  Clients send, *)
(* read, stall and leave at any moment of a pass.  Records are whole: the  *)
(* bytes of a record are below this module, and the handshake is one       *)
(* record, whose replies are not counted in the queue.                     *)
(***************************************************************************)
EXTENDS Naturals, Sequences, FiniteSets

CONSTANTS
    Fds,          \* file descriptors
    NoFd,         \* g_by_name has no entry
    Names,        \* valid usernames
    NoName,       \* an invalid name, and the name of a Conn that is not logged in
    MaxOut,       \* MAX_OUT_QUEUE, in records
    WhoMax,       \* how many names fit in a record
    MaySlow,      \* may a client stop reading?
    Requests,     \* verbs the clients use
    LastRequests, \* bound: verbs of the last request only
    MaxRequests,  \* bound: requests sent, over all clients
    MaxConnects,  \* bound: connections per descriptor
    MaxUnread     \* bound: records a client has sent that the server has not read

ASSUME RelayAssumption ==
    /\ NoFd \notin Fds /\ NoName \notin Names
    /\ MaxOut \in Nat /\ WhoMax \in Nat /\ MaxRequests \in Nat /\ MaxConnects \in Nat
    /\ MaxUnread \in Nat
    /\ Requests \cup LastRequests \subseteq
           {"handshake", "bad", "LOGIN", "MSG", "WHO", "QUIT", "other"}
    /\ MaySlow \in BOOLEAN

VARIABLES
    conns,     \* g_conns
    byName,    \* g_by_name
    revents,   \* what poll reported, for the sockets still to be served in this pass
    turn,      \* the socket being served, and how far its service is
    doomed,    \* sockets to drop at the end of the pass
    client,    \* the client at the other end of each socket
    toServer,  \* records from it the server has not handled
    slow,      \* sockets whose send buffer is full
    requests   \* requests sent so far (for the bound)

serverVars == <<conns, byName, revents, turn, doomed>>
vars == <<serverVars, client, toServer, slow, requests>>

(***************************************************************************)
(* A Conn: `stream' is every record enqueued on it and `flushed' how many  *)
(* of them the socket has taken, so the queue is what lies between; tx is  *)
(* the send counter of its session, and each sealed record carries its own *)
(* value of it.                                                            *)
(***************************************************************************)
NoConn ==
    [open |-> FALSE, up |-> FALSE, reg |-> FALSE, user |-> NoName,
     want |-> FALSE, stream |-> <<>>, flushed |-> 0, tx |-> 0]

NewConn == [NoConn EXCEPT !.open = TRUE]

\* Of a client: which connection of its descriptor this is, how many messages it
\* has sent to each name on it, and how often it has asked who is there.
NoClient == [st |-> "off", inc |-> 0, count |-> [n \in Names |-> 0], asked |-> 0]

Pending(c) == Len(c.stream) - c.flushed

NoMsg == <<>>
Record(tag, msg, seq) == [tag |-> tag, msg |-> msg, seq |-> seq]

SendLine(c, tag, msg) ==
    IF c.up
    THEN [c EXCEPT !.stream = Append(c.stream, Record(tag, msg, c.tx)), !.tx = c.tx + 1]
    ELSE [c EXCEPT !.want = TRUE]

SendAlert(c) ==
    [c EXCEPT !.stream = Append(@, Record("ALERT", NoMsg, 0)), !.want = TRUE]

\* A record above MAX_RECORD is sealed and then not enqueued.
SendUsers(c) ==
    IF Cardinality({n \in Names : byName[n] # NoFd}) <= WhoMax
    THEN SendLine(c, "USERS", NoMsg)
    ELSE [c EXCEPT !.tx = @ + 1]

Close(c) == [c EXCEPT !.want = TRUE]

\* Mutant: the line is sealed for the one it is not for, too.
BroadcastSealed(cs, tag, except) ==
    [f \in Fds |-> IF ~cs[f].reg THEN cs[f]
                   ELSE IF f = except THEN [cs[f] EXCEPT !.tx = @ + 1]
                   ELSE SendLine(cs[f], tag, NoMsg)]

Broadcast(cs, tag, except) ==
    [f \in Fds |-> IF f # except /\ cs[f].reg
                   THEN SendLine(cs[f], tag, NoMsg) ELSE cs[f]]

Init ==
    /\ conns = [f \in Fds |-> NoConn]
    /\ byName = [n \in Names |-> NoFd]
    /\ revents = [f \in Fds |-> {}]
    /\ turn = [fd |-> NoFd, at |-> "idle"]
    /\ doomed = {}
    /\ client = [f \in Fds |-> NoClient]
    /\ toServer = [f \in Fds |-> <<>>]
    /\ slow = {}
    /\ requests = 0

-----------------------------------------------------------------------------
(* The loop. *)

Idle == turn.at = "idle"
PassOver == Idle /\ \A f \in Fds : revents[f] = {}

\* POLLERR is reported for a connection the client reset.
Events(f, err) ==
    IF ~conns[f].open THEN {} ELSE
    {e \in {"in", "out", "err"} :
        \/ e = "in" /\ (toServer[f] # <<>> \/ client[f].st = "gone")
        \/ e = "out" /\ Pending(conns[f]) > 0 /\ f \notin slow
        \/ e = "err" /\ f \in err}

Gone == {f \in Fds : client[f].st = "gone"}
Connecting == {f \in Fds : client[f].st = "connecting"}

Poll ==
    /\ PassOver /\ doomed = {}
    /\ \E err \in SUBSET Gone : revents' = [f \in Fds |-> Events(f, err)]
    /\ Connecting # {} \/ \E f \in Fds : revents'[f] # {}
    /\ conns' = [f \in Fds |-> IF f \in Connecting THEN NewConn ELSE conns[f]]
    /\ client' = [f \in Fds |-> IF f \in Connecting THEN [client[f] EXCEPT !.st = "on"]
                                                     ELSE client[f]]
    /\ UNCHANGED <<byName, turn, doomed, toServer, slow, requests>>

\* flush_out: the socket takes everything, or nothing; writing to a socket
\* whose client has left may fail.
Flushed(c, f) == IF f \in slow THEN c ELSE [c EXCEPT !.flushed = Len(c.stream)]

FlushFails(c, f) ==
    \/ Pending(Flushed(c, f)) > MaxOut
    \/ Pending(c) > 0 /\ client[f].st = "gone"

Doom(f) ==
    /\ doomed' = doomed \cup {f}
    /\ turn' = [fd |-> NoFd, at |-> "idle"]

Goes(f, at) == turn' = [fd |-> f, at |-> at] /\ UNCHANGED doomed

Serve(f) ==
    /\ Idle /\ revents[f] # {}
    /\ revents' = [revents EXCEPT ![f] = {}]
    /\ \/ "err" \in revents[f] /\ Doom(f) /\ UNCHANGED conns
       \/ /\ "err" \notin revents[f] /\ "out" \in revents[f]
          /\ FlushFails(conns[f], f)
          /\ Doom(f)
          /\ UNCHANGED conns
       \/ /\ "err" \notin revents[f]
          /\ IF "out" \in revents[f]
             THEN /\ Pending(Flushed(conns[f], f)) <= MaxOut
                  /\ conns' = [conns EXCEPT ![f] = Flushed(@, f)]
             ELSE UNCHANGED conns
          /\ Goes(f, IF "in" \in revents[f] THEN "read" ELSE "finish")
    /\ UNCHANGED <<byName, client, toServer, slow, requests>>

\* Records that came with the one that set want_close may be in the reader's
\* buffer, where recv does not see them; the next bytes bring them out.
Drained(f) == toServer[f] = <<>> \/ conns[f].want

\* recv finds that the client has closed.
\* Mutant: end of file is taken for an empty socket.
ReadsEndNever(f) == FALSE

ReadsEnd(f) ==
    turn = [fd |-> f, at |-> "read"] /\ Drained(f) /\ client[f].st = "gone"

ReadFails(f) ==
    /\ ReadsEnd(f)
    /\ Doom(f)
    /\ UNCHANGED <<conns, byName, revents, client, toServer, slow, requests>>

\* The rest of the service, when recv finds nothing more or reading has stopped.
\* Mutant: want_close is not looked at.
ClosesNever(c) == FALSE

Closes(c) == c.want /\ Pending(c) = 0

Finish(f) ==
    /\ turn.fd = f
    /\ turn.at = "read" => Drained(f) /\ ~ReadsEnd(f)
    /\ \/ FlushFails(conns[f], f) /\ Doom(f) /\ UNCHANGED conns
       \/ LET c == Flushed(conns[f], f) IN
            /\ Pending(c) <= MaxOut
            /\ conns' = [conns EXCEPT ![f] = c]
            /\ IF Closes(c) THEN Doom(f) ELSE Goes(NoFd, "idle")
    /\ UNCHANGED <<byName, revents, client, toServer, slow, requests>>

\* drop_conn: the others are told first, then the socket is closed.
Drop(f) ==
    /\ PassOver /\ f \in doomed
    /\ doomed' = doomed \ {f}
    /\ byName' = IF conns[f].reg THEN [byName EXCEPT ![conns[f].user] = NoFd] ELSE byName
    /\ conns' = [(IF conns[f].reg THEN Broadcast(conns, "INFO", f) ELSE conns)
                    EXCEPT ![f] = NoConn]
    /\ client' = [client EXCEPT ![f].st = "off"]
    /\ toServer' = [toServer EXCEPT ![f] = <<>>]
    /\ slow' = slow \ {f}
    /\ UNCHANGED <<revents, turn, requests>>

-----------------------------------------------------------------------------
(* drain_records and handle_line: one record of the socket being served. *)

Handles(f, verbs) ==
    /\ turn = [fd |-> f, at |-> "read"]
    /\ toServer[f] # <<>> /\ Head(toServer[f]).verb \in verbs
    /\ toServer' = [toServer EXCEPT ![f] = Tail(@)]
    /\ UNCHANGED <<revents, client, slow, requests>>

\* Reading stops once want_close is set.
Done(f, cs) ==
    /\ conns' = cs
    /\ Goes(f, IF cs[f].want THEN "finish" ELSE "read")

Answers(f, c) == Done(f, [conns EXCEPT ![f] = c]) /\ UNCHANGED byName

Commands == {"LOGIN", "MSG", "WHO", "QUIT", "other"}

Handshake(f) ==
    /\ Handles(f, {"handshake"})
    /\ ~conns[f].up
    /\ Answers(f, [conns[f] EXCEPT !.up = TRUE])

HandshakeFails(f) ==
    /\ Handles(f, {"handshake"})
    /\ ~conns[f].up
    /\ Answers(f, SendAlert(conns[f]))

\* Malformed, of an unknown type, too large, out of place, or not authentic.
Rejects(f) ==
    /\ \/ Handles(f, {"bad"})
       \/ Handles(f, {"handshake"}) /\ conns[f].up
       \/ Handles(f, Commands) /\ ~conns[f].up
    /\ Doom(f)
    /\ UNCHANGED <<conns, byName>>

MustLogin(f) ==
    /\ Handles(f, Commands \ {"LOGIN"})
    /\ conns[f].up /\ ~conns[f].reg
    /\ Answers(f, Close(SendLine(conns[f], "ERR", NoMsg)))

LoginAgain(f) ==
    /\ Handles(f, {"LOGIN"})
    /\ conns[f].up /\ conns[f].reg
    /\ Answers(f, SendLine(conns[f], "ERR", NoMsg))

\* Mutant: the name may be in use.
MayTakeAny(name) == name \in Names

MayTake(name) == name \in Names /\ byName[name] = NoFd

LoginRefused(f) ==
    /\ Handles(f, {"LOGIN"})
    /\ conns[f].up /\ ~conns[f].reg
    /\ ~MayTake(Head(toServer[f]).name)
    /\ Answers(f, Close(SendLine(conns[f], "ERR", NoMsg)))

Registered(c, name) == [c EXCEPT !.reg = TRUE, !.user = name]

\* Mutant: everybody who is logged in hears of it first.
LoginAnnounced(f) ==
    LET name == Head(toServer[f]).name
        told == Broadcast([conns EXCEPT ![f] = Registered(@, name)], "INFO", NoFd)
    IN  /\ Handles(f, {"LOGIN"})
        /\ conns[f].up /\ ~conns[f].reg
        /\ MayTake(name)
        /\ byName' = [byName EXCEPT ![name] = f]
        /\ Done(f, [told EXCEPT ![f] = SendLine(@, "OK", NoMsg)])

Login(f) ==
    LET name == Head(toServer[f]).name
        c == SendLine(Registered(conns[f], name), "OK", NoMsg)
    IN  /\ Handles(f, {"LOGIN"})
        /\ conns[f].up /\ ~conns[f].reg
        /\ MayTake(name)
        /\ byName' = [byName EXCEPT ![name] = f]
        /\ Done(f, Broadcast([conns EXCEPT ![f] = c], "INFO", f))

\* Mutant: a message overtakes what is queued.
RelayToFront(cs, to, msg) ==
    LET c == cs[to]
        r == Record("FROM", msg, c.tx)
    IN  [cs EXCEPT ![to].stream = SubSeq(@, 1, c.flushed) \o <<r>>
                                    \o SubSeq(@, c.flushed + 1, Len(@)),
                   ![to].tx = @ + 1]

RelayTo(cs, to, msg) == [cs EXCEPT ![to] = SendLine(@, "FROM", msg)]

\* The recipient may be the sender.
Relays(f) ==
    LET m == Head(toServer[f]).msg IN
    /\ Handles(f, {"MSG"})
    /\ conns[f].up /\ conns[f].reg
    /\ m.to \in Names /\ byName[m.to] # NoFd
    /\ Done(f, RelayTo(conns, byName[m.to], m))
    /\ UNCHANGED byName

NoSuchUser(f) ==
    LET m == Head(toServer[f]).msg IN
    /\ Handles(f, {"MSG"})
    /\ conns[f].up /\ conns[f].reg
    /\ m.to \in Names => byName[m.to] = NoFd
    /\ Answers(f, SendLine(conns[f], "ERR", NoMsg))

Who(f) ==
    /\ Handles(f, {"WHO"})
    /\ conns[f].up /\ conns[f].reg
    /\ Answers(f, SendUsers(conns[f]))

Quit(f) ==
    /\ Handles(f, {"QUIT"})
    /\ conns[f].up /\ conns[f].reg
    /\ Answers(f, Close(conns[f]))

Unknown(f) ==
    /\ Handles(f, {"other"})
    /\ conns[f].up /\ conns[f].reg
    /\ Answers(f, SendLine(conns[f], "ERR", NoMsg))

HandleRecord(f) ==
    \/ Handshake(f) \/ HandshakeFails(f) \/ Rejects(f) \/ MustLogin(f)
    \/ LoginAgain(f) \/ LoginRefused(f) \/ Login(f)
    \/ Relays(f) \/ NoSuchUser(f) \/ Who(f) \/ Quit(f) \/ Unknown(f)

Server ==
    \/ Poll
    \/ \E f \in Fds : Serve(f) \/ HandleRecord(f) \/ ReadFails(f) \/ Finish(f) \/ Drop(f)

-----------------------------------------------------------------------------
(* The clients.  Any client may send anything at any time; the one of this *)
(* repository begins with a handshake and a LOGIN.                         *)

Says(f, r) == toServer' = [toServer EXCEPT ![f] = Append(@, r)]

Connect(f) ==
    /\ client[f].st = "off" /\ client[f].inc < MaxConnects
    /\ client' = [client EXCEPT ![f] = [NoClient EXCEPT !.st = "connecting", !.inc = client[f].inc + 1]]
    /\ Says(f, [verb |-> "handshake"])
    /\ UNCHANGED <<serverVars, slow, requests>>

Requesting(f) ==
    /\ client[f].st \in {"connecting", "on"}
    /\ requests < MaxRequests /\ Len(toServer[f]) < MaxUnread
    /\ requests' = requests + 1
    /\ UNCHANGED <<serverVars, slow>>

MaySay == Requests \cup (IF requests = MaxRequests - 1 THEN LastRequests ELSE {})

Request(f) ==
    /\ Requesting(f)
    /\ UNCHANGED client
    /\ \/ \E verb \in MaySay \ {"LOGIN", "MSG", "WHO"} : Says(f, [verb |-> verb])
       \/ \E name \in Names \cup {NoName} :
            "LOGIN" \in MaySay /\ Says(f, [verb |-> "LOGIN", name |-> name])

AskWho(f) ==
    /\ Requesting(f)
    /\ "WHO" \in MaySay
    /\ client' = [client EXCEPT ![f].asked = @ + 1]
    /\ Says(f, [verb |-> "WHO"])

\* The message carries the connection it is from, the name it is to, and how
\* many this connection sent to that name before it.
Message(f, to) ==
    /\ Requesting(f)
    /\ "MSG" \in MaySay
    /\ client' = [client EXCEPT ![f].count[to] = @ + 1]
    /\ Says(f, [verb |-> "MSG",
                msg |-> [by |-> f, inc |-> client[f].inc, to |-> to,
                         n |-> client[f].count[to]]])

Leave(f) ==
    /\ client[f].st = "on"
    /\ client' = [client EXCEPT ![f].st = "gone"]
    /\ UNCHANGED <<serverVars, toServer, slow, requests>>

\* Only what the server has written can fill the socket's buffer.
Stall(f) ==
    /\ MaySlow /\ client[f].st = "on"
    /\ f \notin slow /\ Pending(conns[f]) = 0
    /\ slow' = slow \cup {f}
    /\ UNCHANGED <<serverVars, client, toServer, requests>>

Resume(f) ==
    /\ f \in slow
    /\ slow' = slow \ {f}
    /\ UNCHANGED <<serverVars, client, toServer, requests>>

Clients ==
    \E f \in Fds :
        \/ Connect(f) \/ Request(f) \/ AskWho(f) \/ (\E to \in Names : Message(f, to))
        \/ Leave(f) \/ Stall(f) \/ Resume(f)

Next == Server \/ Clients

Spec == Init /\ [][Next]_vars

\* The server's loop runs.
ServerSpec == Spec /\ WF_vars(Server)

\* And every client that stalls reads again in the end.
FairSpec == ServerSpec /\ \A f \in Fds : WF_vars(Resume(f))

-----------------------------------------------------------------------------
MsgType == [by : Fds, inc : Nat, to : Names, n : Nat]

RecordType ==
    [tag : {"OK", "ERR", "INFO", "FROM", "USERS", "ALERT"},
     msg : MsgType \cup {NoMsg}, seq : Nat]

ConnType ==
    [open : BOOLEAN, up : BOOLEAN, reg : BOOLEAN, user : Names \cup {NoName},
     want : BOOLEAN, stream : Seq(RecordType), flushed : Nat, tx : Nat]

RequestType ==
    [verb : {"handshake", "bad", "WHO", "QUIT", "other"}]
        \cup [verb : {"LOGIN"}, name : Names \cup {NoName}]
        \cup [verb : {"MSG"}, msg : MsgType]

TypeOK ==
    /\ conns \in [Fds -> ConnType]
    /\ \A f \in Fds : conns[f].flushed <= Len(conns[f].stream)
    /\ byName \in [Names -> Fds \cup {NoFd}]
    /\ revents \in [Fds -> SUBSET {"in", "out", "err"}]
    /\ turn \in [fd : Fds \cup {NoFd}, at : {"idle", "read", "finish"}]
    /\ doomed \subseteq Fds
    /\ client \in [Fds -> [st : {"off", "connecting", "on", "gone"},
                            inc : Nat, count : [Names -> Nat], asked : Nat]]
    /\ toServer \in [Fds -> Seq(RequestType)]
    /\ slow \subseteq Fds
    /\ requests \in Nat

(***************************************************************************)
(* g_by_name and the registered connections are inverse to each other: a   *)
(* name belongs to one connection at a time, and leaves with it.  The tie  *)
(* rule of the end-to-end layer rests on names being unique.               *)
(***************************************************************************)
NamesInverse ==
    /\ \A f \in Fds : conns[f].reg =>
            conns[f].open /\ conns[f].user \in Names /\ byName[conns[f].user] = f
    /\ \A n \in Names :
            byName[n] # NoFd => conns[byName[n]].reg /\ conns[byName[n]].user = n

(***************************************************************************)
(* The first record on a connection is the verdict on its LOGIN: client.cpp *)
(* takes whatever comes first for it.  The name is visible to the others   *)
(* from the middle of handle_login on.                                     *)
(***************************************************************************)
VerdictFirst ==
    \A f \in Fds :
        conns[f].stream # <<>> => Head(conns[f].stream).tag \in {"OK", "ERR", "ALERT"}

(***************************************************************************)
(* A message reaches nobody but the user it names, also when connections   *)
(* end and their descriptors are used again.                               *)
(***************************************************************************)
NoMisdelivery ==
    \A f \in Fds : \A i \in DOMAIN conns[f].stream :
        LET r == conns[f].stream[i] IN r.tag = "FROM" => r.msg.to = conns[f].user

(***************************************************************************)
(* On one connection, the messages of one sender's connection come in the  *)
(* order it sent them and none between two of them is missing: what the    *)
(* implicit counters of the end-to-end layer need of the relay.            *)
(***************************************************************************)
NoGaps ==
    \A f \in Fds : \A i, j \in DOMAIN conns[f].stream :
        LET r == conns[f].stream[i]
            s == conns[f].stream[j]
            SameSender(k) == LET t == conns[f].stream[k] IN
                t.tag = "FROM" /\ t.msg.by = r.msg.by /\ t.msg.inc = r.msg.inc
        IN  (/\ i < j /\ r.tag = "FROM" /\ SameSender(j)
             /\ \A k \in i + 1 .. j - 1 : ~SameSender(k))
                => s.msg.n = r.msg.n + 1

\* What the relay owes to a message: the user it names, in its order.
Delivery == NoMisdelivery /\ NoGaps

(***************************************************************************)
(* docs/protocol.md: "the two counters stay in lockstep".  Nothing but a   *)
(* reply to /who can be sealed and then be too long to enqueue.  So of     *)
(* the counters on one connection none is used twice, and the client's,    *)
(* which counts the sealed records it reads, falls behind the server's by  *)
(* no more than the times it asked on this very connection: whatever the   *)
(* others do, a client that never asks is in step.                         *)
(***************************************************************************)
DriftIsOwn ==
    \A f \in Fds :
        LET s == conns[f].stream
            Sealed(i) == {j \in 1 .. i - 1 : s[j].tag # "ALERT"}
        IN  \A i \in DOMAIN s : s[i].tag # "ALERT" =>
                /\ \A j \in Sealed(i) : s[j].seq < s[i].seq
                /\ s[i].seq <= Cardinality(Sealed(i)) + client[f].asked

\* The same sentence by the word: false, as an over-long roster is counted.
CountersInStep ==
    \A f \in Fds : conns[f].tx = Cardinality({i \in DOMAIN conns[f].stream :
                                                conns[f].stream[i].tag # "ALERT"})

(***************************************************************************)
(* A connection that is to be closed is closed, however much is queued on  *)
(* it, if its client reads.                                                *)
(***************************************************************************)
WantCloseCloses == \A f \in Fds : conns[f].want ~> ~conns[f].want

(***************************************************************************)
(* When a client has gone the server notices, closes its connection and    *)
(* frees its name.                                                         *)
(***************************************************************************)
DepartedIsDropped ==
    \A f \in Fds : client[f].st = "gone" ~> client[f].st # "gone"

(***************************************************************************)
(* docs/protocol.md: "The outbound queue is capped at 1 MiB; a peer that   *)
(* exceeds it is dropped."  The cap is looked at only when the socket is   *)
(* served, and poll does not report one that takes nothing and says nothing. *)
(***************************************************************************)
QueueIsCapped ==
    \A f \in Fds : Pending(conns[f]) > MaxOut ~> Pending(conns[f]) <= MaxOut

-----------------------------------------------------------------------------
(***************************************************************************)
(* What makes NamesInverse inductive: the main loop only ever serves and   *)
(* dooms connections that are open, and a descriptor is given out again    *)
(* only after its connection was dropped.                                  *)
(***************************************************************************)
ServesOpen ==
    /\ Idle <=> turn.fd = NoFd
    /\ turn.fd \in Fds => conns[turn.fd].open
    /\ \A f \in Fds : revents[f] # {} \/ f \in doomed => conns[f].open

ClientsMatch ==
    \A f \in Fds : conns[f].open <=> client[f].st \in {"on", "gone"}

RelayInv == TypeOK /\ NamesInverse /\ ServesOpen /\ ClientsMatch
=============================================================================
