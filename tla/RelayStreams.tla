---------------------------- MODULE RelayStreams ----------------------------
(***************************************************************************)
(* The inductive invariant behind what Relay promises of the records on a  *)
(* connection: the verdict first, the counters, and every message at the   *)
(* user it names, in its sender's order and with none left out.            *)
(***************************************************************************)
EXTENDS Relay

(***************************************************************************)
(* A Conn that is registered has finished its handshake and has said so;   *)
(* what comes first on it is a verdict; and messages come only to the name *)
(* it is registered with.                                                  *)
(***************************************************************************)
Said(c) ==
    /\ c.reg => c.up /\ c.stream # <<>>
    /\ c.stream # <<>> => c.stream[1].tag \in {"OK", "ERR", "ALERT"}
    /\ \A i \in 1 .. Len(c.stream) : c.stream[i].tag = "FROM" =>
        c.reg /\ c.stream[i].msg \in MsgType /\ c.stream[i].msg.to = c.user

\* The sealed records before place i of the stream s.
SealedBefore(s, i) == {j \in 1 .. i - 1 : s[j].tag # "ALERT"}

(***************************************************************************)
(* After at most n replies that were too long, counters are not used twice *)
(* and no more than n of them are on no record.                            *)
(***************************************************************************)
Counted(c, n) ==
    /\ \A i \in 1 .. Len(c.stream) : c.stream[i].tag # "ALERT" =>
            /\ \A j \in SealedBefore(c.stream, i) : c.stream[j].seq < c.stream[i].seq
            /\ c.stream[i].seq <= Cardinality(SealedBefore(c.stream, i)) + n
            /\ c.stream[i].seq < c.tx
    /\ c.tx <= Cardinality(SealedBefore(c.stream, Len(c.stream) + 1)) + n

-----------------------------------------------------------------------------
\* A request to relay a message to t.
MsgTo(r, t) == r.verb = "MSG" /\ r.msg.to = t

\* Behind place i of the queue q, the messages to t go on with number n + 1; if
\* there is none, its sender has numbered cnt so far, and n was the last.
Continues(q, i, t, n, cnt) ==
    \/ n + 1 = cnt /\ \A j \in i + 1 .. Len(q) : ~MsgTo(q[j], t)
    \/ \E j \in i + 1 .. Len(q) :
        /\ MsgTo(q[j], t) /\ q[j].msg.n = n + 1
        /\ \A k \in i + 1 .. j - 1 : ~MsgTo(q[k], t)

\* The queue q of client cl at descriptor g: its messages, numbered through.
QueueInv(q, g, cl) ==
    /\ cl.st = "off" => q = <<>>
    /\ \A i \in 1 .. Len(q) : q[i].verb = "MSG" =>
        LET m == q[i].msg IN
        /\ m.by = g /\ m.inc = cl.inc
        /\ Continues(q, i, m.to, m.n, cl.count[m.to])

\* Place i of the stream s holds a message from the connection inc of g,
From(s, i, g, inc) == s[i].tag = "FROM" /\ s[i].msg.by = g /\ s[i].msg.inc = inc

\* the last one.
LastFrom(s, i, g, inc) ==
    /\ i \in 1 .. Len(s) /\ From(s, i, g, inc)
    /\ \A k \in i + 1 .. Len(s) : ~From(s, k, g, inc)

(***************************************************************************)
(* Between the Conn c and the client cl at descriptor g with its Conn d    *)
(* and its queue q: messages on c are from connections of g up to now; if  *)
(* one is from the present connection, g is logged in, and its queue goes  *)
(* on where the last one on c ends.                                        *)
(***************************************************************************)
LinkInv(c, g, d, q, cl) ==
    \A i \in 1 .. Len(c.stream) :
        (c.stream[i].tag = "FROM" /\ c.stream[i].msg.by = g) =>
            LET m == c.stream[i].msg IN
            /\ m.inc <= cl.inc
            /\ (m.inc = cl.inc /\ cl.st # "off") =>
                /\ d.reg
                /\ LastFrom(c.stream, i, g, cl.inc) =>
                        Continues(q, 0, m.to, m.n, cl.count[m.to])

\* Messages of one connection that follow one another on s are numbered so.
Successive(s) ==
    \A i, j \in 1 .. Len(s) :
        (/\ i < j /\ s[i].tag = "FROM" /\ From(s, j, s[i].msg.by, s[i].msg.inc)
         /\ \A k \in i + 1 .. j - 1 : ~From(s, k, s[i].msg.by, s[i].msg.inc))
            => s[j].msg.n = s[i].msg.n + 1

StreamInv ==
    /\ \A f \in Fds : Said(conns[f]) /\ Successive(conns[f].stream)
    /\ \A g \in Fds : QueueInv(toServer[g], g, client[g])
    /\ \A f, g \in Fds : LinkInv(conns[f], g, conns[g], toServer[g], client[g])

\* The requests in a queue for the roster.
Asks(q) == {i \in 1 .. Len(q) : q[i].verb = "WHO"}

\* Nothing is left of a connection that ended.
Empty(c) == c.stream = <<>> /\ c.tx = 0

\* A reply is one to a request that its client has sent and that is handled.
CountInv ==
    \A f \in Fds :
        /\ ~conns[f].open => Empty(conns[f])
        /\ \E n \in Nat : n + Cardinality(Asks(toServer[f])) <= client[f].asked
                            /\ Counted(conns[f], n)
=============================================================================
