-------------------------------- MODULE Lines --------------------------------
(***************************************************************************)
(* The lines clients send each other through the relay, and what must hold *)
(* between the two ends of a session.  The relay hands the lines of u to v *)
(* on in the order it gets them.  E2E and ClientThreads say when lines are *)
(* sent and read.                                                          *)
(***************************************************************************)
EXTENDS EpochKeys, Sequences, FiniteSets

CONSTANTS
    MaxKeyPairs,   \* bound: a user originates an INIT only below this many key pairs
    MaxMessages    \* bound: messages sealed per ordered pair

ASSUME LinesAssumption == MaxKeyPairs \in Nat /\ MaxMessages \in Nat

VARIABLE net    \* net[u][v]: lines from u to v that v has not read yet

InitLine(n, pub) == [tag |-> "init", n |-> n, pub |-> pub]
AckLine(n, pub)  == [tag |-> "ack", n |-> n, pub |-> pub]
MsgLine(c)       == [tag |-> "msg", ct |-> c]

LineType ==
    [tag : {"init", "ack"}, n : EpochNumbers, pub : KeyPairs]
        \cup [tag : {"msg"}, ct : CipherType]

\* The lines u may have on the way to v: each public value in them is one u made
\* for v, each ciphertext one that was sealed.  With TypeOK this is inductive.
ValidLines(u, v) ==
    [tag : {"init", "ack"}, n : EpochNumbers, pub : PublicValues(u, v)]
        \cup [tag : {"msg"}, ct : sealed]

NetOK == \A u, v \in Users : net[u][v] \in Seq(ValidLines(u, v))

NetInit == net = [u \in Users |-> [v \in Users |-> <<>>]]

Push(u, v, m) == net' = [net EXCEPT ![u][v] = Append(@, m)]
Pop(u, v)     == net' = [net EXCEPT ![u][v] = Tail(@)]

HeadTag(u, v, tag) == net[v][u] # <<>> /\ Head(net[v][u]).tag = tag

-----------------------------------------------------------------------------
BothUp(u, v) == peers[u][v].st = "up" /\ peers[v][u].st = "up"

InFlight(u, v, n, z) ==
    {i \in 1 .. Len(net[u][v]) :
        LET m == net[u][v][i] IN m.tag = "msg" /\ m.ct.n = n /\ m.ct.z = z}

(***************************************************************************)
(* "The two sides can never diverge": whenever two clients are in the same *)
(* epoch with each other they hold the same secret.  Needs the collision   *)
(* rule of on_init and the epoch test of on_ack to agree on one INIT.      *)
(***************************************************************************)
SameEpochSameKey ==
    \A u, v \in Users :
        (u # v /\ BothUp(u, v) /\ peers[u][v].cur.n = peers[v][u].cur.n)
            => peers[u][v].cur.z = peers[v][u].cur.z

(***************************************************************************)
(* A client is never more than one epoch ahead of its peer, so that the    *)
(* one previous key it keeps is enough.                                    *)
(***************************************************************************)
EpochSkew ==
    \A u, v \in Users :
        (u # v /\ BothUp(u, v)) => peers[u][v].cur.n <= peers[v][u].cur.n + 1

(***************************************************************************)
(* The implicit counters of seal and open stay in step: under a key both   *)
(* sides have, the sender's tx is the receiver's rx plus the messages still *)
(* on the way.  One message refused for good breaks the direction for the  *)
(* rest of the epoch, since the counter is never sent.                     *)
(***************************************************************************)
Lockstep ==
    \A u, v \in Users :
        (u # v /\ BothUp(u, v) /\ peers[u][v].cur.n = peers[v][u].cur.n) =>
            LET e == peers[u][v].cur IN
            e.tx = peers[v][u].cur.rx + Cardinality(InFlight(u, v, e.n, e.z))

(***************************************************************************)
(* A message in flight across a rotation still decrypts: the next message  *)
(* a client reads opens, unless it is of the previous epoch and its grace  *)
(* window is over.                                                         *)
(***************************************************************************)
InFlightDecrypts ==
    \A u, v \in Users :
        (u # v /\ HeadTag(u, v, "msg")) =>
            LET c == Head(net[v][u]).ct
                p == peers[u][v]
            IN  \/ Opens(u, v, p, c)
                \/ c.n + 1 = p.cur.n /\ ~(p.havePrev /\ p.grace)

(***************************************************************************)
(* A session that nobody restarts never goes back to an earlier epoch and  *)
(* never skips one (on_init takes whatever epoch number the INIT carries). *)
(***************************************************************************)
EpochFollows ==
    \A u, v \in Users :
        (peers[u][v].st = "up" /\ peers'[u][v].cur.z # peers[u][v].cur.z)
            => peers'[u][v].cur.n = peers[u][v].cur.n + 1

(***************************************************************************)
(* An INIT is always settled: a client that is waiting for an ACK gets it, *)
(* or gives way to its peer's INIT.  While it waits it does not rotate.    *)
(***************************************************************************)
RotationEnds ==
    \A u \in Users : \A v \in Users \ {u} :
        peers[u][v].rotating ~> ~peers[u][v].rotating

(***************************************************************************)
(* The same for sessions that are up while their peer may crash and come   *)
(* back: evidence/phase5 says a crashed initiator does not freeze          *)
(* rotation.  The fallback INIT that finds the peer gone is never repeated. *)
(***************************************************************************)
RotationResumes ==
    \A u \in Users : \A v \in Users \ {u} :
        (peers[u][v].st = "up" /\ peers[u][v].rotating) ~> ~peers[u][v].rotating

(***************************************************************************)
(* An /e2e typed on either side, or on both at once, ends with a session   *)
(* on both sides.                                                          *)
(***************************************************************************)
HandshakeCompletes ==
    \A u \in Users : \A v \in Users \ {u} :
        peers[u][v].st = "pending" ~> BothUp(u, v)

(***************************************************************************)
(* The key of an epoch that was left stops decrypting.                     *)
(***************************************************************************)
PreviousKeyRetires ==
    \A u \in Users : \A v \in Users \ {u} :
        peers[u][v].havePrev ~> ~peers[u][v].havePrev
=============================================================================
