----------------------------- MODULE E2ESession -----------------------------
(***************************************************************************)
(* The inductive invariant behind what E2E promises of a session that is   *)
(* not broken off.  It speaks of two users u and v at a time: of their     *)
(* entries for each other, p of u and q of v, and of the lines a that are  *)
(* on the way from u to v and b that are on the way back.  Either nothing  *)
(* but messages and open INITs is under way and both are in the same epoch *)
(* (Settled), or one has answered an INIT of the other and is an epoch     *)
(* ahead until its ACK is read (Answered).                                 *)
(***************************************************************************)
EXTENDS E2E

\* How many epochs an entry has seen, and how many its sender had seen when it
\* sent the line m.
Level(p) == IF p.st = "up" THEN p.cur.n + 1 ELSE 0
LineLevel(m) ==
    IF m.tag = "msg" THEN m.ct.n + 1 ELSE IF m.tag = "ack" THEN m.n + 1 ELSE m.n

\* An entry that is not up has no epochs; an open INIT asks for the next epoch;
\* the previous epoch is the one before the current one.
EntryInv(p) ==
    /\ p.st # "up" => p.cur = NullEpoch /\ p.prev = NullEpoch /\ ~p.havePrev
    /\ p.st = "none" => ~p.rotating
    /\ p.rotating => p.nextEpoch = Level(p)
    /\ p.st = "up" /\ p.cur.n > 0 => p.prev.n + 1 = p.cur.n

\* Lines are in the order of their levels, an ACK is the first of its level, and
\* no INIT is on the way twice.
Ordered(l, a) ==
    /\ \A i \in 1 .. Len(a) : LineLevel(a[i]) <= l
    /\ \A i, j \in 1 .. Len(a) :
        i < j => IF a[j].tag = "ack" THEN LineLevel(a[i]) < LineLevel(a[j])
                                     ELSE LineLevel(a[i]) <= LineLevel(a[j])
    /\ \A i, j \in 1 .. Len(a) :
        (a[i].tag = "init" /\ a[j].tag = "init" /\ a[i].pub = a[j].pub) => i = j

\* A message was sealed with a key the reader has, or, behind an ACK, with the one
\* the ACK brings.
KeysKnown(u, v, p, q, a) ==
    \A i \in 1 .. Len(a) : a[i].tag = "msg" =>
        LET c == a[i].ct IN
        /\ c.dir = Dir(u, v)
        /\ \/ q.st = "up" /\ c.n = q.cur.n /\ c.z = q.cur.z
           \/ q.st = "up" /\ c.n + 1 = q.cur.n /\ c.z = q.prev.z
           \/ p.st = "up" /\ c.n = p.cur.n /\ c.z = p.cur.z

\* Where the messages of epoch n are in a.
Flight(a, n) == {i \in 1 .. Len(a) : a[i].tag = "msg" /\ a[i].ct.n = n}

\* Their counters begin at lo and leave nothing out,
Gapless(a, n, lo) ==
    \A i \in Flight(a, n) :
        /\ lo <= a[i].ct.seq
        /\ \A j \in Flight(a, n) : i < j => a[i].ct.seq < a[j].ct.seq
        /\ \A s \in lo .. a[i].ct.seq : \E j \in Flight(a, n) : a[j].ct.seq = s

\* and they end before hi.
EndsAt(a, n, lo, hi) ==
    /\ lo <= hi
    /\ \A i \in Flight(a, n) : a[i].ct.seq < hi
    /\ \A s \in lo .. hi - 1 : \E j \in Flight(a, n) : a[j].ct.seq = s

\* Does the entry q still read epoch n, and at which counter?
Reading(q, n) == q.cur.n <= n \/ (q.havePrev /\ q.grace /\ n + 1 = q.cur.n)
NextSeq(q, n) ==
    IF n = q.cur.n THEN q.cur.rx ELSE IF n + 1 = q.cur.n THEN q.prev.rx ELSE 0

CountersMatch(p, q, a) ==
    \A n \in EpochNumbers : Reading(q, n) =>
        /\ Gapless(a, n, NextSeq(q, n))
        /\ p.st = "up" /\ n = p.cur.n => EndsAt(a, n, NextSeq(q, n), p.cur.tx)

\* No INIT has been answered that is still open: both are in the same epoch.  An
\* INIT on the way is its sender's open one, or will be ignored.
OpenInits(u, v, p, q, a) ==
    \A i \in 1 .. Len(a) :
        /\ a[i].tag # "ack"
        /\ a[i].tag = "init" =>
            /\ a[i].n = Level(p)
            /\ \/ p.rotating /\ a[i].pub = p.nextKp
               \/ v < u /\ q.rotating

Settled(u, v, p, q, a, b) ==
    /\ Level(p) = Level(q)
    /\ p.st = "up" => p.cur.z = q.cur.z
    /\ OpenInits(u, v, p, q, a) /\ OpenInits(v, u, q, p, b)

\* u has answered v's INIT and is an epoch ahead until v reads the ACK.  INITs of
\* u before the ACK will be ignored; one behind it asks for the epoch after.
Answered(u, v, p, q, a, b) ==
    /\ p.st = "up" /\ Level(p) = Level(q) + 1 /\ p.cur.rx = 0
    /\ q.rotating /\ (q.st = "up" => q.cur.z = p.prev.z)
    /\ \E i \in 1 .. Len(a) : a[i].tag = "ack"
    /\ \A i \in 1 .. Len(a) :
        /\ a[i].tag = "ack" => a[i].n = Level(q) /\ p.cur.z = {q.nextKp, a[i].pub}
        /\ a[i].tag = "init" =>
            \/ a[i].n = Level(q) /\ v < u
            \/ a[i].n = Level(p) /\ p.rotating /\ a[i].pub = p.nextKp
    /\ \A i \in 1 .. Len(b) : b[i].tag = "msg"

Control(u, v, p, q, a, b) ==
    \/ Settled(u, v, p, q, a, b)
    \/ Answered(u, v, p, q, a, b)
    \/ Answered(v, u, q, p, b, a)

Way(u, v, p, q, a) ==
    Ordered(Level(p), a) /\ KeysKnown(u, v, p, q, a) /\ CountersMatch(p, q, a)

Pair(u, v, p, q, a, b) ==
    /\ EntryInv(p) /\ EntryInv(q)
    /\ Way(u, v, p, q, a) /\ Way(v, u, q, p, b)
    /\ Control(u, v, p, q, a, b)

SessionInv ==
    Unbroken =>
        /\ \A u \in Users : online[u]
        /\ \A u, v \in Users : u # v =>
            Pair(u, v, peers[u][v], peers[v][u], net[u][v], net[v][u])
=============================================================================
