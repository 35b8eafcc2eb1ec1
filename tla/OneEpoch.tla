------------------------------ MODULE OneEpoch ------------------------------
(***************************************************************************)
(* The fourth version of the system: the first end-to-end sessions.  The   *)
(* Manager keeps one entry for each peer, of one epoch; it has no rule for *)
(* INITs that cross and binds an ACK to no INIT.  A client has two         *)
(* threads: main sends what the user types, the reader answers INITs.      *)
(* Each calls the Manager under g_e2e_mu, lets go of it, and sends what it *)
(* was given under g_send_mu; the other thread may come in between.  The   *)
(* relay forwards, answers for users who are not there, and drops clients  *)
(* that leave; the outer sessions are those of Handshake.                  *)
(***************************************************************************)
EXTENDS Naturals, Sequences, FiniteSets

CONSTANTS
    Users,       \* usernames, in their order
    NoPair,      \* no key pair
    Starters,    \* users who type /e2e
    Repeats,     \* do they type it again while their INIT is not answered?
    Leavers,     \* users whose client ends, and who may come back
    KeygenFails, \* may a key pair fail to be generated for an answer?
    MaxPairs,    \* bound: /e2e is typed below this many key pairs of the user
    MaxMessages, \* bound: messages typed
    MaxLogins    \* bound: clients each user starts

ASSUME OneEpochAssumption ==
    /\ Users \subseteq Nat /\ Starters \subseteq Users /\ Leavers \subseteq Users
    /\ NoPair \notin Users \X Nat /\ {Repeats, KeygenFails} \subseteq BOOLEAN
    /\ {MaxPairs, MaxMessages, MaxLogins} \subseteq Nat

VARIABLES
    peers,   \* peers_ of each client
    gen,     \* key pairs each user has generated
    pend,    \* what each thread of a client still has to send
    up,      \* lines from each client the relay has not handled
    down,    \* lines the relay has for each client
    online,  \* registered at the relay
    alive,   \* the client process of each user runs
    logins,  \* client processes each user has started
    typed,   \* messages typed so far
    sealed,  \* messages sealed (history)
    opened,  \* messages each user was shown as [e2e], in order (history)
    alarms   \* downgrades each user was warned of (history)

managers == <<peers, gen>>
relay == <<up, down, online>>
life == <<alive, logins>>
shown == <<opened, alarms>>
vars == <<managers, pend, relay, life, typed, sealed, shown>>

-----------------------------------------------------------------------------
(* The Manager. *)

NoEntry == [st |-> "none", pair |-> NoPair, z |-> {}, tx |-> 0, rx |-> 0]

NewPair(u) == <<u, gen[u]>>

Generate(u) == gen' = [gen EXCEPT ![u] = @ + 1]

\* derive: the secret, and with it both keys, the salt and the fingerprint.
Derive(own, theirs) == {own, theirs}

\* am_a: which of the two keys is for sending.
AmA(u, v) == u < v

Established(u, v) == peers[u][v].st = "Up"

Fingerprint(u, v) == peers[u][v].z

Becomes(u, v, entry) == peers' = [peers EXCEPT ![u][v] = entry]

\* start: replaces any previous session.
Start(u, v) ==
    /\ u # v
    /\ Becomes(u, v, [NoEntry EXCEPT !.st = "Pending", !.pair = NewPair(u)])
    /\ Generate(u)

Answers(u, v, pub) ==
    [NoEntry EXCEPT !.st = "Up", !.pair = NewPair(u), !.z = Derive(NewPair(u), pub)]

\* Also replaces any previous session, one of its own that is pending included.
OnInit(u, v, pub) == Becomes(u, v, Answers(u, v, pub)) /\ Generate(u)

AckExpected(u, v) == peers[u][v].st = "Pending"

OnAck(u, v, pub) ==
    /\ AckExpected(u, v)
    /\ Becomes(u, v, [peers[u][v] EXCEPT !.st = "Up", !.z = Derive(peers[u][v].pair, pub)])
    /\ UNCHANGED gen

\* Mutant: the counter stays.
SealedAgain(u, v) == peers[u][v]

SealedOnce(u, v) == [peers[u][v] EXCEPT !.tx = @ + 1]

Ciphertext(u, v, m) ==
    [z |-> peers[u][v].z, a |-> AmA(u, v), n |-> peers[u][v].tx, msg |-> m]

\* Mutant: the nonce is not compared.
OpensAny(u, v, ct) ==
    Established(u, v) /\ ct.z = peers[u][v].z /\ ct.a # AmA(u, v)

Opens(u, v, ct) ==
    /\ Established(u, v)
    /\ ct.z = peers[u][v].z /\ ct.a # AmA(u, v) /\ ct.n = peers[u][v].rx

OpenedOnce(u, v) == [peers[u][v] EXCEPT !.rx = @ + 1]

-----------------------------------------------------------------------------
(* Lines, and who sends them. *)

Tagged(tag, what) == [tag |-> tag, what |-> what]

Idle(u, t) == alive[u] /\ pend[u][t] = <<>>

Will(u, t, v, text) == pend' = [pend EXCEPT ![u][t] = <<[to |-> v, text |-> text]>>]

Init ==
    /\ peers = [u \in Users |-> [v \in Users |-> NoEntry]]
    /\ gen = [u \in Users |-> 0]
    /\ pend = [u \in Users |-> [t \in {"main", "reader"} |-> <<>>]]
    /\ up = [u \in Users |-> <<>>] /\ down = [u \in Users |-> <<>>]
    /\ online = [u \in Users |-> TRUE]
    /\ alive = [u \in Users |-> TRUE] /\ logins = [u \in Users |-> 1]
    /\ typed = 0 /\ sealed = {}
    /\ opened = [u \in Users |-> <<>>] /\ alarms = [u \in Users |-> 0]

\* send_line: seal and write are one step, under g_send_mu.
Send(u, t) ==
    /\ pend[u][t] # <<>>
    /\ up' = [up EXCEPT ![u] = @ \o pend[u][t]]
    /\ pend' = [pend EXCEPT ![u][t] = <<>>]
    /\ UNCHANGED <<managers, down, online, life, typed, sealed, shown>>

\* A line that is too long is not sent, and send_line says that it was; what the
\* Manager sealed for it stays sealed.  Only what a user typed can be too long.
SkipLong(u, t) ==
    /\ pend[u][t] # <<>> /\ Head(pend[u][t]).text.tag \in {"msg", "plain"}
    /\ pend' = [pend EXCEPT ![u][t] = <<>>]
    /\ UNCHANGED <<managers, relay, life, typed, sealed, shown>>

-----------------------------------------------------------------------------
(* The main thread. *)

\* /e2e; without a key pair nothing happens.
TypeE2E(u, v) ==
    /\ Idle(u, "main") /\ u \in Starters /\ gen[u] < MaxPairs
    /\ Repeats \/ peers[u][v].st # "Pending"
    /\ Start(u, v)
    /\ Will(u, "main", v, Tagged("init", NewPair(u)))
    /\ UNCHANGED <<relay, life, typed, sealed, shown>>

\* send_msg_to: sealed when there is a session, in the clear when there is none.
TypeMessage(u, v) ==
    LET m == typed + 1 IN
    /\ Idle(u, "main") /\ typed < MaxMessages
    /\ typed' = m
    /\ IF Established(u, v)
       THEN /\ Becomes(u, v, SealedOnce(u, v))
            /\ Will(u, "main", v, Tagged("msg", Ciphertext(u, v, m)))
            /\ sealed' = sealed \cup {Ciphertext(u, v, m)}
       ELSE Will(u, "main", v, Tagged("plain", m)) /\ UNCHANGED <<peers, sealed>>
    /\ UNCHANGED <<gen, relay, life, shown>>

-----------------------------------------------------------------------------
(* The reader thread: display. *)

Reads(u, tag) ==
    /\ Idle(u, "reader") /\ down[u] # <<>>
    /\ Head(down[u]).text.tag = tag
    /\ down' = [down EXCEPT ![u] = Tail(@)]
    /\ UNCHANGED <<up, online, life, typed, sealed>>

From(u) == Head(down[u]).from
What(u) == Head(down[u]).text.what

ReadsInit(u) ==
    /\ Reads(u, "init")
    /\ OnInit(u, From(u), What(u))
    /\ Will(u, "reader", From(u), Tagged("ack", NewPair(u)))
    /\ UNCHANGED shown

\* No key pair: the request is only shown, and the entry stays as it is.
ReadsInitFails(u) == KeygenFails /\ Reads(u, "init") /\ UNCHANGED <<managers, pend, shown>>

ReadsAck(u) ==
    /\ Reads(u, "ack")
    /\ \/ OnAck(u, From(u), What(u))
       \/ ~AckExpected(u, From(u)) /\ UNCHANGED managers
    /\ UNCHANGED <<pend, shown>>

ReadsMsg(u) ==
    LET v == From(u) IN
    /\ Reads(u, "msg")
    /\ IF Opens(u, v, What(u))
       THEN Becomes(u, v, OpenedOnce(u, v)) /\ opened' = [opened EXCEPT ![u] = Append(@, What(u))]
       ELSE UNCHANGED <<peers, opened>>
    /\ UNCHANGED <<gen, pend, alarms>>

\* What is not encrypted is a downgrade when there is a session with the sender.
ReadsPlain(u) ==
    /\ Reads(u, "plain")
    /\ alarms' = [alarms EXCEPT ![u] = IF Established(u, From(u)) THEN @ + 1 ELSE @]
    /\ UNCHANGED <<managers, pend, opened>>

ReadsErr(u) == Reads(u, "err") /\ UNCHANGED <<managers, pend, shown>>

Reader(u) ==
    \/ ReadsInit(u) \/ ReadsInitFails(u) \/ ReadsAck(u)
    \/ ReadsMsg(u) \/ ReadsPlain(u) \/ ReadsErr(u)

-----------------------------------------------------------------------------
(* The relay, and clients that come and go. *)

Route(u) ==
    LET l == Head(up[u]) IN
    /\ online[u] /\ up[u] # <<>>
    /\ up' = [up EXCEPT ![u] = Tail(@)]
    /\ down' = IF online[l.to]
               THEN [down EXCEPT ![l.to] = Append(@, [from |-> u, text |-> l.text])]
               ELSE [down EXCEPT ![u] = Append(@, [from |-> l.to, text |-> Tagged("err", NoPair)])]
    /\ UNCHANGED <<managers, pend, online, life, typed, sealed, shown>>

\* The process ends; its Manager goes with it.
Leave(u) ==
    /\ alive[u] /\ u \in Leavers
    /\ alive' = [alive EXCEPT ![u] = FALSE]
    /\ peers' = [peers EXCEPT ![u] = [v \in Users |-> NoEntry]]
    /\ pend' = [pend EXCEPT ![u] = [t \in {"main", "reader"} |-> <<>>]]
    /\ UNCHANGED <<gen, relay, logins, typed, sealed, shown>>

\* What has not been handled may be lost.
DropConn(u) ==
    /\ online[u] /\ ~alive[u]
    /\ online' = [online EXCEPT ![u] = FALSE]
    /\ up' = [up EXCEPT ![u] = <<>>]
    /\ down' = [down EXCEPT ![u] = <<>>]
    /\ UNCHANGED <<managers, pend, life, typed, sealed, shown>>

\* The name is free once the old client is dropped.
Login(u) ==
    /\ ~alive[u] /\ ~online[u] /\ logins[u] < MaxLogins
    /\ alive' = [alive EXCEPT ![u] = TRUE]
    /\ logins' = [logins EXCEPT ![u] = @ + 1]
    /\ online' = [online EXCEPT ![u] = TRUE]
    /\ UNCHANGED <<managers, pend, up, down, typed, sealed, shown>>

Next ==
    \E u \in Users :
        \/ \E v \in Users : TypeE2E(u, v) \/ TypeMessage(u, v)
        \/ Send(u, "main") \/ Send(u, "reader") \/ SkipLong(u, "main") \/ Reader(u)
        \/ Route(u) \/ Leave(u) \/ DropConn(u) \/ Login(u)

Spec == Init /\ [][Next]_vars

\* Both threads of each client and the loop of the relay run.
FairSpec ==
    /\ Spec
    /\ \A u \in Users :
        /\ WF_vars(Send(u, "main")) /\ WF_vars(Send(u, "reader")) /\ WF_vars(Reader(u))
        /\ WF_vars(Route(u)) /\ WF_vars(DropConn(u))

-----------------------------------------------------------------------------
Pairs == Users \X Nat

EntryType ==
    [st : {"none", "Pending", "Up"}, pair : Pairs \cup {NoPair}, z : SUBSET Pairs,
     tx : Nat, rx : Nat]

TypeOK ==
    /\ peers \in [Users -> [Users -> EntryType]]
    /\ gen \in [Users -> Nat]
    /\ \A u \in Users, t \in {"main", "reader"} : Len(pend[u][t]) <= 1
    /\ online \in [Users -> BOOLEAN] /\ alive \in [Users -> BOOLEAN]
    /\ \A u \in Users : alive[u] => online[u]
    /\ \A u, v \in Users : Established(u, v) => Cardinality(peers[u][v].z) = 2

(***************************************************************************)
(* No message is sealed under a key and a nonce that another one was       *)
(* sealed under, whatever INITs cross, are repeated, or outlive the client *)
(* that sent them: the counters start again only with a new key pair.      *)
(***************************************************************************)
NonceFresh ==
    \A c, d \in sealed : c.z = d.z /\ c.a = d.a /\ c.n = d.n => c = d

(***************************************************************************)
(* What a user is shown as end-to-end encrypted under one key is what the  *)
(* peer sealed under it, from the first message on, in order and without   *)
(* gaps: a message that is lost on the way, or sealed and then not sent    *)
(* since its line is too long, is the end of what is opened.               *)
(***************************************************************************)
OpenedInOrder ==
    \A u \in Users :
        LET s == opened[u] IN
        \A i \in DOMAIN s :
            /\ s[i] \in sealed
            /\ s[i].n = Cardinality({j \in 1 .. i - 1 : s[j].z = s[i].z /\ s[j].a = s[i].a})

(***************************************************************************)
(* docs/protocol.md: "Both clients print FP_e2e, which match".  With every *)
(* line sent and read, two clients that both have a session have the same  *)
(* one.                                                                    *)
(***************************************************************************)
Quiet ==
    \A u \in Users : up[u] = <<>> /\ down[u] = <<>> /\ \A t \in DOMAIN pend[u] : pend[u][t] = <<>>

FingerprintsMatch ==
    Quiet => \A u, v \in Users :
                Established(u, v) /\ Established(v, u) => Fingerprint(u, v) = Fingerprint(v, u)

(***************************************************************************)
(* docs/protocol.md: a plain message "from a peer with an active E2E       *)
(* session is flagged as a downgrade".  A genuine client seals whenever it *)
(* has a session, so among genuine clients there is nothing to flag.       *)
(***************************************************************************)
NoFalseAlarm == \A u \in Users : alarms[u] = 0

(***************************************************************************)
(* While nobody leaves, every INIT ends in a session, crossed or repeated. *)
(***************************************************************************)
HandshakeEnds == \A u, v \in Users : peers[u][v].st = "Pending" ~> Established(u, v)
=============================================================================
