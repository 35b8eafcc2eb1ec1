--------------------------------- MODULE E2E ---------------------------------
(***************************************************************************)
(* End-to-end sessions between clients whose Managers are driven one event *)
(* at a time: a handler runs and what it has to say is on the wire before  *)
(* the next event of that client (selftest.cpp drives them this way; the   *)
(* threads of client.cpp are in ClientThreads).  Lines from u to v travel  *)
(* through the relay in order.  A client may log out or crash and come     *)
(* back with an empty Manager.                                             *)
(***************************************************************************)
EXTENDS Lines

CONSTANTS
    KeygenMayFail,  \* may KeyPair::generate fail in on_init?
    MaxBreaks       \* bound: how often a session is broken off

ASSUME E2EAssumption == KeygenMayFail \in BOOLEAN /\ MaxBreaks \in Nat

VARIABLES
    online,    \* which users are logged in
    breaks     \* how often a user has logged out, crashed, or typed /e2e again

vars == <<keyVars, net, online, breaks>>

\* u reads the next line from v, which carries the given tag.
Reads(u, v, tag) == online[u] /\ HeadTag(u, v, tag)

Init ==
    /\ KeyInit
    /\ NetInit
    /\ online = [u \in Users |-> TRUE]
    /\ breaks = 0

Breaks == breaks < MaxBreaks /\ breaks' = breaks + 1

\* /e2e v, also when u already has an entry for v.
Start(u, v) ==
    /\ online[u]
    /\ gen[u][v] < MaxKeyPairs
    /\ IF peers[u][v].st = "none" THEN UNCHANGED breaks ELSE Breaks
    /\ KeyStart(u, v)
    /\ Push(u, v, InitLine(0, NewKeyPair(u, v)))
    /\ UNCHANGED online

RecvInit(u, v) ==
    /\ Reads(u, v, "init")
    /\ LET m == Head(net[v][u]) IN
        /\ KeyOnInit(u, v, m.n, m.pub)
        /\ net' = [net EXCEPT ![v][u] = Tail(@),
                              ![u][v] = Append(@, AckLine(m.n, NewKeyPair(u, v)))]
    /\ UNCHANGED <<online, breaks>>

IgnoreInit(u, v) ==
    /\ Reads(u, v, "init")
    /\ WinsTie(u, v, peers[u][v], Head(net[v][u]).n)
    /\ Pop(v, u)
    /\ UNCHANGED <<keyVars, online, breaks>>

FailInit(u, v) ==
    /\ KeygenMayFail
    /\ Reads(u, v, "init")
    /\ KeyOnInitFails(u, v, Head(net[v][u]).n)
    /\ Pop(v, u)
    /\ UNCHANGED <<online, breaks>>

RecvAck(u, v) ==
    /\ Reads(u, v, "ack")
    /\ LET m == Head(net[v][u]) IN KeyOnAck(u, v, m.n, m.pub)
    /\ Pop(v, u)
    /\ UNCHANGED <<online, breaks>>

RefuseAck(u, v) ==
    /\ Reads(u, v, "ack")
    /\ ~AckExpected(peers[u][v], Head(net[v][u]).n)
    /\ Pop(v, u)
    /\ UNCHANGED <<keyVars, online, breaks>>

SendMsg(u, v) ==
    /\ online[u]
    /\ sent[u][v] < MaxMessages
    /\ KeySeal(u, v)
    /\ Push(u, v, MsgLine(Ciphertext(u, v, peers[u][v], sent[u][v])))
    /\ UNCHANGED <<online, breaks>>

RecvMsg(u, v) ==
    /\ Reads(u, v, "msg")
    /\ KeyOpen(u, v, Head(net[v][u]).ct)
    /\ Pop(v, u)
    /\ UNCHANGED <<online, breaks>>

RefuseMsg(u, v) ==
    /\ Reads(u, v, "msg")
    /\ ~Opens(u, v, peers[u][v], Head(net[v][u]).ct)
    /\ Pop(v, u)
    /\ UNCHANGED <<keyVars, online, breaks>>

Tick(u, due) ==
    /\ online[u]
    /\ \A v \in due : gen[u][v] < MaxKeyPairs
    /\ KeyTick(u, due)
    /\ net' = [net EXCEPT ![u] = [v \in Users |->
                IF v \in due
                THEN Append(@[v], InitLine(NextEpoch(peers[u][v]), NewKeyPair(u, v)))
                ELSE @[v]]]
    /\ UNCHANGED <<online, breaks>>

WindowCloses(u, v) ==
    /\ GraceElapses(u, v)
    /\ UNCHANGED <<net, online, breaks>>

Logout(u) ==
    /\ online[u] /\ Breaks
    /\ KeyForget(u)
    /\ online' = [online EXCEPT ![u] = FALSE]
    /\ UNCHANGED net

Login(u) ==
    /\ ~online[u]
    /\ online' = [online EXCEPT ![u] = TRUE]
    /\ UNCHANGED <<keyVars, net, breaks>>

\* The relay has nobody to give the line to, or had given it to a connection
\* that is gone.
RelayDrops(u, v) ==
    /\ ~online[v] /\ net[u][v] # <<>>
    /\ Pop(u, v)
    /\ UNCHANGED <<keyVars, online, breaks>>

\* The last line of a client that is gone had not left its machine.
SenderLoses(u, v) ==
    /\ ~online[u] /\ net[u][v] # <<>>
    /\ net' = [net EXCEPT ![u][v] = SubSeq(@, 1, Len(@) - 1)]
    /\ UNCHANGED <<keyVars, online, breaks>>

Receive(u, v) ==
    \/ RecvInit(u, v) \/ IgnoreInit(u, v) \/ FailInit(u, v)
    \/ RecvAck(u, v) \/ RefuseAck(u, v)
    \/ RecvMsg(u, v) \/ RefuseMsg(u, v)

Timer(u) == \E due \in SUBSET (Users \ {u}) : Tick(u, due)

Next ==
    \/ \E u, v \in Users : u # v /\
        \/ Start(u, v) \/ SendMsg(u, v)
        \/ Receive(u, v)
        \/ WindowCloses(u, v)
        \/ RelayDrops(u, v) \/ SenderLoses(u, v)
    \/ \E u \in Users : Timer(u) \/ Logout(u) \/ Login(u)

Spec == Init /\ [][Next]_vars

(***************************************************************************)
(* Every client's reader and timer threads keep running, time passes, and  *)
(* a client that went away comes back.  Nobody is obliged to type.         *)
(***************************************************************************)
Fairness ==
    /\ \A u, v \in Users : u # v =>
        /\ WF_vars(Receive(u, v))
        /\ WF_vars(WindowCloses(u, v))
    /\ \A u \in Users : WF_vars(Timer(u)) /\ WF_vars(Login(u))

FairSpec == Spec /\ Fairness

-----------------------------------------------------------------------------
TypeOK ==
    /\ KeyTypeOK
    /\ net \in [Users -> [Users -> Seq(LineType)]]
    /\ online \in [Users -> BOOLEAN]
    /\ breaks \in Nat

(***************************************************************************)
(* What holds between the two ends of a session until one of them breaks   *)
(* it off: after that its first epoch comes again, and until the peer has  *)
(* read the new INIT the two differ.                                       *)
(***************************************************************************)
Unbroken == breaks = 0

\* One epoch, one key, and nobody is more than one epoch ahead.
SessionAgrees == Unbroken => SameEpochSameKey /\ EpochSkew

\* The implicit counters of the two ends stay in step.
SessionLockstep == Unbroken => Lockstep

\* Messages in flight across a rotation still decrypt.
SessionDecrypts == Unbroken => InFlightDecrypts

\* An epoch follows the one before it.
SessionInOrder == [][Unbroken' => EpochFollows]_vars
=============================================================================
