------------------------------ MODULE EpochKeys ------------------------------
(***************************************************************************)
(* What the Managers of all users do to their key state, one action per    *)
(* method, when any key-exchange message may arrive at any time: an INIT   *)
(* or an ACK carries any epoch number and any public value its sender ever *)
(* made for its receiver.  Loss, delay, duplication and reordering of      *)
(* messages, restarts, and every schedule of the client's threads are all  *)
(* behaviours of this specification.  E2E and ClientThreads add the wires  *)
(* and the threads, and implement it.                                      *)
(***************************************************************************)
EXTENDS E2EPeer

VARIABLES
    peers,    \* peers[u][v]: the entry for v in u's Manager
    gen,      \* gen[u][v]: how many key pairs u has generated for v
    sent,     \* sent[u][v]: how many messages u has sealed for v
    sealed    \* every ciphertext ever sealed (history)

keyVars == <<peers, gen, sent, sealed>>

Update(u, v, p) == peers' = [peers EXCEPT ![u][v] = p]

NewKeyPair(u, v) == <<u, v, gen[u][v]>>

Generate(u, v) == gen' = [gen EXCEPT ![u][v] = @ + 1]

\* The first m key pairs of u for v.
Made(u, v, m) == {<<u, v, i>> : i \in 0 .. m - 1}

PublicValues(u, v) == Made(u, v, gen[u][v])

KeyInit ==
    /\ peers = [u \in Users |-> [v \in Users |-> NullPeer]]
    /\ gen = [u \in Users |-> [v \in Users |-> 0]]
    /\ sent = [u \in Users |-> [v \in Users |-> 0]]
    /\ sealed = {}

KeyStart(u, v) ==
    /\ u # v
    /\ Update(u, v, Started(NewKeyPair(u, v)))
    /\ Generate(u, v)
    /\ UNCHANGED <<sent, sealed>>

KeyOnInit(u, v, n, pub) ==
    /\ ~WinsTie(u, v, peers[u][v], n)
    /\ Update(u, v, InitAnswered(peers[u][v], n, NewKeyPair(u, v), pub))
    /\ Generate(u, v)
    /\ UNCHANGED <<sent, sealed>>

KeyOnInitFails(u, v, n) ==
    /\ ~WinsTie(u, v, peers[u][v], n)
    /\ Update(u, v, InitFailed(peers[u][v], n))
    /\ UNCHANGED <<gen, sent, sealed>>

KeyOnAck(u, v, n, pub) ==
    /\ AckExpected(peers[u][v], n)
    /\ Update(u, v, AckTaken(peers[u][v], pub))
    /\ UNCHANGED <<gen, sent, sealed>>

KeySeal(u, v) ==
    /\ peers[u][v].st = "up"
    /\ sealed' = sealed \cup {Ciphertext(u, v, peers[u][v], sent[u][v])}
    /\ sent' = [sent EXCEPT ![u][v] = @ + 1]
    /\ Update(u, v, Sealed(peers[u][v]))
    /\ UNCHANGED gen

KeyOpen(u, v, c) ==
    /\ Opens(u, v, peers[u][v], c)
    /\ Update(u, v, Opened(u, v, peers[u][v], c))
    /\ UNCHANGED <<gen, sent, sealed>>

\* One pass of tick over u's entries; `due' are the peers whose epoch is old
\* enough and whose key generation succeeds.
KeyTick(u, due) ==
    /\ \A v \in due : MayRotate(peers[u][v])
    /\ peers' = [peers EXCEPT ![u] = [v \in Users |->
                    IF v \in due THEN Rotated(peers[u][v], NewKeyPair(u, v))
                                 ELSE Expired(peers[u][v])]]
    /\ gen' = [gen EXCEPT ![u] = [v \in Users |->
                    IF v \in due THEN gen[u][v] + 1 ELSE gen[u][v]]]
    /\ UNCHANGED <<sent, sealed>>

GraceElapses(u, v) ==
    /\ peers[u][v].grace
    /\ Update(u, v, [peers[u][v] EXCEPT !.grace = FALSE])
    /\ UNCHANGED <<gen, sent, sealed>>

\* The client process ends: its Manager is gone.
KeyForget(u) ==
    /\ peers' = [peers EXCEPT ![u] = [v \in Users |-> NullPeer]]
    /\ UNCHANGED <<gen, sent, sealed>>

KeyNext ==
    \/ \E u, v \in Users : u # v /\
        \/ KeyStart(u, v)
        \/ \E n \in EpochNumbers :
            \/ \E pub \in PublicValues(v, u) :
                KeyOnInit(u, v, n, pub) \/ KeyOnAck(u, v, n, pub)
            \/ KeyOnInitFails(u, v, n)
        \/ KeySeal(u, v)
        \/ \E c \in sealed : KeyOpen(u, v, c)
        \/ GraceElapses(u, v)
    \/ \E u \in Users : KeyForget(u) \/ \E due \in SUBSET (Users \ {u}) : KeyTick(u, due)

KeySpec == KeyInit /\ [][KeyNext]_keyVars

KeyTypeOK ==
    /\ peers \in [Users -> [Users -> PeerType]]
    /\ gen \in [Users -> [Users -> Nat]]
    /\ sent \in [Users -> [Users -> Nat]]
    /\ sealed \subseteq CipherType

(***************************************************************************)
(* No two messages are ever sealed with the same key and the same nonce.   *)
(* The nonce is the salt of the epoch and the counter tx, which derive()   *)
(* resets to zero: a key that became current twice, after a restart, a     *)
(* crossed INIT or an ACK for another INIT, would reuse its nonces.        *)
(***************************************************************************)
NonceFresh ==
    \A c, d \in sealed :
        (c.n = d.n /\ c.z = d.z /\ c.dir = d.dir /\ c.seq = d.seq) => c = d

(***************************************************************************)
(* A step that gives u a new current key for v gives it one under which u  *)
(* has sealed nothing for v yet: on_init and on_ack never bring an earlier *)
(* epoch key back.                                                         *)
(***************************************************************************)
NewKeyIsUnused ==
    [][\A u, v \in Users :
        (peers'[u][v].st = "up" /\ peers'[u][v].cur.z # peers[u][v].cur.z)
            => \A c \in sealed : c.by = u /\ c.to = v => c.z # peers'[u][v].cur.z
      ]_keyVars

-----------------------------------------------------------------------------
(***************************************************************************)
(* The inductive invariant behind NonceFresh.  m and n are how many key    *)
(* pairs u and v have made for each other, S is the set sealed.            *)
(***************************************************************************)
\* z is the secret of a key pair u made for v and one v made for u.
SecretOf(z, u, v, m, n) ==
    \E a \in Made(u, v, m), b \in Made(v, u, n) : z = {a, b}

\* The counter is past every nonce u has used with its current key for v.
CounterAhead(u, v, p, S) ==
    \A c \in S : c.by = u /\ c.to = v /\ c.z = p.cur.z => c.seq < p.cur.tx

\* The key pair of an INIT that is still open has been used for nothing.
PendingUnused(u, v, p, S) ==
    /\ p.st = "up" => p.nextKp \notin p.cur.z
    /\ \A c \in S : c.by = u /\ c.to = v => p.nextKp \notin c.z

EntryOK(u, v, p, m, n, S) ==
    /\ p.st = "up" => SecretOf(p.cur.z, u, v, m, n) /\ CounterAhead(u, v, p, S)
    /\ p.rotating => p.nextKp \in Made(u, v, m) /\ PendingUnused(u, v, p, S)

CipherOK(c, m, n) ==
    c.by # c.to /\ c.dir = Dir(c.by, c.to) /\ SecretOf(c.z, c.by, c.to, m, n)

NonceOnce(S) ==
    \A c, d \in S : c.z = d.z /\ c.dir = d.dir /\ c.seq = d.seq => c = d

KeyInv ==
    /\ KeyTypeOK
    /\ \A u, v \in Users :
            u # v => EntryOK(u, v, peers[u][v], gen[u][v], gen[v][u], sealed)
    /\ \A c \in sealed : CipherOK(c, gen[c.by][c.to], gen[c.to][c.by])
    /\ NonceOnce(sealed)
=============================================================================
