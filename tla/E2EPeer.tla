------------------------------- MODULE E2EPeer -------------------------------
(***************************************************************************)
(* The per-peer record of e2e::Manager and what each of its methods does   *)
(* to that record.  Constant-level: the modules that EXTEND this one say   *)
(* when a method runs and where its arguments come from.                   *)
(*                                                                         *)
(* A user is a natural number, its rank in the lexicographic order of      *)
(* usernames, so `me < peer' is the a-side test of the code.  An ephemeral *)
(* DH key pair is the triple <<u, v, i>>: the i-th pair u made for v.  Its *)
(* public value identifies it, and the shared secret of two pairs is the   *)
(* unordered set of the two (g^xy = g^yx).  An epoch key is the number of  *)
(* the epoch, the secret and a direction, the inputs of derive().          *)
(***************************************************************************)
EXTENDS Naturals

CONSTANTS
    Users,         \* usernames, as ranks in their order
    EpochNumbers   \* the values of the epoch counter: 0 .. 2^32 - 1 in the code

ASSUME UsersAssumption == Users \subseteq Nat
ASSUME EpochAssumption == EpochNumbers \subseteq Nat /\ 0 \in EpochNumbers

KeyPairs == Users \X Users \X Nat
NoKeyPair == <<>>                  \* next_kp of a peer that never generated one

EpochType == [n : EpochNumbers, z : SUBSET KeyPairs, tx : Nat, rx : Nat]

PeerType ==
    [st : {"none", "pending", "up"},    \* "none": no entry in peers_
     cur : EpochType,
     havePrev : BOOLEAN,
     prev : EpochType,
     grace : BOOLEAN,                   \* Clock::now() < grace_until
     rotating : BOOLEAN,
     nextEpoch : EpochNumbers,
     nextKp : KeyPairs \cup {NoKeyPair}]

NullEpoch == [n |-> 0, z |-> {}, tx |-> 0, rx |-> 0]

NullPeer ==
    [st |-> "none", cur |-> NullEpoch, havePrev |-> FALSE, prev |-> NullEpoch,
     grace |-> FALSE, rotating |-> FALSE, nextEpoch |-> 0, nextKp |-> NoKeyPair]

\* The key a user seals with: k_a2b on the a-side, k_b2a on the other.
Dir(from, to) == IF from < to THEN "a2b" ELSE "b2a"

Derive(n, z) == [n |-> n, z |-> z, tx |-> 0, rx |-> 0]

(***************************************************************************)
(* Manager::start: the old entry, whatever it was, is replaced.            *)
(***************************************************************************)
Started(k) ==
    [NullPeer EXCEPT !.st = "pending", !.rotating = TRUE, !.nextKp = k]

(***************************************************************************)
(* Manager::on_init.                                                       *)
(***************************************************************************)
Collides(p, n) == p.rotating /\ p.nextEpoch = n

\* Mutants: nobody wins; both sides think they win.
WinsTieNever(me, peer, p, n) == FALSE
WinsTieBoth(me, peer, p, n) == Collides(p, n)

WinsTie(me, peer, p, n) == Collides(p, n) /\ me < peer

\* What is left when key generation fails: the loser has already dropped its INIT.
InitFailed(p, n) == [p EXCEPT !.rotating = @ /\ p.nextEpoch # n]

\* The current epoch becomes the previous one and its grace window opens.
Retire(p) == [p EXCEPT !.prev = p.cur, !.havePrev = TRUE, !.grace = TRUE]

\* Mutant: the old epoch is overwritten.
InitAnsweredOver(p, n, k, pub) ==
    [p EXCEPT !.st = "up", !.cur = Derive(n, {k, pub}), !.rotating = FALSE]

InitAnswered(p, n, k, pub) ==
    IF p.st = "none"
    THEN [NullPeer EXCEPT !.st = "up", !.cur = Derive(n, {k, pub})]
    ELSE [Retire(p) EXCEPT !.st = "up", !.cur = Derive(n, {k, pub}),
                           !.rotating = FALSE]

(***************************************************************************)
(* Manager::on_ack.  Only the epoch number is compared: nothing ties the   *)
(* ACK to one INIT.                                                        *)
(***************************************************************************)
AckExpected(p, n) == p.st # "none" /\ p.rotating /\ p.nextEpoch = n

AckTaken(p, pub) ==
    [(IF p.st = "up" THEN Retire(p) ELSE p)
        EXCEPT !.st = "up", !.cur = Derive(p.nextEpoch, {p.nextKp, pub}),
               !.rotating = FALSE]

(***************************************************************************)
(* Manager::seal and Manager::open.  A ciphertext opens under an epoch if  *)
(* it was sealed with the same key and with the nonce the receiver is at.  *)
(***************************************************************************)
CipherType ==
    [by : Users, to : Users, n : EpochNumbers, z : SUBSET KeyPairs,
     dir : {"a2b", "b2a"}, seq : Nat, id : Nat]

Ciphertext(me, peer, p, id) ==
    [by |-> me, to |-> peer, n |-> p.cur.n, z |-> p.cur.z,
     dir |-> Dir(me, peer), seq |-> p.cur.tx, id |-> id]

\* Mutant: the nonce counter is not advanced.
SealedAgain(p) == p

Sealed(p) == [p EXCEPT !.cur.tx = @ + 1]

Decrypts(e, dir, c) ==
    c.n = e.n /\ c.z = e.z /\ c.dir = dir /\ c.seq = e.rx

OpensCur(me, peer, p, c) ==
    p.st = "up" /\ c.n = p.cur.n /\ Decrypts(p.cur, Dir(peer, me), c)

OpensPrev(me, peer, p, c) ==
    /\ p.st = "up"
    /\ c.n # p.cur.n
    /\ p.havePrev /\ c.n = p.prev.n /\ p.grace
    /\ Decrypts(p.prev, Dir(peer, me), c)

Opens(me, peer, p, c) == OpensCur(me, peer, p, c) \/ OpensPrev(me, peer, p, c)

\* Mutant: a message of the previous epoch advances the current counter.
OpenedCurrent(me, peer, p, c) == [p EXCEPT !.cur.rx = @ + 1]

Opened(me, peer, p, c) ==
    IF OpensCur(me, peer, p, c) THEN [p EXCEPT !.cur.rx = @ + 1]
                                ELSE [p EXCEPT !.prev.rx = @ + 1]

(***************************************************************************)
(* Manager::tick, for one entry: the grace window is expired first, then a *)
(* rotation that is due is begun.                                          *)
(***************************************************************************)
\* Mutant: the counter of the last own INIT is used.
NextEpochOwn(p) == p.nextEpoch + 1

NextEpoch(p) == p.cur.n + 1

MayRotate(p) == p.st = "up" /\ ~p.rotating /\ NextEpoch(p) \in EpochNumbers

\* Mutant: the previous epoch is kept.
ExpiredNever(p) == p

Expired(p) == [p EXCEPT !.havePrev = @ /\ p.grace]

Rotated(p, k) ==
    [Expired(p) EXCEPT !.rotating = TRUE, !.nextEpoch = NextEpoch(p), !.nextKp = k]
=============================================================================
