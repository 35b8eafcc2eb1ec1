------------------------------ MODULE KeyProofs ------------------------------
(***************************************************************************)
(* Proofs about the keys of end-to-end sessions, for every set of users    *)
(* and every range of the epoch counter: of EpochKeys; of E2E, whose       *)
(* Managers are driven one event at a time; and of ClientThreads, whose    *)
(* threads are.                                                            *)
(***************************************************************************)
EXTENDS E2ESession, ClientThreads, TLAPS, SequenceTheorems, FiniteSetTheorems

-----------------------------------------------------------------------------
(***************************************************************************)
(* Proofs about EpochKeys, for every set of users and every range of the   *)
(* epoch counter: type correctness, and that no nonce is used twice; and   *)
(* what E2E and ClientThreads need of the lines between clients.           *)
(***************************************************************************)
(***************************************************************************)
(* Each method of Manager yields a well-formed entry from a well-formed    *)
(* one.                                                                    *)
(***************************************************************************)
LEMMA PeerTypes ==
    ASSUME NEW p \in PeerType, NEW k \in KeyPairs, NEW pub \in KeyPairs,
           NEW n \in EpochNumbers
    PROVE  /\ NullPeer \in PeerType
           /\ Started(k) \in PeerType
           /\ InitFailed(p, n) \in PeerType
           /\ InitAnswered(p, n, k, pub) \in PeerType
           /\ AckExpected(p, n) /\ p.nextKp \in KeyPairs => AckTaken(p, pub) \in PeerType
           /\ Sealed(p) \in PeerType
           /\ [p EXCEPT !.cur.rx = @ + 1] \in PeerType
           /\ [p EXCEPT !.prev.rx = @ + 1] \in PeerType
           /\ [p EXCEPT !.grace = FALSE] \in PeerType
           /\ Expired(p) \in PeerType
           /\ MayRotate(p) => Rotated(p, k) \in PeerType
<1>0. NullEpoch \in EpochType
  BY EpochAssumption DEF NullEpoch, EpochType
<1>1. NullPeer \in PeerType
  BY <1>0, EpochAssumption DEF NullPeer, PeerType
<1>2. \A m \in EpochNumbers, z \in SUBSET KeyPairs : Derive(m, z) \in EpochType
  BY DEF Derive, EpochType
<1>3. {k, pub} \in SUBSET KeyPairs /\ (p.nextKp \in KeyPairs => {p.nextKp, pub} \in SUBSET KeyPairs)
  OBVIOUS
<1>4. Started(k) \in PeerType
  BY <1>1 DEF Started, PeerType
<1>5. InitFailed(p, n) \in PeerType /\ Expired(p) \in PeerType
      /\ [p EXCEPT !.grace = FALSE] \in PeerType
  BY DEF InitFailed, Expired, PeerType
<1>6. Retire(p) \in PeerType
  BY DEF Retire, PeerType
<1>7. InitAnswered(p, n, k, pub) \in PeerType
  BY <1>1, <1>2, <1>3, <1>6 DEF InitAnswered, PeerType
<1>8. AckExpected(p, n) /\ p.nextKp \in KeyPairs => AckTaken(p, pub) \in PeerType
  <2> SUFFICES ASSUME p.nextKp \in KeyPairs PROVE AckTaken(p, pub) \in PeerType
    OBVIOUS
  <2>1. Derive(p.nextEpoch, {p.nextKp, pub}) \in EpochType
    BY <1>2, <1>3 DEF PeerType
  <2> QED BY <1>6, <2>1 DEF AckTaken, PeerType
<1>9. Sealed(p) \in PeerType /\ [p EXCEPT !.cur.rx = @ + 1] \in PeerType
      /\ [p EXCEPT !.prev.rx = @ + 1] \in PeerType
  BY DEF Sealed, PeerType, EpochType
<1>10. MayRotate(p) => Rotated(p, k) \in PeerType
  BY <1>5 DEF MayRotate, NextEpoch, Rotated, PeerType
<1> QED BY <1>1, <1>4, <1>5, <1>7, <1>8, <1>9, <1>10

(***************************************************************************)
(* Reading an updated matrix.                                              *)
(***************************************************************************)
LEMMA MatrixUpdate ==
    ASSUME NEW S, NEW M, NEW m \in [Users -> [Users -> S]],
           NEW u \in Users, NEW v \in Users, NEW e \in S,
           M = [m EXCEPT ![u][v] = e]
    PROVE  /\ M \in [Users -> [Users -> S]]
           /\ \A x, y \in Users : M[x][y] = IF x = u /\ y = v THEN e ELSE m[x][y]
OBVIOUS

\* Replacing one user's row of a table changes no other row.
LEMMA RowUpdate ==
    ASSUME NEW S, NEW M, NEW m \in [Users -> [Users -> S]],
           NEW u \in Users, NEW r \in [Users -> S],
           M = [m EXCEPT ![u] = r]
    PROVE  /\ M \in [Users -> [Users -> S]]
           /\ \A x, y \in Users : M[x][y] = IF x = u THEN r[y] ELSE m[x][y]
OBVIOUS

\* A pair just generated is a key pair.
LEMMA FreshPairType ==
    ASSUME KeyTypeOK, NEW u \in Users, NEW v \in Users
    PROVE  /\ NewKeyPair(u, v) \in KeyPairs
           /\ PublicValues(u, v) \subseteq KeyPairs
           /\ peers[u][v] \in PeerType
           /\ gen[u][v] \in Nat /\ sent[u][v] \in Nat
BY DEF KeyTypeOK, NewKeyPair, PublicValues, Made, KeyPairs

\* KeyPair::generate counts up for one peer only.
LEMMA GenerateType ==
    ASSUME KeyTypeOK, NEW u \in Users, NEW v \in Users, Generate(u, v)
    PROVE  /\ gen' \in [Users -> [Users -> Nat]]
           /\ \A x, y \in Users :
                /\ gen'[x][y] = IF x = u /\ y = v THEN gen[x][y] + 1 ELSE gen[x][y]
                /\ gen[x][y] <= gen'[x][y]
<1>1. gen' = [gen EXCEPT ![u][v] = gen[u][v] + 1]
  BY DEF Generate
<1>2. gen \in [Users -> [Users -> Nat]] /\ gen[u][v] + 1 \in Nat
  BY DEF KeyTypeOK
<1>3. /\ gen' \in [Users -> [Users -> Nat]]
      /\ \A x, y \in Users :
            gen'[x][y] = IF x = u /\ y = v THEN gen[u][v] + 1 ELSE gen[x][y]
  BY <1>1, <1>2, MatrixUpdate
<1>4. \A x, y \in Users : gen[x][y] \in Nat
  BY <1>2
<1> QED BY <1>3, <1>4

\* A well-formed entry put into peers_ leaves it well formed.
LEMMA UpdateType ==
    ASSUME KeyTypeOK, NEW u \in Users, NEW v \in Users, NEW p \in PeerType,
           Update(u, v, p)
    PROVE  /\ peers' \in [Users -> [Users -> PeerType]]
           /\ \A x, y \in Users :
                peers'[x][y] = IF x = u /\ y = v THEN p ELSE peers[x][y]
<1>1. peers' = [peers EXCEPT ![u][v] = p]
  BY DEF Update
<1>2. peers \in [Users -> [Users -> PeerType]]
  BY DEF KeyTypeOK
<1> QED BY <1>1, <1>2, MatrixUpdate

-----------------------------------------------------------------------------
(***************************************************************************)
(* Key pairs and secrets.                                                  *)
(***************************************************************************)
LEMMA MadeMonotone ==
    ASSUME NEW m \in Nat, NEW m2 \in Nat, m <= m2, NEW u, NEW v
    PROVE  Made(u, v, m) \subseteq Made(u, v, m2)
<1>1. 0 .. m - 1 \subseteq 0 .. m2 - 1
  OBVIOUS
<1> QED BY <1>1, Zenon DEF Made

\* A secret of pairs made so far stays one when more pairs are made.
LEMMA SecretMonotone ==
    ASSUME NEW m \in Nat, NEW m2 \in Nat, m <= m2,
           NEW n \in Nat, NEW n2 \in Nat, n <= n2,
           NEW u, NEW v, NEW z, SecretOf(z, u, v, m, n)
    PROVE  SecretOf(z, u, v, m2, n2)
<1>1. PICK a \in Made(u, v, m), b \in Made(v, u, n) : z = {a, b}
  BY DEF SecretOf
<1>2. Made(u, v, m) \subseteq Made(u, v, m2) /\ Made(v, u, n) \subseteq Made(v, u, n2)
  BY MadeMonotone
<1> QED BY <1>1, <1>2, Zenon DEF SecretOf

\* An entry's invariant survives the generation of more pairs.
LEMMA EntryMonotone ==
    ASSUME NEW m \in Nat, NEW m2 \in Nat, m <= m2,
           NEW n \in Nat, NEW n2 \in Nat, n <= n2,
           NEW u, NEW v, NEW p, NEW S, EntryOK(u, v, p, m, n, S)
    PROVE  EntryOK(u, v, p, m2, n2, S)
<1>1. Made(u, v, m) \subseteq Made(u, v, m2)
  BY MadeMonotone
<1>2. SecretOf(p.cur.z, u, v, m, n) => SecretOf(p.cur.z, u, v, m2, n2)
  BY SecretMonotone
<1> QED BY <1>1, <1>2, Zenon DEF EntryOK

\* A secret belongs to one pair of users.
LEMMA SecretOwners ==
    ASSUME NEW u, NEW v, NEW x, NEW y, u # v, x # y, NEW z,
           NEW m \in Nat, NEW n \in Nat, NEW m2 \in Nat, NEW n2 \in Nat,
           SecretOf(z, u, v, m, n), SecretOf(z, x, y, m2, n2)
    PROVE  (x = u /\ y = v) \/ (x = v /\ y = u)
<1>1. PICK a \in Made(u, v, m), b \in Made(v, u, n) : z = {a, b}
  BY DEF SecretOf
<1>2. PICK c \in Made(x, y, m2), d \in Made(y, x, n2) : z = {c, d}
  BY DEF SecretOf
<1>3. PICK i : a = <<u, v, i>>
  BY DEF Made
<1>4. PICK j : b = <<v, u, j>>
  BY DEF Made
<1>5. PICK k : c = <<x, y, k>>
  BY DEF Made
<1>6. c = a \/ c = b
  BY <1>1, <1>2
<1> QED BY <1>3, <1>4, <1>5, <1>6

\* The two directions of a pair of users have different keys.
LEMMA DirInjective ==
    ASSUME NEW u \in Users, NEW v \in Users, u # v
    PROVE  Dir(u, v) # Dir(v, u)
BY UsersAssumption DEF Dir

\* A key pair that was not made yet is part of no secret.
LEMMA FreshInNoSecret ==
    ASSUME NEW u, NEW v, u # v, NEW z, NEW m \in Nat, NEW n \in Nat,
           SecretOf(z, u, v, m, n)
    PROVE  <<u, v, m>> \notin z
<1>1. PICK a \in Made(u, v, m), b \in Made(v, u, n) : z = {a, b}
  BY DEF SecretOf
<1>2. <<u, v, m>> # a
  BY DEF Made
<1>3. <<u, v, m>> # b
  BY DEF Made
<1> QED BY <1>1, <1>2, <1>3

(***************************************************************************)
(* A step that seals nothing, makes key pairs at most, and leaves every    *)
(* entry as it was or replaces it by one that is in order, keeps KeyInv.   *)
(***************************************************************************)
LEMMA EntryStep ==
    ASSUME KeyInv,
           peers' \in [Users -> [Users -> PeerType]],
           gen' \in [Users -> [Users -> Nat]],
           \A x, y \in Users : gen[x][y] <= gen'[x][y],
           UNCHANGED <<sent, sealed>>,
           \A x, y \in Users : x # y =>
                \/ peers'[x][y] = peers[x][y]
                \/ EntryOK(x, y, peers'[x][y], gen'[x][y], gen'[y][x], sealed)
    PROVE  KeyInv'
<1>1. KeyTypeOK'
  BY DEF KeyInv, KeyTypeOK
<1>2. /\ sealed \subseteq CipherType
      /\ \A x, y \in Users : gen[x][y] \in Nat /\ gen'[x][y] \in Nat
  BY DEF KeyInv, KeyTypeOK
<1>3. ASSUME NEW x \in Users, NEW y \in Users, x # y
      PROVE  EntryOK(x, y, peers'[x][y], gen'[x][y], gen'[y][x], sealed')
  <2>1. EntryOK(x, y, peers[x][y], gen[x][y], gen[y][x], sealed)
    BY <1>3 DEF KeyInv
  <2>2. EntryOK(x, y, peers[x][y], gen'[x][y], gen'[y][x], sealed)
    BY <1>2, <2>1, EntryMonotone
  <2> QED BY <1>3, <2>2
<1>4. ASSUME NEW c \in sealed' PROVE CipherOK(c, gen'[c.by][c.to], gen'[c.to][c.by])
  <2>1. CipherOK(c, gen[c.by][c.to], gen[c.to][c.by]) /\ c.by \in Users /\ c.to \in Users
    BY <1>2 DEF KeyInv, CipherType
  <2>2. SecretOf(c.z, c.by, c.to, gen[c.by][c.to], gen[c.to][c.by])
    BY <2>1 DEF CipherOK
  <2>3. SecretOf(c.z, c.by, c.to, gen'[c.by][c.to], gen'[c.to][c.by])
    BY <1>2, <2>1, <2>2, SecretMonotone
  <2> QED BY <2>1, <2>3 DEF CipherOK
<1>5. NonceOnce(sealed')
  BY DEF KeyInv
<1> QED BY <1>1, <1>3, <1>4, <1>5 DEF KeyInv

\* The same for a step that touches the one entry u has for v.
LEMMA OneEntryStep ==
    ASSUME KeyInv, NEW u \in Users, NEW v \in Users, u # v,
           NEW p \in PeerType, Update(u, v, p),
           gen' \in [Users -> [Users -> Nat]],
           \A x, y \in Users : gen[x][y] <= gen'[x][y],
           UNCHANGED <<sent, sealed>>,
           EntryOK(u, v, p, gen'[u][v], gen'[v][u], sealed)
    PROVE  KeyInv'
<1>1. KeyTypeOK
  BY DEF KeyInv
<1>2. /\ peers' \in [Users -> [Users -> PeerType]]
      /\ \A x, y \in Users :
            peers'[x][y] = IF x = u /\ y = v THEN p ELSE peers[x][y]
  BY <1>1, UpdateType
<1> QED BY <1>1, <1>2, EntryStep

\* The same again for a step that generates no key pair.
LEMMA QuietEntryStep ==
    ASSUME KeyInv, NEW u \in Users, NEW v \in Users, u # v,
           NEW p \in PeerType, Update(u, v, p), UNCHANGED <<gen, sent, sealed>>,
           EntryOK(u, v, p, gen[u][v], gen[v][u], sealed)
    PROVE  KeyInv'
<1>1. gen \in [Users -> [Users -> Nat]]
  BY DEF KeyInv, KeyTypeOK
<1>2. \A x, y \in Users : gen[x][y] <= gen'[x][y]
  BY <1>1
<1> QED BY <1>1, <1>2, OneEntryStep

\* What the invariant says of a key pair that is about to be made.
LEMMA FreshPair ==
    ASSUME KeyInv, NEW u \in Users, NEW v \in Users, u # v
    PROVE  /\ peers[u][v].st = "up" => NewKeyPair(u, v) \notin peers[u][v].cur.z
           /\ \A c \in sealed :
                c.by = u /\ c.to = v => NewKeyPair(u, v) \notin c.z
<1>1. gen[u][v] \in Nat /\ gen[v][u] \in Nat
  BY DEF KeyInv, KeyTypeOK
<1>2. peers[u][v].st = "up" =>
        SecretOf(peers[u][v].cur.z, u, v, gen[u][v], gen[v][u])
  BY DEF KeyInv, EntryOK
<1>3. \A c \in sealed : c.by = u /\ c.to = v =>
        SecretOf(c.z, u, v, gen[u][v], gen[v][u])
  BY DEF KeyInv, CipherOK
<1> QED BY <1>1, <1>2, <1>3, FreshInNoSecret DEF NewKeyPair

\* Reading a message changes the receive side only.
LEMMA OpenedFields ==
    ASSUME NEW p \in PeerType, NEW u, NEW v, NEW c
    PROVE  LET q == Opened(u, v, p, c) IN
            /\ q \in PeerType
            /\ q.st = p.st /\ q.rotating = p.rotating /\ q.nextKp = p.nextKp
            /\ q.cur.z = p.cur.z /\ q.cur.tx = p.cur.tx
BY DEF Opened, PeerType, EpochType

\* Sealing a message moves the send counter only.
LEMMA SealedFields ==
    ASSUME NEW p \in PeerType
    PROVE  LET q == Sealed(p) IN
            /\ q \in PeerType
            /\ q.st = p.st /\ q.rotating = p.rotating /\ q.nextKp = p.nextKp
            /\ q.cur.z = p.cur.z /\ q.cur.tx = p.cur.tx + 1
BY DEF Sealed, PeerType, EpochType

\* An entry in order stays in order when at most its receive side changes.
LEMMA SameKeyEntry ==
    ASSUME NEW u, NEW v, NEW p, NEW q, NEW m, NEW n, NEW S,
           EntryOK(u, v, p, m, n, S),
           q.st = p.st, q.rotating => p.rotating, q.nextKp = p.nextKp,
           q.cur.z = p.cur.z, q.cur.tx = p.cur.tx
    PROVE  EntryOK(u, v, q, m, n, S)
BY DEF EntryOK, CounterAhead, PendingUnused

-----------------------------------------------------------------------------
(***************************************************************************)
(* Each action keeps the invariant.                                        *)
(***************************************************************************)
LEMMA StartKeeps ==
    ASSUME KeyInv, NEW u \in Users, NEW v \in Users, u # v, KeyStart(u, v)
    PROVE  KeyInv'
<1> DEFINE k == NewKeyPair(u, v)
           p == Started(k)
<1>1. KeyTypeOK /\ k \in KeyPairs /\ gen[u][v] \in Nat /\ gen[v][u] \in Nat
  BY FreshPairType DEF KeyInv
<1>2. p \in PeerType
  BY <1>1, PeerTypes, EpochAssumption, FreshPairType
<1>3. /\ gen' \in [Users -> [Users -> Nat]]
      /\ \A x, y \in Users :
            /\ gen'[x][y] = IF x = u /\ y = v THEN gen[x][y] + 1 ELSE gen[x][y]
            /\ gen[x][y] <= gen'[x][y]
  BY <1>1, GenerateType DEF KeyStart
<1>4. \A x, y \in Users : gen[x][y] <= gen'[x][y]
  BY <1>3
<1>5. k \in Made(u, v, gen'[u][v])
  BY <1>1, <1>3 DEF Made, NewKeyPair
<1>6. p.st = "pending" /\ p.nextKp = k
  BY DEF Started, NullPeer
<1>7. PendingUnused(u, v, p, sealed)
  BY <1>6, FreshPair DEF PendingUnused
<1>8. EntryOK(u, v, p, gen'[u][v], gen'[v][u], sealed)
  BY <1>5, <1>6, <1>7 DEF EntryOK
<1> QED BY <1>2, <1>3, <1>4, <1>8, OneEntryStep DEF KeyStart

\* on_init that answers: the new secret contains a pair used for nothing before.
LEMMA OnInitKeeps ==
    ASSUME KeyInv, NEW u \in Users, NEW v \in Users, u # v, NEW n \in EpochNumbers,
           NEW pub \in PublicValues(v, u), KeyOnInit(u, v, n, pub)
    PROVE  KeyInv'
<1> DEFINE k == NewKeyPair(u, v)
           p == InitAnswered(peers[u][v], n, k, pub)
<1>1. /\ KeyTypeOK /\ k \in KeyPairs /\ pub \in KeyPairs /\ peers[u][v] \in PeerType
      /\ gen[u][v] \in Nat /\ gen[v][u] \in Nat /\ sealed \subseteq CipherType
  BY FreshPairType DEF KeyInv, KeyTypeOK
<1>2. p \in PeerType
  BY <1>1, PeerTypes
<1>3. /\ gen' \in [Users -> [Users -> Nat]]
      /\ \A x, y \in Users :
            /\ gen'[x][y] = IF x = u /\ y = v THEN gen[x][y] + 1 ELSE gen[x][y]
            /\ gen[x][y] <= gen'[x][y]
  BY <1>1, GenerateType DEF KeyOnInit
<1>4. \A x, y \in Users : gen[x][y] <= gen'[x][y]
  BY <1>3
<1>5. k \in Made(u, v, gen'[u][v]) /\ pub \in Made(v, u, gen'[v][u])
  BY <1>1, <1>3 DEF Made, NewKeyPair, PublicValues
<1>6. p.st = "up" /\ ~p.rotating /\ p.cur.z = {k, pub}
  BY <1>1 DEF InitAnswered, Retire, NullPeer, Derive, PeerType
<1>7. SecretOf(p.cur.z, u, v, gen'[u][v], gen'[v][u])
  BY <1>5, <1>6 DEF SecretOf
<1>8. CounterAhead(u, v, p, sealed)
  BY <1>6, FreshPair DEF CounterAhead
<1>9. EntryOK(u, v, p, gen'[u][v], gen'[v][u], sealed)
  BY <1>6, <1>7, <1>8 DEF EntryOK
<1> QED BY <1>2, <1>3, <1>4, <1>9, OneEntryStep DEF KeyOnInit

\* on_init whose key generation fails gives up its own INIT and nothing else.
LEMMA OnInitFailsKeeps ==
    ASSUME KeyInv, NEW u \in Users, NEW v \in Users, u # v, NEW n \in EpochNumbers,
           KeyOnInitFails(u, v, n)
    PROVE  KeyInv'
<1> DEFINE p == InitFailed(peers[u][v], n)
<1>1. KeyTypeOK /\ peers[u][v] \in PeerType
  BY FreshPairType DEF KeyInv
<1>2. p \in PeerType
  BY <1>1, PeerTypes, FreshPairType
<1>3. EntryOK(u, v, peers[u][v], gen[u][v], gen[v][u], sealed)
  BY DEF KeyInv
<1>4. /\ p.st = peers[u][v].st /\ p.cur = peers[u][v].cur
      /\ p.nextKp = peers[u][v].nextKp
      /\ p.rotating => peers[u][v].rotating
  BY <1>1 DEF InitFailed, PeerType
<1>5. EntryOK(u, v, p, gen[u][v], gen[v][u], sealed)
  BY <1>3, <1>4, SameKeyEntry
<1> QED BY <1>2, <1>5, QuietEntryStep DEF KeyOnInitFails

\* on_ack: the pending pair, used for nothing before, is in the new secret.
LEMMA OnAckKeeps ==
    ASSUME KeyInv, NEW u \in Users, NEW v \in Users, u # v, NEW n \in EpochNumbers,
           NEW pub \in PublicValues(v, u), KeyOnAck(u, v, n, pub)
    PROVE  KeyInv'
<1> DEFINE k == peers[u][v].nextKp
           p == AckTaken(peers[u][v], pub)
<1>1. /\ KeyTypeOK /\ pub \in KeyPairs /\ peers[u][v] \in PeerType
      /\ gen[u][v] \in Nat /\ gen[v][u] \in Nat
  BY FreshPairType DEF KeyInv
<1>2. AckExpected(peers[u][v], n) /\ peers[u][v].rotating
  BY DEF KeyOnAck, AckExpected
<1>3. EntryOK(u, v, peers[u][v], gen[u][v], gen[v][u], sealed)
  BY DEF KeyInv
<1>4. k \in Made(u, v, gen[u][v]) /\ PendingUnused(u, v, peers[u][v], sealed)
  BY <1>2, <1>3 DEF EntryOK
<1>5. k \in KeyPairs
  BY <1>1, <1>4 DEF Made, KeyPairs
<1>6. p \in PeerType
  BY <1>1, <1>2, <1>5, PeerTypes
<1>7. p.st = "up" /\ ~p.rotating /\ p.cur.z = {k, pub}
  BY <1>1 DEF AckTaken, Retire, Derive, PeerType
<1>8. SecretOf(p.cur.z, u, v, gen[u][v], gen[v][u])
  BY <1>4, <1>7 DEF SecretOf, PublicValues
<1>9. CounterAhead(u, v, p, sealed)
  BY <1>4, <1>7 DEF CounterAhead, PendingUnused
<1>10. EntryOK(u, v, p, gen[u][v], gen[v][u], sealed)
  BY <1>7, <1>8, <1>9 DEF EntryOK
<1> QED BY <1>6, <1>10, QuietEntryStep DEF KeyOnAck

\* open moves a receive counter only.
LEMMA OpenKeeps ==
    ASSUME KeyInv, NEW u \in Users, NEW v \in Users, u # v, NEW c \in sealed,
           KeyOpen(u, v, c)
    PROVE  KeyInv'
<1> DEFINE p == Opened(u, v, peers[u][v], c)
<1>1. peers[u][v] \in PeerType
  BY FreshPairType DEF KeyInv
<1>2. EntryOK(u, v, peers[u][v], gen[u][v], gen[v][u], sealed)
  BY DEF KeyInv
<1>3. p \in PeerType /\ EntryOK(u, v, p, gen[u][v], gen[v][u], sealed)
  BY <1>1, <1>2, OpenedFields, SameKeyEntry
<1> QED BY <1>3, QuietEntryStep DEF KeyOpen

\* The end of a grace window touches no key.
LEMMA GraceKeeps ==
    ASSUME KeyInv, NEW u \in Users, NEW v \in Users, u # v, GraceElapses(u, v)
    PROVE  KeyInv'
<1> DEFINE p == [peers[u][v] EXCEPT !.grace = FALSE]
<1>1. peers[u][v] \in PeerType
  BY FreshPairType DEF KeyInv
<1>2. EntryOK(u, v, peers[u][v], gen[u][v], gen[v][u], sealed)
  BY DEF KeyInv
<1>3. p \in PeerType
  BY <1>1 DEF PeerType
<1>4. /\ p.st = peers[u][v].st /\ p.cur = peers[u][v].cur
      /\ p.nextKp = peers[u][v].nextKp /\ p.rotating = peers[u][v].rotating
  BY <1>1 DEF PeerType
<1>5. EntryOK(u, v, p, gen[u][v], gen[v][u], sealed)
  BY <1>2, <1>4, SameKeyEntry
<1> QED BY <1>3, <1>5, QuietEntryStep DEF GraceElapses

\* A Manager that is gone has no entries to be wrong.
LEMMA ForgetKeeps ==
    ASSUME KeyInv, NEW u \in Users, KeyForget(u)
    PROVE  KeyInv'
<1>1. /\ peers \in [Users -> [Users -> PeerType]]
      /\ gen \in [Users -> [Users -> Nat]]
  BY DEF KeyInv, KeyTypeOK
<1>2. NullEpoch \in EpochType
  BY EpochAssumption DEF NullEpoch, EpochType
<1>3. NullPeer \in PeerType
  BY <1>2, EpochAssumption DEF NullPeer, PeerType
<1>4. /\ peers' \in [Users -> [Users -> PeerType]]
      /\ \A x, y \in Users :
            peers'[x][y] = IF x = u THEN NullPeer ELSE peers[x][y]
  BY <1>1, <1>3 DEF KeyForget
<1>5. gen' \in [Users -> [Users -> Nat]] /\ \A x, y \in Users : gen[x][y] <= gen'[x][y]
  BY <1>1 DEF KeyForget
<1>6. \A x, y : EntryOK(x, y, NullPeer, gen'[x][y], gen'[y][x], sealed)
  BY DEF EntryOK, NullPeer
<1> QED BY <1>4, <1>5, <1>6, EntryStep DEF KeyForget

\* tick makes pairs for the peers that are due and keeps every current key.
LEMMA TickKeeps ==
    ASSUME KeyInv, NEW u \in Users, NEW due \in SUBSET (Users \ {u}), KeyTick(u, due)
    PROVE  KeyInv'
<1>1. /\ KeyTypeOK /\ peers \in [Users -> [Users -> PeerType]]
      /\ gen \in [Users -> [Users -> Nat]]
  BY DEF KeyInv, KeyTypeOK
<1> DEFINE row == [v \in Users |->
                    IF v \in due THEN Rotated(peers[u][v], NewKeyPair(u, v))
                                 ELSE Expired(peers[u][v])]
<1>2. ASSUME NEW v \in Users PROVE row[v] \in PeerType
  <2>1. peers[u][v] \in PeerType /\ NewKeyPair(u, v) \in KeyPairs
    BY <1>1, FreshPairType
  <2>2. Expired(peers[u][v]) \in PeerType
    BY <2>1, PeerTypes, EpochAssumption
  <2>3. ASSUME v \in due PROVE Rotated(peers[u][v], NewKeyPair(u, v)) \in PeerType
    <3>1. MayRotate(peers[u][v])
      BY <2>3 DEF KeyTick
    <3> QED BY <2>1, <3>1, PeerTypes, EpochAssumption
  <2> QED BY <2>2, <2>3
<1>3. row \in [Users -> PeerType]
  BY <1>2
<1>4. /\ peers' \in [Users -> [Users -> PeerType]]
      /\ \A x, y \in Users : peers'[x][y] = IF x = u THEN row[y] ELSE peers[x][y]
  <2>1. peers' = [peers EXCEPT ![u] = row]
    BY DEF KeyTick
  <2> HIDE DEF row
  <2> QED BY <1>1, <1>3, <2>1, RowUpdate
<1>5. /\ gen' \in [Users -> [Users -> Nat]]
      /\ \A x, y \in Users :
            /\ gen'[x][y] = IF x = u /\ y \in due THEN gen[x][y] + 1 ELSE gen[x][y]
            /\ gen[x][y] <= gen'[x][y]
  <2>1. \A x, y \in Users : gen[x][y] \in Nat
    BY <1>1
  <2>2. /\ gen' \in [Users -> [Users -> Nat]]
        /\ \A x, y \in Users :
            gen'[x][y] = IF x = u /\ y \in due THEN gen[x][y] + 1 ELSE gen[x][y]
    BY <1>1, <2>1 DEF KeyTick
  <2> QED BY <2>1, <2>2
<1>6. ASSUME NEW v \in Users, v # u
      PROVE  EntryOK(u, v, peers'[u][v], gen'[u][v], gen'[v][u], sealed)
  <2> DEFINE p == peers[u][v]
  <2>1. p \in PeerType /\ gen[u][v] \in Nat /\ gen[v][u] \in Nat
    BY <1>1
  <2>2. EntryOK(u, v, p, gen[u][v], gen[v][u], sealed)
    BY <1>6 DEF KeyInv
  <2>3. gen[u][v] <= gen'[u][v] /\ gen[v][u] <= gen'[v][u]
        /\ gen'[u][v] \in Nat /\ gen'[v][u] \in Nat
    BY <1>5
  <2>4. EntryOK(u, v, p, gen'[u][v], gen'[v][u], sealed)
    BY <2>1, <2>2, <2>3, EntryMonotone
  <2>5. CASE v \notin due
    <3>1. peers'[u][v] = Expired(p)
      BY <1>4, <2>5
    <3>2. /\ Expired(p).st = p.st /\ Expired(p).rotating = p.rotating
          /\ Expired(p).nextKp = p.nextKp /\ Expired(p).cur = p.cur
      BY <2>1 DEF Expired, PeerType
    <3> HIDE DEF p
    <3> QED BY <2>4, <3>1, <3>2, SameKeyEntry
  <2>6. CASE v \in due
    <3> DEFINE k == NewKeyPair(u, v)
               q == Rotated(p, k)
    <3>1. peers'[u][v] = q
      BY <1>4, <2>6
    <3>2. q.st = p.st /\ q.cur = p.cur /\ q.nextKp = k
      BY <2>1 DEF Rotated, Expired, PeerType
    <3>3. k \in Made(u, v, gen'[u][v])
      BY <1>5, <2>1, <2>6 DEF Made, NewKeyPair
    <3>4. PendingUnused(u, v, q, sealed)
      BY <1>6, <3>2, FreshPair DEF PendingUnused
    <3>5. q.st = "up" => SecretOf(q.cur.z, u, v, gen'[u][v], gen'[v][u])
                          /\ CounterAhead(u, v, q, sealed)
      BY <2>4, <3>2 DEF EntryOK, CounterAhead
    <3> HIDE DEF q
    <3>6. EntryOK(u, v, q, gen'[u][v], gen'[v][u], sealed)
      BY <3>2, <3>3, <3>4, <3>5 DEF EntryOK
    <3> QED BY <3>1, <3>6
  <2> QED BY <2>5, <2>6
<1>7. \A x, y \in Users : x # y =>
        \/ peers'[x][y] = peers[x][y]
        \/ EntryOK(x, y, peers'[x][y], gen'[x][y], gen'[y][x], sealed)
  <2> HIDE DEF row
  <2> QED BY <1>4, <1>6
<1>8. UNCHANGED <<sent, sealed>>
  BY DEF KeyTick
<1> QED BY <1>4, <1>5, <1>7, <1>8, EntryStep

\* The nonce of a new message is new: every earlier one under this key is below
\* the counter, and every one the peer sealed has the other direction.
LEMMA SealKeeps ==
    ASSUME KeyInv, NEW u \in Users, NEW v \in Users, u # v, KeySeal(u, v)
    PROVE  KeyInv'
<1> DEFINE p == peers[u][v]
           q == Sealed(p)
           c == Ciphertext(u, v, p, sent[u][v])
<1>1. /\ KeyTypeOK /\ p \in PeerType /\ sealed \subseteq CipherType
      /\ gen \in [Users -> [Users -> Nat]] /\ sent \in [Users -> [Users -> Nat]]
      /\ \A x, y \in Users : gen[x][y] \in Nat
  BY FreshPairType DEF KeyInv, KeyTypeOK
<1>2. EntryOK(u, v, p, gen[u][v], gen[v][u], sealed) /\ p.st = "up"
  BY DEF KeyInv, KeySeal
<1>3. SecretOf(p.cur.z, u, v, gen[u][v], gen[v][u]) /\ CounterAhead(u, v, p, sealed)
  BY <1>2 DEF EntryOK
<1>4. /\ c.by = u /\ c.to = v /\ c.z = p.cur.z /\ c.dir = Dir(u, v)
      /\ c.seq = p.cur.tx /\ c.seq \in Nat
  BY <1>1 DEF Ciphertext, PeerType, EpochType
<1>5. c \in CipherType
  BY <1>1 DEF Ciphertext, CipherType, PeerType, EpochType, Dir
<1>6. /\ q \in PeerType /\ q.st = p.st /\ q.rotating = p.rotating
      /\ q.nextKp = p.nextKp /\ q.cur.z = p.cur.z /\ q.cur.tx = p.cur.tx + 1
  BY <1>1, SealedFields
<1>7. sealed' = sealed \cup {c} /\ gen' = gen
  BY DEF KeySeal
<1>8. /\ peers' \in [Users -> [Users -> PeerType]]
      /\ \A x, y \in Users : peers'[x][y] = IF x = u /\ y = v THEN q ELSE peers[x][y]
  BY <1>1, <1>6, UpdateType DEF KeySeal
<1> HIDE DEF c, q
<1>9. KeyTypeOK'
  <2>1. sent' \in [Users -> [Users -> Nat]]
    BY <1>1 DEF KeySeal
  <2>2. sealed' \subseteq CipherType
    BY <1>1, <1>5, <1>7
  <2> QED BY <1>1, <1>7, <1>8, <2>1, <2>2 DEF KeyTypeOK
<1>11. CipherOK(c, gen[c.by][c.to], gen[c.to][c.by])
  BY <1>3, <1>4 DEF CipherOK
<1>12. \A d \in sealed' : CipherOK(d, gen'[d.by][d.to], gen'[d.to][d.by])
  BY <1>7, <1>11 DEF KeyInv
<1>13. ASSUME NEW d \in sealed, d.z = c.z, d.dir = c.dir
       PROVE  d.by = u /\ d.to = v /\ d.seq < c.seq
  <2>1. d.by \in Users /\ d.to \in Users
    BY <1>1, <1>13 DEF CipherType
  <2>2. CipherOK(d, gen[d.by][d.to], gen[d.to][d.by])
    BY <1>13 DEF KeyInv
  <2>3. SecretOf(p.cur.z, d.by, d.to, gen[d.by][d.to], gen[d.to][d.by])
        /\ d.by # d.to /\ d.dir = Dir(d.by, d.to)
    BY <1>4, <1>13, <2>2 DEF CipherOK
  <2>4. (d.by = u /\ d.to = v) \/ (d.by = v /\ d.to = u)
    BY <1>1, <1>3, <2>1, <2>3, SecretOwners
  <2>5. d.by = u /\ d.to = v
    BY <1>4, <1>13, <2>3, <2>4, DirInjective
  <2> QED BY <1>3, <1>4, <1>13, <2>5 DEF CounterAhead
<1>14. NonceOnce(sealed')
  <2> SUFFICES ASSUME NEW d \in sealed', NEW e \in sealed',
                      d.z = e.z, d.dir = e.dir, d.seq = e.seq
               PROVE  d = e
    BY DEF NonceOnce
  <2>1. CASE d \in sealed /\ e \in sealed
    BY <2>1 DEF KeyInv, NonceOnce
  <2>2. ASSUME NEW a \in sealed PROVE ~(a.z = c.z /\ a.dir = c.dir /\ a.seq = c.seq)
    <3>1. a.seq \in Nat
      BY <1>1, <2>2 DEF CipherType
    <3> QED BY <1>4, <1>13, <2>2, <3>1
  <2> QED BY <1>7, <2>1, <2>2
<1>15. EntryOK(u, v, q, gen[u][v], gen[v][u], sealed')
  <2>1. q.rotating => PendingUnused(u, v, q, sealed') /\ q.nextKp \in Made(u, v, gen[u][v])
    BY <1>2, <1>4, <1>6, <1>7 DEF EntryOK, PendingUnused
  <2>2. p.cur.tx \in Nat /\ \A d \in sealed : d.seq \in Nat
    BY <1>1 DEF CipherType, PeerType, EpochType
  <2>3. CounterAhead(u, v, q, sealed')
    BY <1>3, <1>4, <1>6, <1>7, <2>2 DEF CounterAhead
  <2> QED BY <1>3, <1>6, <2>1, <2>3 DEF EntryOK
<1>16. ASSUME NEW x \in Users, NEW y \in Users, x # y
       PROVE  EntryOK(x, y, peers'[x][y], gen'[x][y], gen'[y][x], sealed')
  <2>1. CASE x = u /\ y = v
    BY <1>7, <1>8, <1>15, <2>1
  <2>2. CASE ~(x = u /\ y = v)
    <3>1. peers'[x][y] = peers[x][y]
      BY <1>8, <2>2
    <3>2. EntryOK(x, y, peers[x][y], gen[x][y], gen[y][x], sealed)
      BY <1>16 DEF KeyInv
    <3>3. ~(c.by = x /\ c.to = y)
      BY <1>4, <2>2
    <3>4. EntryOK(x, y, peers[x][y], gen[x][y], gen[y][x], sealed')
      BY <1>7, <3>2, <3>3 DEF EntryOK, CounterAhead, PendingUnused
    <3> QED BY <1>7, <3>1, <3>4
  <2> QED BY <2>1, <2>2
<1> QED BY <1>9, <1>12, <1>14, <1>16 DEF KeyInv

-----------------------------------------------------------------------------
\* Nothing is generated, sealed or shared at the start.
LEMMA KeyInitInv == KeyInit => KeyInv
<1> SUFFICES ASSUME KeyInit PROVE KeyInv
  OBVIOUS
<1>1. NullEpoch \in EpochType
  BY EpochAssumption DEF NullEpoch, EpochType
<1>2. NullPeer \in PeerType
  BY <1>1, EpochAssumption DEF NullPeer, PeerType
<1>3. KeyTypeOK
  BY <1>2 DEF KeyInit, KeyTypeOK
<1>4. \A u, v \in Users : peers[u][v] = NullPeer
  BY DEF KeyInit
<1>5. \A u, v : EntryOK(u, v, NullPeer, gen[u][v], gen[v][u], sealed)
  BY DEF EntryOK, NullPeer
<1> QED BY <1>3, <1>4, <1>5 DEF KeyInv, KeyInit, NonceOnce

\* Every method of every Manager keeps the invariant, whatever message arrives.
LEMMA KeyNextInv == KeyInv /\ [KeyNext]_keyVars => KeyInv'
<1> SUFFICES ASSUME KeyInv, [KeyNext]_keyVars PROVE KeyInv'
  OBVIOUS
<1>1. CASE UNCHANGED keyVars
  BY <1>1 DEF keyVars, KeyInv, KeyTypeOK
<1>2. ASSUME NEW u \in Users, NEW v \in Users, u # v, KeyStart(u, v) PROVE KeyInv'
  BY <1>2, StartKeeps
<1>3. ASSUME NEW u \in Users, NEW v \in Users, u # v, NEW n \in EpochNumbers,
             NEW pub \in PublicValues(v, u),
             KeyOnInit(u, v, n, pub) \/ KeyOnAck(u, v, n, pub)
      PROVE  KeyInv'
  BY <1>3, OnInitKeeps, OnAckKeeps
<1>4. ASSUME NEW u \in Users, NEW v \in Users, u # v, NEW n \in EpochNumbers,
             KeyOnInitFails(u, v, n)
      PROVE  KeyInv'
  BY <1>4, OnInitFailsKeeps
<1>5. ASSUME NEW u \in Users, NEW v \in Users, u # v, KeySeal(u, v) PROVE KeyInv'
  BY <1>5, SealKeeps
<1>6. ASSUME NEW u \in Users, NEW v \in Users, u # v, NEW c \in sealed, KeyOpen(u, v, c)
      PROVE  KeyInv'
  BY <1>6, OpenKeeps
<1>7. ASSUME NEW u \in Users, NEW v \in Users, u # v, GraceElapses(u, v) PROVE KeyInv'
  BY <1>7, GraceKeeps
<1>8. ASSUME NEW u \in Users, KeyForget(u) PROVE KeyInv'
  BY <1>8, ForgetKeeps
<1>9. ASSUME NEW u \in Users, NEW due \in SUBSET (Users \ {u}), KeyTick(u, due)
      PROVE  KeyInv'
  BY <1>9, TickKeeps
<1> QED
  BY <1>1, <1>2, <1>3, <1>4, <1>5, <1>6, <1>7, <1>8, <1>9 DEF KeyNext

\* Key pairs and ciphertexts are never unmade.
LEMMA HistoryGrows ==
    ASSUME KeyTypeOK, [KeyNext]_keyVars, NEW u \in Users, NEW v \in Users
    PROVE  gen[u][v] <= gen'[u][v] /\ sealed \subseteq sealed'
<1>1. gen \in [Users -> [Users -> Nat]] /\ gen[u][v] \in Nat
  BY DEF KeyTypeOK
<1>2. gen[u][v] <= gen[u][v] /\ gen[u][v] <= gen[u][v] + 1
  BY <1>1
<1>3. ASSUME NEW x \in Users, NEW y \in Users, Generate(x, y)
      PROVE  gen[u][v] <= gen'[u][v]
  BY <1>3, GenerateType
<1>4. ASSUME NEW x \in Users, NEW due, KeyTick(x, due)
      PROVE  gen[u][v] <= gen'[u][v]
  BY <1>1, <1>2, <1>4 DEF KeyTick
<1>5. ASSUME KeyNext PROVE gen[u][v] <= gen'[u][v]
  <2>1. ASSUME NEW x \in Users, NEW y \in Users, KeyStart(x, y)
        PROVE  gen[u][v] <= gen'[u][v]
    BY <1>3, <2>1 DEF KeyStart
  <2>2. ASSUME NEW x \in Users, NEW y \in Users, NEW n, NEW pub, KeyOnInit(x, y, n, pub)
        PROVE  gen[u][v] <= gen'[u][v]
    BY <1>3, <2>2 DEF KeyOnInit
  <2>3. ASSUME NEW x, NEW y, NEW n, NEW d,
               \/ KeyOnInitFails(x, y, n) \/ KeyOnAck(x, y, n, d) \/ KeySeal(x, y)
               \/ KeyOpen(x, y, d) \/ GraceElapses(x, y) \/ KeyForget(x)
        PROVE  gen' = gen
    BY <2>3 DEF KeyOnInitFails, KeyOnAck, KeySeal, KeyOpen, GraceElapses, KeyForget
  <2> QED BY <1>2, <1>4, <1>5, <2>1, <2>2, <2>3 DEF KeyNext
<1>6. ASSUME KeyNext PROVE sealed \subseteq sealed'
  <2>1. ASSUME NEW x, NEW y, NEW n, NEW d,
               \/ KeyStart(x, y) \/ KeyOnInit(x, y, n, d) \/ KeyOnInitFails(x, y, n)
               \/ KeyOnAck(x, y, n, d) \/ KeyOpen(x, y, d) \/ GraceElapses(x, y)
               \/ KeyForget(x) \/ KeyTick(x, d)
        PROVE  sealed' = sealed
    BY <2>1 DEF KeyStart, KeyOnInit, KeyOnInitFails, KeyOnAck, KeyOpen,
          GraceElapses, KeyForget, KeyTick
  <2>2. ASSUME NEW x, NEW y, KeySeal(x, y) PROVE sealed \subseteq sealed'
    BY <2>2 DEF KeySeal
  <2> QED BY <1>6, <2>1, <2>2, Zenon DEF KeyNext
<1> QED BY <1>2, <1>5, <1>6 DEF keyVars

\* The inductive invariant of EpochKeys holds always: an open INIT's pair is
\* unused, and the send counter is past every nonce used with the current key.
THEOREM KeyInvariance == KeySpec => []KeyInv
BY KeyInitInv, KeyNextInv, PTL DEF KeySpec

(***************************************************************************)
(* The key state stays well formed: in particular an ACK is only taken     *)
(* when a key pair is there to combine it with.                            *)
(***************************************************************************)
THEOREM KeyTypeCorrect == KeySpec => []KeyTypeOK
<1>1. KeyInv => KeyTypeOK
  BY DEF KeyInv
<1> QED BY <1>1, KeyInvariance, PTL

(***************************************************************************)
(* Whatever lines arrive, in whatever order, and however often clients     *)
(* restart or begin again, no key seals two messages with one nonce.       *)
(***************************************************************************)
THEOREM NonceFreshness == KeySpec => []NonceFresh
<1>1. KeyInv => NonceFresh
  BY DEF KeyInv, NonceOnce, NonceFresh
<1> QED BY <1>1, KeyInvariance, PTL

(***************************************************************************)
(* Only on_init and on_ack give a peer a new current key, and it is one    *)
(* nothing was sealed under: on_init mixes in a pair it has just made, and *)
(* the pair on_ack completes was made for the INIT that is being settled.  *)
(***************************************************************************)
LEMMA NewSecret ==
    ASSUME KeyInv, KeyNext, NEW x \in Users, NEW y \in Users, x # y,
           peers'[x][y].st = "up", peers'[x][y].cur.z # peers[x][y].cur.z,
           NEW c \in sealed, c.by = x, c.to = y
    PROVE  c.z # peers'[x][y].cur.z
<1>1. KeyTypeOK /\ peers[x][y] \in PeerType
  BY FreshPairType DEF KeyInv
<1>2. ASSUME NEW u \in Users, NEW v \in Users, NEW p \in PeerType, Update(u, v, p),
             u = x /\ v = y => p.st # "up" \/ p.cur.z = peers[x][y].cur.z
      PROVE  FALSE
  <2>1. peers'[x][y] = IF x = u /\ y = v THEN p ELSE peers[x][y]
    BY <1>1, <1>2, UpdateType
  <2> QED BY <1>2, <2>1
<1>3. ASSUME NEW u \in Users, NEW v \in Users, u # v, KeyStart(u, v) PROVE FALSE
  <2>1. Started(NewKeyPair(u, v)) \in PeerType
    BY <1>1, FreshPairType, PeerTypes, EpochAssumption, ZenonT(30)
  <2>2. Started(NewKeyPair(u, v)).st = "pending"
    BY DEF Started, NullPeer
  <2> QED BY <1>2, <1>3, <2>1, <2>2 DEF KeyStart
<1>4. ASSUME NEW u \in Users, NEW v \in Users, u # v, NEW n \in EpochNumbers,
             NEW pub \in PublicValues(v, u), KeyOnInit(u, v, n, pub)
      PROVE  c.z # peers'[x][y].cur.z
  <2> DEFINE k == NewKeyPair(u, v)
             p == InitAnswered(peers[u][v], n, k, pub)
  <2>1. peers[u][v] \in PeerType /\ k \in KeyPairs /\ pub \in KeyPairs
    BY <1>1, FreshPairType
  <2>2. p \in PeerType
    BY <2>1, PeerTypes
  <2>3. p.cur.z = {k, pub}
    BY <2>1 DEF InitAnswered, Retire, NullPeer, Derive, PeerType
  <2>4. Update(u, v, p)
    BY <1>4 DEF KeyOnInit
  <2> HIDE DEF p
  <2>5. u = x /\ v = y
    BY <1>2, <2>2, <2>4
  <2>6. peers'[x][y] = p
    BY <1>1, <2>2, <2>4, <2>5, UpdateType
  <2> QED BY <2>3, <2>5, <2>6, FreshPair
<1>5. ASSUME NEW u \in Users, NEW v \in Users, u # v, NEW n \in EpochNumbers,
             NEW pub \in PublicValues(v, u), KeyOnAck(u, v, n, pub)
      PROVE  c.z # peers'[x][y].cur.z
  <2> DEFINE k == peers[u][v].nextKp
             p == AckTaken(peers[u][v], pub)
  <2>1. peers[u][v] \in PeerType /\ pub \in KeyPairs
    BY <1>1, FreshPairType
  <2>2. AckExpected(peers[u][v], n) /\ peers[u][v].rotating
    BY <1>5 DEF KeyOnAck, AckExpected
  <2>3. k \in Made(u, v, gen[u][v]) /\ PendingUnused(u, v, peers[u][v], sealed)
    BY <1>5, <2>2 DEF KeyInv, EntryOK
  <2>4. k \in KeyPairs
    BY <1>1, <2>3 DEF Made, KeyPairs, KeyTypeOK
  <2>5. p \in PeerType
    BY <2>1, <2>2, <2>4, PeerTypes
  <2>6. p.cur.z = {k, pub}
    BY <2>1 DEF AckTaken, Retire, Derive, PeerType
  <2>7. Update(u, v, p)
    BY <1>5 DEF KeyOnAck
  <2> HIDE DEF p
  <2>8. u = x /\ v = y
    BY <1>2, <2>5, <2>7
  <2>9. peers'[x][y] = p
    BY <1>1, <2>5, <2>7, <2>8, UpdateType
  <2> QED BY <2>3, <2>6, <2>8, <2>9 DEF PendingUnused
<1>6. ASSUME NEW u \in Users, NEW v \in Users, u # v, NEW n \in EpochNumbers,
             KeyOnInitFails(u, v, n)
      PROVE  FALSE
  <2>1. peers[u][v] \in PeerType
    BY <1>1, FreshPairType
  <2>2. InitFailed(peers[u][v], n) \in PeerType
        /\ InitFailed(peers[u][v], n).cur = peers[u][v].cur
    BY <2>1 DEF InitFailed, PeerType
  <2> QED BY <1>2, <1>6, <2>2 DEF KeyOnInitFails
<1>7. ASSUME NEW u \in Users, NEW v \in Users, u # v, KeySeal(u, v) PROVE FALSE
  <2>1. peers[u][v] \in PeerType
    BY <1>1, FreshPairType
  <2> QED BY <1>2, <1>7, <2>1, SealedFields DEF KeySeal
<1>8. ASSUME NEW u \in Users, NEW v \in Users, u # v, NEW d \in sealed, KeyOpen(u, v, d)
      PROVE  FALSE
  <2>1. peers[u][v] \in PeerType
    BY <1>1, FreshPairType
  <2> QED BY <1>2, <1>8, <2>1, OpenedFields DEF KeyOpen
<1>9. ASSUME NEW u \in Users, NEW v \in Users, u # v, GraceElapses(u, v) PROVE FALSE
  <2>1. peers[u][v] \in PeerType
    BY <1>1, FreshPairType
  <2>2. [peers[u][v] EXCEPT !.grace = FALSE] \in PeerType
        /\ [peers[u][v] EXCEPT !.grace = FALSE].cur = peers[u][v].cur
    BY <2>1 DEF PeerType
  <2> QED BY <1>2, <1>9, <2>2 DEF GraceElapses
<1>10. ASSUME NEW u \in Users, KeyForget(u) PROVE FALSE
  <2>1. peers'[x][y] = IF x = u THEN NullPeer ELSE peers[x][y]
    BY <1>1, <1>10 DEF KeyForget, KeyTypeOK
  <2>2. NullPeer.st # "up"
    BY DEF NullPeer
  <2> QED BY <2>1, <2>2
<1>11. ASSUME NEW u \in Users, NEW due \in SUBSET (Users \ {u}), KeyTick(u, due)
       PROVE  FALSE
  <2>1. \/ peers'[x][y] = peers[x][y]
        \/ peers'[x][y] = Expired(peers[x][y])
        \/ peers'[x][y] = Rotated(peers[x][y], NewKeyPair(x, y))
    BY <1>1, <1>11 DEF KeyTick, KeyTypeOK
  <2>2. Expired(peers[x][y]).cur = peers[x][y].cur
    BY <1>1 DEF Expired, PeerType
  <2>3. Rotated(peers[x][y], NewKeyPair(x, y)).cur = peers[x][y].cur
    BY <1>1 DEF Rotated, Expired, PeerType
  <2> QED BY <2>1, <2>2, <2>3
<1> QED
  BY <1>3, <1>4, <1>5, <1>6, <1>7, <1>8, <1>9, <1>10, <1>11 DEF KeyNext

(***************************************************************************)
(* A key that a client leaves never becomes its current key again.         *)
(***************************************************************************)
THEOREM NewKeysAreUnused == KeySpec => NewKeyIsUnused
<1> DEFINE A == \A u, v \in Users :
        (peers'[u][v].st = "up" /\ peers'[u][v].cur.z # peers[u][v].cur.z)
            => \A c \in sealed : c.by = u /\ c.to = v => c.z # peers'[u][v].cur.z
<1>1. KeyInv /\ [KeyNext]_keyVars => [A]_keyVars
  <2> SUFFICES ASSUME KeyInv, KeyNext PROVE A
    OBVIOUS
  <2>1. \A c \in sealed : c.by # c.to
    BY DEF KeyInv, CipherOK
  <2> QED BY <2>1, NewSecret
<1> QED BY <1>1, KeyInvariance, PTL DEF KeySpec, NewKeyIsUnused

-----------------------------------------------------------------------------
(***************************************************************************)
(* The lines between clients, as E2E and ClientThreads send and read them. *)
(***************************************************************************)
\* What a reader may assume of the line it is given.
LEMMA HeadValid ==
    ASSUME NetOK, NEW u \in Users, NEW v \in Users, net[v][u] # <<>>
    PROVE  /\ Head(net[v][u]) \in ValidLines(v, u)
           /\ Tail(net[v][u]) \in Seq(ValidLines(v, u))
BY DEF NetOK

\* An INIT or ACK at the head of a channel carries a public value its sender made.
LEMMA KexHead ==
    ASSUME NetOK, NEW u \in Users, NEW v \in Users, net[v][u] # <<>>,
           Head(net[v][u]).tag # "msg"
    PROVE  /\ Head(net[v][u]).n \in EpochNumbers
           /\ Head(net[v][u]).pub \in PublicValues(v, u)
BY HeadValid DEF ValidLines

\* A message at the head of a channel was sealed.
LEMMA MsgHead ==
    ASSUME NetOK, NEW u \in Users, NEW v \in Users, net[v][u] # <<>>,
           Head(net[v][u]).tag = "msg"
    PROVE  Head(net[v][u]).ct \in sealed
BY HeadValid DEF ValidLines

(***************************************************************************)
(* What is on the wire stays valid as keys and ciphertexts are made.       *)
(***************************************************************************)
LEMMA LinesMonotone ==
    ASSUME KeyTypeOK, KeyTypeOK', [KeyNext]_keyVars, NEW u \in Users, NEW v \in Users
    PROVE  /\ ValidLines(u, v) \subseteq ValidLines(u, v)'
           /\ Seq(ValidLines(u, v)) \subseteq Seq(ValidLines(u, v)')
           /\ ValidLines(u, v)' \subseteq LineType
<1>1. gen[u][v] \in Nat /\ gen'[u][v] \in Nat /\ gen[u][v] <= gen'[u][v]
      /\ sealed \subseteq sealed'
  BY HistoryGrows DEF KeyTypeOK
<1>2. PublicValues(u, v) \subseteq PublicValues(u, v)'
  BY <1>1, MadeMonotone DEF PublicValues
<1>3. ValidLines(u, v) \subseteq ValidLines(u, v)'
  BY <1>1, <1>2 DEF ValidLines
<1>4. PublicValues(u, v)' \subseteq KeyPairs
  BY <1>1 DEF PublicValues, Made, KeyPairs
<1>5. ValidLines(u, v)' \subseteq LineType
  BY <1>4 DEF ValidLines, LineType, KeyTypeOK
<1>6. ASSUME NEW A, NEW B, A \subseteq B PROVE Seq(A) \subseteq Seq(B)
  BY <1>6
<1> QED BY <1>3, <1>5, <1>6

\* Key pairs and ciphertexts are only added, so lines stay valid when they are.
LEMMA NetKeeps ==
    ASSUME KeyTypeOK, net \in [Users -> [Users -> Seq(LineType)]], NetOK,
           KeyTypeOK', [KeyNext]_keyVars,
           NEW row \in [Users -> [Users -> Seq(LineType)]], net' = row,
           \A x, y \in Users : \/ row[x][y] = net[x][y]
                               \/ row[x][y] \in Seq(ValidLines(x, y)')
    PROVE  NetOK' /\ net' \in [Users -> [Users -> Seq(LineType)]]
<1>1. ASSUME NEW x \in Users, NEW y \in Users
      PROVE  net'[x][y] \in Seq(ValidLines(x, y)')
  BY LinesMonotone DEF NetOK
<1> QED BY <1>1 DEF NetOK

\* send_line: a valid line put on a channel leaves the channels valid.
LEMMA PushKeeps ==
    ASSUME KeyTypeOK, net \in [Users -> [Users -> Seq(LineType)]], NetOK,
           KeyTypeOK', [KeyNext]_keyVars,
           NEW u \in Users, NEW v \in Users, NEW m \in ValidLines(u, v)', Push(u, v, m)
    PROVE  NetOK' /\ net' \in [Users -> [Users -> Seq(LineType)]]
<1>2. net[u][v] \in Seq(ValidLines(u, v)') /\ m \in LineType
  BY LinesMonotone DEF NetOK
<1>3. Append(net[u][v], m) \in Seq(ValidLines(u, v)')
      /\ Append(net[u][v], m) \in Seq(LineType)
  BY <1>2
<1>4. net' = [net EXCEPT ![u][v] = Append(net[u][v], m)]
  BY DEF Push
<1>5. /\ net' \in [Users -> [Users -> Seq(LineType)]]
      /\ \A x, y \in Users :
            net'[x][y] = IF x = u /\ y = v THEN Append(net[u][v], m) ELSE net[x][y]
  BY <1>3, <1>4, MatrixUpdate
<1> QED BY <1>3, <1>5, NetKeeps

\* display: a line taken off a channel leaves the channels valid.
LEMMA PopKeeps ==
    ASSUME KeyTypeOK, net \in [Users -> [Users -> Seq(LineType)]], NetOK,
           KeyTypeOK', [KeyNext]_keyVars,
           NEW u \in Users, NEW v \in Users, net[v][u] # <<>>, Pop(v, u)
    PROVE  NetOK' /\ net' \in [Users -> [Users -> Seq(LineType)]]
<1>2. Tail(net[v][u]) \in Seq(ValidLines(v, u)') /\ Tail(net[v][u]) \in Seq(LineType)
  BY HeadValid, LinesMonotone
<1>3. net' = [net EXCEPT ![v][u] = Tail(net[v][u])]
  BY DEF Pop
<1>4. /\ net' \in [Users -> [Users -> Seq(LineType)]]
      /\ \A x, y \in Users :
            net'[x][y] = IF x = v /\ y = u THEN Tail(net[v][u]) ELSE net[x][y]
  BY <1>2, <1>3, MatrixUpdate
<1> QED BY <1>2, <1>4, NetKeeps

\* The public value of a pair that has just been generated may go on the wire.
LEMMA FreshLine ==
    ASSUME KeyTypeOK, NEW u \in Users, NEW v \in Users, gen'[u][v] = gen[u][v] + 1
    PROVE  NewKeyPair(u, v) \in PublicValues(u, v)'
<1>1. gen[u][v] \in Nat
  BY DEF KeyTypeOK
<1> QED BY <1>1 DEF NewKeyPair, PublicValues, Made

-----------------------------------------------------------------------------
(***************************************************************************)
(* E2E implements EpochKeys, so that what is proved of the one holds of    *)
(* the other: the relay only ever hands a client lines its peer produced.  *)
(* Then sessions nobody breaks off: SessionInv is inductive, one lemma for *)
(* each method of the Manager as one pair of users sees it (PairX), one    *)
(* for each event of E2E (XSession), and the four properties it gives.     *)
(***************************************************************************)
(***************************************************************************)
(* Every step of E2E is a step of EpochKeys or leaves the keys alone.      *)
(***************************************************************************)
LEMMA StepMaps ==
    ASSUME TypeOK, NetOK, [Next]_vars
    PROVE  [KeyNext]_keyVars
<1>1. CASE UNCHANGED vars
  BY <1>1 DEF vars, keyVars
<1>2. ASSUME NEW u \in Users, NEW v \in Users, u # v, Start(u, v) PROVE KeyNext
  BY <1>2 DEF Start, KeyNext
<1>3. ASSUME NEW u \in Users, NEW v \in Users, u # v, SendMsg(u, v) PROVE KeyNext
  BY <1>3 DEF SendMsg, KeyNext
<1>4. ASSUME NEW u \in Users, NEW v \in Users, u # v, RecvInit(u, v) PROVE KeyNext
  <2>1. /\ Head(net[v][u]).n \in EpochNumbers
        /\ Head(net[v][u]).pub \in PublicValues(v, u)
    BY <1>4, KexHead DEF RecvInit, Reads, HeadTag
  <2> QED BY <1>4, <2>1 DEF RecvInit, KeyNext
<1>5. ASSUME NEW u \in Users, NEW v \in Users, u # v, FailInit(u, v) PROVE KeyNext
  <2>1. Head(net[v][u]).n \in EpochNumbers
    BY <1>5, KexHead DEF FailInit, Reads, HeadTag
  <2> QED BY <1>5, <2>1 DEF FailInit, KeyNext
<1>6. ASSUME NEW u \in Users, NEW v \in Users, u # v, RecvAck(u, v) PROVE KeyNext
  <2>1. /\ Head(net[v][u]).n \in EpochNumbers
        /\ Head(net[v][u]).pub \in PublicValues(v, u)
    BY <1>6, KexHead DEF RecvAck, Reads, HeadTag
  <2> QED BY <1>6, <2>1 DEF RecvAck, KeyNext
<1>7. ASSUME NEW u \in Users, NEW v \in Users, u # v, RecvMsg(u, v) PROVE KeyNext
  <2>1. Head(net[v][u]).ct \in sealed
    BY <1>7, MsgHead DEF RecvMsg, Reads, HeadTag
  <2> QED BY <1>7, <2>1 DEF RecvMsg, KeyNext
<1>8. ASSUME NEW u \in Users, NEW v \in Users, u # v, WindowCloses(u, v) PROVE KeyNext
  BY <1>8 DEF WindowCloses, KeyNext
<1>9. ASSUME NEW u \in Users, NEW v \in Users,
             \/ IgnoreInit(u, v) \/ RefuseAck(u, v) \/ RefuseMsg(u, v)
             \/ RelayDrops(u, v) \/ SenderLoses(u, v)
      PROVE  UNCHANGED keyVars
  BY <1>9 DEF IgnoreInit, RefuseAck, RefuseMsg, RelayDrops, SenderLoses
<1>10. ASSUME NEW u \in Users, Timer(u) PROVE KeyNext
  BY <1>10 DEF Timer, Tick, KeyNext
<1>11. ASSUME NEW u \in Users, Logout(u) PROVE KeyNext
  BY <1>11 DEF Logout, KeyNext
<1>12. ASSUME NEW u \in Users, Login(u) PROVE UNCHANGED keyVars
  BY <1>12 DEF Login
<1> QED
  BY <1>1, <1>2, <1>3, <1>4, <1>5, <1>6, <1>7, <1>8, <1>9, <1>10, <1>11, <1>12
  DEF Next, Receive

\* on_init takes the INIT and sends an ACK with the pair it has just made.
LEMMA RecvInitNet ==
    ASSUME TypeOK, NetOK, KeyTypeOK', [KeyNext]_keyVars,
           NEW u \in Users, NEW v \in Users, u # v, RecvInit(u, v)
    PROVE  NetOK' /\ net' \in [Users -> [Users -> Seq(LineType)]]
<1>1. net \in [Users -> [Users -> Seq(LineType)]] /\ KeyTypeOK
  BY DEF TypeOK
<1> DEFINE m == Head(net[v][u])
           a == AckLine(m.n, NewKeyPair(u, v))
<1>2. /\ net[v][u] # <<>> /\ m.n \in EpochNumbers
      /\ KeyOnInit(u, v, m.n, m.pub)
      /\ net' = [net EXCEPT ![v][u] = Tail(net[v][u]), ![u][v] = Append(net[u][v], a)]
  BY KexHead DEF RecvInit, Reads, HeadTag
<1>3. gen'[u][v] = gen[u][v] + 1
  BY <1>1, <1>2, GenerateType DEF KeyOnInit
<1>4. a \in ValidLines(u, v)'
  BY <1>1, <1>2, <1>3, FreshLine DEF ValidLines, AckLine
<1>5. a \in LineType /\ net[u][v] \in Seq(ValidLines(u, v)')
  BY <1>1, <1>4, LinesMonotone DEF NetOK
<1>6. /\ Append(net[u][v], a) \in Seq(ValidLines(u, v)')
      /\ Append(net[u][v], a) \in Seq(LineType)
  BY <1>1, <1>4, <1>5
<1>7. /\ Tail(net[v][u]) \in Seq(ValidLines(v, u)')
      /\ Tail(net[v][u]) \in Seq(LineType)
  <2>1. Tail(net[v][u]) \in Seq(LineType)
    BY <1>1, <1>2
  <2> QED BY <1>1, <1>2, <2>1, HeadValid, LinesMonotone
<1> HIDE DEF a
<1>8. /\ net' \in [Users -> [Users -> Seq(LineType)]]
      /\ \A x, y \in Users :
            net'[x][y] = IF x = u /\ y = v THEN Append(net[u][v], a)
                         ELSE IF x = v /\ y = u THEN Tail(net[v][u]) ELSE net[x][y]
  <2> DEFINE M == [net EXCEPT ![v][u] = Tail(net[v][u])]
  <2>1. /\ M \in [Users -> [Users -> Seq(LineType)]]
        /\ \A x, y \in Users :
            M[x][y] = IF x = v /\ y = u THEN Tail(net[v][u]) ELSE net[x][y]
    BY <1>1, <1>7, MatrixUpdate
  <2>2. net' = [M EXCEPT ![u][v] = Append(net[u][v], a)]
    BY <1>2
  <2> HIDE DEF M
  <2>3. /\ net' \in [Users -> [Users -> Seq(LineType)]]
        /\ \A x, y \in Users :
            net'[x][y] = IF x = u /\ y = v THEN Append(net[u][v], a) ELSE M[x][y]
    BY <1>6, <2>1, <2>2, MatrixUpdate
  <2>4. ASSUME NEW x \in Users, NEW y \in Users
        PROVE  net'[x][y] = IF x = u /\ y = v THEN Append(net[u][v], a)
                            ELSE IF x = v /\ y = u THEN Tail(net[v][u]) ELSE net[x][y]
    <3>1. CASE x = u /\ y = v
      BY <2>3, <3>1
    <3>2. CASE ~(x = u /\ y = v)
      BY <2>1, <2>3, <3>2
    <3> QED BY <3>1, <3>2
  <2> QED BY <2>3, <2>4
<1>9. \A x, y \in Users : \/ net'[x][y] = net[x][y]
                          \/ net'[x][y] \in Seq(ValidLines(x, y)')
  BY <1>6, <1>7, <1>8
<1> QED BY <1>1, <1>8, <1>9, NetKeeps

\* tick sends an INIT with a new pair to every peer that is due.
LEMMA TickNet ==
    ASSUME TypeOK, NetOK, KeyTypeOK', [KeyNext]_keyVars,
           NEW u \in Users, NEW due \in SUBSET (Users \ {u}), Tick(u, due)
    PROVE  NetOK' /\ net' \in [Users -> [Users -> Seq(LineType)]]
<1>1. net \in [Users -> [Users -> Seq(LineType)]] /\ KeyTypeOK
      /\ gen \in [Users -> [Users -> Nat]]
  BY DEF TypeOK, KeyTypeOK
<1> DEFINE m(v) == InitLine(NextEpoch(peers[u][v]), NewKeyPair(u, v))
           row == [v \in Users |-> IF v \in due THEN Append(net[u][v], m(v))
                                                ELSE net[u][v]]
<1>2. ASSUME NEW v \in due
      PROVE  /\ Append(net[u][v], m(v)) \in Seq(ValidLines(u, v)')
             /\ Append(net[u][v], m(v)) \in Seq(LineType)
  <2>1. NextEpoch(peers[u][v]) \in EpochNumbers
    BY DEF Tick, KeyTick, MayRotate
  <2>2. gen'[u][v] = gen[u][v] + 1
    BY <1>1 DEF Tick, KeyTick
  <2>3. m(v) \in ValidLines(u, v)'
    BY <1>1, <2>1, <2>2, FreshLine DEF ValidLines, InitLine
  <2>4. m(v) \in LineType /\ net[u][v] \in Seq(ValidLines(u, v)')
    BY <1>1, <2>3, LinesMonotone DEF NetOK
  <2> HIDE DEF m
  <2> QED BY <1>1, <2>3, <2>4
<1>3. row \in [Users -> Seq(LineType)]
  <2> HIDE DEF m
  <2> QED BY <1>1, <1>2
<1>4. net' = [net EXCEPT ![u] = row]
  BY DEF Tick
<1> HIDE DEF m
<1>5. \A v \in Users : row[v] = IF v \in due THEN Append(net[u][v], m(v)) ELSE net[u][v]
  OBVIOUS
<1> HIDE DEF row
<1>6. /\ net' \in [Users -> [Users -> Seq(LineType)]]
      /\ \A x, y \in Users : net'[x][y] = IF x = u THEN row[y] ELSE net[x][y]
  BY <1>1, <1>3, <1>4, RowUpdate
<1>7. \A x, y \in Users : \/ net'[x][y] = net[x][y]
                          \/ net'[x][y] \in Seq(ValidLines(x, y)')
  BY <1>2, <1>5, <1>6
<1> QED BY <1>1, <1>6, <1>7, NetKeeps

\* The last line of a client that went away is lost; the rest stays valid.
LEMMA LosesNet ==
    ASSUME TypeOK, NetOK, KeyTypeOK', [KeyNext]_keyVars,
           NEW u \in Users, NEW v \in Users, SenderLoses(u, v)
    PROVE  NetOK' /\ net' \in [Users -> [Users -> Seq(LineType)]]
<1>1. net \in [Users -> [Users -> Seq(LineType)]] /\ KeyTypeOK
  BY DEF TypeOK
<1> DEFINE s == SubSeq(net[u][v], 1, Len(net[u][v]) - 1)
<1>2. \A S : net[u][v] \in Seq(S) => s \in Seq(S)
  <2> SUFFICES ASSUME NEW S, net[u][v] \in Seq(S) PROVE s \in Seq(S)
    OBVIOUS
  <2>1. Len(net[u][v]) \in Nat
    OBVIOUS
  <2>2. \A i \in 1 .. Len(net[u][v]) - 1 : net[u][v][i] \in S
    BY <2>1
  <2> QED BY <2>1, <2>2, SubSeqProperties
<1>3. s \in Seq(ValidLines(u, v)') /\ s \in Seq(LineType)
  BY <1>1, <1>2, LinesMonotone DEF NetOK
<1>4. net' = [net EXCEPT ![u][v] = s]
  BY DEF SenderLoses
<1> HIDE DEF s
<1>5. /\ net' \in [Users -> [Users -> Seq(LineType)]]
      /\ \A x, y \in Users : net'[x][y] = IF x = u /\ y = v THEN s ELSE net[x][y]
  BY <1>1, <1>3, <1>4, MatrixUpdate
<1> QED BY <1>1, <1>3, <1>5, NetKeeps

-----------------------------------------------------------------------------
E2EInv == KeyInv /\ TypeOK /\ NetOK

\* The empty Managers and channels satisfy the invariant.
LEMMA E2EInitInv == Init => E2EInv
<1> SUFFICES ASSUME Init PROVE E2EInv
  OBVIOUS
<1>1. KeyInv /\ KeyTypeOK
  BY KeyInitInv DEF Init, KeyInv
<1>2. net \in [Users -> [Users -> Seq(LineType)]] /\ NetOK
  BY DEF Init, NetInit, NetOK
<1> QED BY <1>1, <1>2 DEF E2EInv, TypeOK, Init

\* Every step keeps the lines on the channels valid.
LEMMA NetNext ==
    ASSUME TypeOK, NetOK, KeyTypeOK', [KeyNext]_keyVars, [Next]_vars
    PROVE  NetOK' /\ net' \in [Users -> [Users -> Seq(LineType)]]
<1>1. net \in [Users -> [Users -> Seq(LineType)]] /\ KeyTypeOK
  BY DEF TypeOK
<1>2. ASSUME net' = net PROVE NetOK' /\ net' \in [Users -> [Users -> Seq(LineType)]]
  BY <1>1, <1>2, NetKeeps
<1>3. ASSUME NEW u \in Users, NEW v \in Users, u # v, Start(u, v)
      PROVE  NetOK' /\ net' \in [Users -> [Users -> Seq(LineType)]]
  <2>1. gen'[u][v] = gen[u][v] + 1
    BY <1>1, <1>3, GenerateType DEF Start, KeyStart
  <2>2. InitLine(0, NewKeyPair(u, v)) \in ValidLines(u, v)'
    BY <1>1, <2>1, FreshLine, EpochAssumption DEF ValidLines, InitLine
  <2> QED BY <1>1, <1>3, <2>2, PushKeeps DEF Start
<1>4. ASSUME NEW u \in Users, NEW v \in Users, u # v, SendMsg(u, v)
      PROVE  NetOK' /\ net' \in [Users -> [Users -> Seq(LineType)]]
  <2> DEFINE c == Ciphertext(u, v, peers[u][v], sent[u][v])
  <2>1. c \in sealed'
    BY <1>4 DEF SendMsg, KeySeal
  <2>2. MsgLine(c) \in ValidLines(u, v)'
    BY <2>1 DEF ValidLines, MsgLine
  <2> QED BY <1>1, <1>4, <2>2, PushKeeps DEF SendMsg
<1>5. ASSUME NEW u \in Users, NEW v \in Users, u # v, RecvInit(u, v)
      PROVE  NetOK' /\ net' \in [Users -> [Users -> Seq(LineType)]]
  BY <1>5, RecvInitNet
<1>6. ASSUME NEW u \in Users, NEW v \in Users,
             \/ IgnoreInit(u, v) \/ FailInit(u, v) \/ RecvAck(u, v) \/ RefuseAck(u, v)
             \/ RecvMsg(u, v) \/ RefuseMsg(u, v) \/ RelayDrops(v, u)
      PROVE  NetOK' /\ net' \in [Users -> [Users -> Seq(LineType)]]
  <2>1. net[v][u] # <<>> /\ Pop(v, u)
    BY <1>6 DEF IgnoreInit, FailInit, RecvAck, RefuseAck, RecvMsg, RefuseMsg,
                RelayDrops, Reads, HeadTag
  <2> QED BY <1>1, <2>1, PopKeeps
<1>7. ASSUME NEW u \in Users, Timer(u)
      PROVE  NetOK' /\ net' \in [Users -> [Users -> Seq(LineType)]]
  BY <1>7, TickNet DEF Timer
<1>8. ASSUME NEW u \in Users, NEW v \in Users, SenderLoses(u, v)
      PROVE  NetOK' /\ net' \in [Users -> [Users -> Seq(LineType)]]
  BY <1>8, LosesNet
<1>9. ASSUME NEW u \in Users, NEW v \in Users,
             WindowCloses(u, v) \/ Logout(u) \/ Login(u) \/ UNCHANGED vars
      PROVE  net' = net
  BY <1>9 DEF WindowCloses, Logout, Login, vars
<1> QED
  BY <1>2, <1>3, <1>4, <1>5, <1>6, <1>7, <1>8, <1>9 DEF Next, Receive, vars

\* Every step keeps the types of what E2E adds to the keys.
LEMMA OnlineNext ==
    ASSUME TypeOK, [Next]_vars
    PROVE  online' \in [Users -> BOOLEAN] /\ breaks' \in Nat
<1>1. online \in [Users -> BOOLEAN] /\ breaks \in Nat
  BY DEF TypeOK
<1>2. ASSUME NEW u \in Users, Logout(u) \/ Login(u)
      PROVE  online' \in [Users -> BOOLEAN] /\ breaks' \in Nat
  <2>1. CASE Logout(u)
    <3>1. online' = [online EXCEPT ![u] = FALSE] /\ breaks' = breaks + 1
      BY <2>1 DEF Logout, Breaks
    <3> QED BY <1>1, <3>1
  <2>2. CASE Login(u)
    <3>1. online' = [online EXCEPT ![u] = TRUE] /\ breaks' = breaks
      BY <2>2 DEF Login
    <3> QED BY <1>1, <3>1
  <2> QED BY <1>2, <2>1, <2>2
<1>3. ASSUME NEW u \in Users, NEW v \in Users, Start(u, v)
      PROVE  online' \in [Users -> BOOLEAN] /\ breaks' \in Nat
  BY <1>1, <1>3 DEF Start, Breaks
<1>4. ASSUME NEW u \in Users, NEW v \in Users,
             \/ SendMsg(u, v) \/ Receive(u, v) \/ WindowCloses(u, v)
             \/ RelayDrops(u, v) \/ SenderLoses(u, v) \/ Timer(u) \/ UNCHANGED vars
      PROVE  UNCHANGED <<online, breaks>>
  BY <1>4 DEF SendMsg, Receive, RecvInit, IgnoreInit, FailInit, RecvAck,
        RefuseAck, RecvMsg, RefuseMsg, WindowCloses, RelayDrops, SenderLoses, Timer,
        Tick, vars
<1> QED BY <1>1, <1>2, <1>3, <1>4 DEF Next, vars

\* Every step of the clients and of the relay between them keeps the invariant.
LEMMA E2ENextInv == E2EInv /\ [Next]_vars => E2EInv'
<1> SUFFICES ASSUME E2EInv, [Next]_vars PROVE E2EInv'
  OBVIOUS
<1>1. [KeyNext]_keyVars
  BY StepMaps DEF E2EInv
<1>2. KeyInv' /\ KeyTypeOK'
  BY <1>1, KeyNextInv DEF E2EInv, KeyInv
<1>3. NetOK' /\ net' \in [Users -> [Users -> Seq(LineType)]]
  BY <1>1, <1>2, NetNext DEF E2EInv
<1>4. online' \in [Users -> BOOLEAN] /\ breaks' \in Nat
  BY OnlineNext DEF E2EInv
<1> QED BY <1>2, <1>3, <1>4 DEF E2EInv, TypeOK

\* The inductive invariant of E2E: that of EpochKeys, and only lines on the
\* channels that carry what their senders made for their receivers.
THEOREM E2EInvariance == Spec => []E2EInv
BY E2EInitInv, E2ENextInv, PTL DEF Spec

(***************************************************************************)
(* The Managers and the relay between them stay well formed.               *)
(***************************************************************************)
THEOREM E2ETypeCorrect == Spec => []TypeOK
<1>1. E2EInv => TypeOK
  BY DEF E2EInv
<1> QED BY <1>1, E2EInvariance, PTL

(***************************************************************************)
(* Clients behind the relay, with crashes and lost lines, behave as        *)
(* EpochKeys allows: a line a client reads carries a public value or a     *)
(* ciphertext its peer made for it.                                        *)
(***************************************************************************)
THEOREM E2EImplementsEpochKeys == Spec => KeySpec
<1>1. Init => KeyInit
  BY DEF Init
<1>2. E2EInv /\ [Next]_vars => [KeyNext]_keyVars
  BY StepMaps DEF E2EInv
<1> QED BY <1>1, <1>2, E2EInvariance, PTL DEF Spec, KeySpec

(***************************************************************************)
(* No client ever uses a nonce twice with one key.                         *)
(***************************************************************************)
THEOREM E2ENonceFreshness == Spec => []NonceFresh
BY E2EImplementsEpochKeys, NonceFreshness, PTL

-----------------------------------------------------------------------------
(***************************************************************************)
(* Lines on a channel: a2 is a with m put at its end, or a without its     *)
(* first line.                                                             *)
(***************************************************************************)
Added(a, a2, m) ==
    /\ Len(a2) = Len(a) + 1 /\ a2[Len(a) + 1] = m
    /\ \A i \in 1 .. Len(a) : a2[i] = a[i]

Removed(a, a2) ==
    /\ Len(a) = Len(a2) + 1
    /\ \A i \in 1 .. Len(a2) : a2[i] = a[i + 1]

\* Append adds a line, Tail removes one.
LEMMA AddedRemoved ==
    ASSUME NEW S, NEW a \in Seq(S), NEW m \in S
    PROVE  /\ Append(a, m) \in Seq(S) /\ Added(a, Append(a, m), m)
           /\ a # <<>> => /\ Tail(a) \in Seq(S) /\ Removed(a, Tail(a))
                          /\ Head(a) = a[1] /\ Len(a) >= 1
BY DEF Added, Removed

\* The fields of a line.
LEMMA LineFields ==
    ASSUME NEW a \in Seq(LineType), NEW i \in 1 .. Len(a)
    PROVE  /\ a[i].tag \in {"init", "ack", "msg"}
           /\ LineLevel(a[i]) \in Nat
           /\ a[i].tag = "msg" => a[i].ct.n \in EpochNumbers /\ a[i].ct.seq \in Nat
           /\ a[i].tag # "msg" => a[i].n \in EpochNumbers
<1>1. a[i] \in LineType
  OBVIOUS
<1>2. CASE a[i] \in [tag : {"init", "ack"}, n : EpochNumbers, pub : KeyPairs]
  <2>1. a[i].tag \in {"init", "ack"} /\ a[i].n \in EpochNumbers /\ a[i].n \in Nat
    BY <1>2, EpochAssumption
  <2> QED BY <2>1 DEF LineLevel
<1>3. CASE a[i] \in [tag : {"msg"}, ct : CipherType]
  <2>1. a[i].tag = "msg" /\ a[i].ct.n \in EpochNumbers /\ a[i].ct.n \in Nat
        /\ a[i].ct.seq \in Nat
    BY <1>3, EpochAssumption DEF CipherType
  <2> QED BY <2>1 DEF LineLevel
<1> QED BY <1>1, <1>2, <1>3 DEF LineType

\* The levels of entries.
LEMMA LevelType ==
    ASSUME NEW p \in PeerType
    PROVE  /\ Level(p) \in Nat /\ p.cur.n \in Nat /\ p.prev.n \in Nat
           /\ p.cur.n \in EpochNumbers /\ p.prev.n \in EpochNumbers
           /\ p.cur.tx \in Nat /\ p.cur.rx \in Nat /\ p.prev.rx \in Nat
<1>1. p.cur \in EpochType /\ p.prev \in EpochType
  BY DEF PeerType
<1>2. /\ p.cur.n \in EpochNumbers /\ p.prev.n \in EpochNumbers
      /\ p.cur.tx \in Nat /\ p.cur.rx \in Nat /\ p.prev.rx \in Nat
  BY <1>1 DEF EpochType
<1>3. p.cur.n \in Nat /\ p.prev.n \in Nat
  BY <1>2, EpochAssumption
<1> QED BY <1>2, <1>3 DEF Level

-----------------------------------------------------------------------------
(***************************************************************************)
(* The order of the lines.                                                 *)
(***************************************************************************)
LEMMA OrderedPush ==
    ASSUME NEW a \in Seq(LineType), NEW a2 \in Seq(LineType), NEW m, Added(a, a2, m),
           NEW l \in Nat, NEW l2 \in Nat, Ordered(l, a), LineLevel(m) = l2, l <= l2,
           m.tag = "ack" => l < l2,
           m.tag = "init" => \A i \in 1 .. Len(a) : a[i].tag = "init" => a[i].pub # m.pub
    PROVE  Ordered(l2, a2)
<1>1. /\ Len(a) \in Nat /\ Len(a2) = Len(a) + 1 /\ a2[Len(a) + 1] = m
      /\ \A i \in 1 .. Len(a) : a2[i] = a[i]
  BY DEF Added
<1>2. \A i \in 1 .. Len(a) : LineLevel(a[i]) \in Nat /\ LineLevel(a[i]) <= l
  BY LineFields DEF Ordered
<1>3. \A i \in 1 .. Len(a2) : i \in 1 .. Len(a) \/ i = Len(a) + 1
  BY <1>1
<1>4. \A i \in 1 .. Len(a2) : LineLevel(a2[i]) <= l2
  BY <1>1, <1>2, <1>3
<1>5. ASSUME NEW i \in 1 .. Len(a2), NEW j \in 1 .. Len(a2), i < j
      PROVE  IF a2[j].tag = "ack" THEN LineLevel(a2[i]) < LineLevel(a2[j])
                                  ELSE LineLevel(a2[i]) <= LineLevel(a2[j])
  <2>1. i \in 1 .. Len(a) /\ a2[i] = a[i]
    BY <1>1, <1>5
  <2>2. CASE j \in 1 .. Len(a)
    BY <1>1, <1>5, <2>1, <2>2 DEF Ordered
  <2>3. CASE j = Len(a) + 1
    BY <1>1, <1>2, <2>1, <2>3
  <2> QED BY <1>3, <2>2, <2>3
<1>6. ASSUME NEW i \in 1 .. Len(a2), NEW j \in 1 .. Len(a2), a2[i].tag = "init",
             a2[j].tag = "init", a2[i].pub = a2[j].pub
      PROVE  i = j
  <2>1. CASE i \in 1 .. Len(a) /\ j \in 1 .. Len(a)
    BY <1>1, <1>6, <2>1 DEF Ordered
  <2>2. CASE i = Len(a) + 1 /\ j \in 1 .. Len(a)
    BY <1>1, <1>6, <2>2
  <2>3. CASE j = Len(a) + 1 /\ i \in 1 .. Len(a)
    BY <1>1, <1>6, <2>3
  <2> QED BY <1>3, <2>1, <2>2, <2>3
<1> QED BY <1>4, <1>5, <1>6 DEF Ordered

\* Reading a line leaves the others in order.
LEMMA OrderedPop ==
    ASSUME NEW a \in Seq(LineType), NEW a2 \in Seq(LineType), Removed(a, a2),
           NEW l \in Nat, Ordered(l, a)
    PROVE  Ordered(l, a2)
<1>1. /\ Len(a2) \in Nat
      /\ \A i \in 1 .. Len(a2) : i + 1 \in 1 .. Len(a) /\ a2[i] = a[i + 1]
  BY DEF Removed
<1>2. \A i, j \in 1 .. Len(a2) :
        i < j => IF a2[j].tag = "ack" THEN LineLevel(a2[i]) < LineLevel(a2[j])
                                      ELSE LineLevel(a2[i]) <= LineLevel(a2[j])
  <2> SUFFICES ASSUME NEW i \in 1 .. Len(a2), NEW j \in 1 .. Len(a2), i < j
               PROVE  IF a2[j].tag = "ack" THEN LineLevel(a2[i]) < LineLevel(a2[j])
                                           ELSE LineLevel(a2[i]) <= LineLevel(a2[j])
    OBVIOUS
  <2>1. i + 1 < j + 1
    BY <1>1
  <2> QED BY <1>1, <2>1 DEF Ordered
<1>3. \A i, j \in 1 .. Len(a2) :
        (a2[i].tag = "init" /\ a2[j].tag = "init" /\ a2[i].pub = a2[j].pub) => i = j
  <2> SUFFICES ASSUME NEW i \in 1 .. Len(a2), NEW j \in 1 .. Len(a2), a2[i].tag = "init",
                      a2[j].tag = "init", a2[i].pub = a2[j].pub
               PROVE  i = j
    OBVIOUS
  <2>1. i + 1 = j + 1
    BY <1>1 DEF Ordered
  <2> QED BY <1>1, <2>1
<1>4. \A i \in 1 .. Len(a2) : LineLevel(a2[i]) <= l
  BY <1>1 DEF Ordered
<1> QED BY <1>2, <1>3, <1>4 DEF Ordered

\* The lines stay in order when their sender moves on.
LEMMA OrderedRaise ==
    ASSUME NEW a \in Seq(LineType), NEW l \in Nat, NEW l2 \in Nat, l <= l2, Ordered(l, a)
    PROVE  Ordered(l2, a)
<1>1. \A i \in 1 .. Len(a) : LineLevel(a[i]) \in Nat /\ LineLevel(a[i]) <= l
  BY LineFields DEF Ordered
<1>2. \A i \in 1 .. Len(a) : LineLevel(a[i]) <= l2
  BY <1>1
<1> QED BY <1>2 DEF Ordered

\* The first line has the lowest level, and the lowest by far if an ACK follows.
LEMMA FirstIsLowest ==
    ASSUME NEW a \in Seq(LineType), NEW l, Ordered(l, a), NEW i \in 2 .. Len(a)
    PROVE  /\ LineLevel(a[1]) <= LineLevel(a[i])
           /\ a[i].tag = "ack" => LineLevel(a[1]) < LineLevel(a[i])
<1>1. 1 \in 1 .. Len(a) /\ i \in 1 .. Len(a) /\ 1 < i
  OBVIOUS
<1>2. LineLevel(a[1]) \in Nat /\ LineLevel(a[i]) \in Nat
  BY <1>1, LineFields
<1> QED BY <1>1, <1>2 DEF Ordered

\* A sender seals nothing under an epoch it has not entered.
LEMMA FlightBelow ==
    ASSUME NEW a \in Seq(LineType), NEW l \in Nat, Ordered(l, a), NEW i \in 1 .. Len(a),
           a[i].tag = "msg"
    PROVE  a[i].ct.n \in Nat /\ a[i].ct.n < l
<1>1. a[i].ct.n \in Nat
  BY LineFields, EpochAssumption
<1>2. LineLevel(a[i]) <= l
  BY DEF Ordered
<1> QED BY <1>1, <1>2 DEF LineLevel

-----------------------------------------------------------------------------
(***************************************************************************)
(* The counters of the messages of one epoch.                              *)
(***************************************************************************)
\* A line that is not of this epoch changes nothing,
LEMMA FlightPush ==
    ASSUME NEW a \in Seq(LineType), NEW a2 \in Seq(LineType), NEW m, Added(a, a2, m),
           NEW n, ~(m.tag = "msg" /\ m.ct.n = n), NEW lo, NEW hi
    PROVE  /\ Gapless(a, n, lo) => Gapless(a2, n, lo)
           /\ EndsAt(a, n, lo, hi) => EndsAt(a2, n, lo, hi)
<1>1. Flight(a2, n) = Flight(a, n) /\ \A i \in Flight(a, n) : a2[i] = a[i]
  BY DEF Added, Flight
<1> QED BY <1>1 DEF Gapless, EndsAt

\* nor does its end.
LEMMA FlightPop ==
    ASSUME NEW a \in Seq(LineType), NEW a2 \in Seq(LineType), Removed(a, a2),
           NEW n, ~(a[1].tag = "msg" /\ a[1].ct.n = n), NEW lo, NEW hi
    PROVE  /\ Gapless(a, n, lo) => Gapless(a2, n, lo)
           /\ EndsAt(a, n, lo, hi) => EndsAt(a2, n, lo, hi)
<1>1. \A i \in Flight(a2, n) : i + 1 \in Flight(a, n) /\ a2[i] = a[i + 1] /\ i \in Nat
  BY DEF Removed, Flight
<1>2. \A j \in Flight(a, n) : j - 1 \in Flight(a2, n) /\ a2[j - 1] = a[j]
  BY DEF Removed, Flight
<1>3. ASSUME Gapless(a, n, lo) PROVE Gapless(a2, n, lo)
  <2> SUFFICES ASSUME NEW i \in Flight(a2, n)
               PROVE  /\ lo <= a2[i].ct.seq
                      /\ \A j \in Flight(a2, n) : i < j => a2[i].ct.seq < a2[j].ct.seq
                      /\ \A s \in lo .. a2[i].ct.seq :
                            \E j \in Flight(a2, n) : a2[j].ct.seq = s
    BY DEF Gapless
  <2>1. /\ lo <= a[i + 1].ct.seq
        /\ \A j \in Flight(a, n) : i + 1 < j => a[i + 1].ct.seq < a[j].ct.seq
        /\ \A s \in lo .. a[i + 1].ct.seq : \E j \in Flight(a, n) : a[j].ct.seq = s
    BY <1>1, <1>3 DEF Gapless
  <2>2. \A s \in lo .. a2[i].ct.seq : \E j \in Flight(a2, n) : a2[j].ct.seq = s
    <3> SUFFICES ASSUME NEW s \in lo .. a2[i].ct.seq
                 PROVE  \E j \in Flight(a2, n) : a2[j].ct.seq = s
      OBVIOUS
    <3>1. PICK j \in Flight(a, n) : a[j].ct.seq = s
      BY <1>1, <2>1
    <3> QED BY <1>2, <3>1
  <2>3. \A j \in Flight(a2, n) : i < j => a2[i].ct.seq < a2[j].ct.seq
    BY <1>1, <2>1, SMTT(30)
  <2> QED BY <1>1, <2>1, <2>2, <2>3
<1>4. ASSUME EndsAt(a, n, lo, hi) PROVE EndsAt(a2, n, lo, hi)
  <2>1. ASSUME NEW s \in lo .. hi - 1 PROVE \E j \in Flight(a2, n) : a2[j].ct.seq = s
    <3>1. PICK j \in Flight(a, n) : a[j].ct.seq = s
      BY <1>4, <2>1 DEF EndsAt
    <3> QED BY <1>2, <3>1
  <2>2. \A i \in Flight(a2, n) : a2[i].ct.seq < hi
    BY <1>1, <1>4 DEF EndsAt
  <2> QED BY <1>4, <2>1, <2>2 DEF EndsAt
<1> QED BY <1>3, <1>4

\* A message sealed with the next counter goes to the end.
LEMMA MsgPush ==
    ASSUME NEW a \in Seq(LineType), NEW a2 \in Seq(LineType), NEW m, Added(a, a2, m),
           m.tag = "msg", NEW lo \in Nat, NEW hi \in Nat, m.ct.seq = hi,
           Gapless(a, m.ct.n, lo), EndsAt(a, m.ct.n, lo, hi)
    PROVE  Gapless(a2, m.ct.n, lo) /\ EndsAt(a2, m.ct.n, lo, hi + 1)
<1> DEFINE n == m.ct.n
           k == Len(a) + 1
<1>1. /\ Flight(a2, n) = Flight(a, n) \cup {k} /\ a2[k] = m
      /\ \A i \in Flight(a, n) : a2[i] = a[i] /\ i \in Nat /\ i < k
  BY DEF Added, Flight
<1>2. \A i \in Flight(a, n) : a[i].ct.seq \in Nat
  BY LineFields DEF Flight
<1>3. /\ lo <= hi /\ \A i \in Flight(a, n) : a[i].ct.seq < hi
      /\ \A s \in lo .. hi - 1 : \E j \in Flight(a, n) : a[j].ct.seq = s
  BY DEF EndsAt
<1>k. k \in Nat
  OBVIOUS
<1> HIDE DEF n, k
<1>4. \A s \in lo .. hi : \E j \in Flight(a2, n) : a2[j].ct.seq = s
  <2> SUFFICES ASSUME NEW s \in lo .. hi PROVE \E j \in Flight(a2, n) : a2[j].ct.seq = s
    OBVIOUS
  <2>1. CASE s = hi
    BY <1>1, <2>1
  <2>2. CASE s \in lo .. hi - 1
    BY <1>1, <1>3, <2>2
  <2> QED BY <2>1, <2>2
<1>5. \A i \in Flight(a2, n) : a2[i].ct.seq \in Nat /\ a2[i].ct.seq <= hi
  BY <1>1, <1>2, <1>3
<1>6. EndsAt(a2, n, lo, hi + 1)
  <2>1. \A s \in lo .. hi + 1 - 1 : \E j \in Flight(a2, n) : a2[j].ct.seq = s
    BY <1>4
  <2> QED BY <1>3, <1>5, <2>1 DEF EndsAt
<1>7. ASSUME NEW i \in Flight(a2, n)
      PROVE  /\ lo <= a2[i].ct.seq
             /\ \A j \in Flight(a2, n) : i < j => a2[i].ct.seq < a2[j].ct.seq
             /\ \A s \in lo .. a2[i].ct.seq : \E j \in Flight(a2, n) : a2[j].ct.seq = s
  <2>1. CASE i = k
    BY <1>1, <1>k, <1>3, <1>4, <2>1
  <2>2. CASE i \in Flight(a, n)
    <3>1. lo <= a2[i].ct.seq
      BY <1>1, <2>2 DEF Gapless, n
    <3>2. ASSUME NEW j \in Flight(a2, n), i < j PROVE a2[i].ct.seq < a2[j].ct.seq
      <4>1. CASE j \in Flight(a, n)
        BY <1>1, <2>2, <3>2, <4>1 DEF Gapless, n
      <4>2. CASE j = k
        BY <1>1, <1>3, <2>2, <4>2
      <4> QED BY <1>1, <4>1, <4>2
    <3>3. \A s \in lo .. a2[i].ct.seq : s \in lo .. hi
      BY <1>5
    <3> QED BY <1>4, <3>1, <3>2, <3>3
  <2> QED BY <1>1, <2>1, <2>2
<1> QED BY <1>6, <1>7 DEF Gapless, n

\* The first message has the counter the reader is at, and the rest follow.
LEMMA MsgPop ==
    ASSUME NEW a \in Seq(LineType), NEW a2 \in Seq(LineType), Removed(a, a2),
           a[1].tag = "msg", NEW lo \in Nat, Gapless(a, a[1].ct.n, lo)
    PROVE  /\ a[1].ct.seq = lo /\ Gapless(a2, a[1].ct.n, lo + 1)
           /\ \A hi \in Nat : EndsAt(a, a[1].ct.n, lo, hi) => EndsAt(a2, a[1].ct.n, lo + 1, hi)
<1> DEFINE n == a[1].ct.n
<1>1. \A i \in Flight(a2, n) : i + 1 \in Flight(a, n) /\ a2[i] = a[i + 1] /\ i \in Nat
                                /\ i + 1 > 1
  BY DEF Removed, Flight
<1>2. \A j \in Flight(a, n) : j = 1 \/ (j - 1 \in Flight(a2, n) /\ a2[j - 1] = a[j] /\ 1 < j)
  BY DEF Removed, Flight
<1>3. 1 \in Flight(a, n)
  BY DEF Removed, Flight
<1>4. \A i \in Flight(a, n) : a[i].ct.seq \in Nat /\ i \in Nat
  BY LineFields DEF Flight
<1> HIDE DEF n
<1>5. a[1].ct.seq = lo
  <2>1. PICK j \in Flight(a, n) : a[j].ct.seq = lo
    BY <1>3, <1>4 DEF Gapless, n
  <2>2. j = 1 \/ 1 < j
    BY <1>2, <2>1
  <2>3. 1 < j => a[1].ct.seq < lo
    BY <1>3, <2>1 DEF Gapless, n
  <2>4. lo <= a[1].ct.seq
    BY <1>3 DEF Gapless, n
  <2> QED BY <1>3, <1>4, <2>1, <2>2, <2>3, <2>4
<1>6. \A i \in Flight(a2, n) : a2[i].ct.seq \in Nat /\ lo < a2[i].ct.seq
  BY <1>1, <1>3, <1>4, <1>5 DEF Gapless, n
<1>7. ASSUME NEW i \in Flight(a2, n)
      PROVE  /\ lo + 1 <= a2[i].ct.seq
             /\ \A j \in Flight(a2, n) : i < j => a2[i].ct.seq < a2[j].ct.seq
             /\ \A s \in lo + 1 .. a2[i].ct.seq : \E j \in Flight(a2, n) : a2[j].ct.seq = s
  <2>1. ASSUME NEW j \in Flight(a2, n), i < j PROVE a2[i].ct.seq < a2[j].ct.seq
    <3>1. i + 1 < j + 1
      BY <1>1, <2>1
    <3> QED BY <1>1, <3>1 DEF Gapless, n
  <2>2. ASSUME NEW s \in lo + 1 .. a2[i].ct.seq
        PROVE  \E j \in Flight(a2, n) : a2[j].ct.seq = s
    <3>1. s \in lo .. a[i + 1].ct.seq
      BY <1>1, <1>4
    <3>2. PICK j \in Flight(a, n) : a[j].ct.seq = s
      BY <1>1, <3>1 DEF Gapless, n
    <3>3. j # 1
      BY <1>5, <2>2, <3>2
    <3> QED BY <1>2, <3>2, <3>3
  <2> QED BY <1>6, <2>1, <2>2
<1>8. ASSUME NEW hi \in Nat, EndsAt(a, n, lo, hi) PROVE EndsAt(a2, n, lo + 1, hi)
  <2>1. lo < hi
    BY <1>3, <1>5, <1>8 DEF EndsAt
  <2>2. \A i \in Flight(a2, n) : a2[i].ct.seq < hi
    BY <1>1, <1>8 DEF EndsAt
  <2>3. ASSUME NEW s \in lo + 1 .. hi - 1 PROVE \E j \in Flight(a2, n) : a2[j].ct.seq = s
    <3>1. PICK j \in Flight(a, n) : a[j].ct.seq = s
      BY <1>8, <2>3 DEF EndsAt
    <3>2. j # 1
      BY <1>5, <2>3, <3>1
    <3> QED BY <1>2, <3>1, <3>2
  <2> QED BY <2>1, <2>2, <2>3 DEF EndsAt
<1> QED BY <1>5, <1>7, <1>8 DEF Gapless, n

\* No message of this epoch is on the way.
LEMMA NoFlight ==
    ASSUME NEW a, NEW n, Flight(a, n) = {}, NEW lo \in Nat
    PROVE  Gapless(a, n, lo) /\ EndsAt(a, n, lo, lo)
BY DEF Gapless, EndsAt
-----------------------------------------------------------------------------
(***************************************************************************)
(* What one way between two users keeps when a line joins or leaves it.    *)
(***************************************************************************)
\* An INIT or an ACK put at the end leaves keys and counters alone.
LEMMA KexPush ==
    ASSUME NEW a \in Seq(LineType), NEW a2 \in Seq(LineType), NEW m, Added(a, a2, m),
           m.tag # "msg", NEW u, NEW v, NEW p, NEW q
    PROVE  /\ KeysKnown(u, v, p, q, a) => KeysKnown(u, v, p, q, a2)
           /\ CountersMatch(p, q, a) => CountersMatch(p, q, a2)
<1>1. \A i \in 1 .. Len(a2) : a2[i].tag = "msg" => i \in 1 .. Len(a) /\ a2[i] = a[i]
  BY DEF Added
<1>2. KeysKnown(u, v, p, q, a) => KeysKnown(u, v, p, q, a2)
  BY <1>1 DEF KeysKnown
<1>3. ASSUME CountersMatch(p, q, a), NEW n \in EpochNumbers, Reading(q, n)
      PROVE  /\ Gapless(a2, n, NextSeq(q, n))
             /\ p.st = "up" /\ n = p.cur.n => EndsAt(a2, n, NextSeq(q, n), p.cur.tx)
  BY <1>3, FlightPush DEF CountersMatch
<1> QED BY <1>2, <1>3 DEF CountersMatch

\* Any line may leave without harm to the keys; to the counters, any the reader does
\* not count.
LEMMA UncountedPop ==
    ASSUME NEW a \in Seq(LineType), NEW a2 \in Seq(LineType), Removed(a, a2),
           NEW u, NEW v, NEW p, NEW q
    PROVE  /\ KeysKnown(u, v, p, q, a) => KeysKnown(u, v, p, q, a2)
           /\ CountersMatch(p, q, a) /\ (a[1].tag = "msg" => ~Reading(q, a[1].ct.n))
                => CountersMatch(p, q, a2)
<1>1. \A i \in 1 .. Len(a2) : i + 1 \in 1 .. Len(a) /\ a2[i] = a[i + 1]
  BY DEF Removed
<1>2. KeysKnown(u, v, p, q, a) => KeysKnown(u, v, p, q, a2)
  BY <1>1 DEF KeysKnown
<1>3. ASSUME CountersMatch(p, q, a), a[1].tag = "msg" => ~Reading(q, a[1].ct.n),
             NEW n \in EpochNumbers, Reading(q, n)
      PROVE  /\ Gapless(a2, n, NextSeq(q, n))
             /\ p.st = "up" /\ n = p.cur.n => EndsAt(a2, n, NextSeq(q, n), p.cur.tx)
  <2>1. ~(a[1].tag = "msg" /\ a[1].ct.n = n)
    BY <1>3
  <2> QED BY <1>3, <2>1, FlightPop DEF CountersMatch
<1> QED BY <1>2, <1>3 DEF CountersMatch

\* A change of an entry that concerns no epoch but may stop the reading of the
\* previous one.
Quiet(p, p2) ==
    /\ p2.st = "up" <=> p.st = "up"
    /\ p2.cur = p.cur /\ p2.prev = p.prev
    /\ p2.havePrev /\ p2.grace => p.havePrev /\ p.grace

\* Such a change harms neither keys nor counters.
LEMMA QuietWay ==
    ASSUME NEW u, NEW v, NEW p, NEW p2, NEW q, NEW q2, NEW a,
           Quiet(p, p2), Quiet(q, q2), Way(u, v, p, q, a)
    PROVE  Way(u, v, p2, q2, a) /\ Level(p2) = Level(p)
<1>1. Level(p2) = Level(p)
  BY DEF Level, Quiet
<1>2. KeysKnown(u, v, p2, q2, a)
  BY DEF KeysKnown, Quiet, Way
<1>3. \A n : /\ Reading(q2, n) => Reading(q, n)
             /\ NextSeq(q2, n) = NextSeq(q, n)
  BY DEF Reading, NextSeq, Quiet
<1>4. CountersMatch(p2, q2, a)
  BY <1>3 DEF CountersMatch, Quiet, Way
<1> QED BY <1>1, <1>2, <1>4 DEF Way

-----------------------------------------------------------------------------
(***************************************************************************)
(* What the two ends of a session and the lines between them say of the    *)
(* first line that u has not read.                                         *)
(***************************************************************************)
\* The two users of a pair may be named in either order.
LEMMA PairSym ==
    ASSUME NEW u, NEW v, NEW p \in PeerType, NEW q \in PeerType, NEW a, NEW b,
           Pair(u, v, p, q, a, b)
    PROVE  Pair(v, u, q, p, b, a)
<1>1. Settled(u, v, p, q, a, b) => Settled(v, u, q, p, b, a)
  BY LevelType DEF Settled, Level
<1> QED BY <1>1 DEF Pair, Control

\* Users are ranks: one of two is the a-side.
LEMMA OneIsLower ==
    ASSUME NEW u \in Users, NEW v \in Users, u # v
    PROVE  (u < v) # (v < u)
BY UsersAssumption

\* An INIT that on_init does not ignore is the only one, is open, and nothing else
\* is being settled.
LEMMA HeadInit ==
    ASSUME NEW u \in Users, NEW v \in Users, u # v, NEW p \in PeerType, NEW q \in PeerType,
           NEW a \in Seq(LineType), NEW b \in Seq(LineType), Pair(u, v, p, q, a, b),
           Len(b) >= 1, b[1].tag = "init", ~WinsTie(u, v, p, b[1].n)
    PROVE  /\ Settled(u, v, p, q, a, b)
           /\ b[1].n = Level(p) /\ q.rotating /\ b[1].pub = q.nextKp
           /\ \A i \in 2 .. Len(b) : b[i].tag = "msg"
           /\ p.rotating => v < u
<1>0. /\ Level(p) \in Nat /\ Level(q) \in Nat
      /\ p.rotating => p.nextEpoch = Level(p)
      /\ Ordered(Level(q), b)
      /\ 1 \in 1 .. Len(b) /\ Len(b) \in Nat
  BY LevelType DEF Pair, EntryInv, Way
<1>1. ~Answered(u, v, p, q, a, b)
  BY <1>0 DEF Answered
<1>2. ~Answered(v, u, q, p, b, a)
  <2> SUFFICES ASSUME Answered(v, u, q, p, b, a) PROVE FALSE
    OBVIOUS
  <2>1. PICK i \in 1 .. Len(b) : b[i].tag = "ack"
    BY DEF Answered
  <2>2. i \in 2 .. Len(b) /\ b[i].n = Level(p) /\ Level(q) = Level(p) + 1
    BY <1>0, <2>1 DEF Answered
  <2>3. LineLevel(b[1]) < LineLevel(b[i])
    BY <1>0, <2>1, <2>2, FirstIsLowest
  <2>4. b[1].n < Level(q)
    BY <1>0, <2>1, <2>2, <2>3 DEF LineLevel
  <2>5. b[1].n = Level(p) /\ u < v /\ p.rotating
    BY <1>0, <2>4 DEF Answered
  <2> QED BY <1>0, <2>5 DEF WinsTie, Collides
<1>3. Settled(u, v, p, q, a, b)
  BY <1>1, <1>2 DEF Pair, Control
<1>4. \A i \in 1 .. Len(b) : /\ b[i].tag # "ack"
                             /\ b[i].tag = "init" =>
                                /\ b[i].n = Level(p)
                                /\ (q.rotating /\ b[i].pub = q.nextKp) \/ (u < v /\ p.rotating)
  BY <1>3 DEF Settled, OpenInits
<1>5. b[1].n = Level(p)
  BY <1>0, <1>4
<1>6. p.rotating => ~(u < v)
  BY <1>0, <1>5 DEF WinsTie, Collides
<1>7. q.rotating /\ b[1].pub = q.nextKp
  BY <1>0, <1>4, <1>6
<1>8. ASSUME NEW i \in 2 .. Len(b) PROVE b[i].tag = "msg"
  <2>1. i \in 1 .. Len(b) /\ i # 1
    BY <1>0
  <2>2. b[i].tag # "init"
    <3> SUFFICES ASSUME b[i].tag = "init" PROVE FALSE
      OBVIOUS
    <3>1. b[i].pub = b[1].pub
      BY <1>4, <1>6, <1>7, <2>1
    <3> QED BY <1>0, <2>1, <3>1 DEF Ordered
  <2> QED BY <1>4, <2>1, <2>2, LineFields
<1>9. p.rotating => v < u
  BY <1>6, OneIsLower
<1> QED BY <1>3, <1>5, <1>7, <1>8, <1>9

\* An ACK is the answer to u's open INIT, and all that follows is of the new epoch.
LEMMA HeadAck ==
    ASSUME NEW u \in Users, NEW v \in Users, u # v, NEW p \in PeerType, NEW q \in PeerType,
           NEW a \in Seq(LineType), NEW b \in Seq(LineType), Pair(u, v, p, q, a, b),
           Len(b) >= 1, b[1].tag = "ack"
    PROVE  /\ Answered(v, u, q, p, b, a)
           /\ AckExpected(p, b[1].n) /\ b[1].n = Level(p) /\ p.nextEpoch = Level(p)
           /\ q.cur.z = {p.nextKp, b[1].pub}
           /\ \A i \in 2 .. Len(b) : b[i].tag # "ack" /\ Level(q) <= LineLevel(b[i])
<1>0. /\ Level(p) \in Nat /\ Level(q) \in Nat
      /\ p.rotating => p.nextEpoch = Level(p) /\ p.st # "none"
      /\ Ordered(Level(q), b)
      /\ 1 \in 1 .. Len(b) /\ Len(b) \in Nat
  BY LevelType DEF Pair, EntryInv, Way
<1>1. ~Settled(u, v, p, q, a, b) /\ ~Answered(u, v, p, q, a, b)
  BY <1>0 DEF Settled, OpenInits, Answered
<1>2. Answered(v, u, q, p, b, a)
  BY <1>1 DEF Pair, Control
<1>3. /\ b[1].n = Level(p) /\ q.cur.z = {p.nextKp, b[1].pub} /\ p.rotating
      /\ Level(q) = Level(p) + 1
  BY <1>0, <1>2 DEF Answered
<1>4. LineLevel(b[1]) = Level(q)
  BY <1>3 DEF LineLevel
<1>5. ASSUME NEW i \in 2 .. Len(b) PROVE b[i].tag # "ack" /\ Level(q) <= LineLevel(b[i])
  <2>1. i \in 1 .. Len(b)
    BY <1>0
  <2>2. LineLevel(b[i]) <= Level(q)
    BY <1>0, <2>1 DEF Ordered
  <2> QED BY <1>0, <1>4, <2>1, <2>2, FirstIsLowest, LineFields
<1> QED BY <1>0, <1>2, <1>3, <1>5 DEF AckExpected

\* A message is of the current epoch or of the one before, and if u still reads
\* that epoch, it carries the counter u is at.
LEMMA HeadMsg ==
    ASSUME NEW u \in Users, NEW v \in Users, u # v, NEW p \in PeerType, NEW q \in PeerType,
           NEW a \in Seq(LineType), NEW b \in Seq(LineType), Pair(u, v, p, q, a, b),
           Len(b) >= 1, b[1].tag = "msg"
    PROVE  LET c == b[1].ct IN
           /\ p.st = "up" /\ c.n \in EpochNumbers /\ c.n \in Nat /\ c.dir = Dir(v, u)
           /\ \/ c.n = p.cur.n /\ c.z = p.cur.z
              \/ c.n + 1 = p.cur.n /\ c.z = p.prev.z
           /\ Reading(p, c.n) => c.seq = NextSeq(p, c.n)
<1> DEFINE c == b[1].ct
<1>0. /\ Level(p) \in Nat /\ Level(q) \in Nat
      /\ Ordered(Level(q), b) /\ KeysKnown(v, u, q, p, b) /\ CountersMatch(q, p, b)
      /\ 1 \in 1 .. Len(b) /\ Len(b) \in Nat
      /\ c.n \in EpochNumbers /\ c.n \in Nat
  <2>1. 1 \in 1 .. Len(b) /\ Len(b) \in Nat
    OBVIOUS
  <2>2. c.n \in EpochNumbers /\ c.n \in Nat
    BY <2>1, LineFields, EpochAssumption
  <2> QED BY <2>1, <2>2, LevelType DEF Pair, Way
<1>1. /\ c.dir = Dir(v, u)
      /\ \/ p.st = "up" /\ c.n = p.cur.n /\ c.z = p.cur.z
         \/ p.st = "up" /\ c.n + 1 = p.cur.n /\ c.z = p.prev.z
         \/ q.st = "up" /\ c.n = q.cur.n /\ c.z = q.cur.z
  BY <1>0 DEF KeysKnown
<1>2. ASSUME q.st = "up", c.n = q.cur.n, c.z = q.cur.z
      PROVE  /\ p.st = "up"
             /\ \/ c.n = p.cur.n /\ c.z = p.cur.z
                \/ c.n + 1 = p.cur.n /\ c.z = p.prev.z
  <2>1. CASE Settled(u, v, p, q, a, b)
    BY <1>2, <2>1, LevelType DEF Settled, Level
  <2>2. CASE Answered(u, v, p, q, a, b)
    BY <1>2, <2>2, LevelType, SMTT(30) DEF Answered, Level
  <2>3. CASE Answered(v, u, q, p, b, a)
    <3>1. PICK i \in 1 .. Len(b) : b[i].tag = "ack"
      BY <2>3 DEF Answered
    <3>2. i \in 2 .. Len(b) /\ b[i].n = Level(p) /\ Level(q) = Level(p) + 1
      BY <1>0, <2>3, <3>1 DEF Answered
    <3>3. LineLevel(b[1]) < LineLevel(b[i])
      BY <1>0, <3>1, <3>2, FirstIsLowest
    <3>4. LineLevel(b[1]) = Level(q) /\ LineLevel(b[i]) = Level(q)
      BY <1>2, <3>1, <3>2 DEF LineLevel, Level
    <3> QED BY <1>0, <3>3, <3>4
  <2> QED BY <2>1, <2>2, <2>3 DEF Pair, Control
<1>3. ASSUME Reading(p, c.n) PROVE c.seq = NextSeq(p, c.n)
  <2>1. NextSeq(p, c.n) \in Nat
    BY LevelType DEF NextSeq
  <2>2. Gapless(b, c.n, NextSeq(p, c.n))
    BY <1>0, <1>3 DEF CountersMatch
  <2>3. Len(Tail(b)) = Len(b) - 1 /\ Removed(b, Tail(b)) /\ Tail(b) \in Seq(LineType)
    <3>1. b # <<>>
      BY <1>0
    <3> QED BY <1>0, <3>1 DEF Removed
  <2> QED BY <2>1, <2>2, <2>3, MsgPop
<1> QED BY <1>0, <1>1, <1>2, <1>3

-----------------------------------------------------------------------------
(***************************************************************************)
(* How far two ends are is not changed by messages, by lines that are      *)
(* ignored, or by an entry whose epochs and open INIT stay.                *)
(***************************************************************************)
\* A message goes to the end of the line.
LEMMA ControlPush ==
    ASSUME NEW u, NEW v, NEW p, NEW q, NEW b, NEW m, m.tag = "msg",
           NEW a \in Seq(LineType), NEW a2 \in Seq(LineType), Added(a, a2, m),
           Control(u, v, p, q, a, b)
    PROVE  Control(u, v, p, q, a2, b)
<1>1. /\ \A i \in 1 .. Len(a2) : (i \in 1 .. Len(a) /\ a2[i] = a[i]) \/ a2[i].tag = "msg"
      /\ \A i \in 1 .. Len(a) : i \in 1 .. Len(a2) /\ a2[i] = a[i]
  BY DEF Added
<1>2. OpenInits(u, v, p, q, a) => OpenInits(u, v, p, q, a2)
  BY <1>1 DEF OpenInits
<1>3. ASSUME Answered(u, v, p, q, a, b) PROVE Answered(u, v, p, q, a2, b)
  <2>1. \E i \in 1 .. Len(a2) : a2[i].tag = "ack"
    BY <1>1, <1>3 DEF Answered
  <2>2. \A i \in 1 .. Len(a2) :
        /\ a2[i].tag = "ack" => a2[i].n = Level(q) /\ p.cur.z = {q.nextKp, a2[i].pub}
        /\ a2[i].tag = "init" =>
            \/ a2[i].n = Level(q) /\ v < u
            \/ a2[i].n = Level(p) /\ p.rotating /\ a2[i].pub = p.nextKp
    BY <1>1, <1>3 DEF Answered
  <2> QED BY <1>3, <2>1, <2>2 DEF Answered
<1>4. ASSUME Answered(v, u, q, p, b, a) PROVE Answered(v, u, q, p, b, a2)
  <2>1. \A i \in 1 .. Len(a2) : a2[i].tag = "msg"
    BY <1>1, <1>4 DEF Answered
  <2> QED BY <1>4, <2>1 DEF Answered
<1> QED BY <1>2, <1>3, <1>4 DEF Control, Settled

\* A line that is no ACK is read and changes nothing.
LEMMA ControlPop ==
    ASSUME NEW u, NEW v, NEW p, NEW q, NEW a,
           NEW b \in Seq(LineType), NEW b2 \in Seq(LineType), Removed(b, b2),
           b[1].tag # "ack", Control(u, v, p, q, a, b)
    PROVE  Control(u, v, p, q, a, b2)
<1>1. /\ \A i \in 1 .. Len(b2) : i + 1 \in 1 .. Len(b) /\ b2[i] = b[i + 1]
      /\ \A i \in 1 .. Len(b) : i = 1 \/ (i - 1 \in 1 .. Len(b2) /\ b2[i - 1] = b[i])
  BY DEF Removed
<1>2. OpenInits(v, u, q, p, b) => OpenInits(v, u, q, p, b2)
  BY <1>1 DEF OpenInits
<1>3. ASSUME Answered(u, v, p, q, a, b) PROVE Answered(u, v, p, q, a, b2)
  <2>1. \A i \in 1 .. Len(b2) : b2[i].tag = "msg"
    BY <1>1, <1>3 DEF Answered
  <2> QED BY <1>3, <2>1 DEF Answered
<1>4. ASSUME Answered(v, u, q, p, b, a) PROVE Answered(v, u, q, p, b2, a)
  <2>1. PICK i \in 1 .. Len(b) : b[i].tag = "ack"
    BY <1>4 DEF Answered
  <2>2. i - 1 \in 1 .. Len(b2) /\ b2[i - 1].tag = "ack"
    BY <1>1, <2>1
  <2>3. \A j \in 1 .. Len(b2) :
        /\ b2[j].tag = "ack" => b2[j].n = Level(p) /\ q.cur.z = {p.nextKp, b2[j].pub}
        /\ b2[j].tag = "init" =>
            \/ b2[j].n = Level(p) /\ u < v
            \/ b2[j].n = Level(q) /\ q.rotating /\ b2[j].pub = q.nextKp
    BY <1>1, <1>4 DEF Answered
  <2> QED BY <1>4, <2>2, <2>3 DEF Answered
<1> QED BY <1>2, <1>3, <1>4 DEF Control, Settled

\* Only the counters, the grace window or the previous epoch's keeping change.
LEMMA ControlSame ==
    ASSUME NEW u, NEW v, NEW p, NEW p2, NEW q, NEW a, NEW b,
           p2.st = "up" <=> p.st = "up", p2.cur.n = p.cur.n, p2.cur.z = p.cur.z,
           p2.prev.z = p.prev.z, p2.rotating = p.rotating, p2.nextKp = p.nextKp,
           Answered(u, v, p, q, a, b) => p2.cur.rx = 0,
           Control(u, v, p, q, a, b)
    PROVE  Control(u, v, p2, q, a, b)
<1>1. Level(p2) = Level(p)
  BY DEF Level
<1>2. Settled(u, v, p, q, a, b) => Settled(u, v, p2, q, a, b)
  BY <1>1 DEF Settled, OpenInits
<1>3. Answered(u, v, p, q, a, b) => Answered(u, v, p2, q, a, b)
  BY <1>1 DEF Answered
<1>4. Answered(v, u, q, p, b, a) => Answered(v, u, q, p2, b, a)
  BY <1>1 DEF Answered
<1> QED BY <1>2, <1>3, <1>4 DEF Control

\* A message of an epoch u reads opens.
LEMMA ReadableOpens ==
    ASSUME NEW u \in Users, NEW v \in Users, u # v, NEW p \in PeerType, NEW q \in PeerType,
           NEW a \in Seq(LineType), NEW b \in Seq(LineType), Pair(u, v, p, q, a, b),
           Len(b) >= 1, b[1].tag = "msg"
    PROVE  LET c == b[1].ct IN
           /\ Reading(p, c.n) => Opens(u, v, p, c)
           /\ ~Reading(p, c.n) => c.n + 1 = p.cur.n /\ ~(p.havePrev /\ p.grace)
<1> DEFINE c == b[1].ct
<1>1. /\ p.st = "up" /\ c.n \in Nat /\ c.dir = Dir(v, u)
      /\ \/ c.n = p.cur.n /\ c.z = p.cur.z
         \/ c.n + 1 = p.cur.n /\ c.z = p.prev.z
      /\ Reading(p, c.n) => c.seq = NextSeq(p, c.n)
  BY HeadMsg
<1>2. /\ p.cur.n \in Nat /\ p.prev.n \in Nat
      /\ p.cur.n > 0 => p.prev.n + 1 = p.cur.n
  BY <1>1, LevelType DEF Pair, EntryInv
<1> HIDE DEF c
<1>3. CASE c.n = p.cur.n /\ c.z = p.cur.z
  <2>1. Reading(p, c.n) /\ NextSeq(p, c.n) = p.cur.rx
    BY <1>2, <1>3 DEF Reading, NextSeq
  <2> QED BY <1>1, <1>3, <2>1 DEF Opens, OpensCur, Decrypts, c
<1>4. CASE c.n + 1 = p.cur.n /\ c.z = p.prev.z
  <2>1. c.n = p.prev.n /\ c.n # p.cur.n /\ NextSeq(p, c.n) = p.prev.rx
        /\ (Reading(p, c.n) <=> p.havePrev /\ p.grace)
    BY <1>1, <1>2, <1>4 DEF Reading, NextSeq
  <2> QED BY <1>1, <1>4, <2>1 DEF Opens, OpensPrev, Decrypts, c
<1> QED BY <1>1, <1>3, <1>4
-----------------------------------------------------------------------------
(***************************************************************************)
(* Each method, seen by one pair of users, keeps Pair.                     *)
(***************************************************************************)
\* The grace window closes, or tick drops the previous epoch.
LEMMA PairExpires ==
    ASSUME NEW u, NEW v, NEW p \in PeerType, NEW p2, NEW q, NEW a, NEW b,
           Pair(u, v, p, q, a, b),
           p2 = Expired(p) \/ p2 = [p EXCEPT !.grace = FALSE]
    PROVE  Pair(u, v, p2, q, a, b)
<1>1. /\ p2.st = p.st /\ p2.cur = p.cur /\ p2.prev = p.prev /\ p2.rotating = p.rotating
      /\ p2.nextKp = p.nextKp /\ p2.nextEpoch = p.nextEpoch
      /\ p2.havePrev => p.havePrev
      /\ p2.havePrev /\ p2.grace => p.havePrev /\ p.grace
  BY DEF Expired, PeerType
<1>2. Quiet(p, p2) /\ Quiet(q, q)
  BY <1>1 DEF Quiet
<1>3. Way(u, v, p2, q, a) /\ Way(v, u, q, p2, b) /\ Level(p2) = Level(p)
  BY <1>2, QuietWay DEF Pair, Control
<1>4. EntryInv(p2)
  BY <1>1, <1>3 DEF Pair, EntryInv
<1>5. Answered(u, v, p, q, a, b) => p.cur.rx = 0
  BY DEF Answered
<1>6. Control(u, v, p2, q, a, b)
  BY <1>1, <1>5, ControlSame DEF Pair, Control
<1> QED BY <1>3, <1>4, <1>6 DEF Pair, Control

\* A client that has no INIT open sends one, for the next epoch, with a new pair.
LEMMA PairAsks ==
    ASSUME NEW u, NEW v, NEW p \in PeerType, NEW p2 \in PeerType, NEW q \in PeerType,
           NEW a \in Seq(LineType), NEW a2 \in Seq(LineType), NEW b, NEW k,
           Pair(u, v, p, q, a, b), Quiet(p, p2), p2.havePrev => p.havePrev,
           ~p.rotating, p2.st # "none", p2.rotating,
           p2.nextEpoch = Level(p), p2.nextKp = k,
           Added(a, a2, InitLine(Level(p), k)),
           \A i \in 1 .. Len(a) : a[i].tag = "init" => a[i].pub # k
    PROVE  Pair(u, v, p2, q, a2, b)
<1> DEFINE m == InitLine(Level(p), k)
<1>0. /\ m.tag = "init" /\ m.n = Level(p) /\ m.pub = k /\ LineLevel(m) = Level(p)
      /\ Level(p) \in Nat /\ Added(a, a2, m)
  BY LevelType DEF InitLine, LineLevel
<1> HIDE DEF m
<1>1. Quiet(q, q)
  BY DEF Quiet
<1>2. Way(u, v, p2, q, a) /\ Way(v, u, q, p2, b) /\ Level(p2) = Level(p)
  BY <1>1, QuietWay DEF Pair, Control
<1>3. Way(u, v, p2, q, a2)
  BY <1>0, <1>2, KexPush, OrderedPush DEF Way
<1>4. EntryInv(p2)
  BY <1>2 DEF Pair, EntryInv, Quiet
<1>5. /\ \A i \in 1 .. Len(a2) : (i \in 1 .. Len(a) /\ a2[i] = a[i]) \/ a2[i] = m
      /\ \A i \in 1 .. Len(a) : i \in 1 .. Len(a2) /\ a2[i] = a[i]
  BY <1>0 DEF Added
<1>6. ~Answered(v, u, q, p, b, a)
  BY DEF Answered
<1>7. ASSUME Settled(u, v, p, q, a, b) PROVE Settled(u, v, p2, q, a2, b)
  <2>1. OpenInits(u, v, p2, q, a2)
    BY <1>0, <1>2, <1>5, <1>7 DEF Settled, OpenInits
  <2>2. OpenInits(v, u, q, p2, b)
    BY <1>2, <1>7 DEF Settled, OpenInits
  <2> QED BY <1>2, <1>7, <2>1, <2>2 DEF Settled, Quiet
<1>8. ASSUME Answered(u, v, p, q, a, b) PROVE Answered(u, v, p2, q, a2, b)
  <2>1. \E i \in 1 .. Len(a2) : a2[i].tag = "ack"
    BY <1>5, <1>8 DEF Answered
  <2>2. \A i \in 1 .. Len(a2) :
        /\ a2[i].tag = "ack" => a2[i].n = Level(q) /\ p2.cur.z = {q.nextKp, a2[i].pub}
        /\ a2[i].tag = "init" =>
            \/ a2[i].n = Level(q) /\ v < u
            \/ a2[i].n = Level(p2) /\ p2.rotating /\ a2[i].pub = p2.nextKp
    BY <1>0, <1>2, <1>5, <1>8 DEF Answered, Quiet
  <2> QED BY <1>2, <1>8, <2>1, <2>2 DEF Answered, Quiet
<1> QED BY <1>2, <1>3, <1>4, <1>6, <1>7, <1>8 DEF Pair, Control

\* A line that changes no entry is read: an INIT that loses the tie, or a message of
\* an epoch that is not read any more.
LEMMA PairIgnores ==
    ASSUME NEW u, NEW v, NEW p \in PeerType, NEW q \in PeerType, NEW a,
           NEW b \in Seq(LineType), NEW b2 \in Seq(LineType), Pair(u, v, p, q, a, b),
           Removed(b, b2), b[1].tag # "ack",
           b[1].tag = "msg" => ~Reading(p, b[1].ct.n)
    PROVE  Pair(u, v, p, q, a, b2)
<1>1. Way(v, u, q, p, b2)
  BY UncountedPop, OrderedPop, LevelType DEF Pair, Way
<1>2. Control(u, v, p, q, a, b2)
  BY ControlPop DEF Pair, Control
<1> QED BY <1>1, <1>2 DEF Pair, Control

\* A message is sealed and sent.
LEMMA PairSeals ==
    ASSUME NEW u, NEW v, NEW p \in PeerType, NEW q \in PeerType, NEW b, NEW id,
           NEW a \in Seq(LineType), NEW a2 \in Seq(LineType), Pair(u, v, p, q, a, b),
           p.st = "up", Added(a, a2, MsgLine(Ciphertext(u, v, p, id)))
    PROVE  Pair(u, v, Sealed(p), q, a2, b)
<1> DEFINE m == MsgLine(Ciphertext(u, v, p, id))
           p2 == Sealed(p)
<1>1. /\ m.tag = "msg" /\ m.ct.n = p.cur.n /\ m.ct.z = p.cur.z /\ m.ct.dir = Dir(u, v)
      /\ m.ct.seq = p.cur.tx /\ Added(a, a2, m)
  BY DEF MsgLine, Ciphertext
<1>2. /\ p2.st = p.st /\ p2.cur.n = p.cur.n /\ p2.cur.z = p.cur.z
      /\ p2.cur.tx = p.cur.tx + 1 /\ p2.cur.rx = p.cur.rx
      /\ p2.prev = p.prev /\ p2.havePrev = p.havePrev /\ p2.grace = p.grace
      /\ p2.rotating = p.rotating /\ p2.nextEpoch = p.nextEpoch /\ p2.nextKp = p.nextKp
      /\ p.cur.tx \in Nat /\ p.cur.n \in Nat
  BY LevelType DEF Sealed, PeerType, EpochType
<1>3. /\ Level(p2) = Level(p) /\ LineLevel(m) = Level(p) /\ Level(p) \in Nat
  BY <1>1, <1>2, LevelType DEF Level, LineLevel
<1> HIDE DEF m, p2
<1>4. EntryInv(p2)
  BY <1>2, <1>3 DEF Pair, EntryInv
<1>5. Ordered(Level(p2), a2)
  BY <1>1, <1>3, OrderedPush DEF Pair, Way
<1>6. KeysKnown(u, v, p2, q, a2)
  <2>1. \A i \in 1 .. Len(a2) : (i \in 1 .. Len(a) /\ a2[i] = a[i]) \/ a2[i] = m
    BY <1>1 DEF Added
  <2> QED BY <1>1, <1>2, <2>1, SMTT(30) DEF Pair, Way, KeysKnown
<1>7. CountersMatch(p2, q, a2)
  <2> SUFFICES ASSUME NEW n \in EpochNumbers, Reading(q, n)
               PROVE  /\ Gapless(a2, n, NextSeq(q, n))
                      /\ n = p2.cur.n => EndsAt(a2, n, NextSeq(q, n), p2.cur.tx)
    BY DEF CountersMatch
  <2>1. /\ Gapless(a, n, NextSeq(q, n)) /\ NextSeq(q, n) \in Nat
        /\ n = p.cur.n => EndsAt(a, n, NextSeq(q, n), p.cur.tx)
    BY LevelType DEF Pair, Way, CountersMatch, NextSeq
  <2>2. CASE n = p.cur.n
    BY <1>1, <1>2, <2>1, <2>2, MsgPush
  <2>3. CASE n # p.cur.n
    BY <1>1, <1>2, <2>1, <2>3, FlightPush
  <2> QED BY <2>2, <2>3
<1>8. KeysKnown(v, u, q, p2, b)
  BY <1>2 DEF Pair, Way, KeysKnown
<1>9. CountersMatch(q, p2, b)
  <2>1. \A n : (Reading(p2, n) <=> Reading(p, n)) /\ NextSeq(p2, n) = NextSeq(p, n)
    BY <1>2 DEF Reading, NextSeq
  <2> QED BY <2>1 DEF Pair, Way, CountersMatch
<1>10. Control(u, v, p2, q, a2, b)
  <2>1. Answered(u, v, p, q, a, b) => p2.cur.rx = 0
    BY <1>2 DEF Answered
  <2>2. Control(u, v, p2, q, a, b)
    BY <1>2, <2>1, ControlSame DEF Pair, Control
  <2> QED BY <1>1, <2>2, ControlPush
<1> QED
  BY <1>4, <1>5, <1>6, <1>7, <1>8, <1>9, <1>10 DEF Pair, Way, Control, p2

\* Key generation fails in on_init: u gives up its own INIT, if it has one open.
LEMMA PairFails ==
    ASSUME NEW u \in Users, NEW v \in Users, u # v, NEW p \in PeerType, NEW q \in PeerType,
           NEW a \in Seq(LineType), NEW b \in Seq(LineType), NEW b2 \in Seq(LineType),
           Pair(u, v, p, q, a, b), Removed(b, b2), Len(b) >= 1, b[1].tag = "init",
           ~WinsTie(u, v, p, b[1].n)
    PROVE  Pair(u, v, InitFailed(p, b[1].n), q, a, b2)
<1> DEFINE p2 == InitFailed(p, b[1].n)
<1>1. /\ Settled(u, v, p, q, a, b) /\ q.rotating
      /\ b[1].n = Level(p) /\ b[1].pub = q.nextKp
      /\ p.rotating => v < u
      /\ \A i \in 2 .. Len(b) : b[i].tag = "msg"
  BY HeadInit
<1>2. /\ p2.st = p.st /\ p2.cur = p.cur /\ p2.prev = p.prev
      /\ p2.havePrev = p.havePrev /\ p2.grace = p.grace /\ p2.nextKp = p.nextKp
      /\ ~p2.rotating
  <2>1. p.rotating => p.nextEpoch = b[1].n
    BY <1>1 DEF Pair, EntryInv
  <2> QED BY <2>1 DEF InitFailed, PeerType
<1> HIDE DEF p2
<1>3. Quiet(p, p2) /\ Quiet(q, q)
  BY <1>2 DEF Quiet
<1>4. Way(u, v, p2, q, a) /\ Way(v, u, q, p2, b) /\ Level(p2) = Level(p)
  BY <1>3, QuietWay DEF Pair
<1>5. Way(v, u, q, p2, b2)
  BY <1>4, UncountedPop, OrderedPop, LevelType DEF Way
<1>6. EntryInv(p2)
  BY <1>2, <1>4 DEF Pair, EntryInv
<1>7. OpenInits(u, v, p2, q, a)
  BY <1>1, <1>4 DEF Settled, OpenInits
<1>8. \A i \in 1 .. Len(b2) : b2[i].tag = "msg"
  <2>1. \A i \in 1 .. Len(b2) : i + 1 \in 2 .. Len(b) /\ b2[i] = b[i + 1]
    BY DEF Removed
  <2> QED BY <1>1, <2>1, SMTT(30)
<1>9. OpenInits(v, u, q, p2, b2)
  BY <1>8 DEF OpenInits
<1>10. Settled(u, v, p2, q, a, b2)
  BY <1>1, <1>2, <1>4, <1>7, <1>9 DEF Settled
<1> QED BY <1>4, <1>5, <1>6, <1>10 DEF Pair, Control, p2

\* open succeeds: the counter of the current or of the previous epoch moves.
LEMMA PairOpens ==
    ASSUME NEW u \in Users, NEW v \in Users, u # v, NEW p \in PeerType, NEW q \in PeerType,
           NEW a \in Seq(LineType), NEW b \in Seq(LineType), NEW b2 \in Seq(LineType),
           Pair(u, v, p, q, a, b), Removed(b, b2), Len(b) >= 1, b[1].tag = "msg",
           Opens(u, v, p, b[1].ct)
    PROVE  Pair(u, v, Opened(u, v, p, b[1].ct), q, a, b2)
<1> DEFINE c == b[1].ct
           p2 == Opened(u, v, p, c)
<1>1. /\ p.st = "up" /\ c.n \in EpochNumbers /\ c.n \in Nat
      /\ (c.n = p.cur.n) \/ (c.n + 1 = p.cur.n)
  BY HeadMsg
<1>2. /\ p2.st = p.st /\ p2.cur.n = p.cur.n /\ p2.cur.z = p.cur.z
      /\ p2.cur.tx = p.cur.tx /\ p2.prev.n = p.prev.n /\ p2.prev.z = p.prev.z
      /\ p2.havePrev = p.havePrev /\ p2.grace = p.grace
      /\ p2.rotating = p.rotating /\ p2.nextEpoch = p.nextEpoch /\ p2.nextKp = p.nextKp
  BY DEF Opened, PeerType, EpochType
<1>3. /\ c.n = p.cur.n => p2.cur.rx = p.cur.rx + 1 /\ p2.prev = p.prev
      /\ c.n # p.cur.n => p2.cur.rx = p.cur.rx /\ p2.prev.rx = p.prev.rx + 1
  BY DEF Opens, OpensCur, OpensPrev, Opened, PeerType, EpochType
<1>4. /\ Reading(p, c.n) /\ Level(p2) = Level(p)
      /\ Level(p) \in Nat /\ Level(q) \in Nat /\ p.cur.n \in Nat
      /\ p.cur.rx \in Nat /\ p.prev.rx \in Nat
  BY <1>1, <1>2, LevelType DEF Opens, OpensCur, OpensPrev, Reading, Level
<1> HIDE DEF p2
<1>5. EntryInv(p2)
  BY <1>1, <1>2, <1>4 DEF Pair, EntryInv
<1>6. Way(u, v, p2, q, a)
  <2>1. KeysKnown(u, v, p2, q, a) /\ CountersMatch(p2, q, a)
    BY <1>2 DEF Pair, Way, KeysKnown, CountersMatch
  <2> QED BY <1>4, <2>1 DEF Pair, Way
<1>7. KeysKnown(v, u, q, p2, b2)
  <2>1. KeysKnown(v, u, q, p, b2)
    BY UncountedPop DEF Pair, Way
  <2> QED BY <1>2, <2>1 DEF KeysKnown
<1>8. CountersMatch(q, p2, b2)
  <2> SUFFICES ASSUME NEW n \in EpochNumbers, Reading(p2, n)
               PROVE  /\ Gapless(b2, n, NextSeq(p2, n))
                      /\ q.st = "up" /\ n = q.cur.n => EndsAt(b2, n, NextSeq(p2, n), q.cur.tx)
    BY DEF CountersMatch
  <2>1. Reading(p, n) /\ n \in Nat /\ q.cur.tx \in Nat
    BY <1>2, LevelType, EpochAssumption DEF Reading
  <2>2. /\ Gapless(b, n, NextSeq(p, n)) /\ NextSeq(p, n) \in Nat
        /\ q.st = "up" /\ n = q.cur.n => EndsAt(b, n, NextSeq(p, n), q.cur.tx)
    BY <1>4, <2>1 DEF Pair, Way, CountersMatch, NextSeq
  <2>3. CASE n = c.n
    <3>1. NextSeq(p2, n) = NextSeq(p, n) + 1
      BY <1>1, <1>2, <1>3, <1>4, <2>3 DEF NextSeq
    <3> QED BY <2>1, <2>2, <2>3, <3>1, MsgPop
  <2>4. CASE n # c.n
    <3>1. NextSeq(p2, n) = NextSeq(p, n)
      BY <1>1, <1>2, <1>3, <1>4, <2>1, <2>4, SMTT(30) DEF NextSeq
    <3> QED BY <2>2, <2>4, <3>1, FlightPop
  <2> QED BY <2>3, <2>4
<1>9. Way(v, u, q, p2, b2)
  BY <1>4, <1>7, <1>8, OrderedPop DEF Pair, Way
<1>10. Answered(u, v, p, q, a, b) => p2.cur.rx = 0
  <2> SUFFICES ASSUME Answered(u, v, p, q, a, b) PROVE c.n # p.cur.n
    BY <1>3 DEF Answered
  <2>1. LineLevel(b[1]) <= Level(q) /\ LineLevel(b[1]) = c.n + 1
    BY DEF Pair, Way, Ordered, LineLevel
  <2> QED BY <1>1, <1>4, <2>1, SMTT(30) DEF Answered, Level
<1>11. Control(u, v, p2, q, a, b2)
  BY <1>2, <1>10, ControlSame, ControlPop DEF Pair
<1> QED BY <1>5, <1>6, <1>9, <1>11 DEF Pair, p2

\* on_init answers: u is an epoch ahead, and its ACK is on the way.
LEMMA PairAnswers ==
    ASSUME NEW u \in Users, NEW v \in Users, u # v, NEW p \in PeerType, NEW q \in PeerType,
           NEW a \in Seq(LineType), NEW b \in Seq(LineType), NEW a2 \in Seq(LineType),
           NEW b2 \in Seq(LineType), NEW k \in KeyPairs, Pair(u, v, p, q, a, b),
           Removed(b, b2), Len(b) >= 1, b[1].tag = "init", ~WinsTie(u, v, p, b[1].n),
           b[1].pub \in KeyPairs, Added(a, a2, AckLine(b[1].n, k))
    PROVE  Pair(u, v, InitAnswered(p, b[1].n, k, b[1].pub), q, a2, b2)
<1> DEFINE l == Level(p)
           m == AckLine(b[1].n, k)
           p2 == InitAnswered(p, b[1].n, k, b[1].pub)
<1>1. /\ Settled(u, v, p, q, a, b) /\ q.rotating
      /\ b[1].n = l /\ b[1].pub = q.nextKp
      /\ p.rotating => v < u
      /\ \A i \in 2 .. Len(b) : b[i].tag = "msg"
  BY HeadInit
<1>2. /\ l \in Nat /\ Level(q) = l /\ (p.st = "up" <=> q.st = "up")
      /\ p.cur.n \in Nat /\ q.cur.n \in Nat /\ q.cur.rx \in Nat /\ p.cur.rx \in Nat
      /\ p.st = "up" => l = p.cur.n + 1 /\ l = q.cur.n + 1 /\ p.cur.z = q.cur.z
      /\ p.st # "up" => /\ l = 0 /\ p.cur = NullEpoch /\ q.cur = NullEpoch
                        /\ ~p.havePrev /\ ~q.havePrev
      /\ l \in EpochNumbers
  <2>1. b[1].n \in EpochNumbers
    BY LineFields
  <2> QED BY <1>1, <2>1, LevelType, SMTT(30) DEF Settled, Level, Pair, EntryInv
<1>3. /\ p2.st = "up" /\ p2.cur.n = l /\ p2.cur.z = {k, q.nextKp} /\ p2.cur.tx = 0
      /\ p2.cur.rx = 0 /\ ~p2.rotating
      /\ p.st = "up" => p2.prev = p.cur
  BY <1>1 DEF InitAnswered, Retire, Derive, NullPeer, PeerType
<1>4. /\ m.tag = "ack" /\ m.n = l /\ m.pub = k /\ LineLevel(m) = l + 1
      /\ Level(p2) = l + 1 /\ Added(a, a2, m)
  BY <1>1, <1>3 DEF AckLine, LineLevel, Level
<1> HIDE DEF l, m, p2
<1>5. EntryInv(p2)
  BY <1>2, <1>3 DEF EntryInv
<1>6. \A i \in 1 .. Len(a) : a[i].tag = "msg" => a[i].ct.n \in Nat /\ a[i].ct.n < l
  BY <1>2, FlightBelow DEF Pair, Way, l
<1>7. \A i \in 1 .. Len(b) : b[i].tag = "msg" => b[i].ct.n \in Nat /\ b[i].ct.n < l
  BY <1>2, FlightBelow DEF Pair, Way
<1>8. Ordered(Level(p2), a2)
  <2>1. Ordered(l, a) /\ l <= l + 1 /\ l < l + 1
    BY <1>2 DEF Pair, Way, l
  <2> QED BY <1>2, <1>4, <2>1, OrderedPush
<1>9. KeysKnown(u, v, p2, q, a2)
  <2>1. KeysKnown(u, v, p2, q, a)
    <3>1. KeysKnown(u, v, p, q, a)
      BY DEF Pair, Way
    <3>2. p.st = "up" => q.st = "up" /\ p.cur.n = q.cur.n /\ p.cur.z = q.cur.z
      BY <1>2, SMTT(30)
    <3> QED BY <3>1, <3>2 DEF KeysKnown
  <2> QED BY <1>4, <2>1, KexPush
<1>10. CountersMatch(p2, q, a2)
  <2> SUFFICES ASSUME NEW n \in EpochNumbers, Reading(q, n)
               PROVE  /\ Gapless(a2, n, NextSeq(q, n))
                      /\ n = p2.cur.n => EndsAt(a2, n, NextSeq(q, n), p2.cur.tx)
    BY DEF CountersMatch
  <2>1. Gapless(a2, n, NextSeq(q, n))
    BY <1>4, FlightPush DEF Pair, Way, CountersMatch
  <2>2. ASSUME n = l PROVE EndsAt(a2, n, NextSeq(q, n), 0)
    <3>1. NextSeq(q, n) = 0
      BY <1>2, <2>2 DEF NextSeq, NullEpoch
    <3>2. Flight(a, n) = {}
      BY <1>2, <1>6, <2>2, SMTT(30) DEF Flight
    <3>3. EndsAt(a, n, 0, 0)
      BY <3>2, NoFlight
    <3> QED BY <1>4, <3>1, <3>3, FlightPush
  <2> QED BY <1>3, <2>1, <2>2
<1>11. \A i \in 1 .. Len(b2) : i + 1 \in 2 .. Len(b) /\ b2[i] = b[i + 1]
  BY DEF Removed
<1>12. KeysKnown(v, u, q, p2, b2)
  <2> SUFFICES ASSUME NEW i \in 1 .. Len(b2), b2[i].tag = "msg"
               PROVE  LET c == b2[i].ct IN
                      /\ c.dir = Dir(v, u)
                      /\ \/ p2.st = "up" /\ c.n = p2.cur.n /\ c.z = p2.cur.z
                         \/ p2.st = "up" /\ c.n + 1 = p2.cur.n /\ c.z = p2.prev.z
                         \/ q.st = "up" /\ c.n = q.cur.n /\ c.z = q.cur.z
    BY DEF KeysKnown
  <2> DEFINE c == b2[i].ct
  <2>1. KeysKnown(v, u, q, p, b) /\ i + 1 \in 1 .. Len(b) /\ b2[i] = b[i + 1]
    BY <1>11 DEF Pair, Way
  <2>2. /\ c.dir = Dir(v, u)
        /\ \/ p.st = "up" /\ c.n = p.cur.n /\ c.z = p.cur.z
           \/ p.st = "up" /\ c.n + 1 = p.cur.n /\ c.z = p.prev.z
           \/ q.st = "up" /\ c.n = q.cur.n /\ c.z = q.cur.z
    BY <2>1 DEF KeysKnown
  <2>3. LineLevel(b[1]) <= LineLevel(b[i + 1])
    BY <1>11, FirstIsLowest DEF Pair, Way
  <2>4. l <= c.n + 1 /\ c.n \in Nat
    BY <1>1, <1>7, <2>1, <2>3 DEF LineLevel
  <2>5. c.n + 1 # p.cur.n \/ p.st # "up"
    <3>1. p.st = "up" => p.cur.n + 1 <= c.n + 1
      BY <1>2, <2>4
    <3> QED BY <1>2, <2>4, <3>1, SMTT(30)
  <2> QED BY <1>2, <1>3, <2>2, <2>5
<1>13. CountersMatch(q, p2, b2)
  <2> SUFFICES ASSUME NEW n \in EpochNumbers, Reading(p2, n)
               PROVE  /\ Gapless(b2, n, NextSeq(p2, n))
                      /\ q.st = "up" /\ n = q.cur.n => EndsAt(b2, n, NextSeq(p2, n), q.cur.tx)
    BY DEF CountersMatch
  <2>0. n \in Nat
    BY EpochAssumption
  <2>1. CASE l <= n
    <3>1. NextSeq(p2, n) = 0
      BY <1>2, <1>3, <2>0, <2>1 DEF NextSeq
    <3>2. \A i \in 1 .. Len(b2) : b2[i].tag = "msg" => b2[i].ct.n \in Nat /\ b2[i].ct.n < l
      BY <1>7, <1>11, SMTT(30)
    <3>3. Flight(b2, n) = {}
      BY <1>2, <2>0, <2>1, <3>2, SMTT(30) DEF Flight
    <3>4. ~(q.st = "up" /\ n = q.cur.n)
      BY <1>2, <2>0, <2>1
    <3> QED BY <3>1, <3>3, <3>4, NoFlight, SMTT(30)
  <2>2. CASE n + 1 = l
    <3>1. p.st = "up" /\ n = p.cur.n
      BY <1>2, <2>0, <2>2, SMTT(30)
    <3>2. NextSeq(p2, n) = NextSeq(p, n) /\ Reading(p, n)
      BY <1>2, <1>3, <2>0, <2>2, <3>1 DEF NextSeq, Reading
    <3>3. /\ Gapless(b, n, NextSeq(p, n))
          /\ q.st = "up" /\ n = q.cur.n => EndsAt(b, n, NextSeq(p, n), q.cur.tx)
      BY <3>2 DEF Pair, Way, CountersMatch
    <3> QED BY <3>2, <3>3, FlightPop
  <2> QED BY <1>3, <2>1, <2>2 DEF Reading
<1>14. Ordered(Level(q), b2)
  BY <1>2, OrderedPop DEF Pair, Way
<1>15. Answered(u, v, p2, q, a2, b2)
  <2>1. q.st = "up" => q.cur.z = p2.prev.z
    BY <1>2, <1>3
  <2>2. \E i \in 1 .. Len(a2) : a2[i].tag = "ack"
    BY <1>4 DEF Added
  <2>3. \A i \in 1 .. Len(a2) : (i \in 1 .. Len(a) /\ a2[i] = a[i]) \/ a2[i] = m
    BY <1>4 DEF Added
  <2>4. \A i \in 1 .. Len(a) : /\ a[i].tag # "ack"
                               /\ a[i].tag = "init" => a[i].n = l /\ v < u
    BY <1>1, <1>2 DEF Settled, OpenInits, l
  <2>5. \A i \in 1 .. Len(a2) :
        /\ a2[i].tag = "ack" => a2[i].n = Level(q) /\ p2.cur.z = {q.nextKp, a2[i].pub}
        /\ a2[i].tag = "init" =>
            \/ a2[i].n = Level(q) /\ v < u
            \/ a2[i].n = Level(p2) /\ p2.rotating /\ a2[i].pub = p2.nextKp
    BY <1>2, <1>3, <1>4, <2>3, <2>4
  <2>6. \A i \in 1 .. Len(b2) : b2[i].tag = "msg"
    BY <1>1, <1>11, SMTT(30)
  <2> QED BY <1>1, <1>2, <1>3, <1>4, <2>1, <2>2, <2>5, <2>6 DEF Answered
<1> QED
  BY <1>5, <1>8, <1>9, <1>10, <1>12, <1>13, <1>14, <1>15 DEF Pair, Way, Control, p2

\* on_ack: u catches up with v, and both are in the epoch v has answered for.
LEMMA PairCatchesUp ==
    ASSUME NEW u \in Users, NEW v \in Users, u # v, NEW p \in PeerType, NEW q \in PeerType,
           NEW a \in Seq(LineType), NEW b \in Seq(LineType), NEW b2 \in Seq(LineType),
           Pair(u, v, p, q, a, b), Removed(b, b2), Len(b) >= 1, b[1].tag = "ack"
    PROVE  Pair(u, v, AckTaken(p, b[1].pub), q, a, b2)
<1> DEFINE l == Level(p)
           p2 == AckTaken(p, b[1].pub)
<1>1. /\ Answered(v, u, q, p, b, a)
      /\ b[1].n = l /\ p.nextEpoch = l
      /\ q.cur.z = {p.nextKp, b[1].pub}
      /\ \A i \in 2 .. Len(b) : b[i].tag # "ack" /\ Level(q) <= LineLevel(b[i])
  BY HeadAck, SMTT(30)
<1>2. /\ l \in Nat /\ Level(q) = l + 1 /\ q.st = "up" /\ q.cur.n = l /\ q.cur.rx = 0
      /\ p.cur.n \in Nat /\ p.cur.rx \in Nat /\ l \in EpochNumbers
      /\ (p.st = "up" => l = p.cur.n + 1 /\ p.cur.z = q.prev.z)
      /\ (p.st # "up" => l = 0 /\ p.cur = NullEpoch /\ ~p.havePrev)
  <2>1. b[1].n \in EpochNumbers
    BY LineFields
  <2>2. /\ q.st = "up" /\ Level(q) = l + 1 /\ q.cur.rx = 0
        /\ (p.st = "up" => p.cur.z = q.prev.z)
    BY <1>1 DEF Answered
  <2>3. l \in Nat /\ p.cur.n \in Nat /\ p.cur.rx \in Nat /\ q.cur.n \in Nat
    BY LevelType
  <2>4. Level(q) = q.cur.n + 1 /\ (p.st = "up" => l = p.cur.n + 1) /\ (p.st # "up" => l = 0)
    BY <2>2 DEF Level
  <2>5. p.st # "up" => p.cur = NullEpoch /\ ~p.havePrev
    BY DEF Pair, EntryInv
  <2> HIDE DEF l
  <2> QED BY <1>1, <2>1, <2>2, <2>3, <2>4, <2>5
<1>3. /\ p2.st = "up" /\ p2.cur.n = l /\ p2.cur.z = q.cur.z /\ p2.cur.tx = 0
      /\ p2.cur.rx = 0 /\ ~p2.rotating
      /\ (p.st = "up" => p2.prev = p.cur)
      /\ (p.st # "up" => p2.prev = p.prev /\ ~p2.havePrev)
  BY <1>1, <1>2 DEF AckTaken, Retire, Derive, PeerType
<1>4. Level(p2) = l + 1
  BY <1>3 DEF Level
<1>5. Ordered(l, a) /\ Ordered(Level(q), b) /\ KeysKnown(u, v, p, q, a)
      /\ KeysKnown(v, u, q, p, b) /\ CountersMatch(p, q, a) /\ CountersMatch(q, p, b)
  BY DEF Pair, Way
<1> HIDE DEF l, p2
<1>6. EntryInv(p2)
  BY <1>2, <1>3 DEF EntryInv
<1>7. Ordered(Level(p2), a)
  <2>1. l <= l + 1 /\ l + 1 \in Nat
    BY <1>2
  <2> QED BY <1>2, <1>4, <1>5, <2>1, OrderedRaise
<1>8. KeysKnown(u, v, p2, q, a)
  <2>1. \A c : p.st = "up" /\ c.n = p.cur.n => c.n + 1 = q.cur.n
    BY <1>2
  <2> QED BY <1>2, <1>5, <2>1 DEF KeysKnown
<1>9. CountersMatch(p2, q, a)
  <2> SUFFICES ASSUME NEW n \in EpochNumbers, Reading(q, n)
               PROVE  /\ Gapless(a, n, NextSeq(q, n))
                      /\ n = p2.cur.n => EndsAt(a, n, NextSeq(q, n), p2.cur.tx)
    BY DEF CountersMatch
  <2>1. Gapless(a, n, NextSeq(q, n))
    BY <1>5 DEF CountersMatch
  <2>2. ASSUME n = l PROVE EndsAt(a, n, NextSeq(q, n), 0)
    <3>1. NextSeq(q, n) = 0
      BY <1>2, <2>2 DEF NextSeq
    <3>2. \A i \in 1 .. Len(a) : a[i].tag = "msg" => a[i].ct.n \in Nat /\ a[i].ct.n < l
      BY <1>2, <1>5, FlightBelow
    <3>3. Flight(a, n) = {}
      BY <1>2, <2>2, <3>2 DEF Flight
    <3> QED BY <3>1, <3>3, NoFlight, SMTT(30)
  <2> QED BY <1>3, <2>1, <2>2
<1>10. \A i \in 1 .. Len(b2) : i + 1 \in 2 .. Len(b) /\ b2[i] = b[i + 1]
  BY DEF Removed
<1>11. KeysKnown(v, u, q, p2, b2)
  <2> SUFFICES ASSUME NEW i \in 1 .. Len(b2), b2[i].tag = "msg"
               PROVE  LET c == b2[i].ct IN
                      /\ c.dir = Dir(v, u)
                      /\ \/ p2.st = "up" /\ c.n = p2.cur.n /\ c.z = p2.cur.z
                         \/ p2.st = "up" /\ c.n + 1 = p2.cur.n /\ c.z = p2.prev.z
                         \/ q.st = "up" /\ c.n = q.cur.n /\ c.z = q.cur.z
    BY DEF KeysKnown
  <2> DEFINE c == b2[i].ct
  <2>1. i + 1 \in 1 .. Len(b) /\ b2[i] = b[i + 1]
    BY <1>10
  <2>2. /\ c.dir = Dir(v, u)
        /\ \/ p.st = "up" /\ c.n = p.cur.n /\ c.z = p.cur.z
           \/ p.st = "up" /\ c.n + 1 = p.cur.n /\ c.z = p.prev.z
           \/ q.st = "up" /\ c.n = q.cur.n /\ c.z = q.cur.z
    BY <1>5, <2>1 DEF KeysKnown
  <2>3. Level(q) <= c.n + 1 /\ c.n \in Nat
    <3>1. Level(q) <= LineLevel(b[i + 1]) /\ LineLevel(b[i + 1]) = c.n + 1
      BY <1>1, <1>10, <2>1 DEF LineLevel
    <3>2. c.n \in Nat
      BY <2>1, LineFields, EpochAssumption
    <3> QED BY <3>1, <3>2
  <2>4. p.st = "up" => c.n # p.cur.n /\ c.n + 1 # p.cur.n
    BY <1>2, <2>3, SMTT(30)
  <2> QED BY <2>2, <2>4
<1>12. CountersMatch(q, p2, b2)
  <2> SUFFICES ASSUME NEW n \in EpochNumbers, Reading(p2, n)
               PROVE  /\ Gapless(b2, n, NextSeq(p2, n))
                      /\ q.st = "up" /\ n = q.cur.n => EndsAt(b2, n, NextSeq(p2, n), q.cur.tx)
    BY DEF CountersMatch
  <2>0. n \in Nat
    BY EpochAssumption
  <2>1. Reading(p, n) /\ NextSeq(p2, n) = NextSeq(p, n)
    <3>1. CASE p.st = "up"
      BY <1>2, <1>3, <2>0, <3>1 DEF Reading, NextSeq
    <3>2. CASE p.st # "up"
      BY <1>2, <1>3, <2>0, <3>2 DEF Reading, NextSeq, NullEpoch
    <3> QED BY <3>1, <3>2
  <2>2. /\ Gapless(b, n, NextSeq(p, n))
        /\ q.st = "up" /\ n = q.cur.n => EndsAt(b, n, NextSeq(p, n), q.cur.tx)
    BY <1>5, <2>1 DEF CountersMatch
  <2> QED BY <2>1, <2>2, FlightPop
<1>13. Ordered(Level(q), b2)
  BY <1>2, <1>5, OrderedPop
<1>14. Settled(u, v, p2, q, a, b2)
  <2>1. OpenInits(u, v, p2, q, a)
    BY <1>1 DEF Answered, OpenInits
  <2>2. ASSUME NEW i \in 1 .. Len(b2)
        PROVE  /\ b2[i].tag # "ack"
               /\ b2[i].tag = "init" => /\ b2[i].n = Level(q)
                                        /\ q.rotating /\ b2[i].pub = q.nextKp
    <3>1. i + 1 \in 1 .. Len(b) /\ b2[i] = b[i + 1] /\ b2[i].tag # "ack"
          /\ Level(q) <= LineLevel(b2[i])
      BY <1>1, <1>10
    <3>2. ASSUME b2[i].tag = "init" PROVE b2[i].n # Level(p)
      <4>1. LineLevel(b2[i]) = b2[i].n
        BY <3>2 DEF LineLevel
      <4> QED BY <1>2, <3>1, <4>1 DEF l
    <3> QED BY <1>1, <3>1, <3>2 DEF Answered
  <2>3. OpenInits(v, u, q, p2, b2)
    BY <2>2 DEF OpenInits
  <2> QED BY <1>2, <1>3, <1>4, <2>1, <2>3 DEF Settled
<1> QED
  BY <1>6, <1>7, <1>8, <1>9, <1>11, <1>12, <1>13, <1>14 DEF Pair, Way, Control, p2
-----------------------------------------------------------------------------
(***************************************************************************)
(* Every step of E2E that breaks no session off keeps Pair for all users.  *)
(***************************************************************************)
Sessions ==
    \A u, v \in Users : u # v =>
        Pair(u, v, peers[u][v], peers[v][u], net[u][v], net[v][u])

\* What is known of two users and the lines between them.
LEMMA PairTypes ==
    ASSUME E2EInv, NEW u \in Users, NEW v \in Users
    PROVE  /\ peers[u][v] \in PeerType /\ peers[v][u] \in PeerType
           /\ net[u][v] \in Seq(LineType) /\ net[v][u] \in Seq(LineType)
           /\ net \in [Users -> [Users -> Seq(LineType)]]
           /\ peers \in [Users -> [Users -> PeerType]]
BY DEF E2EInv, TypeOK, KeyTypeOK

\* A step that touches one pair of users only.
LEMMA OnePairStep ==
    ASSUME E2EInv, E2EInv', Sessions, NEW u \in Users, NEW v \in Users, u # v,
           Pair(u, v, peers'[u][v], peers'[v][u], net'[u][v], net'[v][u]),
           \A x, y \in Users : ~(x = u /\ y = v) /\ ~(x = v /\ y = u) =>
                peers'[x][y] = peers[x][y] /\ net'[x][y] = net[x][y]
    PROVE  Sessions'
<1> SUFFICES ASSUME NEW x \in Users, NEW y \in Users, x # y
             PROVE  Pair(x, y, peers'[x][y], peers'[y][x], net'[x][y], net'[y][x])
  BY DEF Sessions
<1>1. CASE x = u /\ y = v
  BY <1>1
<1>2. CASE x = v /\ y = u
  <2>1. peers'[u][v] \in PeerType /\ peers'[v][u] \in PeerType
    BY DEF E2EInv, TypeOK, KeyTypeOK
  <2> QED BY <1>2, <2>1, PairSym
<1>3. CASE ~(x = u /\ y = v) /\ ~(x = v /\ y = u)
  <2>1. /\ peers'[x][y] = peers[x][y] /\ net'[x][y] = net[x][y]
        /\ peers'[y][x] = peers[y][x] /\ net'[y][x] = net[y][x]
    BY <1>3
  <2>2. Pair(x, y, peers[x][y], peers[y][x], net[x][y], net[y][x])
    BY DEF Sessions
  <2> QED BY <2>1, <2>2
<1> QED BY <1>1, <1>2, <1>3

\* One entry is updated, and a line is put on one of the two ways or taken off one.
LEMMA EntryUpdate ==
    ASSUME E2EInv, E2EInv', NEW u \in Users, NEW v \in Users, u # v, NEW p,
           Update(u, v, p)
    PROVE  /\ peers'[u][v] = p /\ peers'[v][u] = peers[v][u] /\ p \in PeerType
           /\ \A x, y \in Users : ~(x = u /\ y = v) => peers'[x][y] = peers[x][y]
<1>1. peers \in [Users -> [Users -> PeerType]] /\ peers' \in [Users -> [Users -> PeerType]]
  BY DEF E2EInv, TypeOK, KeyTypeOK
<1>2. peers' = [peers EXCEPT ![u][v] = p]
  BY DEF Update
<1>3. /\ peers'[u][v] = p
      /\ \A x, y \in Users : ~(x = u /\ y = v) => peers'[x][y] = peers[x][y]
  BY <1>1, <1>2
<1> QED BY <1>1, <1>3

\* A line is put on the way.
LEMMA PushUpdate ==
    ASSUME E2EInv, E2EInv', NEW u \in Users, NEW v \in Users, u # v, NEW m, Push(u, v, m)
    PROVE  /\ Added(net[u][v], net'[u][v], m) /\ net'[v][u] = net[v][u]
           /\ \A x, y \in Users : ~(x = u /\ y = v) => net'[x][y] = net[x][y]
<1>1. /\ net \in [Users -> [Users -> Seq(LineType)]]
      /\ net' = [net EXCEPT ![u][v] = Append(net[u][v], m)]
  BY DEF E2EInv, TypeOK, Push
<1>2. /\ net'[u][v] = Append(net[u][v], m)
      /\ \A x, y \in Users : ~(x = u /\ y = v) => net'[x][y] = net[x][y]
  BY <1>1
<1>3. net[u][v] \in Seq(LineType \cup {m})
  BY <1>1
<1> QED BY <1>2, <1>3, AddedRemoved

\* The first line of the way to u is read.
LEMMA PopUpdate ==
    ASSUME E2EInv, E2EInv', NEW u \in Users, NEW v \in Users, u # v,
           net[v][u] # <<>>, Pop(v, u)
    PROVE  /\ Removed(net[v][u], net'[v][u]) /\ net'[u][v] = net[u][v]
           /\ Head(net[v][u]) = net[v][u][1] /\ Len(net[v][u]) >= 1
           /\ \A x, y \in Users : ~(x = v /\ y = u) => net'[x][y] = net[x][y]
<1>1. /\ net \in [Users -> [Users -> Seq(LineType)]]
      /\ net' = [net EXCEPT ![v][u] = Tail(net[v][u])]
  BY DEF E2EInv, TypeOK, Pop
<1>2. /\ net'[v][u] = Tail(net[v][u])
      /\ \A x, y \in Users : ~(x = v /\ y = u) => net'[x][y] = net[x][y]
  BY <1>1
<1>3. net[v][u] \in Seq(LineType)
  BY <1>1
<1>4. /\ Removed(net[v][u], Tail(net[v][u]))
      /\ Head(net[v][u]) = net[v][u][1] /\ Len(net[v][u]) >= 1
  BY <1>3 DEF Removed
<1> QED BY <1>2, <1>4

\* A pair that has not been made yet is in no INIT on the way.
LEMMA FreshInit ==
    ASSUME E2EInv, NEW u \in Users, NEW v \in Users, NEW i \in 1 .. Len(net[u][v]),
           net[u][v][i].tag = "init"
    PROVE  net[u][v][i].pub # NewKeyPair(u, v)
<1>1. net[u][v][i] \in ValidLines(u, v) /\ gen[u][v] \in Nat
  BY DEF E2EInv, NetOK, TypeOK, KeyTypeOK
<1>2. net[u][v][i].pub \in Made(u, v, gen[u][v])
  BY <1>1 DEF ValidLines, PublicValues
<1> QED BY <1>1, <1>2, SMTT(30) DEF Made, NewKeyPair

-----------------------------------------------------------------------------
\* /e2e for a peer there is no entry for.
LEMMA StartSession ==
    ASSUME E2EInv, E2EInv', Sessions, Unbroken', NEW u \in Users, NEW v \in Users, u # v,
           Start(u, v)
    PROVE  Sessions'
<1> DEFINE p == peers[u][v]
           k == NewKeyPair(u, v)
           p2 == Started(k)
<1>1. p.st = "none"
  BY DEF Start, Breaks, Unbroken, E2EInv, TypeOK
<1>2. /\ p \in PeerType /\ peers[v][u] \in PeerType
      /\ net[u][v] \in Seq(LineType) /\ net'[u][v] \in Seq(LineType)
  BY PairTypes DEF E2EInv, TypeOK
<1>3. Pair(u, v, p, peers[v][u], net[u][v], net[v][u])
  BY DEF Sessions
<1>4. /\ p.cur = NullEpoch /\ p.prev = NullEpoch /\ ~p.havePrev /\ ~p.rotating
      /\ Level(p) = 0
  BY <1>1, <1>3 DEF Pair, EntryInv, Level
<1>5. /\ peers'[u][v] = p2 /\ peers'[v][u] = peers[v][u] /\ p2 \in PeerType
      /\ \A x, y \in Users : ~(x = u /\ y = v) => peers'[x][y] = peers[x][y]
  BY EntryUpdate DEF Start, KeyStart
<1>6. /\ Added(net[u][v], net'[u][v], InitLine(0, k)) /\ net'[v][u] = net[v][u]
      /\ \A x, y \in Users : ~(x = u /\ y = v) => net'[x][y] = net[x][y]
  BY PushUpdate DEF Start
<1>7. /\ p2.st = "pending" /\ p2.rotating /\ p2.nextKp = k /\ p2.nextEpoch = 0
      /\ p2.cur = NullEpoch /\ p2.prev = NullEpoch /\ ~p2.havePrev
  BY DEF Started, NullPeer
<1>8. Quiet(p, p2)
  BY <1>1, <1>4, <1>7 DEF Quiet
<1> HIDE DEF p2, k, p
<1>9. Pair(u, v, p2, peers[v][u], net'[u][v], net[v][u])
  BY <1>2, <1>3, <1>4, <1>5, <1>6, <1>7, <1>8, FreshInit, PairAsks DEF k
<1> QED BY <1>5, <1>6, <1>9, OnePairStep

\* seal puts a message on the way.
LEMMA SendSession ==
    ASSUME E2EInv, E2EInv', Sessions, NEW u \in Users, NEW v \in Users, u # v,
           SendMsg(u, v)
    PROVE  Sessions'
<1>1. /\ peers[u][v] \in PeerType /\ peers[v][u] \in PeerType /\ peers[u][v].st = "up"
      /\ net[u][v] \in Seq(LineType) /\ net'[u][v] \in Seq(LineType)
  BY PairTypes DEF E2EInv, TypeOK, SendMsg, KeySeal
<1>2. Pair(u, v, peers[u][v], peers[v][u], net[u][v], net[v][u])
  BY DEF Sessions
<1>3. /\ peers'[u][v] = Sealed(peers[u][v]) /\ peers'[v][u] = peers[v][u]
      /\ \A x, y \in Users : ~(x = u /\ y = v) => peers'[x][y] = peers[x][y]
  BY EntryUpdate DEF SendMsg, KeySeal
<1>4. /\ Added(net[u][v], net'[u][v], MsgLine(Ciphertext(u, v, peers[u][v], sent[u][v])))
      /\ net'[v][u] = net[v][u]
      /\ \A x, y \in Users : ~(x = u /\ y = v) => net'[x][y] = net[x][y]
  BY PushUpdate DEF SendMsg
<1>5. Pair(u, v, Sealed(peers[u][v]), peers[v][u], net'[u][v], net[v][u])
  BY <1>1, <1>2, <1>4, PairSeals
<1> QED BY <1>3, <1>4, <1>5, OnePairStep

\* on_init answers.
LEMMA AnswerSession ==
    ASSUME E2EInv, E2EInv', Sessions, NEW u \in Users, NEW v \in Users, u # v,
           RecvInit(u, v)
    PROVE  Sessions'
<1> DEFINE m == Head(net[v][u])
           k == NewKeyPair(u, v)
           p == peers[u][v]
<1>1. /\ net[v][u] # <<>> /\ m.tag = "init" /\ ~WinsTie(u, v, p, m.n)
      /\ Update(u, v, InitAnswered(p, m.n, k, m.pub))
      /\ net' = [net EXCEPT ![v][u] = Tail(net[v][u]),
                            ![u][v] = Append(net[u][v], AckLine(m.n, k))]
  BY DEF RecvInit, Reads, HeadTag, KeyOnInit
<1>2. /\ p \in PeerType /\ peers[v][u] \in PeerType /\ k \in KeyPairs
      /\ net[u][v] \in Seq(LineType) /\ net[v][u] \in Seq(LineType)
      /\ net'[u][v] \in Seq(LineType) /\ net'[v][u] \in Seq(LineType)
  BY PairTypes, FreshPairType DEF E2EInv, TypeOK
<1>3. m.pub \in KeyPairs /\ m = net[v][u][1] /\ Len(net[v][u]) >= 1
  <2>1. m.pub \in PublicValues(v, u)
    BY <1>1, KexHead DEF E2EInv
  <2> QED BY <1>1, <1>2, <2>1, FreshPairType DEF E2EInv, TypeOK
<1>4. net \in [Users -> [Users -> Seq(LineType)]]
  BY PairTypes
<1> HIDE DEF m, k, p
<1>5. /\ net'[v][u] = Tail(net[v][u]) /\ net'[u][v] = Append(net[u][v], AckLine(m.n, k))
      /\ \A x, y \in Users : ~(x = u /\ y = v) /\ ~(x = v /\ y = u) => net'[x][y] = net[x][y]
  BY <1>1, <1>4
<1>6. Added(net[u][v], net'[u][v], AckLine(m.n, k))
  <2>1. net[u][v] \in Seq(LineType \cup {AckLine(m.n, k)})
    BY <1>2
  <2> QED BY <1>5, <2>1, AddedRemoved
<1>7. Removed(net[v][u], net'[v][u])
  <2>1. net[v][u] \in Seq(LineType) /\ net[v][u] # <<>> /\ net'[v][u] = Tail(net[v][u])
    BY <1>1, <1>2, <1>5
  <2> QED BY <2>1 DEF Removed
<1>8. /\ peers'[u][v] = InitAnswered(p, m.n, k, m.pub) /\ peers'[v][u] = peers[v][u]
      /\ \A x, y \in Users : ~(x = u /\ y = v) => peers'[x][y] = peers[x][y]
  BY <1>1, EntryUpdate
<1>9. Pair(u, v, p, peers[v][u], net[u][v], net[v][u])
  BY DEF Sessions, p
<1>10. Pair(u, v, InitAnswered(p, m.n, k, m.pub), peers[v][u], net'[u][v], net'[v][u])
  BY <1>1, <1>2, <1>3, <1>6, <1>7, <1>9, PairAnswers
<1>11. Pair(u, v, peers'[u][v], peers'[v][u], net'[u][v], net'[v][u])
  BY <1>8, <1>10
<1>12. \A x, y \in Users : ~(x = u /\ y = v) /\ ~(x = v /\ y = u) =>
            peers'[x][y] = peers[x][y] /\ net'[x][y] = net[x][y]
  BY <1>5, <1>8
<1> QED BY <1>11, <1>12, OnePairStep

\* A line is read and nothing is sent.
LEMMA ReadSession ==
    ASSUME E2EInv, E2EInv', Sessions, NEW u \in Users, NEW v \in Users, u # v,
           net[v][u] # <<>>, Pop(v, u),
           \/ IgnoreInit(u, v) \/ FailInit(u, v) \/ RecvAck(u, v) \/ RefuseAck(u, v)
           \/ RecvMsg(u, v) \/ RefuseMsg(u, v)
    PROVE  Sessions'
<1> DEFINE m == Head(net[v][u])
           p == peers[u][v]
           q == peers[v][u]
           a == net[u][v]
           b == net[v][u]
           b2 == net'[v][u]
<1>1. /\ p \in PeerType /\ q \in PeerType /\ a \in Seq(LineType) /\ b \in Seq(LineType)
      /\ b2 \in Seq(LineType)
  BY PairTypes DEF E2EInv, TypeOK
<1>2. Pair(u, v, p, q, a, b)
  BY DEF Sessions
<1>3. /\ Removed(b, b2) /\ net'[u][v] = a /\ m = b[1] /\ Len(b) >= 1
      /\ \A x, y \in Users : ~(x = v /\ y = u) => net'[x][y] = net[x][y]
  BY PopUpdate
<1>4. ASSUME NEW p2, Update(u, v, p2), Pair(u, v, p2, q, a, b2) PROVE Sessions'
  <2>1. /\ peers'[u][v] = p2 /\ peers'[v][u] = q
        /\ \A x, y \in Users : ~(x = u /\ y = v) => peers'[x][y] = peers[x][y]
    BY <1>4, EntryUpdate
  <2>2. Pair(u, v, peers'[u][v], peers'[v][u], net'[u][v], net'[v][u])
    BY <1>3, <1>4, <2>1
  <2> QED BY <1>3, <2>1, <2>2, OnePairStep
<1>5. ASSUME peers' = peers, Pair(u, v, p, q, a, b2) PROVE Sessions'
  <2>1. Pair(u, v, peers'[u][v], peers'[v][u], net'[u][v], net'[v][u])
    BY <1>3, <1>5
  <2> QED BY <1>3, <1>5, <2>1, OnePairStep
<1>6. ASSUME IgnoreInit(u, v) PROVE Sessions'
  <2>1. b[1].tag = "init" /\ peers' = peers
    BY <1>3, <1>6 DEF IgnoreInit, Reads, HeadTag, keyVars
  <2>2. Pair(u, v, p, q, a, b2)
    BY <1>1, <1>2, <1>3, <2>1, PairIgnores
  <2> QED BY <1>5, <2>1, <2>2
<1>7. ASSUME FailInit(u, v) PROVE Sessions'
  <2>1. /\ b[1].tag = "init" /\ ~WinsTie(u, v, p, b[1].n)
        /\ Update(u, v, InitFailed(p, b[1].n))
    BY <1>3, <1>7 DEF FailInit, Reads, HeadTag, KeyOnInitFails
  <2>2. Pair(u, v, InitFailed(p, b[1].n), q, a, b2)
    BY <1>1, <1>2, <1>3, <2>1, PairFails
  <2> QED BY <1>4, <2>1, <2>2
<1>8. ASSUME RecvAck(u, v) PROVE Sessions'
  <2>1. b[1].tag = "ack" /\ Update(u, v, AckTaken(p, b[1].pub))
    BY <1>3, <1>8 DEF RecvAck, Reads, HeadTag, KeyOnAck
  <2>2. Pair(u, v, AckTaken(p, b[1].pub), q, a, b2)
    BY <1>1, <1>2, <1>3, <2>1, PairCatchesUp
  <2> QED BY <1>4, <2>1, <2>2
<1>9. ~RefuseAck(u, v)
  <2> SUFFICES ASSUME RefuseAck(u, v) PROVE FALSE
    OBVIOUS
  <2>1. b[1].tag = "ack" /\ ~AckExpected(p, b[1].n)
    BY <1>3 DEF RefuseAck, Reads, HeadTag
  <2> QED BY <1>1, <1>2, <1>3, <2>1, HeadAck
<1>10. ASSUME RecvMsg(u, v) PROVE Sessions'
  <2>1. /\ b[1].tag = "msg" /\ Opens(u, v, p, b[1].ct)
        /\ Update(u, v, Opened(u, v, p, b[1].ct))
    BY <1>3, <1>10 DEF RecvMsg, Reads, HeadTag, KeyOpen
  <2>2. Pair(u, v, Opened(u, v, p, b[1].ct), q, a, b2)
    BY <1>1, <1>2, <1>3, <2>1, PairOpens
  <2> QED BY <1>4, <2>1, <2>2
<1>11. ASSUME RefuseMsg(u, v) PROVE Sessions'
  <2>1. b[1].tag = "msg" /\ ~Opens(u, v, p, b[1].ct) /\ peers' = peers
    BY <1>3, <1>11 DEF RefuseMsg, Reads, HeadTag, keyVars
  <2>2. ~Reading(p, b[1].ct.n)
    BY <1>1, <1>2, <1>3, <2>1, ReadableOpens
  <2>3. Pair(u, v, p, q, a, b2)
    BY <1>1, <1>2, <1>3, <2>1, <2>2, PairIgnores
  <2> QED BY <1>5, <2>1, <2>3
<1> QED BY <1>6, <1>7, <1>8, <1>9, <1>10, <1>11

\* The grace window of one entry closes.
LEMMA GraceSession ==
    ASSUME E2EInv, E2EInv', Sessions, NEW u \in Users, NEW v \in Users, u # v,
           WindowCloses(u, v)
    PROVE  Sessions'
<1> DEFINE p2 == [peers[u][v] EXCEPT !.grace = FALSE]
<1>1. Update(u, v, p2) /\ net' = net
  BY DEF WindowCloses, GraceElapses
<1>2. /\ peers'[u][v] = p2 /\ peers'[v][u] = peers[v][u]
      /\ \A x, y \in Users : ~(x = u /\ y = v) => peers'[x][y] = peers[x][y]
  BY <1>1, EntryUpdate
<1>3. peers[u][v] \in PeerType /\ Pair(u, v, peers[u][v], peers[v][u], net[u][v], net[v][u])
  BY PairTypes DEF Sessions
<1>4. Pair(u, v, p2, peers[v][u], net[u][v], net[v][u])
  BY <1>3, PairExpires
<1> HIDE DEF p2
<1>5. Pair(u, v, peers'[u][v], peers'[v][u], net'[u][v], net'[v][u])
  BY <1>1, <1>2, <1>4
<1> QED BY <1>1, <1>2, <1>5, OnePairStep

\* tick drops previous epochs and begins rotations with any number of peers.
LEMMA TickSession ==
    ASSUME E2EInv, E2EInv', Sessions, NEW u \in Users, NEW due \in SUBSET (Users \ {u}),
           Tick(u, due)
    PROVE  Sessions'
<1>1. /\ peers \in [Users -> [Users -> PeerType]] /\ net \in [Users -> [Users -> Seq(LineType)]]
      /\ peers' \in [Users -> [Users -> PeerType]]
      /\ net' \in [Users -> [Users -> Seq(LineType)]]
  BY DEF E2EInv, TypeOK, KeyTypeOK
<1>2. \A x, y \in Users : x # u => peers'[x][y] = peers[x][y] /\ net'[x][y] = net[x][y]
  BY <1>1 DEF Tick, KeyTick
<1>3. ASSUME NEW v \in Users, v # u
      PROVE  Pair(u, v, peers'[u][v], peers'[v][u], net'[u][v], net'[v][u])
  <2> DEFINE p == peers[u][v]
             q == peers[v][u]
             k == NewKeyPair(u, v)
  <2>1. /\ p \in PeerType /\ q \in PeerType /\ net[u][v] \in Seq(LineType)
        /\ net'[u][v] \in Seq(LineType)
        /\ Pair(u, v, p, q, net[u][v], net[v][u])
        /\ peers'[v][u] = q /\ net'[v][u] = net[v][u]
    BY <1>1, <1>2, <1>3 DEF Sessions
  <2>2. CASE v \notin due
    <3>1. peers'[u][v] = Expired(p) /\ net'[u][v] = net[u][v]
      BY <1>1, <2>2 DEF Tick, KeyTick
    <3>2. Pair(u, v, Expired(p), q, net[u][v], net[v][u])
      BY <2>1, PairExpires
    <3> QED BY <2>1, <3>1, <3>2
  <2>3. CASE v \in due
    <3> DEFINE p2 == Rotated(p, k)
    <3>1. /\ peers'[u][v] = p2
          /\ net'[u][v] = Append(net[u][v], InitLine(NextEpoch(p), k))
          /\ p.st = "up" /\ ~p.rotating
      BY <1>1, <2>3 DEF Tick, KeyTick, MayRotate
    <3>2. NextEpoch(p) = Level(p)
      BY <3>1 DEF NextEpoch, Level
    <3>3. Added(net[u][v], net'[u][v], InitLine(Level(p), k))
      <4>1. net[u][v] \in Seq(LineType \cup {InitLine(Level(p), k)})
        BY <2>1
      <4> QED BY <3>1, <3>2, <4>1, AddedRemoved
    <3>4. /\ p2.st = p.st /\ p2.cur = p.cur /\ p2.prev = p.prev
          /\ p2.rotating /\ p2.nextKp = k /\ p2.nextEpoch = NextEpoch(p)
          /\ (p2.havePrev => p.havePrev) /\ p2.grace = p.grace
      BY <2>1 DEF Rotated, Expired, PeerType
    <3>5. p2 \in PeerType
      BY <1>1, <3>1
    <3>6. \A i \in 1 .. Len(net[u][v]) : net[u][v][i].tag = "init" => net[u][v][i].pub # k
      BY <1>3, FreshInit
    <3>7. Quiet(p, p2)
      BY <3>4 DEF Quiet
    <3>8. p2.st # "none" /\ p2.nextEpoch = Level(p)
      BY <3>1, <3>2, <3>4
    <3> HIDE DEF p2, k
    <3>9. Pair(u, v, p2, q, net'[u][v], net[v][u])
      <4>1. /\ p \in PeerType /\ p2 \in PeerType /\ q \in PeerType
            /\ net[u][v] \in Seq(LineType) /\ net'[u][v] \in Seq(LineType)
        BY <2>1, <3>5
      <4>2. /\ Pair(u, v, p, q, net[u][v], net[v][u]) /\ Quiet(p, p2)
            /\ (p2.havePrev => p.havePrev)
        BY <2>1, <3>4, <3>7
      <4>3. ~p.rotating /\ p2.st # "none" /\ p2.rotating /\ p2.nextKp = k
            /\ p2.nextEpoch = Level(p)
        BY <3>1, <3>4, <3>8
      <4> QED BY <3>3, <3>6, <4>1, <4>2, <4>3, PairAsks
    <3> QED BY <2>1, <3>1, <3>9
  <2> QED BY <2>2, <2>3
<1> SUFFICES ASSUME NEW x \in Users, NEW y \in Users, x # y
             PROVE  Pair(x, y, peers'[x][y], peers'[y][x], net'[x][y], net'[y][x])
  BY DEF Sessions
<1>4. CASE x = u
  BY <1>3, <1>4
<1>5. CASE y = u
  <2>1. Pair(u, x, peers'[u][x], peers'[x][u], net'[u][x], net'[x][u])
    BY <1>3, <1>5
  <2>2. peers'[u][x] \in PeerType /\ peers'[x][u] \in PeerType
    BY <1>1
  <2> QED BY <1>5, <2>1, <2>2, PairSym
<1>6. CASE x # u /\ y # u
  <2>1. Pair(x, y, peers[x][y], peers[y][x], net[x][y], net[y][x])
    BY DEF Sessions
  <2> QED BY <1>2, <1>6, <2>1
<1> QED BY <1>4, <1>5, <1>6

-----------------------------------------------------------------------------
\* At first nobody has an entry and nothing is on the way.
LEMMA SessionInit == Init => SessionInv
<1> SUFFICES ASSUME Init, NEW u \in Users, NEW v \in Users
             PROVE  online[u] /\ Pair(u, v, peers[u][v], peers[v][u], net[u][v], net[v][u])
  BY DEF SessionInv
<1>1. /\ peers[u][v] = NullPeer /\ peers[v][u] = NullPeer
      /\ net[u][v] = <<>> /\ net[v][u] = <<>> /\ online[u]
  BY DEF Init, KeyInit, NetInit
<1>2. EntryInv(NullPeer) /\ Level(NullPeer) = 0
  BY DEF EntryInv, Level, NullPeer, NullEpoch
<1>3. NullPeer.st = "none"
  BY DEF NullPeer
<1>4. 1 .. Len(<<>>) = {} /\ \A n : Flight(<<>>, n) = {}
  BY DEF Flight
<1>5. ASSUME NEW x, NEW y PROVE Way(x, y, NullPeer, NullPeer, <<>>)
  <2>1. \A n : Gapless(<<>>, n, NextSeq(NullPeer, n))
    BY <1>4 DEF Gapless
  <2> QED BY <1>3, <1>4, <2>1 DEF Way, Ordered, KeysKnown, CountersMatch
<1>6. Settled(u, v, NullPeer, NullPeer, <<>>, <<>>)
  BY <1>3, <1>4 DEF Settled, OpenInits
<1> QED BY <1>1, <1>2, <1>5, <1>6 DEF Pair, Control

\* While no session is broken off nobody is away and the two ends of each agree.
LEMMA SessionNext ==
    ASSUME E2EInv, E2EInv', SessionInv, [Next]_vars, Unbroken'
    PROVE  Unbroken /\ (\A u \in Users : online'[u]) /\ Sessions'
<1>0. breaks \in Nat /\ breaks' = 0 /\ online \in [Users -> BOOLEAN]
  BY DEF E2EInv, TypeOK, Unbroken
<1>1. breaks' = breaks \/ breaks' = breaks + 1
  <2>1. ASSUME NEW u \in Users, NEW v \in Users, Start(u, v) \/ Logout(u)
        PROVE  breaks' = breaks \/ breaks' = breaks + 1
    BY <2>1 DEF Start, Logout, Breaks
  <2>2. ASSUME NEW u \in Users, NEW v \in Users,
               \/ SendMsg(u, v) \/ Receive(u, v) \/ WindowCloses(u, v)
               \/ RelayDrops(u, v) \/ SenderLoses(u, v) \/ Timer(u) \/ Login(u)
        PROVE  breaks' = breaks
    BY <2>2 DEF SendMsg, Receive, RecvInit, IgnoreInit, FailInit, RecvAck, RefuseAck,
          RecvMsg, RefuseMsg, WindowCloses, RelayDrops, SenderLoses, Timer, Tick, Login
  <2> QED BY <2>1, <2>2 DEF Next, vars
<1>2. Unbroken /\ breaks' = breaks
  BY <1>0, <1>1 DEF Unbroken
<1>3. Sessions /\ \A u \in Users : online[u]
  BY <1>2 DEF SessionInv, Sessions
<1>4. ASSUME NEW u \in Users, Logout(u) PROVE FALSE
  BY <1>0, <1>2, <1>4 DEF Logout, Breaks
<1>5. ASSUME NEW u \in Users, NEW v \in Users, Login(u) \/ RelayDrops(u, v) \/ SenderLoses(u, v)
      PROVE  FALSE
  BY <1>3, <1>5 DEF Login, RelayDrops, SenderLoses
<1>6. CASE UNCHANGED vars
  BY <1>2, <1>3, <1>6 DEF vars, keyVars, Sessions
<1>7. ASSUME NEW u \in Users, NEW v \in Users, u # v,
             Start(u, v) \/ SendMsg(u, v) \/ WindowCloses(u, v) \/ RecvInit(u, v)
      PROVE  Sessions' /\ online' = online
  <2>1. Sessions'
    BY <1>3, <1>7, StartSession, SendSession, GraceSession, AnswerSession
  <2>2. online' = online
    BY <1>7 DEF Start, SendMsg, WindowCloses, RecvInit
  <2> QED BY <2>1, <2>2
<1>8. ASSUME NEW u \in Users, NEW v \in Users, u # v,
             \/ IgnoreInit(u, v) \/ FailInit(u, v) \/ RecvAck(u, v) \/ RefuseAck(u, v)
             \/ RecvMsg(u, v) \/ RefuseMsg(u, v)
      PROVE  Sessions' /\ online' = online
  <2>1. net[v][u] # <<>> /\ Pop(v, u) /\ online' = online
    BY <1>8 DEF IgnoreInit, FailInit, RecvAck, RefuseAck, RecvMsg, RefuseMsg, Reads, HeadTag
  <2> QED BY <1>3, <1>8, <2>1, ReadSession
<1>9. ASSUME NEW u \in Users, NEW due \in SUBSET (Users \ {u}), Tick(u, due)
      PROVE  Sessions' /\ online' = online
  BY <1>3, <1>9, TickSession DEF Tick
<1>10. Sessions' /\ \A u \in Users : online'[u]
  BY <1>3, <1>4, <1>5, <1>6, <1>7, <1>8, <1>9 DEF Next, Receive, Timer, vars
<1> QED BY <1>2, <1>10
-----------------------------------------------------------------------------
(***************************************************************************)
(* The invariant of unbroken sessions, and the properties that follow.     *)
(***************************************************************************)
THEOREM SessionInvariance == Spec => []SessionInv
<1>1. E2EInv /\ E2EInv' /\ SessionInv /\ [Next]_vars => SessionInv'
  <2> SUFFICES ASSUME E2EInv, E2EInv', SessionInv, [Next]_vars, Unbroken'
               PROVE  (\A u \in Users : online'[u]) /\ Sessions'
    BY DEF SessionInv, Sessions
  <2> QED BY SessionNext
<1> QED BY <1>1, SessionInit, E2EInvariance, PTL DEF Spec

\* What Pair says of the epochs of two users whose entries are up.
LEMMA PairEpochs ==
    ASSUME NEW u, NEW v, NEW p \in PeerType, NEW q \in PeerType, NEW a, NEW b,
           Pair(u, v, p, q, a, b), p.st = "up", q.st = "up"
    PROVE  /\ p.cur.n <= q.cur.n + 1
           /\ p.cur.n = q.cur.n => Settled(u, v, p, q, a, b) /\ p.cur.z = q.cur.z
<1>1. Level(p) = p.cur.n + 1 /\ Level(q) = q.cur.n + 1
  BY DEF Level
<1>2. p.cur.n \in Nat /\ q.cur.n \in Nat
  BY LevelType
<1>3. CASE Settled(u, v, p, q, a, b)
  BY <1>1, <1>2, <1>3 DEF Settled
<1>4. CASE Answered(u, v, p, q, a, b)
  BY <1>1, <1>2, <1>4 DEF Answered
<1>5. CASE Answered(v, u, q, p, b, a)
  BY <1>1, <1>2, <1>5 DEF Answered
<1> QED BY <1>3, <1>4, <1>5 DEF Pair, Control

(***************************************************************************)
(* Until one of two clients breaks their session off, they never hold      *)
(* different secrets for one epoch, and neither is more than one epoch     *)
(* ahead: on_init's tie rule and on_ack's epoch test settle on one INIT    *)
(* even when both sides send theirs at once.                               *)
(***************************************************************************)
THEOREM E2ESessionAgrees == Spec => []SessionAgrees
<1>1. E2EInv /\ SessionInv => SessionAgrees
  <2> SUFFICES ASSUME E2EInv, SessionInv, Unbroken PROVE SameEpochSameKey /\ EpochSkew
    BY DEF SessionAgrees
  <2>1. ASSUME NEW u \in Users, NEW v \in Users, u # v, BothUp(u, v)
        PROVE  /\ peers[u][v].cur.n <= peers[v][u].cur.n + 1
               /\ peers[u][v].cur.n = peers[v][u].cur.n =>
                    peers[u][v].cur.z = peers[v][u].cur.z
    <3>1. Pair(u, v, peers[u][v], peers[v][u], net[u][v], net[v][u])
      BY <2>1 DEF SessionInv
    <3>2. peers[u][v] \in PeerType /\ peers[v][u] \in PeerType
      BY PairTypes
    <3> QED BY <2>1, <3>1, <3>2, PairEpochs DEF BothUp
  <2> QED BY <2>1 DEF SameEpochSameKey, EpochSkew
<1> QED BY <1>1, E2EInvariance, SessionInvariance, PTL

\* Messages whose counters are lo .. hi - 1, each once, are hi - lo many.
LEMMA FlightCount ==
    ASSUME NEW a \in Seq(LineType), NEW n, NEW lo \in Nat, NEW hi \in Nat,
           Gapless(a, n, lo), EndsAt(a, n, lo, hi)
    PROVE  hi = lo + Cardinality(Flight(a, n))
<1> DEFINE F == Flight(a, n)
           T == lo .. hi - 1
           f == [i \in F |-> a[i].ct.seq]
<1>1. \A i \in F : i \in 1 .. Len(a) /\ i \in Nat /\ a[i].ct.seq \in Nat
  BY LineFields DEF Flight
<1>2. \A i \in F : a[i].ct.seq \in T
  BY <1>1 DEF Gapless, EndsAt
<1>3. \A i, j \in F : a[i].ct.seq = a[j].ct.seq => i = j
  <2> SUFFICES ASSUME NEW i \in F, NEW j \in F, a[i].ct.seq = a[j].ct.seq, i # j
               PROVE  FALSE
    OBVIOUS
  <2>1. i < j \/ j < i
    BY <1>1
  <2>2. (i < j => a[i].ct.seq < a[j].ct.seq) /\ (j < i => a[j].ct.seq < a[i].ct.seq)
    BY DEF Gapless
  <2> QED BY <1>1, <2>1, <2>2
<1>4. \A s \in T : \E i \in F : a[i].ct.seq = s
  BY DEF EndsAt
<1> HIDE DEF F, T
<1>5. f \in [F -> T]
  BY <1>2
<1>6. f \in Injection(F, T)
  BY <1>3, <1>5 DEF Injection, IsInjective
<1>7. f \in Surjection(F, T)
  BY <1>4, <1>5 DEF Surjection
<1>8. IsFiniteSet(T) /\ Cardinality(T) = hi - lo
  <2>1. lo <= hi /\ lo \in Int /\ hi - 1 \in Int
    BY DEF EndsAt
  <2>2. /\ IsFiniteSet(lo .. hi - 1)
        /\ Cardinality(lo .. hi - 1) = IF lo > hi - 1 THEN 0 ELSE (hi - 1) - lo + 1
    BY <2>1, FS_Interval
  <2> QED BY <2>1, <2>2 DEF T
<1>9. Cardinality(F) = Cardinality(T)
  BY <1>6, <1>7, <1>8, FS_Injection
<1> QED BY <1>8, <1>9 DEF F

\* The messages of an epoch both sides are in are all under its key.
LEMMA SettledFlight ==
    ASSUME NEW u, NEW v, NEW p \in PeerType, NEW q \in PeerType, NEW a \in Seq(LineType),
           KeysKnown(u, v, p, q, a), p.st = "up", q.st = "up",
           p.cur.n = q.cur.n, p.cur.z = q.cur.z, NEW i \in Flight(a, p.cur.n)
    PROVE  a[i].ct.z = p.cur.z
<1>1. i \in 1 .. Len(a) /\ a[i].tag = "msg" /\ a[i].ct.n = p.cur.n
  BY DEF Flight
<1>2. p.cur.n \in Nat
  BY LevelType
<1> QED BY <1>1, <1>2 DEF KeysKnown

(***************************************************************************)
(* Until the session is broken off, the counter the sender seals with is   *)
(* the one the receiver opens with plus the messages between them: seal    *)
(* and open, which never send a counter, cannot run apart.                 *)
(***************************************************************************)
THEOREM E2ESessionLockstep == Spec => []SessionLockstep
<1>1. E2EInv /\ SessionInv => SessionLockstep
  <2> SUFFICES ASSUME E2EInv, SessionInv, Unbroken, NEW u \in Users, NEW v \in Users,
                      u # v, BothUp(u, v), peers[u][v].cur.n = peers[v][u].cur.n
               PROVE  LET e == peers[u][v].cur IN
                      e.tx = peers[v][u].cur.rx + Cardinality(InFlight(u, v, e.n, e.z))
    BY DEF SessionLockstep, Lockstep
  <2> DEFINE p == peers[u][v]
             q == peers[v][u]
             a == net[u][v]
  <2>1. /\ p \in PeerType /\ q \in PeerType /\ a \in Seq(LineType)
        /\ p.st = "up" /\ q.st = "up" /\ p.cur.n = q.cur.n
    BY PairTypes DEF BothUp
  <2>2. Pair(u, v, p, q, a, net[v][u])
    BY DEF SessionInv
  <2>3. p.cur.z = q.cur.z
    BY <2>1, <2>2, PairEpochs
  <2>4. /\ p.cur.n \in EpochNumbers /\ p.cur.n \in Nat
        /\ p.cur.tx \in Nat /\ q.cur.rx \in Nat
    BY <2>1, LevelType
  <2>5. Gapless(a, p.cur.n, q.cur.rx) /\ EndsAt(a, p.cur.n, q.cur.rx, p.cur.tx)
    <3>1. Reading(q, p.cur.n) /\ NextSeq(q, p.cur.n) = q.cur.rx
      BY <2>1, <2>4 DEF Reading, NextSeq
    <3> QED BY <2>1, <2>2, <2>4, <3>1 DEF Pair, Way, CountersMatch
  <2>6. InFlight(u, v, p.cur.n, p.cur.z) = Flight(a, p.cur.n)
    <3>1. \A i \in Flight(a, p.cur.n) : a[i].ct.z = p.cur.z
      BY <2>1, <2>2, <2>3, SettledFlight DEF Pair, Way
    <3> QED BY <3>1 DEF InFlight, Flight
  <2>7. p.cur.tx = q.cur.rx + Cardinality(Flight(a, p.cur.n))
    BY <2>1, <2>4, <2>5, FlightCount
  <2> QED BY <2>6, <2>7
<1> QED BY <1>1, E2EInvariance, SessionInvariance, PTL

(***************************************************************************)
(* Until the session is broken off, the next message a client reads opens, *)
(* unless it was sealed in the epoch before and the grace window for that  *)
(* one is over: a rotation loses no message that is on the way.            *)
(***************************************************************************)
THEOREM E2ESessionDecrypts == Spec => []SessionDecrypts
<1>1. E2EInv /\ SessionInv => SessionDecrypts
  <2> SUFFICES ASSUME E2EInv, SessionInv, Unbroken, NEW u \in Users, NEW v \in Users,
                      u # v, HeadTag(u, v, "msg")
               PROVE  LET c == Head(net[v][u]).ct
                          p == peers[u][v]
                      IN  \/ Opens(u, v, p, c)
                          \/ c.n + 1 = p.cur.n /\ ~(p.havePrev /\ p.grace)
    BY DEF SessionDecrypts, InFlightDecrypts
  <2> DEFINE b == net[v][u]
  <2>1. /\ peers[u][v] \in PeerType /\ peers[v][u] \in PeerType
        /\ net[u][v] \in Seq(LineType) /\ b \in Seq(LineType)
    BY PairTypes
  <2>2. Pair(u, v, peers[u][v], peers[v][u], net[u][v], b)
    BY DEF SessionInv
  <2>3. Head(b) = b[1] /\ Len(b) >= 1 /\ b[1].tag = "msg"
    BY <2>1 DEF HeadTag
  <2>4. /\ Reading(peers[u][v], b[1].ct.n) => Opens(u, v, peers[u][v], b[1].ct)
        /\ ~Reading(peers[u][v], b[1].ct.n) =>
                /\ b[1].ct.n + 1 = peers[u][v].cur.n
                /\ ~(peers[u][v].havePrev /\ peers[u][v].grace)
    BY <2>1, <2>2, <2>3, ReadableOpens
  <2> QED BY <2>3, <2>4
<1> QED BY <1>1, E2EInvariance, SessionInvariance, PTL

\* An INIT that is answered, or an ACK that is taken, brings the next epoch.
LEMMA KexFollows ==
    ASSUME E2EInv, E2EInv', Sessions, NEW u \in Users, NEW v \in Users, u # v,
           RecvInit(u, v) \/ RecvAck(u, v), peers[u][v].st = "up"
    PROVE  peers'[u][v].cur.n = peers[u][v].cur.n + 1
<1> DEFINE p == peers[u][v]
           q == peers[v][u]
           b == net[v][u]
<1>1. /\ p \in PeerType /\ q \in PeerType
      /\ net[u][v] \in Seq(LineType) /\ b \in Seq(LineType)
  BY PairTypes
<1>2. Pair(u, v, p, q, net[u][v], b)
  BY DEF Sessions
<1>3. Level(p) = p.cur.n + 1
  BY DEF Level
<1>4. CASE RecvInit(u, v)
  <2>1. Head(b) = b[1] /\ Len(b) >= 1 /\ b[1].tag = "init" /\ ~WinsTie(u, v, p, b[1].n)
    BY <1>1, <1>4 DEF RecvInit, Reads, HeadTag, KeyOnInit
  <2>2. b[1].n = Level(p)
    BY <1>1, <1>2, <2>1, HeadInit
  <2>3. peers'[u][v] = InitAnswered(p, b[1].n, NewKeyPair(u, v), b[1].pub)
    <3>1. Update(u, v, InitAnswered(p, b[1].n, NewKeyPair(u, v), b[1].pub))
      BY <1>4, <2>1 DEF RecvInit, KeyOnInit
    <3> QED BY <3>1, EntryUpdate
  <2>4. peers'[u][v].cur.n = b[1].n
    BY <1>1, <2>3 DEF InitAnswered, Retire, Derive, PeerType
  <2> QED BY <1>3, <2>2, <2>4
<1>5. CASE RecvAck(u, v)
  <2>1. Head(b) = b[1] /\ Len(b) >= 1 /\ b[1].tag = "ack"
    BY <1>1, <1>5 DEF RecvAck, Reads, HeadTag
  <2>2. p.nextEpoch = Level(p)
    BY <1>1, <1>2, <2>1, HeadAck
  <2>3. peers'[u][v] = AckTaken(p, b[1].pub)
    <3>1. Update(u, v, AckTaken(p, b[1].pub))
      BY <1>5, <2>1 DEF RecvAck, KeyOnAck
    <3> QED BY <3>1, EntryUpdate
  <2>4. peers'[u][v].cur.n = p.nextEpoch
    BY <1>1, <2>3 DEF AckTaken, Retire, Derive, PeerType
  <2> QED BY <1>3, <2>2, <2>4
<1> QED BY <1>4, <1>5

\* The other events leave an entry that is up in its epoch.
LEMMA OthersStay ==
    ASSUME E2EInv, E2EInv', NEW u \in Users, NEW v \in Users, u # v,
           \/ IgnoreInit(u, v) \/ FailInit(u, v) \/ RefuseAck(u, v) \/ RecvMsg(u, v)
           \/ RefuseMsg(u, v) \/ SendMsg(u, v) \/ WindowCloses(u, v)
           \/ RelayDrops(u, v) \/ SenderLoses(u, v),
           NEW x \in Users, NEW y \in Users
    PROVE  peers'[x][y].cur.z = peers[x][y].cur.z
<1> DEFINE p == peers[u][v]
<1>1. p \in PeerType
  BY PairTypes
<1>2. ASSUME NEW p2, Update(u, v, p2), p2.cur.z = p.cur.z
      PROVE  peers'[x][y].cur.z = peers[x][y].cur.z
  BY <1>2, EntryUpdate
<1>3. CASE \/ IgnoreInit(u, v) \/ RefuseAck(u, v) \/ RefuseMsg(u, v)
           \/ RelayDrops(u, v) \/ SenderLoses(u, v)
  BY <1>3 DEF IgnoreInit, RefuseAck, RefuseMsg, RelayDrops, SenderLoses, keyVars
<1>4. CASE FailInit(u, v)
  <2>1. PICK n : Update(u, v, InitFailed(p, n))
    BY <1>4 DEF FailInit, KeyOnInitFails
  <2>2. InitFailed(p, n).cur.z = p.cur.z
    BY <1>1 DEF InitFailed, PeerType
  <2> QED BY <1>2, <2>1, <2>2
<1>5. CASE RecvMsg(u, v)
  <2>1. PICK c : Update(u, v, Opened(u, v, p, c))
    BY <1>5 DEF RecvMsg, KeyOpen
  <2>2. Opened(u, v, p, c).cur.z = p.cur.z
    BY <1>1 DEF Opened, PeerType, EpochType
  <2> QED BY <1>2, <2>1, <2>2
<1>6. CASE SendMsg(u, v)
  <2>1. Update(u, v, Sealed(p))
    BY <1>6 DEF SendMsg, KeySeal
  <2>2. Sealed(p).cur.z = p.cur.z
    BY <1>1 DEF Sealed, PeerType, EpochType
  <2> QED BY <1>2, <2>1, <2>2
<1>7. CASE WindowCloses(u, v)
  <2>1. Update(u, v, [p EXCEPT !.grace = FALSE])
    BY <1>7 DEF WindowCloses, GraceElapses
  <2>2. [p EXCEPT !.grace = FALSE].cur.z = p.cur.z
    BY <1>1 DEF PeerType
  <2> QED BY <1>2, <2>1, <2>2
<1> QED BY <1>3, <1>4, <1>5, <1>6, <1>7

\* tick leaves every entry in its epoch.
LEMMA TickStays ==
    ASSUME E2EInv, NEW u \in Users, NEW due, Tick(u, due), NEW x \in Users, NEW y \in Users
    PROVE  peers'[x][y].cur.z = peers[x][y].cur.z
<1>1. peers \in [Users -> [Users -> PeerType]] /\ peers[x][y] \in PeerType
  BY PairTypes
<1>2. \/ peers'[x][y] = peers[x][y]
      \/ peers'[x][y] = Expired(peers[x][y])
      \/ peers'[x][y] = Rotated(peers[x][y], NewKeyPair(x, y))
  BY <1>1 DEF Tick, KeyTick
<1> QED BY <1>1, <1>2 DEF Expired, Rotated, PeerType

(***************************************************************************)
(* Until the session is broken off, the epochs of each client follow one   *)
(* another: on_init, which takes whatever number an INIT carries, is never *)
(* given an old one or one too far ahead.                                  *)
(***************************************************************************)
THEOREM E2ESessionInOrder == Spec => SessionInOrder
<1>1. ASSUME E2EInv, E2EInv', SessionInv, [Next]_vars, Unbroken' PROVE EpochFollows
  <2> SUFFICES ASSUME NEW x \in Users, NEW y \in Users, peers[x][y].st = "up",
                      peers'[x][y].cur.z # peers[x][y].cur.z
               PROVE  peers'[x][y].cur.n = peers[x][y].cur.n + 1
    BY DEF EpochFollows
  <2>1. Unbroken /\ Sessions
    BY <1>1, SessionNext DEF SessionInv, Sessions
  <2>2. ASSUME NEW u \in Users, NEW v \in Users, u # v, RecvInit(u, v) \/ RecvAck(u, v)
        PROVE  x = u /\ y = v
    <3>1. PICK p : Update(u, v, p)
      BY <2>2 DEF RecvInit, RecvAck, KeyOnInit, KeyOnAck
    <3> QED BY <1>1, <2>2, <3>1, EntryUpdate
  <2>3. ASSUME NEW u \in Users, NEW v \in Users, u # v, Start(u, v) PROVE FALSE
    <3>1. peers[u][v].st = "none"
      BY <1>1, <2>1, <2>3 DEF Start, Breaks, Unbroken, E2EInv, TypeOK
    <3>2. \A i, j \in Users : ~(i = u /\ j = v) => peers'[i][j] = peers[i][j]
      BY <1>1, <2>3, EntryUpdate DEF Start, KeyStart
    <3> QED BY <3>1, <3>2
  <2>4. ASSUME NEW u \in Users, Logout(u) PROVE FALSE
    BY <1>1, <2>1, <2>4 DEF Logout, Breaks, Unbroken, E2EInv, TypeOK
  <2>5. ~(UNCHANGED vars)
    BY DEF vars, keyVars
  <2>6. ASSUME NEW u \in Users, Login(u) PROVE FALSE
    BY <2>6 DEF Login, keyVars
  <2>7. \A u \in Users : ~Timer(u)
    BY <1>1, TickStays DEF Timer
  <2>8. PICK u \in Users, v \in Users : u # v /\ (RecvInit(u, v) \/ RecvAck(u, v))
    BY <1>1, <2>3, <2>4, <2>5, <2>6, <2>7, OthersStay DEF Next, Receive
  <2>9. x = u /\ y = v
    BY <2>2, <2>8
  <2> QED BY <1>1, <2>1, <2>8, <2>9, KexFollows
<1>2. E2EInv /\ E2EInv' /\ SessionInv /\ [Next]_vars => [Unbroken' => EpochFollows]_vars
  BY <1>1
<1> QED BY <1>2, E2EInvariance, SessionInvariance, PTL DEF Spec, SessionInOrder

-----------------------------------------------------------------------------
(***************************************************************************)
(* Proofs about ClientThreads, for every finite set of users: whatever the *)
(* threads do between the Manager and the socket, ClientThreads implements *)
(* EpochKeys, and records are written in the order they were sealed.       *)
(***************************************************************************)
Outgoing == [to : Users, line : LineType, long : BOOLEAN]

\* What a thread of u may still have to send: as on the wire, each line carries
\* what u made for the user it goes to.
Said(u) == {l \in Outgoing : l.line \in ValidLines(u, l.to)}

PendOK ==
    /\ pend \in [Users -> [Threads -> Seq(Outgoing)]]
    /\ \A u \in Users : \A t \in Threads : pend[u][t] \in Seq(Said(u))

\* g_send_mu: a thread that has sealed a record still has its line, which is short.
Locked(u, t) ==
    /\ held[u] = {[by |-> t, n |-> opened[u]]}
    /\ outer[u] = opened[u] + 1
    /\ ~Free(u, t) /\ ~Head(pend[u][t]).long

Unlocked(u) == held[u] = {} /\ outer[u] = opened[u]

RecordOK ==
    /\ held \in [Users -> SUBSET [by : Threads, n : Nat]]
    /\ outer \in [Users -> Nat] /\ opened \in [Users -> Nat]
    /\ \A u \in Users : Unlocked(u) \/ \E t \in Threads : Locked(u, t)

WiresOK == net \in [Users -> [Users -> Seq(LineType)]] /\ NetOK /\ PendOK

ThreadsInv == KeyInv /\ WiresOK /\ RecordOK

-----------------------------------------------------------------------------
(***************************************************************************)
(* Every step of a thread is a step of EpochKeys or leaves the keys alone. *)
(***************************************************************************)
LEMMA ThreadsStepMaps ==
    ASSUME NetOK, [ThreadsNext]_threadsVars
    PROVE  [KeyNext]_keyVars
<1>1. CASE UNCHANGED threadsVars
  BY <1>1 DEF threadsVars, keyVars
<1>2. ASSUME NEW u \in Users, NEW v \in Users, u # v, TypeE2E(u, v) PROVE KeyNext
  BY <1>2 DEF TypeE2E, KeyNext
<1>3. ASSUME NEW u \in Users, NEW v \in Users, u # v, TypeMessage(u, v) PROVE KeyNext
  BY <1>3 DEF TypeMessage, KeyNext
<1>4. ASSUME NEW u \in Users, NEW v \in Users, u # v, ReadInit(u, v) PROVE KeyNext
  <2>1. /\ Head(net[v][u]).n \in EpochNumbers
        /\ Head(net[v][u]).pub \in PublicValues(v, u)
    BY <1>4, KexHead DEF ReadInit, ReaderGets, HeadTag
  <2> QED BY <1>4, <2>1 DEF ReadInit, KeyNext
<1>5. ASSUME NEW u \in Users, NEW v \in Users, u # v, ReadAck(u, v) PROVE KeyNext
  <2>1. /\ Head(net[v][u]).n \in EpochNumbers
        /\ Head(net[v][u]).pub \in PublicValues(v, u)
    BY <1>5, KexHead DEF ReadAck, ReaderGets, HeadTag
  <2> QED BY <1>5, <2>1 DEF ReadAck, KeyNext
<1>6. ASSUME NEW u \in Users, NEW v \in Users, u # v, ReadMessage(u, v) PROVE KeyNext
  <2>1. Head(net[v][u]).ct \in sealed
    BY <1>6, MsgHead DEF ReadMessage, ReaderGets, HeadTag
  <2> QED BY <1>6, <2>1 DEF ReadMessage, KeyNext
<1>7. ASSUME NEW u \in Users, NEW v \in Users, u # v, WindowEnds(u, v) PROVE KeyNext
  BY <1>7 DEF WindowEnds, KeyNext
<1>8. ASSUME NEW u \in Users, NEW v \in Users,
             PassInit(u, v) \/ PassAck(u, v) \/ PassMessage(u, v)
      PROVE  UNCHANGED keyVars
  BY <1>8 DEF PassInit, PassAck, PassMessage
<1>9. ASSUME NEW u \in Users, TimerRuns(u) PROVE KeyNext
  BY <1>9 DEF TimerRuns, TimerTicks, KeyNext
<1>10. ASSUME NEW u \in Users, NEW t \in Threads, Sends(u, t) PROVE UNCHANGED keyVars
  BY <1>10 DEF Sends, SkipLong, SealRecord, WriteRecord
<1> QED
  BY <1>1, <1>2, <1>3, <1>4, <1>5, <1>6, <1>7, <1>8, <1>9, <1>10 DEF ThreadsNext, ReaderRuns

-----------------------------------------------------------------------------
(***************************************************************************)
(* What the threads have to send.                                          *)
(***************************************************************************)
\* What may be sent stays valid as keys and ciphertexts are made.
LEMMA SaidMonotone ==
    ASSUME KeyTypeOK, KeyTypeOK', [KeyNext]_keyVars, NEW u \in Users
    PROVE  Seq(Said(u)) \subseteq Seq(Said(u)')
<1>1. Said(u) \subseteq Said(u)'
  BY LinesMonotone DEF Said, Outgoing
<1>2. ASSUME NEW A, NEW B, A \subseteq B PROVE Seq(A) \subseteq Seq(B)
  BY <1>2
<1> QED BY <1>1, <1>2

\* Reading what the threads have to send.
LEMMA ToSendReads ==
    ASSUME PendOK, NEW u \in Users, NEW t \in Threads, NEW lines, ToSend(u, t, lines),
           NEW x \in Users, NEW s \in Threads
    PROVE  pend'[x][s] = IF x = u /\ s = t THEN lines ELSE pend[x][s]
BY DEF PendOK, ToSend

\* A thread that gets valid lines to send, or gives some up, leaves the rest alone.
LEMMA ToSendKeeps ==
    ASSUME KeyTypeOK, PendOK, KeyTypeOK', [KeyNext]_keyVars,
           NEW u \in Users, NEW t \in Threads, NEW lines \in Seq(Outgoing),
           lines \in Seq(Said(u)'), ToSend(u, t, lines)
    PROVE  PendOK'
<1>1. pend \in [Users -> [Threads -> Seq(Outgoing)]]
  BY DEF PendOK
<1>2. pend' = [pend EXCEPT ![u] = [pend[u] EXCEPT ![t] = lines]]
  BY DEF ToSend
<1>3. [pend[u] EXCEPT ![t] = lines] \in [Threads -> Seq(Outgoing)]
  BY <1>1
<1>4. pend' \in [Users -> [Threads -> Seq(Outgoing)]]
  BY <1>1, <1>2, <1>3
<1>5. ASSUME NEW x \in Users, NEW s \in Threads PROVE pend'[x][s] \in Seq(Said(x)')
  <2>1. Seq(Said(x)) \subseteq Seq(Said(x)')
    BY SaidMonotone
  <2>2. pend[x][s] \in Seq(Said(x))
    BY DEF PendOK
  <2>3. pend'[x][s] = IF x = u /\ s = t THEN lines ELSE pend[x][s]
    BY ToSendReads
  <2> QED BY <2>1, <2>2, <2>3
<1> QED BY <1>4, <1>5 DEF PendOK

\* One line of u to v that may be on the wire may be sent by a thread.
LEMMA OneLine ==
    ASSUME KeyTypeOK, KeyTypeOK', [KeyNext]_keyVars,
           NEW u \in Users, NEW v \in Users, NEW m \in ValidLines(u, v)', NEW b \in BOOLEAN
    PROVE  <<Line(v, m, b)>> \in Seq(Outgoing) /\ <<Line(v, m, b)>> \in Seq(Said(u)')
<1>1. m \in LineType
  BY LinesMonotone
<1>2. Line(v, m, b) \in Outgoing /\ Line(v, m, b) \in Said(u)'
  BY <1>1 DEF Line, Outgoing, Said
<1> HIDE DEF Line
<1> QED BY <1>2

\* When the state of the threads stays, what they have to send stays valid.
LEMMA PendSame ==
    ASSUME KeyTypeOK, PendOK, KeyTypeOK', [KeyNext]_keyVars, pend' = pend
    PROVE  PendOK'
<1>1. ASSUME NEW x \in Users, NEW s \in Threads PROVE pend'[x][s] \in Seq(Said(x)')
  <2>1. Seq(Said(x)) \subseteq Seq(Said(x)')
    BY SaidMonotone
  <2>2. pend[x][s] \in Seq(Said(x))
    BY DEF PendOK
  <2> QED BY <2>1, <2>2
<1> QED BY <1>1 DEF PendOK

\* A thread that has something to send has it for some user, with what it made.
LEMMA NextLine ==
    ASSUME PendOK, NEW u \in Users, NEW t \in Threads, ~Free(u, t)
    PROVE  /\ Head(pend[u][t]).to \in Users
           /\ Head(pend[u][t]).line \in ValidLines(u, Head(pend[u][t]).to)
           /\ Tail(pend[u][t]) \in Seq(Outgoing) /\ Tail(pend[u][t]) \in Seq(Said(u))
<1>1. pend[u][t] \in Seq(Outgoing) /\ pend[u][t] \in Seq(Said(u)) /\ pend[u][t] # <<>>
  BY DEF PendOK, Free
<1>2. Head(pend[u][t]) \in Said(u)
  BY <1>1
<1>3. Tail(pend[u][t]) \in Seq(Outgoing) /\ Tail(pend[u][t]) \in Seq(Said(u))
  BY <1>1
<1> QED BY <1>2, <1>3 DEF Said, Outgoing

-----------------------------------------------------------------------------
(***************************************************************************)
(* The lines on the wire and the lines to be sent.                         *)
(***************************************************************************)
\* The INITs of one pass of tick: a new pair for every peer that is due.
LEMMA TickLines ==
    ASSUME WiresOK, KeyTypeOK, KeyTypeOK', [KeyNext]_keyVars,
           NEW u \in Users, NEW due \in SUBSET (Users \ {u}), TimerTicks(u, due)
    PROVE  WiresOK'
<1> DEFINE said(v) == Line(v, InitLine(NextEpoch(peers[u][v]), NewKeyPair(u, v)), FALSE)
<1>1. PICK order \in [1 .. Cardinality(due) -> due] :
        ToSend(u, "timer", [i \in DOMAIN order |-> said(order[i])])
  BY DEF TimerTicks
<1>2. Cardinality(due) \in Nat
  BY ThreadsAssumption, FS_Subset, FS_CardinalityType
<1>3. ASSUME NEW v \in due PROVE said(v) \in Outgoing /\ said(v) \in Said(u)'
  <2>1. NextEpoch(peers[u][v]) \in EpochNumbers
    BY <1>3 DEF TimerTicks, KeyTick, MayRotate
  <2>2. gen'[u][v] = gen[u][v] + 1
    BY <1>3 DEF TimerTicks, KeyTick, KeyTypeOK
  <2>3. NewKeyPair(u, v) \in PublicValues(u, v)'
    BY <1>3, <2>2, FreshLine
  <2>4. InitLine(NextEpoch(peers[u][v]), NewKeyPair(u, v)) \in ValidLines(u, v)'
    BY <2>1, <2>3 DEF ValidLines, InitLine
  <2>5. InitLine(NextEpoch(peers[u][v]), NewKeyPair(u, v)) \in LineType
    BY <1>3, <2>4, LinesMonotone
  <2> QED BY <1>3, <2>4, <2>5 DEF Line, Outgoing, Said
<1> DEFINE lines == [i \in DOMAIN order |-> said(order[i])]
<1> HIDE DEF said
<1>4. lines \in Seq(Outgoing) /\ lines \in Seq(Said(u)')
  BY <1>1, <1>2, <1>3
<1>5. net' = net /\ ToSend(u, "timer", lines) /\ "timer" \in Threads
  BY <1>1 DEF TimerTicks, Threads
<1> HIDE DEF lines
<1>6. PendOK'
  BY <1>4, <1>5, ToSendKeeps DEF WiresOK
<1>7. NetOK' /\ net' \in [Users -> [Users -> Seq(LineType)]]
  BY <1>5, NetKeeps DEF WiresOK
<1> QED BY <1>6, <1>7 DEF WiresOK

\* The thread that writes is the one that holds the mutex.
LEMMA Writer ==
    ASSUME RecordOK, NEW u \in Users, NEW t \in Threads, WriteRecord(u, t)
    PROVE  Locked(u, t)
<1>1. PICK r \in held[u] : r.by = t
  BY DEF WriteRecord
<1>2. PICK s \in Threads : Locked(u, s)
  BY <1>1 DEF RecordOK, Unlocked
<1>3. r = [by |-> s, n |-> opened[u]]
  BY <1>1, <1>2 DEF Locked
<1> QED BY <1>1, <1>2, <1>3

\* Every step keeps the lines valid, on their way and before.
LEMMA WiresNext ==
    ASSUME WiresOK, RecordOK, KeyTypeOK, KeyTypeOK', [KeyNext]_keyVars, [ThreadsNext]_threadsVars
    PROVE  WiresOK'
<1> USE DEF WiresOK
<1>1. ASSUME net' = net PROVE NetOK' /\ net' \in [Users -> [Users -> Seq(LineType)]]
  BY <1>1, NetKeeps
<1>2. ASSUME NEW u \in Users, NEW v \in Users, net[v][u] # <<>>, Pop(v, u)
      PROVE  NetOK' /\ net' \in [Users -> [Users -> Seq(LineType)]]
  BY <1>2, PopKeeps
<1>3. ASSUME NEW u \in Users, NEW v \in Users, NEW t \in Threads,
             NEW m \in ValidLines(u, v)', NEW b \in BOOLEAN,
             ToSend(u, t, <<Line(v, m, b)>>)
      PROVE  PendOK'
  BY <1>3, OneLine, ToSendKeeps
<1>4. {"main", "reader", "timer"} \subseteq Threads
  BY DEF Threads
<1>5. ASSUME NEW u \in Users, NEW v \in Users, u # v, TypeE2E(u, v) PROVE WiresOK'
  <2>1. gen'[u][v] = gen[u][v] + 1
    BY <1>5, GenerateType DEF TypeE2E, KeyStart, KeyTypeOK
  <2>2. InitLine(0, NewKeyPair(u, v)) \in ValidLines(u, v)'
    BY <2>1, FreshLine, EpochAssumption DEF ValidLines, InitLine
  <2>3. ToSend(u, "main", <<Line(v, InitLine(0, NewKeyPair(u, v)), FALSE)>>) /\ net' = net
    BY <1>5 DEF TypeE2E
  <2> QED BY <1>1, <1>3, <1>4, <2>2, <2>3
<1>6. ASSUME NEW u \in Users, NEW v \in Users, u # v, TypeMessage(u, v) PROVE WiresOK'
  <2> DEFINE c == Ciphertext(u, v, peers[u][v], sent[u][v])
  <2>1. c \in sealed' /\ net' = net
    BY <1>6 DEF TypeMessage, KeySeal
  <2>2. MsgLine(c) \in ValidLines(u, v)'
    BY <2>1 DEF ValidLines, MsgLine
  <2>3. PICK long \in LongMessages : ToSend(u, "main", <<Line(v, MsgLine(c), long)>>)
    BY <1>6 DEF TypeMessage
  <2>4. long \in BOOLEAN
    BY <2>3, ThreadsAssumption
  <2> HIDE DEF c
  <2> QED BY <1>1, <1>3, <1>4, <2>1, <2>2, <2>3, <2>4
<1>7. ASSUME NEW u \in Users, NEW v \in Users, u # v, ReadInit(u, v) PROVE WiresOK'
  <2> DEFINE m == Head(net[v][u])
  <2>1. m.n \in EpochNumbers /\ net[v][u] # <<>>
    BY <1>7, KexHead DEF ReadInit, ReaderGets, HeadTag
  <2>2. gen'[u][v] = gen[u][v] + 1
    BY <1>7, GenerateType DEF ReadInit, KeyOnInit, KeyTypeOK
  <2>3. AckLine(m.n, NewKeyPair(u, v)) \in ValidLines(u, v)'
    BY <2>1, <2>2, FreshLine DEF ValidLines, AckLine
  <2>4. /\ ToSend(u, "reader", <<Line(v, AckLine(m.n, NewKeyPair(u, v)), FALSE)>>)
        /\ Pop(v, u)
    BY <1>7 DEF ReadInit
  <2> HIDE DEF m
  <2> QED BY <1>2, <1>3, <1>4, <2>1, <2>3, <2>4
<1>8. ASSUME NEW u \in Users, NEW v \in Users,
             \/ PassInit(u, v) \/ ReadAck(u, v) \/ PassAck(u, v)
             \/ ReadMessage(u, v) \/ PassMessage(u, v)
      PROVE  WiresOK'
  <2>1. net[v][u] # <<>> /\ Pop(v, u) /\ pend' = pend
    BY <1>8 DEF PassInit, ReadAck, PassAck, ReadMessage, PassMessage, ReaderGets, HeadTag
  <2> QED BY <1>2, <2>1, PendSame
<1>9. ASSUME NEW u \in Users, TimerRuns(u) PROVE WiresOK'
  BY <1>9, TickLines DEF TimerRuns
<1>10. ASSUME NEW u \in Users, NEW t \in Threads, SkipLong(u, t) PROVE WiresOK'
  <2>1. net' = net /\ ~Free(u, t) /\ ToSend(u, t, Tail(pend[u][t]))
    BY <1>10 DEF SkipLong
  <2>2. Tail(pend[u][t]) \in Seq(Outgoing) /\ Tail(pend[u][t]) \in Seq(Said(u)')
    BY <2>1, NextLine, SaidMonotone
  <2> QED BY <1>1, <2>1, <2>2, ToSendKeeps
<1>11. ASSUME NEW u \in Users, NEW t \in Threads, WriteRecord(u, t) PROVE WiresOK'
  <2>1. ~Free(u, t) /\ ToSend(u, t, Tail(pend[u][t]))
    BY <1>11, Writer DEF WriteRecord, Locked
  <2>2. /\ Tail(pend[u][t]) \in Seq(Outgoing) /\ Tail(pend[u][t]) \in Seq(Said(u)')
        /\ Head(pend[u][t]).to \in Users
        /\ Head(pend[u][t]).line \in ValidLines(u, Head(pend[u][t]).to)
    BY <2>1, NextLine, SaidMonotone
  <2>3. PICK v \in Users : \E m \in ValidLines(u, v) : Push(u, v, m)
    BY <1>11, <2>2 DEF WriteRecord, Push
  <2>4. PICK m \in ValidLines(u, v)' : Push(u, v, m)
    BY <2>3, LinesMonotone
  <2>5. NetOK' /\ net' \in [Users -> [Users -> Seq(LineType)]]
    BY <2>3, <2>4, PushKeeps
  <2>6. PendOK'
    BY <2>1, <2>2, ToSendKeeps
  <2> QED BY <2>5, <2>6
<1>12. ASSUME NEW u \in Users, NEW v \in Users, NEW t \in Threads,
              WindowEnds(u, v) \/ SealRecord(u, t)
       PROVE  WiresOK'
  <2>1. net' = net /\ pend' = pend
    BY <1>12 DEF WindowEnds, SealRecord
  <2> QED BY <1>1, <2>1, PendSame
<1>13. CASE UNCHANGED threadsVars
  BY <1>1, <1>13, PendSame DEF threadsVars
<1>14. ASSUME NEW u \in Users, NEW v \in Users, u # v, ReaderRuns(u, v) PROVE WiresOK'
  BY <1>7, <1>8, <1>14 DEF ReaderRuns
<1>15. ASSUME NEW u \in Users, NEW t \in Threads, Sends(u, t) PROVE WiresOK'
  BY <1>10, <1>11, <1>12, <1>15 DEF Sends
<1>16. ASSUME NEW u \in Users, NEW v \in Users, WindowEnds(u, v) PROVE WiresOK'
  BY <1>4, <1>12, <1>16
<1> HIDE DEF WiresOK
<1> QED BY <1>5, <1>6, <1>9, <1>13, <1>14, <1>15, <1>16 DEF ThreadsNext

-----------------------------------------------------------------------------
(***************************************************************************)
(* g_send_mu.                                                              *)
(***************************************************************************)
\* What other threads are given to say does not disturb the one that has sealed.
LEMMA RecordSame ==
    ASSUME RecordOK, UNCHANGED <<held, outer, opened>>,
           \A u \in Users : \A t \in Threads :
               Locked(u, t) => pend'[u][t] = pend[u][t]
    PROVE  RecordOK'
<1>1. ASSUME NEW u \in Users PROVE Unlocked(u)' \/ \E t \in Threads : Locked(u, t)'
  <2>1. CASE Unlocked(u)
    BY <2>1 DEF Unlocked
  <2>2. ASSUME NEW t \in Threads, Locked(u, t) PROVE Locked(u, t)'
    BY <2>2 DEF Locked, Free
  <2> QED BY <2>1, <2>2 DEF RecordOK
<1> QED BY <1>1 DEF RecordOK

\* A thread that is given something to say had nothing, so it holds no lock.
LEMMA RecordFree ==
    ASSUME RecordOK, PendOK, UNCHANGED <<held, outer, opened>>,
           NEW u \in Users, NEW t \in Threads, NEW lines,
           ToSend(u, t, lines), Free(u, t) \/ Head(pend[u][t]).long
    PROVE  RecordOK'
<1>1. ASSUME NEW x \in Users, NEW s \in Threads, Locked(x, s)
      PROVE  pend'[x][s] = pend[x][s]
  <2>1. ~(x = u /\ s = t)
    BY <1>1 DEF Locked
  <2> QED BY <2>1, <1>1, ToSendReads
<1> QED BY <1>1, RecordSame

\* Sealing takes the mutex with the counter the server expects.
LEMMA SealKeepsOrder ==
    ASSUME RecordOK, NEW u \in Users, NEW t \in Threads, SealRecord(u, t)
    PROVE  RecordOK'
<1> DEFINE r == [by |-> t, n |-> outer[u]]
<1>1. /\ held' = [held EXCEPT ![u] = @ \cup {r}]
      /\ outer' = [outer EXCEPT ![u] = @ + 1]
      /\ opened' = opened /\ pend' = pend
      /\ held[u] = {} /\ ~Free(u, t) /\ ~Head(pend[u][t]).long
  BY DEF SealRecord, SendMutexFree
<1>2. /\ held \in [Users -> SUBSET [by : Threads, n : Nat]]
      /\ outer \in [Users -> Nat] /\ opened \in [Users -> Nat]
  BY DEF RecordOK
<1>3. r \in [by : Threads, n : Nat]
  BY <1>2
<1>4. outer[u] = opened[u]
  BY <1>1 DEF RecordOK, Locked, Unlocked
<1>5. /\ held' \in [Users -> SUBSET [by : Threads, n : Nat]]
      /\ outer' \in [Users -> Nat] /\ opened' \in [Users -> Nat]
  BY <1>1, <1>2, <1>3
<1>6. Locked(u, t)'
  BY <1>1, <1>2, <1>4 DEF Locked, Free
<1>7. ASSUME NEW x \in Users, x # u PROVE Unlocked(x)' \/ \E s \in Threads : Locked(x, s)'
  <2>1. held'[x] = held[x] /\ outer'[x] = outer[x]
    BY <1>1, <1>2, <1>7
  <2> QED BY <1>1, <1>7, <2>1 DEF RecordOK, Locked, Unlocked, Free
<1> QED BY <1>5, <1>6, <1>7 DEF RecordOK

\* Writing gives the mutex back, with the counters equal again.
LEMMA WriteKeepsOrder ==
    ASSUME RecordOK, PendOK, NEW u \in Users, NEW t \in Threads, WriteRecord(u, t)
    PROVE  RecordOK'
<1>1. PICK r \in held[u] : r.by = t /\ held' = [held EXCEPT ![u] = @ \ {r}]
  BY DEF WriteRecord
<1>2. /\ opened' = [opened EXCEPT ![u] = @ + 1] /\ outer' = outer
      /\ ToSend(u, t, Tail(pend[u][t]))
  BY DEF WriteRecord
<1>3. /\ held \in [Users -> SUBSET [by : Threads, n : Nat]]
      /\ outer \in [Users -> Nat] /\ opened \in [Users -> Nat]
  BY DEF RecordOK
<1>4. held[u] = {r} /\ outer[u] = opened[u] + 1
  BY <1>1 DEF RecordOK, Locked, Unlocked
<1>5. /\ held' \in [Users -> SUBSET [by : Threads, n : Nat]]
      /\ outer' \in [Users -> Nat] /\ opened' \in [Users -> Nat]
  BY <1>1, <1>2, <1>3
<1>6. Unlocked(u)'
  BY <1>1, <1>2, <1>3, <1>4 DEF Unlocked
<1>7. ASSUME NEW x \in Users, x # u PROVE Unlocked(x)' \/ \E s \in Threads : Locked(x, s)'
  <2>1. held'[x] = held[x] /\ outer'[x] = outer[x] /\ opened'[x] = opened[x]
    BY <1>1, <1>2, <1>3, <1>7
  <2>2. \A s \in Threads : pend'[x][s] = pend[x][s]
    BY <1>2, <1>7, ToSendReads
  <2> QED BY <1>7, <2>1, <2>2 DEF RecordOK, Locked, Unlocked, Free
<1> QED BY <1>5, <1>6, <1>7 DEF RecordOK

\* Every step keeps the record counters and the mutex in order.
LEMMA RecordNext ==
    ASSUME RecordOK, PendOK, [ThreadsNext]_threadsVars
    PROVE  RecordOK'
<1>1. ASSUME NEW u \in Users, NEW v \in Users,
             TypeE2E(u, v) \/ TypeMessage(u, v)
      PROVE  RecordOK'
  <2>1. PICK lines : ToSend(u, "main", lines)
    BY <1>1 DEF TypeE2E, TypeMessage
  <2>2. Free(u, "main") /\ UNCHANGED <<held, outer, opened>> /\ "main" \in Threads
    BY <1>1 DEF TypeE2E, TypeMessage, Threads
  <2> QED BY <2>1, <2>2, RecordFree
<1>2. ASSUME NEW u \in Users, NEW v \in Users, ReadInit(u, v) PROVE RecordOK'
  <2>1. PICK lines : ToSend(u, "reader", lines)
    BY <1>2 DEF ReadInit
  <2>2. Free(u, "reader") /\ UNCHANGED <<held, outer, opened>> /\ "reader" \in Threads
    BY <1>2 DEF ReadInit, ReaderGets, Threads
  <2> QED BY <2>1, <2>2, RecordFree
<1>3. ASSUME NEW u \in Users, TimerRuns(u) PROVE RecordOK'
  <2>1. PICK lines : ToSend(u, "timer", lines)
    BY <1>3 DEF TimerRuns, TimerTicks
  <2>2. Free(u, "timer") /\ UNCHANGED <<held, outer, opened>> /\ "timer" \in Threads
    BY <1>3 DEF TimerRuns, TimerTicks, Threads
  <2> QED BY <2>1, <2>2, RecordFree
<1>4. ASSUME NEW u \in Users, NEW t \in Threads, SkipLong(u, t) PROVE RecordOK'
  <2>1. /\ ToSend(u, t, Tail(pend[u][t])) /\ Head(pend[u][t]).long
        /\ UNCHANGED <<held, outer, opened>>
    BY <1>4 DEF SkipLong
  <2> QED BY <2>1, RecordFree
<1>5. ASSUME NEW u \in Users, NEW v \in Users,
             \/ PassInit(u, v) \/ ReadAck(u, v) \/ PassAck(u, v)
             \/ ReadMessage(u, v) \/ PassMessage(u, v) \/ WindowEnds(u, v)
      PROVE  RecordOK'
  <2>1. UNCHANGED <<pend, held, outer, opened>>
    BY <1>5 DEF PassInit, ReadAck, PassAck, ReadMessage, PassMessage, WindowEnds
  <2> QED BY <2>1, RecordSame
<1>6. CASE UNCHANGED threadsVars
  BY <1>6, RecordSame DEF threadsVars
<1> QED
  BY <1>1, <1>2, <1>3, <1>4, <1>5, <1>6, SealKeepsOrder, WriteKeepsOrder
  DEF ThreadsNext, ReaderRuns, Sends

-----------------------------------------------------------------------------
\* The empty Managers, wires and threads satisfy the invariant.
LEMMA ThreadsInitInv == ThreadsInit => ThreadsInv
<1> SUFFICES ASSUME ThreadsInit PROVE ThreadsInv
  OBVIOUS
<1>1. KeyInv
  BY KeyInitInv DEF ThreadsInit
<1>2. net \in [Users -> [Users -> Seq(LineType)]] /\ NetOK
  BY DEF ThreadsInit, NetInit, NetOK
<1>3. PendOK
  BY DEF ThreadsInit, PendOK
<1>4. RecordOK
  BY DEF ThreadsInit, RecordOK, Unlocked
<1> QED BY <1>1, <1>2, <1>3, <1>4 DEF ThreadsInv, WiresOK

\* Every step of a thread keeps the invariant.
LEMMA ThreadsNextInv == ThreadsInv /\ [ThreadsNext]_threadsVars => ThreadsInv'
<1> SUFFICES ASSUME ThreadsInv, [ThreadsNext]_threadsVars PROVE ThreadsInv'
  OBVIOUS
<1>1. [KeyNext]_keyVars
  BY ThreadsStepMaps DEF ThreadsInv, WiresOK
<1>2. KeyInv' /\ KeyTypeOK' /\ KeyTypeOK
  BY <1>1, KeyNextInv DEF ThreadsInv, KeyInv
<1>3. WiresOK'
  BY <1>1, <1>2, WiresNext DEF ThreadsInv
<1>4. RecordOK'
  BY RecordNext DEF ThreadsInv, WiresOK
<1> QED BY <1>2, <1>3, <1>4 DEF ThreadsInv

\* The inductive invariant of ClientThreads: that of EpochKeys, only valid lines
\* sent and to be sent, and one record at a time between seal and write.
THEOREM ThreadsInvariance == ThreadsSpec => []ThreadsInv
BY ThreadsInitInv, ThreadsNextInv, PTL DEF ThreadsSpec

(***************************************************************************)
(* The threads of the clients, whatever they do between calling the        *)
(* Manager and sending what it gave them, behave as EpochKeys allows.      *)
(***************************************************************************)
THEOREM ThreadsImplementEpochKeys == ThreadsSpec => KeySpec
<1>1. ThreadsInit => KeyInit
  BY DEF ThreadsInit
<1>2. ThreadsInv /\ [ThreadsNext]_threadsVars => [KeyNext]_keyVars
  BY ThreadsStepMaps DEF ThreadsInv, WiresOK
<1> QED BY <1>1, <1>2, ThreadsInvariance, PTL DEF ThreadsSpec, KeySpec

(***************************************************************************)
(* So no schedule of the threads makes a client use a nonce twice.         *)
(***************************************************************************)
THEOREM ThreadsNonceFreshness == ThreadsSpec => []NonceFresh
BY ThreadsImplementEpochKeys, NonceFreshness, PTL

(***************************************************************************)
(* The records of a client's threads reach the socket in the order of      *)
(* their counters, since send_line seals and writes under g_send_mu.       *)
(***************************************************************************)
THEOREM RecordsStayInOrder == ThreadsSpec => []RecordsInOrder
<1>1. ThreadsInv => RecordsInOrder
  BY DEF ThreadsInv, RecordOK, Locked, Unlocked, RecordsInOrder
<1> QED BY <1>1, ThreadsInvariance, PTL
=============================================================================
