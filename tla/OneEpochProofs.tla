--------------------------- MODULE OneEpochProofs ---------------------------
(***************************************************************************)
(* Phase 4 never uses a key and a nonce twice, and what a user is shown    *)
(* under one key is what was sealed under it, in order and without a gap:  *)
(* for any users and any number of sessions, crossed, repeated and         *)
(* abandoned INITs included.  And the exponents that KeyMemory keeps, of   *)
(* phase 5, are the right ones.                                            *)
(***************************************************************************)
EXTENDS OneEpoch, MemoryPart, TLAPS, FiniteSetTheorems

Threads == {"main", "reader"}

PairsOf(u) == {<<u, i>> : i \in Nat}
Made(u, g) == {<<u, i>> : i \in 0 .. g - 1}

CipherType == [z : SUBSET Pairs, a : BOOLEAN, n : Nat, msg : Nat]

\* Key exchange goes to somebody else, and carries a pair of its sender.
TextOK(u, v, text) ==
    /\ text.tag \in {"init", "ack"} => u # v /\ text.what \in PairsOf(u)
    /\ text = [tag |-> text.tag, what |-> text.what]

Texts == [tag : {"init", "ack", "msg", "plain", "err"},
          what : Pairs \cup CipherType \cup Nat \cup {NoPair}]
Out(u) == {l \in [to : Users, text : Texts] : TextOK(u, l.to, l.text)}
In(u) == {l \in [from : Users, text : Texts] : TextOK(l.from, u, l.text)}

PendOK(p) ==
    /\ DOMAIN p = Users
    /\ \A u \in Users : DOMAIN p[u] = Threads /\ \A t \in Threads : p[u][t] \in Seq(Out(u))

UpOK(wires) == DOMAIN wires = Users /\ \A u \in Users : wires[u] \in Seq(Out(u))

DownOK(wires) == DOMAIN wires = Users /\ \A u \in Users : wires[u] \in Seq(In(u))

WiresOK == PendOK(pend) /\ UpOK(up) /\ DownOK(down)

\* The pair of an INIT that is open has sealed nothing on this side, whatever
\* the other side has sealed under it already.
PairUnused(u, v, p, s) ==
    \A c \in s, x \in PairsOf(v) : c.z = {p.pair, x} => c.a # AmA(u, v)

\* The counter of a session is past every nonce used under its key.
CounterAhead(u, v, p, s) ==
    /\ \E x \in PairsOf(v) : p.z = {p.pair, x}
    /\ \A c \in s : c.z = p.z /\ c.a = AmA(u, v) => c.n < p.tx

EntryOK(u, v, p, g, s) ==
    /\ u = v => p.st = "none"
    /\ p.st # "none" => p.pair \in Made(u, g)
    /\ p.st = "Pending" => PairUnused(u, v, p, s)
    /\ p.st = "Up" => CounterAhead(u, v, p, s)

\* Every message was sealed by one of two users, with a pair of its own.
SealedBy(u, v, c, g) ==
    u # v /\ c.a = AmA(u, v) /\ \E p \in Made(u, g), x \in PairsOf(v) : c.z = {p, x}

OneInv ==
    /\ peers \in [Users -> [Users -> EntryType]] /\ gen \in [Users -> Nat]
    /\ typed \in Nat /\ sealed \subseteq CipherType
    /\ WiresOK
    /\ \A u, v \in Users : EntryOK(u, v, peers[u][v], gen[u], sealed)
    /\ \A c \in sealed : \E u, v \in Users : SealedBy(u, v, c, gen[u])
    /\ NonceFresh

-----------------------------------------------------------------------------
(***************************************************************************)
(* A key belongs to two users, and each seals in its own direction: what   *)
(* one of them sealed for the other nobody else could have.                *)
(***************************************************************************)
LEMMA OneSealer ==
    ASSUME NEW u \in Users, NEW v \in Users, u # v, NEW x \in Users, NEW y \in Users, x # y,
           NEW p \in PairsOf(u), NEW q \in PairsOf(v), NEW r \in PairsOf(x), NEW s \in PairsOf(y),
           {p, q} = {r, s}, AmA(u, v) = AmA(x, y)
    PROVE  x = u /\ y = v /\ r = p /\ s = q
<1>1. PICK i, j, k, l \in Nat : p = <<u, i>> /\ q = <<v, j>> /\ r = <<x, k>> /\ s = <<y, l>>
  BY DEF PairsOf
<1>2. u \in Nat /\ v \in Nat /\ x \in Nat /\ y \in Nat
  BY OneEpochAssumption
<1>3. CASE r = p /\ s = q
  BY <1>1, <1>3
<1>4. CASE r = q /\ s = p
  <2>1. x = v /\ y = u
    BY <1>1, <1>4
  <2> QED BY <1>2, <2>1 DEF AmA
<1> QED BY <1>3, <1>4

\* A pair that was just generated has sealed nothing.
LEMMA FreshPair ==
    ASSUME OneInv, NEW u \in Users, NEW v \in Users, u # v, NEW c \in sealed,
           NEW x \in PairsOf(v), c.z = {NewPair(u), x}
    PROVE  c.a # AmA(u, v)
<1> SUFFICES ASSUME c.a = AmA(u, v) PROVE FALSE
  OBVIOUS
<1>1. PICK w, y \in Users : SealedBy(w, y, c, gen[w])
  BY DEF OneInv
<1>2. PICK p \in Made(w, gen[w]), q \in PairsOf(y) : c.z = {p, q}
  BY <1>1 DEF SealedBy
<1>3. gen[u] \in Nat /\ gen[w] \in Nat
  BY DEF OneInv
<1>4. p \in PairsOf(w) /\ NewPair(u) \in PairsOf(u)
  BY <1>3 DEF Made, PairsOf, NewPair
<1>5. w = u /\ p = NewPair(u)
  <2>1. PICK k : k = NewPair(u)
    OBVIOUS
  <2>2. w # y /\ AmA(u, v) = AmA(w, y) /\ {p, q} = {k, x} /\ k \in PairsOf(u) /\ p \in PairsOf(w)
    BY <1>1, <1>2, <1>4, <2>1 DEF SealedBy
  <2>3. u = w /\ k = p
    BY <2>2, OneSealer
  <2> QED BY <2>1, <2>3
<1> QED BY <1>2, <1>3, <1>5 DEF Made, NewPair

(***************************************************************************)
(* What is left to show of a step that seals nothing and changes one       *)
(* entry.                                                                  *)
(***************************************************************************)
LEMMA OneEntryStep ==
    ASSUME OneInv, NEW u \in Users, NEW v \in Users, NEW q \in EntryType,
           peers' = [peers EXCEPT ![u][v] = q],
           gen' \in [Users -> Nat], \A w \in Users : gen[w] <= gen'[w],
           EntryOK(u, v, q, gen'[u], sealed),
           typed' \in Nat, sealed' = sealed, WiresOK'
    PROVE  OneInv'
<1>1. peers' \in [Users -> [Users -> EntryType]]
  BY DEF OneInv
<1>2. \A w \in Users : Made(w, gen[w]) \subseteq Made(w, gen'[w])
  <2> TAKE w \in Users
  <2>1. gen[w] \in Nat /\ gen'[w] \in Nat /\ gen[w] <= gen'[w]
    BY DEF OneInv
  <2> QED BY <2>1 DEF Made
<1>3. ASSUME NEW x \in Users, NEW y \in Users
      PROVE  EntryOK(x, y, peers'[x][y], gen'[x], sealed')
  <2>1. CASE x = u /\ y = v
    BY <2>1 DEF OneInv
  <2>2. CASE ~(x = u /\ y = v)
    <3>1. peers'[x][y] = peers[x][y]
      BY <1>3, <2>2 DEF OneInv
    <3> QED BY <1>2, <1>3, <3>1 DEF OneInv, EntryOK
  <2> QED BY <2>1, <2>2
<1>4. ASSUME NEW c \in sealed' PROVE \E x, y \in Users : SealedBy(x, y, c, gen'[x])
  <2>1. PICK x, y \in Users : SealedBy(x, y, c, gen[x])
    BY <1>4 DEF OneInv
  <2>2. SealedBy(x, y, c, gen'[x])
    BY <1>2, <2>1 DEF SealedBy
  <2> QED BY <2>2
<1>5. NonceFresh'
  BY DEF OneInv, NonceFresh
<1> QED BY <1>1, <1>3, <1>4, <1>5 DEF OneInv

\* And of one that changes none.
LEMMA QuietStep ==
    ASSUME OneInv, UNCHANGED <<peers, gen, sealed>>, typed' \in Nat, WiresOK'
    PROVE  OneInv'
BY DEF OneInv, NonceFresh

-----------------------------------------------------------------------------
(* The wires. *)

\* What a thread is given to send is well formed.
LEMMA PendPut ==
    ASSUME PendOK(pend), NEW u \in Users, NEW v \in Users, NEW t \in Threads,
           NEW text \in Texts, TextOK(u, v, text), Will(u, t, v, text)
    PROVE  PendOK(pend')
<1>1. [to |-> v, text |-> text] \in Out(u)
  BY DEF Out
<1>2. <<[to |-> v, text |-> text]>> \in Seq(Out(u))
  BY <1>1
<1> QED BY <1>2 DEF PendOK, Will

\* A line the reader has taken is one that may be on its wire.
LEMMA DownTaken ==
    ASSUME DownOK(down), NEW u \in Users, down[u] # <<>>,
           down' = [down EXCEPT ![u] = Tail(@)]
    PROVE  DownOK(down') /\ Head(down[u]) \in In(u)
<1>1. down[u] \in Seq(In(u)) /\ Tail(down[u]) \in Seq(In(u)) /\ Head(down[u]) \in In(u)
  BY DEF DownOK
<1> QED BY <1>1 DEF DownOK

\* What the reader takes is from somebody, and what it carries is that one's.
LEMMA ReadFacts ==
    ASSUME WiresOK, NEW u \in Users, NEW tag, Reads(u, tag)
    PROVE  /\ DownOK(down') /\ UpOK(up') /\ From(u) \in Users
           /\ tag \in {"init", "ack"} => From(u) # u /\ What(u) \in PairsOf(From(u))
<1>1. DownOK(down') /\ Head(down[u]) \in In(u)
  BY DownTaken DEF WiresOK, Reads
<1>2. up' = up /\ Head(down[u]).text.tag = tag
  BY DEF Reads
<1> QED BY <1>1, <1>2 DEF WiresOK, From, What, In, TextOK

\* send_line moves a line from a thread to the wire.
LEMMA SendKeeps ==
    ASSUME WiresOK, NEW u \in Users, NEW t \in Threads, Send(u, t)
    PROVE  WiresOK'
<1>1. pend[u][t] \in Seq(Out(u)) /\ up[u] \in Seq(Out(u)) /\ << >> \in Seq(Out(u))
  BY DEF WiresOK, PendOK, UpOK
<1>2. up[u] \o pend[u][t] \in Seq(Out(u))
  BY <1>1
<1>3. PendOK(pend')
  BY <1>1 DEF WiresOK, PendOK, Send
<1>4. UpOK(up')
  BY <1>2 DEF WiresOK, UpOK, Send
<1> QED BY <1>3, <1>4 DEF WiresOK, Send

\* A line that is too long is on no wire.
LEMMA SkipKeeps ==
    ASSUME WiresOK, NEW u \in Users, NEW t \in Threads, SkipLong(u, t)
    PROVE  WiresOK'
<1>1. << >> \in Seq(Out(u)) /\ UNCHANGED <<up, down>>
  BY DEF SkipLong, relay
<1>2. PendOK(pend')
  BY <1>1 DEF WiresOK, PendOK, SkipLong
<1> QED BY <1>1, <1>2 DEF WiresOK

\* The relay moves a line from one wire to another, or answers with an error.
LEMMA RouteKeeps ==
    ASSUME WiresOK, NEW u \in Users, Route(u)
    PROVE  WiresOK'
<1>1. up[u] \in Seq(Out(u)) /\ up[u] # <<>>
  BY DEF WiresOK, UpOK, Route
<1>2. PICK l \in Out(u) : l = Head(up[u])
  BY <1>1
<1>3. UpOK(up')
  <2>1. Tail(up[u]) \in Seq(Out(u))
    BY <1>1
  <2> QED BY <2>1 DEF WiresOK, UpOK, Route
<1>4. DownOK(down')
  <2>1. l.to \in Users /\ l.text \in Texts /\ TextOK(u, l.to, l.text)
    BY DEF Out
  <2>2. CASE online[l.to]
    <3>1. [from |-> u, text |-> l.text] \in In(l.to)
      BY <2>1 DEF In
    <3>2. Append(down[l.to], [from |-> u, text |-> l.text]) \in Seq(In(l.to))
      BY <2>1, <3>1 DEF WiresOK, DownOK
    <3>3. down' = [down EXCEPT ![l.to] = Append(@, [from |-> u, text |-> l.text])]
      BY <1>2, <2>2 DEF Route
    <3> QED BY <2>1, <3>2, <3>3 DEF WiresOK, DownOK
  <2>3. CASE ~online[l.to]
    <3>1. [from |-> l.to, text |-> Tagged("err", NoPair)] \in In(u)
      BY <2>1 DEF In, Texts, TextOK, Tagged
    <3>2. Append(down[u], [from |-> l.to, text |-> Tagged("err", NoPair)]) \in Seq(In(u))
      BY <3>1 DEF WiresOK, DownOK
    <3>3. down' = [down EXCEPT ![u] = Append(@, [from |-> l.to, text |-> Tagged("err", NoPair)])]
      BY <1>2, <2>3 DEF Route
    <3> QED BY <3>2, <3>3 DEF WiresOK, DownOK
  <2> QED BY <2>2, <2>3
<1> QED BY <1>3, <1>4 DEF WiresOK, Route

-----------------------------------------------------------------------------
(* The actions. *)

\* A new pair is in an entry that is pending.
LEMMA TypeE2EKeeps ==
    ASSUME OneInv, NEW u \in Users, NEW v \in Users, TypeE2E(u, v)
    PROVE  OneInv'
<1>1. PICK k : k = NewPair(u)
  OBVIOUS
<1>2. PICK q : q = [NoEntry EXCEPT !.st = "Pending", !.pair = k]
  OBVIOUS
<1>3. /\ u # v /\ peers' = [peers EXCEPT ![u][v] = q]
      /\ gen' = [gen EXCEPT ![u] = @ + 1]
      /\ Will(u, "main", v, Tagged("init", k))
  BY <1>1, <1>2 DEF TypeE2E, Start, Becomes, Generate
<1>4. gen \in [Users -> Nat] /\ gen[u] \in Nat
  BY DEF OneInv
<1>5. gen' \in [Users -> Nat] /\ gen'[u] = gen[u] + 1 /\ \A w \in Users : gen[w] <= gen'[w]
  BY <1>3, <1>4
<1>6. k \in PairsOf(u) /\ k \in Made(u, gen'[u]) /\ k \in Pairs
  BY <1>1, <1>4, <1>5 DEF NewPair, PairsOf, Made, Pairs
<1>7. q \in EntryType /\ q.st = "Pending" /\ q.pair = k
  BY <1>2, <1>6 DEF NoEntry, EntryType
<1>8. EntryOK(u, v, q, gen'[u], sealed)
  <2>1. PairUnused(u, v, q, sealed)
    BY <1>1, <1>3, <1>7, FreshPair DEF PairUnused
  <2> QED BY <1>3, <1>6, <1>7, <2>1 DEF EntryOK
<1>9. PendOK(pend')
  <2>1. PICK text : text = Tagged("init", k)
    OBVIOUS
  <2>2. text \in Texts /\ TextOK(u, v, text)
    BY <1>3, <1>6, <2>1 DEF Tagged, Texts, TextOK
  <2> QED BY <1>3, <2>1, <2>2, PendPut DEF OneInv, WiresOK, Threads
<1>10. WiresOK' /\ typed' \in Nat /\ sealed' = sealed
  BY <1>9 DEF OneInv, WiresOK, TypeE2E, relay
<1> QED BY <1>3, <1>5, <1>7, <1>8, <1>10, OneEntryStep

\* What is sealed has a nonce past all others of its key and direction, and
\* says nothing of another entry.
LEMMA SealKeeps ==
    ASSUME OneInv, NEW u \in Users, NEW v \in Users, NEW m \in Nat, Established(u, v),
           NEW c, c = Ciphertext(u, v, m), sealed' = sealed \cup {c},
           peers' = [peers EXCEPT ![u][v] = SealedOnce(u, v)],
           gen' = gen, typed' \in Nat, WiresOK'
    PROVE  OneInv'
<1>1. PICK p : p = peers[u][v]
  OBVIOUS
<1>2. p \in EntryType /\ p.st = "Up" /\ u # v /\ p.pair \in Made(u, gen[u])
      /\ CounterAhead(u, v, p, sealed)
  BY <1>1 DEF OneInv, EntryOK, Established
<1>3. PICK x \in PairsOf(v) : p.z = {p.pair, x}
  BY <1>2 DEF CounterAhead
<1>4. c \in CipherType /\ c.z = p.z /\ c.a = AmA(u, v) /\ c.n = p.tx
  BY <1>1, <1>2 DEF Ciphertext, CipherType, EntryType, AmA
<1>5. PICK q : q = [p EXCEPT !.tx = @ + 1]
  OBVIOUS
<1>6. q \in EntryType /\ q.st = "Up" /\ q.pair = p.pair /\ q.z = p.z /\ q.tx = p.tx + 1
  BY <1>2, <1>5 DEF EntryType
<1>7. peers' = [peers EXCEPT ![u][v] = q]
  BY <1>1, <1>5 DEF SealedOnce
<1>8. peers' \in [Users -> [Users -> EntryType]]
  BY <1>6, <1>7 DEF OneInv
<1>9. p.tx \in Nat /\ \A d \in sealed : d \in CipherType /\ d.n \in Nat
  BY <1>2 DEF OneInv, EntryType, CipherType
<1>10. SealedBy(u, v, c, gen'[u])
  BY <1>2, <1>3, <1>4 DEF SealedBy
<1>11. \A d \in sealed' : \E w, y \in Users : SealedBy(w, y, d, gen'[w])
  BY <1>10 DEF OneInv
<1>12. NonceFresh'
  <2>1. ASSUME NEW d \in sealed PROVE ~(d.z = c.z /\ d.a = c.a /\ d.n = c.n)
    BY <1>2, <1>4, <1>9, <2>1 DEF CounterAhead
  <2> QED BY <2>1 DEF OneInv, NonceFresh
<1>13. EntryOK(u, v, q, gen[u], sealed')
  <2>1. CounterAhead(u, v, q, sealed')
    BY <1>2, <1>3, <1>4, <1>6, <1>9 DEF CounterAhead
  <2> QED BY <1>2, <1>6, <2>1 DEF EntryOK
<1>14. p.pair \in PairsOf(u)
  BY <1>2 DEF OneInv, Made, PairsOf
<1>15. ASSUME NEW w \in Users, NEW y \in Users, ~(w = u /\ y = v)
       PROVE  EntryOK(w, y, peers[w][y], gen[w], sealed')
  <2>1. PICK r : r = peers[w][y]
    OBVIOUS
  <2>2. EntryOK(w, y, r, gen[w], sealed)
    BY <1>15, <2>1 DEF OneInv
  <2>3. ASSUME r.st # "none", NEW s \in PairsOf(y), c.z = {r.pair, s} PROVE c.a # AmA(w, y)
    <3>1. w # y /\ r.pair \in PairsOf(w)
      BY <1>15, <2>2, <2>3 DEF EntryOK, OneInv, Made, PairsOf
    <3>2. PICK k, l : k = p.pair /\ l = r.pair
      OBVIOUS
    <3>3. {k, x} = {l, s} /\ k \in PairsOf(u) /\ l \in PairsOf(w)
      BY <1>3, <1>4, <1>14, <2>3, <3>1, <3>2
    <3>4. AmA(u, v) # AmA(w, y)
      <4> SUFFICES ASSUME AmA(u, v) = AmA(w, y) PROVE FALSE
        OBVIOUS
      <4>1. w = u /\ y = v
        BY <1>2, <1>3, <1>15, <2>3, <3>1, <3>3, OneSealer, SMTT(30)
      <4> QED BY <1>15, <4>1
    <3> QED BY <1>4, <3>4
  <2>4. r.st = "Pending" => PairUnused(w, y, r, sealed')
    BY <2>2, <2>3 DEF EntryOK, PairUnused
  <2>5. r.st = "Up" => CounterAhead(w, y, r, sealed')
    BY <2>2, <2>3 DEF EntryOK, CounterAhead
  <2> QED BY <2>1, <2>2, <2>4, <2>5 DEF EntryOK
<1>16. ASSUME NEW w \in Users, NEW y \in Users
       PROVE  EntryOK(w, y, peers'[w][y], gen'[w], sealed')
  <2>1. CASE w = u /\ y = v
    BY <1>7, <1>13, <2>1 DEF OneInv
  <2>2. CASE ~(w = u /\ y = v)
    <3>1. peers'[w][y] = peers[w][y]
      BY <1>7, <2>2 DEF OneInv
    <3> QED BY <1>15, <1>16, <2>2, <3>1
  <2> QED BY <2>1, <2>2
<1> QED BY <1>4, <1>8, <1>11, <1>12, <1>16 DEF OneInv

\* A message typed keeps the invariant.
LEMMA TypeMessageKeeps ==
    ASSUME OneInv, NEW u \in Users, NEW v \in Users, TypeMessage(u, v)
    PROVE  OneInv'
<1>1. PICK m \in Nat : m = typed + 1
  BY DEF OneInv
<1>2. typed' = m /\ gen' = gen /\ UNCHANGED relay
  BY <1>1 DEF TypeMessage
<1>3. ASSUME NEW text \in Texts, text.tag \in {"msg", "plain"}, Will(u, "main", v, text)
      PROVE  WiresOK'
  <2>1. TextOK(u, v, text)
    BY <1>3 DEF TextOK, Texts
  <2>2. PendOK(pend')
    BY <1>3, <2>1, PendPut DEF OneInv, WiresOK, Threads
  <2> QED BY <1>2, <2>2 DEF OneInv, WiresOK, relay
<1>4. CASE Established(u, v)
  <2>1. PICK c : c = Ciphertext(u, v, m)
    OBVIOUS
  <2>2. PICK text : text = Tagged("msg", c)
    OBVIOUS
  <2>3. c \in CipherType
    <3>1. peers[u][v] \in EntryType
      BY DEF OneInv
    <3> QED BY <2>1, <3>1 DEF Ciphertext, CipherType, EntryType, AmA
  <2>4. text \in Texts /\ text.tag = "msg"
    BY <2>2, <2>3 DEF Texts, Tagged
  <2>5. WiresOK'
    BY <1>1, <1>3, <1>4, <2>1, <2>2, <2>4 DEF TypeMessage
  <2>6. /\ sealed' = sealed \cup {c}
        /\ peers' = [peers EXCEPT ![u][v] = SealedOnce(u, v)]
    BY <1>1, <1>4, <2>1 DEF TypeMessage, Becomes
  <2> QED BY <1>2, <1>4, <2>1, <2>5, <2>6, SealKeeps
<1>5. CASE ~Established(u, v)
  <2>1. PICK text : text = Tagged("plain", m)
    OBVIOUS
  <2>2. text \in Texts /\ text.tag = "plain"
    BY <2>1 DEF Texts, Tagged
  <2>3. WiresOK'
    BY <1>1, <1>3, <1>5, <2>1, <2>2 DEF TypeMessage
  <2> QED BY <1>2, <1>5, <2>3, QuietStep DEF TypeMessage
<1> QED BY <1>4, <1>5

\* The answer to an INIT has a new pair too, and no counter to go on with.
LEMMA ReadsInitKeeps ==
    ASSUME OneInv, NEW u \in Users, ReadsInit(u)
    PROVE  OneInv'
<1>1. PICK v, pub, k : v = From(u) /\ pub = What(u) /\ k = NewPair(u)
  OBVIOUS
<1>2. DownOK(down') /\ UpOK(up') /\ v \in Users /\ v # u /\ pub \in PairsOf(v)
  BY <1>1, ReadFacts DEF OneInv, ReadsInit
<1>3. PICK q : q = [NoEntry EXCEPT !.st = "Up", !.pair = k, !.z = {k, pub}]
  OBVIOUS
<1>4. /\ peers' = [peers EXCEPT ![u][v] = q]
      /\ gen' = [gen EXCEPT ![u] = @ + 1]
      /\ Will(u, "reader", v, Tagged("ack", k))
      /\ typed' = typed /\ sealed' = sealed
  BY <1>1, <1>3 DEF ReadsInit, Reads, OnInit, Answers, Derive, Becomes, Generate
<1>5. gen \in [Users -> Nat] /\ gen[u] \in Nat
  BY DEF OneInv
<1>6. gen' \in [Users -> Nat] /\ gen'[u] = gen[u] + 1 /\ \A w \in Users : gen[w] <= gen'[w]
  BY <1>4, <1>5
<1>7. k \in PairsOf(u) /\ k \in Made(u, gen'[u]) /\ k \in Pairs /\ pub \in Pairs
  BY <1>1, <1>2, <1>5, <1>6 DEF NewPair, PairsOf, Made, Pairs
<1>8. q \in EntryType /\ q.st = "Up" /\ q.pair = k /\ q.z = {k, pub}
  BY <1>3, <1>7 DEF NoEntry, EntryType
<1>9. EntryOK(u, v, q, gen'[u], sealed)
  <2>1. ASSUME NEW c \in sealed, c.z = q.z, c.a = AmA(u, v) PROVE FALSE
    BY <1>1, <1>2, <1>8, <2>1, FreshPair
  <2>2. CounterAhead(u, v, q, sealed)
    BY <1>2, <1>8, <2>1 DEF CounterAhead
  <2> QED BY <1>2, <1>7, <1>8, <2>2 DEF EntryOK
<1>10. WiresOK'
  <2>1. PICK text : text = Tagged("ack", k)
    OBVIOUS
  <2>2. text \in Texts /\ TextOK(u, v, text)
    BY <1>2, <1>7, <2>1 DEF Tagged, Texts, TextOK
  <2>3. PendOK(pend')
    BY <1>2, <1>4, <2>1, <2>2, PendPut DEF OneInv, WiresOK, Threads
  <2> QED BY <1>2, <2>3 DEF WiresOK
<1>11. typed' \in Nat
  BY <1>4 DEF OneInv
<1> QED BY <1>2, <1>4, <1>6, <1>8, <1>9, <1>10, <1>11, OneEntryStep

\* The pair of the open INIT goes into a key that this side has sealed nothing
\* under, whichever ACK it is.
LEMMA ReadsAckKeeps ==
    ASSUME OneInv, NEW u \in Users, ReadsAck(u)
    PROVE  OneInv'
<1>1. PICK v, pub : v = From(u) /\ pub = What(u)
  OBVIOUS
<1>2. DownOK(down') /\ UpOK(up') /\ v \in Users /\ v # u /\ pub \in PairsOf(v)
  BY <1>1, ReadFacts DEF OneInv, ReadsAck
<1>3. UNCHANGED <<gen, pend, typed, sealed>>
  BY DEF ReadsAck, Reads, OnAck, managers
<1>4. WiresOK' /\ typed' \in Nat
  BY <1>2, <1>3 DEF OneInv, WiresOK
<1>5. CASE OnAck(u, v, pub)
  <2>1. PICK p, q : p = peers[u][v] /\ q = [p EXCEPT !.st = "Up", !.z = {p.pair, pub}]
    OBVIOUS
  <2>2. p \in EntryType /\ p.st = "Pending" /\ p.pair \in Made(u, gen[u])
        /\ PairUnused(u, v, p, sealed)
    BY <1>2, <1>5, <2>1 DEF OneInv, EntryOK, OnAck, AckExpected
  <2>3. pub \in Pairs /\ p.pair \in Pairs
    BY <1>2, <2>2 DEF PairsOf, Pairs, Made, OneInv
  <2>4. q \in EntryType /\ q.st = "Up" /\ q.pair = p.pair /\ q.z = {p.pair, pub}
    BY <2>1, <2>2, <2>3 DEF EntryType
  <2>5. peers' = [peers EXCEPT ![u][v] = q]
    BY <1>5, <2>1 DEF OnAck, Becomes, Derive
  <2>6. CounterAhead(u, v, q, sealed)
    BY <1>2, <2>2, <2>4 DEF CounterAhead, PairUnused
  <2>7. EntryOK(u, v, q, gen'[u], sealed)
    BY <1>2, <1>3, <2>2, <2>4, <2>6 DEF EntryOK
  <2>8. gen' \in [Users -> Nat] /\ \A w \in Users : gen[w] <= gen'[w]
    BY <1>3 DEF OneInv
  <2> QED BY <1>2, <1>3, <1>4, <2>4, <2>5, <2>7, <2>8, OneEntryStep
<1>6. CASE UNCHANGED peers
  BY <1>3, <1>4, <1>6, QuietStep
<1> QED BY <1>1, <1>5, <1>6 DEF ReadsAck, managers

\* Opening a message moves a receive counter only.
LEMMA ReadsMsgKeeps ==
    ASSUME OneInv, NEW u \in Users, ReadsMsg(u)
    PROVE  OneInv'
<1>1. PICK v, c : v = From(u) /\ c = What(u)
  OBVIOUS
<1>2. DownOK(down') /\ UpOK(up') /\ v \in Users
  BY <1>1, ReadFacts DEF OneInv, ReadsMsg
<1>3. UNCHANGED <<gen, pend, typed, sealed>>
  BY DEF ReadsMsg, Reads
<1>4. WiresOK' /\ typed' \in Nat
  BY <1>2, <1>3 DEF OneInv, WiresOK
<1>5. CASE Opens(u, v, c)
  <2>1. PICK p, q : p = peers[u][v] /\ q = [p EXCEPT !.rx = @ + 1]
    OBVIOUS
  <2>2. p \in EntryType /\ EntryOK(u, v, p, gen[u], sealed)
    BY <1>2, <2>1 DEF OneInv
  <2>3. q \in EntryType /\ q.st = p.st /\ q.pair = p.pair /\ q.z = p.z /\ q.tx = p.tx
    BY <2>1, <2>2 DEF EntryType
  <2>4. peers' = [peers EXCEPT ![u][v] = q]
    BY <1>1, <1>5, <2>1 DEF ReadsMsg, Becomes, OpenedOnce
  <2>5. EntryOK(u, v, q, gen'[u], sealed)
    BY <1>3, <2>2, <2>3 DEF EntryOK, PairUnused, CounterAhead
  <2>6. gen' \in [Users -> Nat] /\ \A w \in Users : gen[w] <= gen'[w]
    BY <1>3 DEF OneInv
  <2> QED BY <1>2, <1>3, <1>4, <2>3, <2>4, <2>5, <2>6, OneEntryStep
<1>6. CASE ~Opens(u, v, c)
  <2>1. UNCHANGED peers
    BY <1>1, <1>6 DEF ReadsMsg
  <2> QED BY <1>3, <1>4, <2>1, QuietStep
<1> QED BY <1>5, <1>6

\* Whatever the reader does keeps the invariant.
LEMMA ReaderKeeps ==
    ASSUME OneInv, NEW u \in Users, Reader(u)
    PROVE  OneInv'
<1>1. CASE ReadsInit(u)
  BY <1>1, ReadsInitKeeps
<1>2. CASE ReadsAck(u)
  BY <1>2, ReadsAckKeeps
<1>3. CASE ReadsMsg(u)
  BY <1>3, ReadsMsgKeeps
<1>4. CASE ReadsInitFails(u) \/ ReadsPlain(u) \/ ReadsErr(u)
  <2>1. \E tag \in {"init", "plain", "err"} : Reads(u, tag)
    BY <1>4 DEF ReadsInitFails, ReadsPlain, ReadsErr
  <2>2. UNCHANGED <<peers, gen, pend, typed, sealed>>
    BY <1>4 DEF ReadsInitFails, ReadsPlain, ReadsErr, Reads, managers
  <2>3. DownOK(down') /\ UpOK(up')
    BY <2>1, ReadFacts DEF OneInv
  <2> QED BY <2>2, <2>3, QuietStep DEF OneInv, WiresOK
<1> QED BY <1>1, <1>2, <1>3, <1>4 DEF Reader

\* A Manager that ends leaves entries of which nothing is asked.
LEMMA LeaveKeeps ==
    ASSUME OneInv, NEW u \in Users, Leave(u)
    PROVE  OneInv'
<1>1. PICK e : e = NoEntry
  OBVIOUS
<1>2. e \in EntryType /\ e.st = "none"
  BY <1>1 DEF NoEntry, EntryType
<1>3. /\ peers' = [peers EXCEPT ![u] = [v \in Users |-> e]]
      /\ UNCHANGED <<gen, typed, sealed, up, down>>
      /\ pend' = [pend EXCEPT ![u] = [t \in Threads |-> <<>>]]
  BY <1>1 DEF Leave, relay, Threads
<1>4. peers' \in [Users -> [Users -> EntryType]]
  BY <1>2, <1>3 DEF OneInv
<1>5. PendOK(pend')
  BY <1>3 DEF OneInv, WiresOK, PendOK
<1>6. ASSUME NEW x \in Users, NEW y \in Users
      PROVE  EntryOK(x, y, peers'[x][y], gen'[x], sealed')
  <2>1. CASE x = u
    <3>1. peers'[x][y] = e
      BY <1>3, <1>6, <2>1 DEF OneInv
    <3> QED BY <1>2, <3>1 DEF EntryOK
  <2>2. CASE x # u
    <3>1. peers'[x][y] = peers[x][y]
      BY <1>3, <1>6, <2>2 DEF OneInv
    <3> QED BY <1>3, <1>6, <3>1 DEF OneInv
  <2> QED BY <2>1, <2>2
<1>7. WiresOK' /\ NonceFresh'
  BY <1>3, <1>5 DEF OneInv, WiresOK, NonceFresh
<1> QED BY <1>3, <1>4, <1>6, <1>7 DEF OneInv

\* The relay touches the wires only.
LEMMA DropConnKeeps ==
    ASSUME OneInv, NEW u \in Users, DropConn(u)
    PROVE  OneInv'
<1>1. UpOK(up') /\ DownOK(down')
  BY DEF OneInv, WiresOK, UpOK, DownOK, DropConn
<1>2. UNCHANGED <<peers, gen, sealed>> /\ typed' \in Nat /\ WiresOK'
  BY <1>1 DEF OneInv, WiresOK, DropConn, managers
<1> QED BY <1>2, QuietStep

\* Every step keeps the invariant.
LEMMA OneNext == OneInv /\ [Next]_vars => OneInv'
<1> SUFFICES ASSUME OneInv, [Next]_vars PROVE OneInv'
  OBVIOUS
<1>1. CASE UNCHANGED vars
  <2>1. UNCHANGED <<peers, gen, sealed, typed, pend, up, down>>
    BY <1>1 DEF vars, managers, relay
  <2> QED BY <2>1, QuietStep DEF OneInv, WiresOK
<1>2. ASSUME NEW u \in Users, NEW v \in Users, TypeE2E(u, v) \/ TypeMessage(u, v) PROVE OneInv'
  BY <1>2, TypeE2EKeeps, TypeMessageKeeps
<1>3. ASSUME NEW u \in Users, NEW t \in Threads, Send(u, t) PROVE OneInv'
  <2>1. WiresOK'
    BY <1>3, SendKeeps DEF OneInv
  <2> QED BY <1>3, <2>1, QuietStep DEF Send, managers, OneInv
<1>8. ASSUME NEW u \in Users, NEW t \in Threads, SkipLong(u, t) PROVE OneInv'
  <2>1. WiresOK'
    BY <1>8, SkipKeeps DEF OneInv
  <2> QED BY <1>8, <2>1, QuietStep DEF SkipLong, managers, OneInv
<1>4. ASSUME NEW u \in Users, Reader(u) PROVE OneInv'
  BY <1>4, ReaderKeeps
<1>5. ASSUME NEW u \in Users, Route(u) PROVE OneInv'
  <2>1. WiresOK'
    BY <1>5, RouteKeeps DEF OneInv
  <2> QED BY <1>5, <2>1, QuietStep DEF Route, managers, OneInv
<1>6. ASSUME NEW u \in Users, Leave(u) \/ DropConn(u) PROVE OneInv'
  BY <1>6, LeaveKeeps, DropConnKeeps
<1>7. ASSUME NEW u \in Users, Login(u) PROVE OneInv'
  BY <1>7, QuietStep DEF Login, managers, OneInv, WiresOK
<1> QED BY <1>1, <1>2, <1>3, <1>4, <1>5, <1>6, <1>7, <1>8 DEF Next, Threads

\* It holds when nobody has typed anything.
LEMMA OneInitInv == Init => OneInv
<1> SUFFICES ASSUME Init PROVE OneInv
  OBVIOUS
<1>1. PICK e : e = NoEntry
  OBVIOUS
<1>2. e \in EntryType /\ e.st = "none"
  BY <1>1 DEF NoEntry, EntryType
<1>3. peers = [u \in Users |-> [v \in Users |-> e]]
  BY <1>1 DEF Init
<1>4. \A u, v \in Users : EntryOK(u, v, peers[u][v], gen[u], sealed)
  BY <1>2, <1>3 DEF EntryOK
<1>5. WiresOK
  BY DEF Init, WiresOK, PendOK, UpOK, DownOK, Threads
<1>6. NonceFresh /\ gen \in [Users -> Nat] /\ typed \in Nat /\ sealed = {}
  BY DEF Init, NonceFresh
<1> QED BY <1>2, <1>3, <1>4, <1>5, <1>6 DEF OneInv

(***************************************************************************)
(* Phase 4 seals no two messages under one key and nonce, for any users:   *)
(* INITs cross, are answered late or twice, and outlive the clients that   *)
(* sent them, but the counter of e2e.cpp starts again only with a key pair *)
(* that was just generated, or with the one of an INIT that was never      *)
(* answered before.                                                        *)
(***************************************************************************)
THEOREM OneEpochNonceFreshness == Spec => []NonceFresh
<1>1. OneInv => NonceFresh
  BY DEF OneInv
<1> QED BY <1>1, OneInitInv, OneNext, PTL DEF Spec

-----------------------------------------------------------------------------
(* What was opened: the invariant. *)

\* The pairs that have been generated so far.
AllMade == {x \in Pairs : x[2] < gen[x[1]]}

\* What is on its way was made or sealed by somebody.
Real(text, made, msgs) ==
    /\ text.tag \in {"init", "ack"} => text.what \in made
    /\ text.tag = "msg" => text.what \in msgs

AllReal(s, made, msgs) == \A i \in DOMAIN s : Real(s[i].text, made, msgs)

WiresReal ==
    /\ \A u \in Users, t \in Threads : AllReal(pend[u][t], AllMade, sealed)
    /\ \A u \in Users : AllReal(up[u], AllMade, sealed) /\ AllReal(down[u], AllMade, sealed)

\* The messages under one key and from one side among the first n of s.
Under(s, z, a, n) == {j \in 1 .. n : s[j].z = z /\ s[j].a = a}

\* A receive counter counts the messages opened under its key, and nothing was
\* opened under the pair of an INIT that is open.
CounterTells(u, v, p, s) ==
    /\ p.st = "Pending" => /\ p.rx = 0
                           /\ \A i \in DOMAIN s, x \in PairsOf(v) : s[i].z # {p.pair, x}
    /\ p.st = "Up" => p.rx = Cardinality(Under(s, p.z, ~AmA(u, v), Len(s)))

InOrder(s) ==
    \A i \in 1 .. Len(s) :
        /\ s[i] \in sealed
        /\ s[i].n = Cardinality(Under(s, s[i].z, s[i].a, i - 1))

OpenInv ==
    /\ opened \in [Users -> Seq(CipherType)]
    /\ WiresReal
    /\ \A c \in sealed : c.z \subseteq AllMade
    /\ \A u, v \in Users :
        /\ peers[u][v].st = "Up" => peers[u][v].z \subseteq AllMade
        /\ CounterTells(u, v, peers[u][v], opened[u])
    /\ \A u \in Users : InOrder(opened[u])

-----------------------------------------------------------------------------
(* Pairs and messages are only added. *)

Grows ==
    /\ gen' \in [Users -> Nat] /\ \A w \in Users : gen[w] <= gen'[w]
    /\ sealed \subseteq sealed'

\* A pair that was made stays made.
LEMMA MadeStays ==
    ASSUME OneInv, Grows
    PROVE  AllMade \subseteq AllMade'
<1> SUFFICES ASSUME NEW x \in AllMade PROVE x \in AllMade'
  OBVIOUS
<1>1. PICK u \in Users, i \in Nat : x = <<u, i>>
  BY DEF AllMade, Pairs
<1>2. i < gen[u] /\ gen[u] \in Nat /\ gen'[u] \in Nat /\ gen[u] <= gen'[u]
  BY <1>1 DEF AllMade, OneInv, Grows
<1>3. i < gen'[u]
  BY <1>2
<1> QED BY <1>1, <1>3 DEF AllMade, Pairs

\* What is real stays real.
LEMMA RealStays ==
    ASSUME OneInv, Grows, NEW text, Real(text, AllMade, sealed)
    PROVE  Real(text, AllMade', sealed')
BY MadeStays DEF Real, Grows

\* And so does a whole wire.
LEMMA AllRealStays ==
    ASSUME OneInv, Grows, NEW s, AllReal(s, AllMade, sealed)
    PROVE  AllReal(s, AllMade', sealed')
BY RealStays DEF AllReal

\* A new pair is made, and no other is lost.
LEMMA NewPairMade ==
    ASSUME OneInv, NEW u \in Users, gen' = [gen EXCEPT ![u] = @ + 1], sealed' = sealed
    PROVE  /\ Grows
           /\ NewPair(u) \in AllMade' /\ NewPair(u) \notin AllMade
<1>1. gen \in [Users -> Nat] /\ gen[u] \in Nat
  BY DEF OneInv
<1>2. gen' \in [Users -> Nat] /\ gen'[u] = gen[u] + 1 /\ \A w \in Users : gen[w] <= gen'[w]
  BY <1>1
<1> QED BY <1>1, <1>2 DEF Grows, AllMade, NewPair, Pairs

-----------------------------------------------------------------------------
(* Counting what was opened. *)

\* One more message counts under its own key and side and under no other.
LEMMA UnderNext ==
    ASSUME NEW s \in Seq(CipherType), NEW c \in CipherType, NEW z, NEW a
    PROVE  /\ \A n \in 0 .. Len(s) : Under(Append(s, c), z, a, n) = Under(s, z, a, n)
           /\ c.z = z /\ c.a = a =>
                Cardinality(Under(Append(s, c), z, a, Len(s) + 1))
                  = Cardinality(Under(s, z, a, Len(s))) + 1
           /\ ~(c.z = z /\ c.a = a) =>
                Under(Append(s, c), z, a, Len(s) + 1) = Under(s, z, a, Len(s))
<1> DEFINE t == Append(s, c)
           U == Under(s, z, a, Len(s))
<1>1. Len(s) \in Nat /\ t[Len(s) + 1] = c /\ \A j \in 1 .. Len(s) : t[j] = s[j]
  OBVIOUS
<1>2. \A n \in 0 .. Len(s) : Under(t, z, a, n) = Under(s, z, a, n)
  BY <1>1 DEF Under
<1>3. 1 .. Len(s) + 1 = (1 .. Len(s)) \cup {Len(s) + 1} /\ Len(s) + 1 \notin 1 .. Len(s)
  BY <1>1
<1>4. IsFiniteSet(U)
  <2>1. IsFiniteSet(1 .. Len(s))
    BY <1>1, FS_Interval
  <2> QED BY <2>1, FS_Subset DEF Under
<1>5. Len(s) + 1 \notin U
  BY <1>3 DEF Under
<1>6. CASE c.z = z /\ c.a = a
  <2>1. Under(t, z, a, Len(s) + 1) = U \cup {Len(s) + 1}
    BY <1>1, <1>3, <1>6 DEF Under
  <2>2. Cardinality(U \cup {Len(s) + 1}) = Cardinality(U) + 1
    BY <1>4, <1>5, FS_AddElement
  <2> QED BY <1>2, <1>6, <2>1, <2>2
<1>7. CASE ~(c.z = z /\ c.a = a)
  <2>1. Under(t, z, a, Len(s) + 1) = U
    BY <1>1, <1>3, <1>7 DEF Under
  <2> QED BY <1>2, <1>7, <2>1
<1> QED BY <1>6, <1>7

\* Where nothing stands under a key, none of it is counted.
LEMMA NothingUnder ==
    ASSUME NEW s \in Seq(CipherType), NEW z, NEW a, \A i \in 1 .. Len(s) : s[i].z # z
    PROVE  Cardinality(Under(s, z, a, Len(s))) = 0
<1>1. Under(s, z, a, Len(s)) = {}
  BY DEF Under
<1> QED BY <1>1, FS_EmptySet

\* A key is of one entry of a client only, open INITs included.
LEMMA OneKeyOneEntry ==
    ASSUME OneInv, NEW u \in Users, NEW v \in Users, NEW w \in Users, v # w,
           peers[u][v].st = "Up", peers[u][w].st # "none"
    PROVE  \A x \in PairsOf(w) : peers[u][v].z # {peers[u][w].pair, x}
<1> SUFFICES ASSUME NEW x \in PairsOf(w), peers[u][v].z = {peers[u][w].pair, x} PROVE FALSE
  OBVIOUS
<1>1. PICK p, r : p = peers[u][v].pair /\ r = peers[u][w].pair
  OBVIOUS
<1>2. u # v /\ u # w /\ p \in Made(u, gen[u]) /\ r \in Made(u, gen[u])
      /\ CounterAhead(u, v, peers[u][v], sealed)
  BY <1>1 DEF OneInv, EntryOK
<1>3. PICK q \in PairsOf(v) : peers[u][v].z = {p, q}
  BY <1>1, <1>2 DEF CounterAhead
<1>4. gen[u] \in Nat
  BY DEF OneInv
<1>5. PICK i, j, k, l \in Nat : p = <<u, i>> /\ r = <<u, j>> /\ q = <<v, k>> /\ x = <<w, l>>
  BY <1>2, <1>3, <1>4 DEF Made, PairsOf
<1>6. {p, q} = {r, x}
  BY <1>1, <1>3
<1>7. q = r \/ q = x
  BY <1>6
<1> QED BY <1>2, <1>5, <1>7

-----------------------------------------------------------------------------
(* Steps that open nothing. *)

\* One entry changes, and the counter of its key counts what was opened under it.
LEMMA OpenOneEntry ==
    ASSUME OneInv, OpenInv, Grows, NEW u \in Users, NEW v \in Users, NEW q \in EntryType,
           peers' = [peers EXCEPT ![u][v] = q], opened' = opened,
           CounterTells(u, v, q, opened[u]),
           q.st = "Up" => q.z \subseteq AllMade',
           \A c \in sealed' : c \in sealed \/ c.z \subseteq AllMade',
           WiresReal'
    PROVE  OpenInv'
<1>1. AllMade \subseteq AllMade'
  BY MadeStays
<1>2. ASSUME NEW x \in Users, NEW y \in Users
      PROVE  /\ peers'[x][y].st = "Up" => peers'[x][y].z \subseteq AllMade'
             /\ CounterTells(x, y, peers'[x][y], opened'[x])
  <2>1. CASE x = u /\ y = v
    <3>1. peers'[x][y] = q
      BY <2>1 DEF OneInv
    <3> QED BY <2>1, <3>1
  <2>2. CASE ~(x = u /\ y = v)
    <3>1. peers'[x][y] = peers[x][y]
      BY <1>2, <2>2 DEF OneInv
    <3> QED BY <1>1, <1>2, <3>1 DEF OpenInv
  <2> QED BY <2>1, <2>2
<1>3. \A c \in sealed' : c.z \subseteq AllMade'
  BY <1>1 DEF OpenInv
<1>4. \A w \in Users : InOrder(opened[w])'
  BY DEF OpenInv, InOrder, Grows
<1> QED BY <1>2, <1>3, <1>4 DEF OpenInv

\* Nothing is opened and no entry changes.
LEMMA OpenQuiet ==
    ASSUME OneInv, OpenInv, UNCHANGED <<peers, gen, sealed, opened>>, WiresReal'
    PROVE  OpenInv'
<1>1. AllMade' = AllMade
  BY DEF AllMade
<1>2. \A w \in Users : InOrder(opened[w])'
  BY DEF OpenInv, InOrder
<1> QED BY <1>1, <1>2 DEF OpenInv

-----------------------------------------------------------------------------
(* What is on its way. *)

\* What a thread is given to send is real if each of its lines is.
LEMMA RealPut ==
    ASSUME OneInv, OpenInv, Grows, NEW u \in Users, NEW v \in Users, NEW t \in Threads,
           NEW text, Will(u, t, v, text), Real(text, AllMade', sealed')
    PROVE  \A w \in Users, r \in Threads : AllReal(pend'[w][r], AllMade', sealed')
<1> SUFFICES ASSUME NEW w \in Users, NEW r \in Threads
             PROVE  AllReal(pend'[w][r], AllMade', sealed')
  OBVIOUS
<1>1. DOMAIN pend = Users /\ DOMAIN pend[u] = Threads
  BY DEF OneInv, WiresOK, PendOK
<1>2. CASE w = u /\ r = t
  <2>1. pend'[w][r] = <<[to |-> v, text |-> text]>>
    BY <1>1, <1>2 DEF Will
  <2> QED BY <2>1 DEF AllReal
<1>3. CASE ~(w = u /\ r = t)
  <2>1. pend'[w][r] = pend[w][r]
    BY <1>1, <1>3 DEF Will
  <2>2. AllReal(pend[w][r], AllMade, sealed)
    BY DEF OpenInv, WiresReal
  <2>3. \A i \in DOMAIN pend[w][r] : Real(pend[w][r][i].text, AllMade', sealed')
    BY <2>2, AllRealStays DEF AllReal
  <2> QED BY <2>1, <2>3 DEF AllReal
<1> QED BY <1>2, <1>3

\* Wires that stay as they are.
LEMMA StillReal ==
    ASSUME OneInv, OpenInv, Grows
    PROVE  /\ pend' = pend =>
                \A w \in Users, r \in Threads : AllReal(pend'[w][r], AllMade', sealed')
           /\ up' = up => \A w \in Users : AllReal(up'[w], AllMade', sealed')
           /\ down' = down => \A w \in Users : AllReal(down'[w], AllMade', sealed')
<1>1. \A w \in Users, r \in Threads : \A i \in DOMAIN pend[w][r] :
        Real(pend[w][r][i].text, AllMade', sealed')
  BY AllRealStays DEF OpenInv, WiresReal, AllReal
<1>2. \A w \in Users : \A i \in DOMAIN up[w] : Real(up[w][i].text, AllMade', sealed')
  BY AllRealStays DEF OpenInv, WiresReal, AllReal
<1>3. \A w \in Users : \A i \in DOMAIN down[w] : Real(down[w][i].text, AllMade', sealed')
  BY AllRealStays DEF OpenInv, WiresReal, AllReal
<1> QED BY <1>1, <1>2, <1>3 DEF AllReal

\* What the reader takes was real when it was put there.
LEMMA ReadReal ==
    ASSUME OneInv, OpenInv, Grows, NEW u \in Users, NEW tag, Reads(u, tag)
    PROVE  /\ \A w \in Users : AllReal(up'[w], AllMade', sealed')
           /\ \A w \in Users : AllReal(down'[w], AllMade', sealed')
           /\ Real(Head(down[u]).text, AllMade, sealed)
<1>1. down[u] \in Seq(In(u)) /\ down[u] # <<>> /\ DOMAIN down = Users
  BY DEF OneInv, WiresOK, DownOK, Reads
<1>2. \A i \in DOMAIN Tail(down[u]) : i + 1 \in DOMAIN down[u] /\ Tail(down[u])[i] = down[u][i + 1]
  BY <1>1
<1>3. \A w \in Users : \A i \in DOMAIN down[w] : Real(down[w][i].text, AllMade', sealed')
  BY AllRealStays DEF OpenInv, WiresReal, AllReal
<1>4. \A w \in Users : AllReal(down'[w], AllMade', sealed')
  <2> SUFFICES ASSUME NEW w \in Users PROVE AllReal(down'[w], AllMade', sealed')
    OBVIOUS
  <2>1. CASE w = u
    <3>1. down'[w] = Tail(down[u])
      BY <1>1, <2>1 DEF Reads
    <3> QED BY <1>2, <1>3, <3>1 DEF AllReal
  <2>2. CASE w # u
    <3>1. down'[w] = down[w]
      BY <1>1, <2>2 DEF Reads
    <3> QED BY <1>3, <3>1 DEF AllReal
  <2> QED BY <2>1, <2>2
<1>5. 1 \in DOMAIN down[u] /\ Head(down[u]) = down[u][1]
  BY <1>1
<1>6. Real(Head(down[u]).text, AllMade, sealed)
  BY <1>5 DEF OpenInv, WiresReal, AllReal
<1> QED BY <1>4, <1>6, StillReal DEF Reads

\* send_line carries what is real.
LEMMA SendReal ==
    ASSUME OneInv, OpenInv, NEW u \in Users, NEW t \in Threads, Send(u, t)
    PROVE  WiresReal'
<1>1. Grows /\ down' = down
  BY DEF Send, managers, Grows, OneInv
<1>2. /\ DOMAIN pend = Users /\ DOMAIN pend[u] = Threads /\ DOMAIN up = Users
      /\ pend[u][t] \in Seq(Out(u)) /\ up[u] \in Seq(Out(u))
  BY DEF OneInv, WiresOK, PendOK, UpOK
<1>3. \A w \in Users, r \in Threads : \A i \in DOMAIN pend[w][r] :
        Real(pend[w][r][i].text, AllMade', sealed')
  BY <1>1, AllRealStays DEF OpenInv, WiresReal, AllReal
<1>4. \A w \in Users : \A i \in DOMAIN up[w] : Real(up[w][i].text, AllMade', sealed')
  BY <1>1, AllRealStays DEF OpenInv, WiresReal, AllReal
<1>5. \A w \in Users, r \in Threads : AllReal(pend'[w][r], AllMade', sealed')
  <2> SUFFICES ASSUME NEW w \in Users, NEW r \in Threads PROVE AllReal(pend'[w][r], AllMade', sealed')
    OBVIOUS
  <2>1. CASE w = u /\ r = t
    <3>1. pend'[w][r] = <<>>
      BY <1>2, <2>1 DEF Send
    <3> QED BY <3>1 DEF AllReal
  <2>2. CASE ~(w = u /\ r = t)
    <3>1. pend'[w][r] = pend[w][r]
      BY <1>2, <2>2 DEF Send
    <3> QED BY <1>3, <3>1 DEF AllReal
  <2> QED BY <2>1, <2>2
<1>6. \A w \in Users : AllReal(up'[w], AllMade', sealed')
  <2> SUFFICES ASSUME NEW w \in Users PROVE AllReal(up'[w], AllMade', sealed')
    OBVIOUS
  <2>1. CASE w = u
    <3>1. up'[w] = up[u] \o pend[u][t]
      BY <1>2, <2>1 DEF Send
    <3>2. \A i \in DOMAIN (up[u] \o pend[u][t]) :
            \/ i \in DOMAIN up[u] /\ (up[u] \o pend[u][t])[i] = up[u][i]
            \/ \E j \in DOMAIN pend[u][t] : (up[u] \o pend[u][t])[i] = pend[u][t][j]
      <4> TAKE i \in DOMAIN (up[u] \o pend[u][t])
      <4>1. CASE i <= Len(up[u])
        BY <1>2, <4>1
      <4>2. CASE i > Len(up[u])
        BY <1>2, <4>2, i - Len(up[u]) \in DOMAIN pend[u][t]
      <4> QED BY <1>2, <4>1, <4>2
    <3> QED BY <1>3, <1>4, <3>1, <3>2 DEF AllReal
  <2>2. CASE w # u
    <3>1. up'[w] = up[w]
      BY <1>2, <2>2 DEF Send
    <3> QED BY <1>4, <3>1 DEF AllReal
  <2> QED BY <2>1, <2>2
<1>7. \A w \in Users : AllReal(down'[w], AllMade', sealed')
  BY <1>1, StillReal
<1> QED BY <1>5, <1>6, <1>7 DEF WiresReal

\* What is not sent was real too.
LEMMA SkipReal ==
    ASSUME OneInv, OpenInv, NEW u \in Users, NEW t \in Threads, SkipLong(u, t)
    PROVE  WiresReal'
<1>1. UNCHANGED <<peers, gen, sealed, up, down>>
  BY DEF SkipLong, managers, relay
<1>2. Grows
  BY <1>1 DEF Grows, OneInv
<1>3. DOMAIN pend = Users /\ DOMAIN pend[u] = Threads
  BY DEF OneInv, WiresOK, PendOK
<1>4. \A w \in Users, r \in Threads : AllReal(pend'[w][r], AllMade', sealed')
  <2> SUFFICES ASSUME NEW w \in Users, NEW r \in Threads PROVE AllReal(pend'[w][r], AllMade', sealed')
    OBVIOUS
  <2>1. pend'[w][r] \in {pend[w][r], <<>>}
    BY <1>3 DEF SkipLong
  <2>2. \A i \in DOMAIN pend[w][r] : Real(pend[w][r][i].text, AllMade', sealed')
    BY <1>2, AllRealStays DEF OpenInv, WiresReal, AllReal
  <2> QED BY <2>1, <2>2 DEF AllReal
<1> QED BY <1>1, <1>2, <1>4, StillReal DEF WiresReal

\* The relay forwards what it was given, or says that nobody is there.
LEMMA RouteReal ==
    ASSUME OneInv, OpenInv, NEW u \in Users, Route(u)
    PROVE  WiresReal'
<1>1. Grows /\ pend' = pend
  BY DEF Route, managers, Grows, OneInv
<1>2. /\ up[u] \in Seq(Out(u)) /\ up[u] # <<>> /\ DOMAIN up = Users /\ DOMAIN down = Users
      /\ \A w \in Users : down[w] \in Seq(In(w))
  BY DEF OneInv, WiresOK, UpOK, DownOK, Route
<1>3. \A w \in Users : \A i \in DOMAIN up[w] : Real(up[w][i].text, AllMade', sealed')
  BY <1>1, AllRealStays DEF OpenInv, WiresReal, AllReal
<1>4. \A w \in Users : \A i \in DOMAIN down[w] : Real(down[w][i].text, AllMade', sealed')
  BY <1>1, AllRealStays DEF OpenInv, WiresReal, AllReal
<1>5. /\ \A i \in DOMAIN Tail(up[u]) : i + 1 \in DOMAIN up[u] /\ Tail(up[u])[i] = up[u][i + 1]
      /\ 1 \in DOMAIN up[u] /\ Head(up[u]) = up[u][1] /\ Head(up[u]) \in Out(u)
  BY <1>2
<1>6. \A w \in Users : AllReal(up'[w], AllMade', sealed')
  <2> SUFFICES ASSUME NEW w \in Users PROVE AllReal(up'[w], AllMade', sealed')
    OBVIOUS
  <2>1. CASE w = u
    <3>1. up'[w] = Tail(up[u])
      BY <1>2, <2>1 DEF Route
    <3> QED BY <1>3, <1>5, <3>1 DEF AllReal
  <2>2. CASE w # u
    <3>1. up'[w] = up[w]
      BY <1>2, <2>2 DEF Route
    <3> QED BY <1>3, <3>1 DEF AllReal
  <2> QED BY <2>1, <2>2
<1>7. ASSUME NEW v \in Users, NEW r, Real(r.text, AllMade', sealed'),
             down' = [down EXCEPT ![v] = Append(@, r)],
             NEW w \in Users
      PROVE  AllReal(down'[w], AllMade', sealed')
  <2>1. CASE w = v
    <3>1. down'[w] = Append(down[v], r)
      BY <1>2, <1>7, <2>1
    <3>2. \A i \in DOMAIN Append(down[v], r) :
            \/ i \in DOMAIN down[v] /\ Append(down[v], r)[i] = down[v][i]
            \/ Append(down[v], r)[i] = r
      BY <1>2
    <3> QED BY <1>4, <1>7, <3>1, <3>2 DEF AllReal
  <2>2. CASE w # v
    <3>1. down'[w] = down[w]
      BY <1>2, <1>7, <2>2
    <3> QED BY <1>4, <3>1 DEF AllReal
  <2> QED BY <2>1, <2>2
<1>8. PICK l : l = Head(up[u])
  OBVIOUS
<1>9. l.to \in Users /\ Real(l.text, AllMade', sealed')
  BY <1>3, <1>5, <1>8 DEF Out
<1>10. CASE online[l.to]
  <2>1. PICK r : r = [from |-> u, text |-> l.text]
    OBVIOUS
  <2>2. down' = [down EXCEPT ![l.to] = Append(@, r)] /\ r.text = l.text
    BY <1>8, <1>10, <2>1 DEF Route
  <2> QED BY <1>1, <1>6, <1>7, <1>9, <2>2, StillReal DEF WiresReal
<1>11. CASE ~online[l.to]
  <2>1. PICK r : r = [from |-> l.to, text |-> Tagged("err", NoPair)]
    OBVIOUS
  <2>2. down' = [down EXCEPT ![u] = Append(@, r)] /\ r.text.tag = "err"
    BY <1>8, <1>11, <2>1 DEF Route, Tagged
  <2>3. Real(r.text, AllMade', sealed')
    BY <2>2 DEF Real
  <2> QED BY <1>1, <1>6, <1>7, <2>2, <2>3, StillReal DEF WiresReal
<1> QED BY <1>10, <1>11

-----------------------------------------------------------------------------
(* The actions. *)

\* An INIT by hand: nothing was opened under its pair.
LEMMA TypeE2EOpen ==
    ASSUME OneInv, OpenInv, NEW u \in Users, NEW v \in Users, TypeE2E(u, v)
    PROVE  OpenInv'
<1>1. PICK k, q : k = NewPair(u) /\ q = [NoEntry EXCEPT !.st = "Pending", !.pair = k]
  OBVIOUS
<1>2. /\ peers' = [peers EXCEPT ![u][v] = q] /\ gen' = [gen EXCEPT ![u] = @ + 1]
      /\ Will(u, "main", v, Tagged("init", k))
      /\ UNCHANGED <<up, down, sealed, opened>>
  BY <1>1 DEF TypeE2E, Start, Becomes, Generate, relay, shown
<1>3. Grows /\ k \in AllMade' /\ k \notin AllMade /\ k \in Pairs
  <2>1. AllMade' \subseteq Pairs
    BY DEF AllMade
  <2> QED BY <1>1, <1>2, <2>1, NewPairMade
<1>4. q \in EntryType /\ q.st = "Pending" /\ q.pair = k /\ q.rx = 0
  BY <1>1, <1>3 DEF NoEntry, EntryType
<1>5. CounterTells(u, v, q, opened[u])
  <2>1. \A i \in DOMAIN opened[u] : opened[u][i] \in sealed
    BY DEF OpenInv, InOrder
  <2>2. \A i \in DOMAIN opened[u], x \in PairsOf(v) : opened[u][i].z # {k, x}
    BY <1>3, <2>1 DEF OpenInv
  <2> QED BY <1>4, <2>2 DEF CounterTells
<1>6. WiresReal'
  <2>1. PICK text : text = Tagged("init", k)
    OBVIOUS
  <2>2. Real(text, AllMade', sealed')
    BY <1>3, <2>1 DEF Tagged, Real
  <2>3. \A w \in Users, r \in Threads : AllReal(pend'[w][r], AllMade', sealed')
    BY <1>2, <1>3, <2>1, <2>2, RealPut DEF Threads
  <2> QED BY <1>2, <1>3, <2>3, StillReal DEF WiresReal
<1> QED BY <1>2, <1>3, <1>4, <1>5, <1>6, OpenOneEntry

\* A message typed moves a send counter only.
LEMMA TypeMessageOpen ==
    ASSUME OneInv, OpenInv, NEW u \in Users, NEW v \in Users, TypeMessage(u, v)
    PROVE  OpenInv'
<1>1. PICK m : m = typed + 1
  OBVIOUS
<1>2. UNCHANGED <<gen, up, down, opened>>
  BY DEF TypeMessage, relay, shown
<1>3. ASSUME Grows, NEW text, Real(text, AllMade', sealed'), Will(u, "main", v, text)
      PROVE  WiresReal'
  <2>1. \A w \in Users, r \in Threads : AllReal(pend'[w][r], AllMade', sealed')
    BY <1>3, RealPut DEF Threads
  <2> QED BY <1>2, <1>3, <2>1, StillReal DEF WiresReal
<1>4. CASE Established(u, v)
  <2>1. PICK p, q : p = peers[u][v] /\ q = [p EXCEPT !.tx = @ + 1]
    OBVIOUS
  <2>2. PICK c : c = Ciphertext(u, v, m)
    OBVIOUS
  <2>3. /\ peers' = [peers EXCEPT ![u][v] = q] /\ sealed' = sealed \cup {c}
        /\ Will(u, "main", v, Tagged("msg", c))
    BY <1>1, <1>4, <2>1, <2>2 DEF TypeMessage, Becomes, SealedOnce
  <2>4. p \in EntryType /\ p.st = "Up"
    BY <1>4, <2>1 DEF OneInv, Established
  <2>5. q \in EntryType /\ q.st = "Up" /\ q.z = p.z /\ q.rx = p.rx
    BY <2>1, <2>4 DEF EntryType
  <2>6. Grows /\ AllMade' = AllMade
    BY <1>2, <2>3 DEF Grows, OneInv, AllMade
  <2>7. c.z = p.z /\ p.z \subseteq AllMade
    BY <2>1, <2>2, <2>4 DEF Ciphertext, OpenInv
  <2>8. CounterTells(u, v, q, opened[u])
    BY <2>1, <2>4, <2>5 DEF OpenInv, CounterTells
  <2>9. WiresReal'
    <3>1. PICK text : text = Tagged("msg", c)
      OBVIOUS
    <3>2. Real(text, AllMade', sealed')
      BY <2>3, <3>1 DEF Real, Tagged
    <3> QED BY <1>3, <2>3, <2>6, <3>1, <3>2
  <2> QED BY <1>2, <2>3, <2>5, <2>6, <2>7, <2>8, <2>9, OpenOneEntry
<1>5. CASE ~Established(u, v)
  <2>1. UNCHANGED <<peers, sealed>> /\ Will(u, "main", v, Tagged("plain", m))
    BY <1>1, <1>5 DEF TypeMessage
  <2>2. Grows
    BY <1>2, <2>1 DEF Grows, OneInv
  <2>3. PICK text : text = Tagged("plain", m)
    OBVIOUS
  <2>4. Real(text, AllMade', sealed')
    BY <2>3 DEF Real, Tagged
  <2>5. WiresReal'
    BY <1>3, <2>1, <2>2, <2>3, <2>4
  <2> QED BY <1>2, <2>1, <2>5, OpenQuiet
<1> QED BY <1>4, <1>5

\* An INIT starts a session with a pair under which nothing was opened.
LEMMA ReadsInitOpen ==
    ASSUME OneInv, OpenInv, NEW u \in Users, ReadsInit(u)
    PROVE  OpenInv'
<1>1. PICK v, pub, k : v = From(u) /\ pub = What(u) /\ k = NewPair(u)
  OBVIOUS
<1>2. v \in Users /\ v # u /\ pub \in PairsOf(v)
  BY <1>1, ReadFacts DEF OneInv, ReadsInit
<1>3. PICK q : q = [NoEntry EXCEPT !.st = "Up", !.pair = k, !.z = {k, pub}]
  OBVIOUS
<1>4. /\ peers' = [peers EXCEPT ![u][v] = q] /\ gen' = [gen EXCEPT ![u] = @ + 1]
      /\ Will(u, "reader", v, Tagged("ack", k))
      /\ sealed' = sealed /\ opened' = opened
      /\ Reads(u, "init")
  BY <1>1, <1>3 DEF ReadsInit, Reads, OnInit, Answers, Derive, Becomes, Generate, shown
<1>5. Grows /\ k \in AllMade' /\ k \notin AllMade
  BY <1>1, <1>4, NewPairMade
<1>6. pub \in AllMade'
  <2>1. PICK text : text = Head(down[u]).text
    OBVIOUS
  <2>2. Real(text, AllMade, sealed)
    BY <1>4, <1>5, <2>1, ReadReal
  <2>3. text.tag = "init" /\ text.what = pub
    BY <1>1, <1>4, <2>1 DEF Reads, What
  <2> QED BY <1>5, <2>2, <2>3, MadeStays DEF Real
<1>7. k \in Pairs /\ pub \in Pairs
  BY <1>5, <1>6 DEF AllMade
<1>8. q \in EntryType /\ q.st = "Up" /\ q.z = {k, pub} /\ q.rx = 0
  BY <1>3, <1>7 DEF NoEntry, EntryType
<1>9. CounterTells(u, v, q, opened[u])
  <2>1. opened[u] \in Seq(CipherType) /\ \A i \in 1 .. Len(opened[u]) : opened[u][i] \in sealed
    BY DEF OpenInv, InOrder
  <2>2. \A i \in 1 .. Len(opened[u]) : opened[u][i].z # q.z
    BY <1>5, <1>8, <2>1 DEF OpenInv
  <2>3. Cardinality(Under(opened[u], q.z, ~AmA(u, v), Len(opened[u]))) = 0
    BY <2>1, <2>2, NothingUnder
  <2> QED BY <1>8, <2>3 DEF CounterTells
<1>10. WiresReal'
  <2>1. PICK text : text = Tagged("ack", k)
    OBVIOUS
  <2>2. Real(text, AllMade', sealed')
    BY <1>5, <2>1 DEF Tagged, Real
  <2>3. \A w \in Users, r \in Threads : AllReal(pend'[w][r], AllMade', sealed')
    BY <1>2, <1>4, <1>5, <2>1, <2>2, RealPut DEF Threads
  <2> QED BY <1>4, <1>5, <2>3, ReadReal DEF WiresReal
<1>11. q.z \subseteq AllMade'
  BY <1>5, <1>6, <1>8
<1> QED BY <1>2, <1>4, <1>5, <1>8, <1>9, <1>10, <1>11, OpenOneEntry

\* An ACK completes an INIT under whose pair nothing was opened.
LEMMA ReadsAckOpen ==
    ASSUME OneInv, OpenInv, NEW u \in Users, ReadsAck(u)
    PROVE  OpenInv'
<1>1. PICK v, pub : v = From(u) /\ pub = What(u)
  OBVIOUS
<1>2. v \in Users /\ v # u /\ pub \in PairsOf(v)
  BY <1>1, ReadFacts DEF OneInv, ReadsAck
<1>3. UNCHANGED <<gen, pend, sealed, opened>> /\ Reads(u, "ack")
  BY DEF ReadsAck, Reads, OnAck, managers, shown
<1>4. Grows
  BY <1>3 DEF Grows, OneInv
<1>5. WiresReal'
  BY <1>3, <1>4, StillReal, ReadReal DEF WiresReal
<1>6. CASE OnAck(u, v, pub)
  <2>1. PICK p, q : p = peers[u][v] /\ q = [p EXCEPT !.st = "Up", !.z = {p.pair, pub}]
    OBVIOUS
  <2>2. p \in EntryType /\ p.st = "Pending" /\ p.pair \in Made(u, gen[u])
    BY <1>2, <1>6, <2>1 DEF OneInv, EntryOK, OnAck, AckExpected
  <2>3. p.pair \in AllMade
    BY <2>2 DEF Made, AllMade, Pairs, OneInv
  <2>4. pub \in AllMade
    <3>1. PICK text : text = Head(down[u]).text
      OBVIOUS
    <3>2. Real(text, AllMade, sealed)
      BY <1>3, <1>4, <3>1, ReadReal
    <3>3. text.tag = "ack" /\ text.what = pub
      BY <1>1, <1>3, <3>1 DEF Reads, What
    <3> QED BY <3>2, <3>3 DEF Real
  <2>5. p.pair \in Pairs /\ pub \in Pairs
    BY <2>3, <2>4 DEF AllMade
  <2>6. q \in EntryType /\ q.st = "Up" /\ q.z = {p.pair, pub} /\ q.rx = p.rx
    BY <2>1, <2>2, <2>5 DEF EntryType
  <2>7. peers' = [peers EXCEPT ![u][v] = q]
    BY <1>6, <2>1 DEF OnAck, Becomes, Derive
  <2>8. CounterTells(u, v, q, opened[u])
    <3>1. p.rx = 0 /\ \A i \in DOMAIN opened[u] : opened[u][i].z # q.z
      <4>1. CounterTells(u, v, p, opened[u])
        BY <1>2, <2>1 DEF OpenInv
      <4> QED BY <1>2, <2>2, <2>6, <4>1 DEF CounterTells
    <3>2. opened[u] \in Seq(CipherType)
      BY DEF OpenInv
    <3>3. Cardinality(Under(opened[u], q.z, ~AmA(u, v), Len(opened[u]))) = 0
      BY <3>1, <3>2, NothingUnder
    <3> QED BY <2>6, <3>1, <3>3 DEF CounterTells
  <2>9. q.z \subseteq AllMade'
    BY <1>4, <2>3, <2>4, <2>6, MadeStays
  <2> QED BY <1>2, <1>3, <1>4, <1>5, <2>6, <2>7, <2>8, <2>9, OpenOneEntry
<1>7. CASE UNCHANGED peers
  BY <1>3, <1>5, <1>7, OpenQuiet
<1> QED BY <1>1, <1>6, <1>7 DEF ReadsAck, managers

\* The counter of the message is the one that is due, which counts what was
\* opened under this key: no other entry of the client counts it too.
LEMMA MsgOpened ==
    ASSUME OneInv, OpenInv, NEW u \in Users, NEW v \in Users, NEW c \in sealed,
           Opens(u, v, c), peers' = [peers EXCEPT ![u][v] = OpenedOnce(u, v)],
           opened' = [opened EXCEPT ![u] = Append(@, c)],
           UNCHANGED <<gen, sealed>>, WiresReal'
    PROVE  OpenInv'
<1>1. PICK p, q, s : p = peers[u][v] /\ q = [p EXCEPT !.rx = @ + 1] /\ s = opened[u]
  OBVIOUS
<1>2. /\ p \in EntryType /\ p.st = "Up" /\ c \in CipherType /\ s \in Seq(CipherType)
      /\ opened \in [Users -> Seq(CipherType)] /\ CounterTells(u, v, p, s)
      /\ c.z = p.z /\ c.a # AmA(u, v) /\ c.n = p.rx /\ InOrder(s)
  BY <1>1 DEF OneInv, OpenInv, Opens, Established
<1>3. AmA(u, v) \in BOOLEAN /\ c.a \in BOOLEAN
  BY <1>2 DEF AmA, CipherType
<1>4. c.a = ~AmA(u, v)
  BY <1>2, <1>3
<1>5. PICK t : t = Append(s, c)
  OBVIOUS
<1>6. /\ t \in Seq(CipherType) /\ Len(t) = Len(s) + 1 /\ t[Len(s) + 1] = c /\ Len(s) \in Nat
      /\ \A i \in 1 .. Len(s) : t[i] = s[i]
  BY <1>2, <1>5
<1>7. opened' = [opened EXCEPT ![u] = t] /\ peers' = [peers EXCEPT ![u][v] = q]
  BY <1>1, <1>5 DEF OpenedOnce
<1>8. q \in EntryType /\ q.st = "Up" /\ q.z = p.z /\ q.rx = p.rx + 1
  <2>1. p \in EntryType /\ p.st = "Up" /\ q = [p EXCEPT !.rx = @ + 1]
    BY <1>1, <1>2
  <2> QED BY <2>1 DEF EntryType
<1>9. CounterTells(u, v, q, t)
  <2>1. p.rx = Cardinality(Under(s, p.z, ~AmA(u, v), Len(s)))
    BY <1>2 DEF CounterTells
  <2>2. Cardinality(Under(t, p.z, ~AmA(u, v), Len(s) + 1))
          = Cardinality(Under(s, p.z, ~AmA(u, v), Len(s))) + 1
    BY <1>2, <1>4, <1>5, UnderNext
  <2> QED BY <1>6, <1>8, <2>1, <2>2 DEF CounterTells
<1>10. ASSUME NEW w \in Users, w # v PROVE CounterTells(u, w, peers[u][w], t)
  <2>1. PICK r : r = peers[u][w]
    OBVIOUS
  <2>2. CounterTells(u, w, r, s) /\ EntryOK(u, w, r, gen[u], sealed)
    BY <1>1, <2>1 DEF OpenInv, OneInv
  <2>3. r.st # "none" => \A x \in PairsOf(w) : c.z # {r.pair, x}
    BY <1>1, <1>2, <1>10, <2>1, OneKeyOneEntry
  <2>4. CASE r.st = "Pending"
    BY <1>6, <2>1, <2>2, <2>3, <2>4 DEF CounterTells
  <2>5. CASE r.st = "Up"
    <3>1. PICK x \in PairsOf(w) : r.z = {r.pair, x}
      BY <2>2, <2>5 DEF EntryOK, CounterAhead
    <3>2. c.z # r.z
      BY <2>3, <2>5, <3>1
    <3>3. Under(t, r.z, ~AmA(u, w), Len(s) + 1) = Under(s, r.z, ~AmA(u, w), Len(s))
      BY <1>2, <1>5, <3>2, UnderNext
    <3>4. Under(t, r.z, ~AmA(u, w), Len(t)) = Under(s, r.z, ~AmA(u, w), Len(s))
      BY <1>6, <3>3
    <3> QED BY <2>1, <2>2, <2>5, <3>4 DEF CounterTells
  <2>6. CASE r.st \notin {"Pending", "Up"}
    BY <2>1, <2>6 DEF CounterTells
  <2> QED BY <2>4, <2>5, <2>6
<1>11. AllMade' = AllMade
  BY DEF AllMade
<1>12. ASSUME NEW x \in Users, NEW y \in Users
       PROVE  /\ peers'[x][y].st = "Up" => peers'[x][y].z \subseteq AllMade'
              /\ CounterTells(x, y, peers'[x][y], opened'[x])
  <2>1. CASE x = u /\ y = v
    <3>1. peers'[x][y] = q /\ opened'[x] = t
      BY <1>2, <1>7, <2>1 DEF OneInv
    <3>2. p.z \subseteq AllMade
      BY <1>1, <1>2 DEF OpenInv
    <3> QED BY <1>8, <1>9, <1>11, <2>1, <3>1, <3>2
  <2>2. CASE x = u /\ y # v
    <3>1. peers'[x][y] = peers[x][y] /\ opened'[x] = t
      BY <1>2, <1>7, <1>12, <2>2 DEF OneInv
    <3> QED BY <1>10, <1>11, <1>12, <2>2, <3>1 DEF OpenInv
  <2>3. CASE x # u
    <3>1. peers'[x][y] = peers[x][y] /\ opened'[x] = opened[x]
      BY <1>2, <1>7, <1>12, <2>3 DEF OneInv
    <3> QED BY <1>11, <1>12, <3>1 DEF OpenInv
  <2> QED BY <2>1, <2>2, <2>3
<1>13. \A i \in 1 .. Len(t) :
          t[i] \in sealed /\ t[i].n = Cardinality(Under(t, t[i].z, t[i].a, i - 1))
  <2> TAKE i \in 1 .. Len(t)
  <2>1. \A z, a : Under(t, z, a, i - 1) = Under(s, z, a, i - 1)
    <3>1. i - 1 \in 0 .. Len(s)
      BY <1>6
    <3> QED BY <1>2, <1>5, <3>1, UnderNext
  <2>2. CASE i \in 1 .. Len(s)
    <3>1. t[i] = s[i]
      BY <1>6, <2>2
    <3>2. s[i] \in sealed /\ s[i].n = Cardinality(Under(s, s[i].z, s[i].a, i - 1))
      BY <1>2, <2>2 DEF InOrder
    <3>3. Under(t, s[i].z, s[i].a, i - 1) = Under(s, s[i].z, s[i].a, i - 1)
      BY <2>1
    <3> QED BY <3>1, <3>2, <3>3
  <2>3. CASE i = Len(s) + 1
    <3>1. t[i] = c /\ i - 1 = Len(s)
      BY <1>6, <2>3
    <3>2. c.n = Cardinality(Under(s, c.z, c.a, Len(s)))
      BY <1>2, <1>4 DEF CounterTells
    <3>3. Under(t, c.z, c.a, i - 1) = Under(s, c.z, c.a, Len(s))
      BY <2>1, <3>1
    <3> QED BY <3>1, <3>2, <3>3
  <2> QED BY <1>6, <2>2, <2>3
<1>14. ASSUME NEW w \in Users PROVE InOrder(opened[w])'
  <2>1. CASE w = u
    <3>1. opened'[w] = t
      BY <1>2, <1>7, <2>1
    <3> QED BY <1>13, <3>1 DEF InOrder
  <2>2. CASE w # u
    <3>1. opened'[w] = opened[w]
      BY <1>2, <1>7, <2>2
    <3> QED BY <1>14, <3>1 DEF InOrder, OpenInv
  <2> QED BY <2>1, <2>2
<1>15. opened' \in [Users -> Seq(CipherType)]
  BY <1>2, <1>6, <1>7
<1> QED BY <1>11, <1>12, <1>14, <1>15 DEF OpenInv

\* on_msg opens the next message under its key, or none.
LEMMA ReadsMsgOpen ==
    ASSUME OneInv, OpenInv, NEW u \in Users, ReadsMsg(u)
    PROVE  OpenInv'
<1>1. PICK v, c : v = From(u) /\ c = What(u)
  OBVIOUS
<1>2. v \in Users
  BY <1>1, ReadFacts DEF OneInv, ReadsMsg
<1>3. UNCHANGED <<gen, pend, sealed>> /\ Reads(u, "msg")
  BY DEF ReadsMsg, Reads
<1>4. Grows
  BY <1>3 DEF Grows, OneInv
<1>5. WiresReal'
  BY <1>3, <1>4, StillReal, ReadReal DEF WiresReal
<1>6. c \in sealed
  <2>1. PICK text : text = Head(down[u]).text
    OBVIOUS
  <2>2. Real(text, AllMade, sealed)
    BY <1>3, <1>4, <2>1, ReadReal
  <2>3. text.tag = "msg" /\ text.what = c
    BY <1>1, <1>3, <2>1 DEF Reads, What
  <2> QED BY <2>2, <2>3 DEF Real
<1>7. CASE Opens(u, v, c)
  <2>1. /\ peers' = [peers EXCEPT ![u][v] = OpenedOnce(u, v)]
        /\ opened' = [opened EXCEPT ![u] = Append(@, c)]
    BY <1>1, <1>7 DEF ReadsMsg, Becomes
  <2> QED BY <1>2, <1>3, <1>5, <1>6, <1>7, <2>1, MsgOpened
<1>8. CASE ~Opens(u, v, c)
  <2>1. UNCHANGED <<peers, opened>>
    BY <1>1, <1>8 DEF ReadsMsg
  <2> QED BY <1>3, <1>5, <2>1, OpenQuiet
<1> QED BY <1>7, <1>8

\* Nothing is asked of the entries of a new client.
LEMMA LeaveOpen ==
    ASSUME OneInv, OpenInv, NEW u \in Users, Leave(u)
    PROVE  OpenInv'
<1>1. PICK e : e = NoEntry
  OBVIOUS
<1>2. /\ peers' = [peers EXCEPT ![u] = [v \in Users |-> e]] /\ e.st = "none"
      /\ UNCHANGED <<gen, sealed, opened, up, down>>
      /\ pend' = [pend EXCEPT ![u] = [t \in Threads |-> <<>>]]
  BY <1>1 DEF Leave, relay, Threads, NoEntry, shown
<1>3. AllMade' = AllMade
  BY <1>2 DEF AllMade
<1>4. WiresReal'
  <2>1. ASSUME NEW w \in Users, NEW r \in Threads PROVE AllReal(pend'[w][r], AllMade', sealed')
    <3>1. CASE w = u
      <4>1. pend'[w][r] = <<>>
        BY <1>2, <2>1, <3>1 DEF OneInv, WiresOK, PendOK
      <4> QED BY <4>1 DEF AllReal
    <3>2. CASE w # u
      <4>1. pend'[w][r] = pend[w][r]
        BY <1>2, <2>1, <3>2 DEF OneInv, WiresOK, PendOK
      <4> QED BY <1>2, <1>3, <2>1, <4>1 DEF OpenInv, WiresReal
    <3> QED BY <3>1, <3>2
  <2> QED BY <1>2, <1>3, <2>1 DEF OpenInv, WiresReal
<1>5. ASSUME NEW x \in Users, NEW y \in Users
      PROVE  /\ peers'[x][y].st = "Up" => peers'[x][y].z \subseteq AllMade'
             /\ CounterTells(x, y, peers'[x][y], opened'[x])
  <2>1. CASE x = u
    <3>1. peers'[x][y] = e
      BY <1>2, <1>5, <2>1 DEF OneInv
    <3> QED BY <1>2, <3>1 DEF CounterTells
  <2>2. CASE x # u
    <3>1. peers'[x][y] = peers[x][y]
      BY <1>2, <1>5, <2>2 DEF OneInv
    <3> QED BY <1>2, <1>3, <1>5, <3>1 DEF OpenInv
  <2> QED BY <2>1, <2>2
<1>6. \A w \in Users : InOrder(opened[w])'
  BY <1>2 DEF OpenInv, InOrder
<1> QED BY <1>2, <1>3, <1>4, <1>5, <1>6 DEF OpenInv

\* drop_conn takes what is on the wires of a client that is gone.
LEMMA DropConnOpen ==
    ASSUME OneInv, OpenInv, NEW u \in Users, DropConn(u)
    PROVE  OpenInv'
<1>1. UNCHANGED <<peers, gen, sealed, opened, pend>>
  BY DEF DropConn, managers, shown
<1>2. AllMade' = AllMade
  BY <1>1 DEF AllMade
<1>3. \A w \in Users : up'[w] \in {up[w], <<>>} /\ down'[w] \in {down[w], <<>>}
  BY DEF DropConn, OneInv, WiresOK, UpOK, DownOK
<1>4. WiresReal'
  BY <1>1, <1>2, <1>3 DEF OpenInv, WiresReal, AllReal
<1> QED BY <1>1, <1>4, OpenQuiet

\* Every step keeps the invariant.
LEMMA OpenNext == OneInv /\ OpenInv /\ [Next]_vars => OpenInv'
<1> SUFFICES ASSUME OneInv, OpenInv, [Next]_vars PROVE OpenInv'
  OBVIOUS
<1>1. CASE UNCHANGED vars
  <2>1. UNCHANGED <<peers, gen, sealed, opened, pend, up, down>>
    BY <1>1 DEF vars, managers, relay, shown
  <2>2. WiresReal'
    BY <2>1 DEF OpenInv, WiresReal, AllMade
  <2> QED BY <2>1, <2>2, OpenQuiet
<1>2. ASSUME NEW u \in Users, NEW v \in Users, TypeE2E(u, v) \/ TypeMessage(u, v) PROVE OpenInv'
  BY <1>2, TypeE2EOpen, TypeMessageOpen
<1>3. ASSUME NEW u \in Users, NEW t \in Threads, Send(u, t) PROVE OpenInv'
  BY <1>3, SendReal, OpenQuiet DEF Send, managers, shown
<1>8. ASSUME NEW u \in Users, NEW t \in Threads, SkipLong(u, t) PROVE OpenInv'
  BY <1>8, SkipReal, OpenQuiet DEF SkipLong, managers, shown
<1>4. ASSUME NEW u \in Users, Reader(u) PROVE OpenInv'
  <2>1. CASE ReadsInit(u) \/ ReadsAck(u) \/ ReadsMsg(u)
    BY <2>1, ReadsInitOpen, ReadsAckOpen, ReadsMsgOpen
  <2>2. CASE ReadsInitFails(u) \/ ReadsPlain(u) \/ ReadsErr(u)
    <3>1. PICK tag : Reads(u, tag)
      BY <2>2 DEF ReadsInitFails, ReadsPlain, ReadsErr
    <3>2. UNCHANGED <<peers, gen, pend, sealed, opened>>
      BY <2>2 DEF ReadsInitFails, ReadsPlain, ReadsErr, Reads, managers, shown
    <3>3. Grows
      BY <3>2 DEF Grows, OneInv
    <3>4. WiresReal'
      BY <3>1, <3>2, <3>3, StillReal, ReadReal DEF WiresReal
    <3> QED BY <3>2, <3>4, OpenQuiet
  <2> QED BY <1>4, <2>1, <2>2 DEF Reader
<1>5. ASSUME NEW u \in Users, Route(u) PROVE OpenInv'
  BY <1>5, RouteReal, OpenQuiet DEF Route, managers, shown
<1>6. ASSUME NEW u \in Users, Leave(u) \/ DropConn(u) PROVE OpenInv'
  BY <1>6, LeaveOpen, DropConnOpen
<1>7. ASSUME NEW u \in Users, Login(u) PROVE OpenInv'
  <2>1. UNCHANGED <<peers, gen, sealed, opened, pend, up, down>>
    BY <1>7 DEF Login, managers, shown
  <2>2. WiresReal'
    BY <2>1 DEF OpenInv, WiresReal, AllMade
  <2> QED BY <2>1, <2>2, OpenQuiet
<1> QED BY <1>1, <1>2, <1>3, <1>4, <1>5, <1>6, <1>7, <1>8 DEF Next, Threads

\* It holds when nobody has typed anything.
LEMMA OpenInit == Init => OpenInv
<1> SUFFICES ASSUME Init PROVE OpenInv
  OBVIOUS
<1>1. PICK e : e = NoEntry
  OBVIOUS
<1>2. e.st = "none" /\ peers = [u \in Users |-> [v \in Users |-> e]]
  BY <1>1 DEF NoEntry, Init
<1>3. \A u, v \in Users : CounterTells(u, v, peers[u][v], opened[u])
  BY <1>2 DEF CounterTells
<1>4. WiresReal
  BY DEF Init, WiresReal, AllReal, Threads
<1>5. opened = [u \in Users |-> <<>>] /\ sealed = {}
  BY DEF Init
<1> QED BY <1>2, <1>3, <1>4, <1>5 DEF OpenInv, InOrder

\* And it says what a user is shown.
LEMMA OpenInvTells == OpenInv => OpenedInOrder
<1> SUFFICES ASSUME OpenInv, NEW u \in Users, NEW i \in DOMAIN opened[u]
             PROVE  /\ opened[u][i] \in sealed
                    /\ opened[u][i].n = Cardinality({j \in 1 .. i - 1 :
                           opened[u][j].z = opened[u][i].z /\ opened[u][j].a = opened[u][i].a})
  BY DEF OpenedInOrder
<1>1. i \in 1 .. Len(opened[u])
  BY DEF OpenInv
<1> QED BY <1>1 DEF OpenInv, InOrder, Under

(***************************************************************************)
(* What a user is shown under one key of phase 4 is what the peer sealed   *)
(* under it, from the first message on, in order and without a gap.        *)
(***************************************************************************)
THEOREM OneEpochOpensInOrder == Spec => []OpenedInOrder
<1>1. OneInv /\ OpenInv => OpenedInOrder
  BY OpenInvTells
<1>2. Init => OneInv /\ OpenInv
  BY OneInitInv, OpenInit
<1>3. OneInv /\ OpenInv /\ [Next]_vars => (OneInv /\ OpenInv)'
  BY OneNext, OpenNext
<1> QED BY <1>1, <1>2, <1>3, PTL DEF Spec
-----------------------------------------------------------------------------
\* What one entry of a manager keeps in memory.

\* An epoch made from an exponent that was drawn.
DrawnFor(e) == e # None => e.own \in 1 .. drawn

\* Exponents are numbered as they are drawn, so a new one is in no key, and the one that is
\* in next_kp while an ACK is awaited is not the one of the key in use.
MemoryInv ==
    /\ drawn \in Nat
    /\ DrawnFor(cur) /\ DrawnFor(prev)
    /\ st # "up" => cur = None /\ prev = None
    /\ kp.priv # None => kp.priv \in 1 .. drawn
    /\ rotating /\ cur # None => cur.own # kp.priv
    /\ Memory!InitMatchesPair /\ Memory!OneKeyPerExponent

\* A new exponent is none that is in use.
LEMMA NewIsUnused ==
    ASSUME drawn \in Nat
    PROVE  /\ Memory!New \in Nat /\ Memory!New \in 1 .. Memory!New
           /\ Memory!New \notin 1 .. drawn /\ 1 .. drawn \subseteq 1 .. Memory!New
BY DEF Memory!New

\* start forgets the epochs of the entry it replaces.
LEMMA StartKeeps ==
    ASSUME Memory!MemoryAssumption, MemoryInv, Memory!Start
    PROVE  MemoryInv'
<1>1. drawn \in Nat /\ Memory!New \in Nat /\ Memory!New \in 1 .. Memory!New /\ Memory!New # None
  BY NewIsUnused DEF MemoryInv, Memory!MemoryAssumption
<1>2. /\ st' = "pending" /\ cur' = None /\ prev' = None /\ drawn' = Memory!New
      /\ kp' = [priv |-> Memory!New, pub |-> Memory!New]
  BY DEF Memory!Start
<1> QED BY <1>1, <1>2
        DEF MemoryInv, DrawnFor, Memory!InitMatchesPair, Memory!OneKeyPerExponent

\* The answer to an INIT makes its key from an exponent of its own.
LEMMA OnInitKeeps ==
    ASSUME Memory!MemoryAssumption, MemoryInv, NEW n, Memory!OnInit(n)
    PROVE  MemoryInv'
<1>1. /\ drawn \in Nat /\ Memory!New \in Nat /\ Memory!New \in 1 .. Memory!New
      /\ Memory!New \notin 1 .. drawn /\ 1 .. drawn \subseteq 1 .. Memory!New
  BY NewIsUnused DEF MemoryInv
<1>2. /\ st' = "up" /\ rotating' = FALSE /\ drawn' = Memory!New /\ kp' = kp
      /\ cur' = [n |-> n, own |-> Memory!New] /\ cur'.own = Memory!New
  BY DEF Memory!OnInit
<1>3. prev' = prev \/ prev' = cur
  BY DEF Memory!OnInit, Memory!Retires
<1>4. prev' # None => prev'.own \in 1 .. drawn
  BY <1>3 DEF MemoryInv, DrawnFor
<1>5. DrawnFor(cur)' /\ DrawnFor(prev)'
  BY <1>1, <1>2, <1>4 DEF DrawnFor
<1>6. Memory!OneKeyPerExponent'
  BY <1>1, <1>2, <1>4 DEF Memory!OneKeyPerExponent
<1> QED BY <1>1, <1>2, <1>5, <1>6 DEF MemoryInv, Memory!InitMatchesPair

\* An ACK makes it from the exponent in next_kp, which the key in use is not made from.
LEMMA OnAckKeeps ==
    ASSUME MemoryInv, NEW n, Memory!OnAck(n)
    PROVE  MemoryInv'
<1>1. /\ rotating /\ kp.priv # None /\ kp.priv \in 1 .. drawn /\ drawn \in Nat
      /\ cur # None => cur.own # kp.priv
  BY DEF MemoryInv, Memory!OnAck, Memory!AckExpected
<1>2. /\ st' = "up" /\ rotating' = FALSE /\ drawn' = drawn /\ kp' = kp
      /\ cur' = [n |-> n, own |-> kp.priv] /\ cur'.own = kp.priv
      /\ IF st = "up" THEN prev' = cur ELSE prev' = prev
  BY DEF Memory!OnAck, Memory!Retires
<1>3. prev' # None => prev'.own \in 1 .. drawn /\ prev'.own # kp.priv
  BY <1>1, <1>2 DEF MemoryInv, DrawnFor
<1>4. DrawnFor(cur)' /\ DrawnFor(prev)'
  BY <1>1, <1>2, <1>3 DEF DrawnFor
<1>5. Memory!OneKeyPerExponent'
  BY <1>2, <1>3 DEF Memory!OneKeyPerExponent
<1> QED BY <1>1, <1>2, <1>4, <1>5 DEF MemoryInv, Memory!InitMatchesPair

\* A rotation that is due draws an exponent, and has begun when its key pair is whole.
LEMMA TickKeeps ==
    ASSUME Memory!MemoryAssumption, MemoryInv, Memory!Tick
    PROVE  MemoryInv'
<1>1. /\ drawn \in Nat /\ Memory!New \in Nat /\ Memory!New \in 1 .. Memory!New
      /\ Memory!New \notin 1 .. drawn /\ 1 .. drawn \subseteq 1 .. Memory!New
      /\ Memory!New # None
  BY NewIsUnused DEF MemoryInv, Memory!MemoryAssumption
<1>2. UNCHANGED <<st, cur, prev>>
  BY DEF Memory!Tick
<1>3. Memory!OneKeyPerExponent'
  BY <1>2 DEF MemoryInv, Memory!OneKeyPerExponent
<1>4. CASE UNCHANGED <<rotating, nextEpoch, kp, heap, drawn>>
  BY <1>2, <1>3, <1>4 DEF MemoryInv, DrawnFor, Memory!InitMatchesPair
<1>5. ASSUME NEW pub, Memory!Draws(pub), pub = Memory!New \/ ~rotating'
      PROVE  MemoryInv'
  <2>1. drawn' = Memory!New /\ kp' = [priv |-> Memory!New, pub |-> pub]
    BY <1>5 DEF Memory!Draws
  <2>2. kp'.priv = Memory!New /\ kp'.pub = pub
    BY <2>1
  <2>3. DrawnFor(cur)' /\ DrawnFor(prev)' /\ (cur' # None => cur'.own # Memory!New)
    BY <1>1, <1>2, <2>1 DEF MemoryInv, DrawnFor
  <2>4. Memory!InitMatchesPair'
    BY <1>1, <1>5, <2>2 DEF Memory!InitMatchesPair
  <2> QED BY <1>1, <1>2, <1>3, <2>1, <2>2, <2>3, <2>4 DEF MemoryInv
<1>6. CASE Memory!Rotates
  BY <1>5, <1>6 DEF Memory!Rotates
<1>7. CASE Memory!GenerateFails
  BY <1>5, <1>7 DEF Memory!GenerateFails, Memory!MayRotate
<1> QED BY <1>4, <1>6, <1>7 DEF Memory!Tick

\* Every step keeps it.
LEMMA MemoryStep ==
    Memory!MemoryAssumption /\ MemoryInv /\ [Memory!Next]_(Memory!vars) => MemoryInv'
<1> SUFFICES ASSUME Memory!MemoryAssumption, MemoryInv, [Memory!Next]_(Memory!vars)
             PROVE  MemoryInv'
  OBVIOUS
<1>1. ASSUME NEW n, Memory!OnInitFails(n) PROVE MemoryInv'
  BY <1>1 DEF Memory!OnInitFails, MemoryInv, DrawnFor, Memory!InitMatchesPair,
              Memory!OneKeyPerExponent
<1>2. CASE UNCHANGED Memory!vars
  BY <1>2 DEF Memory!vars, Memory!peer, MemoryInv, DrawnFor, Memory!InitMatchesPair,
              Memory!OneKeyPerExponent
<1> QED BY <1>1, <1>2, StartKeeps, OnInitKeeps, OnAckKeeps, TickKeeps DEF Memory!Next

(***************************************************************************)
(* In every entry of a manager, of any number of exponents and epochs:     *)
(* while an ACK is awaited, next_kp holds the exponent whose value the     *)
(* INIT carried, and no exponent goes into two epoch keys.                 *)
(***************************************************************************)
THEOREM ExponentsAlwaysMatch ==
    Memory!MemoryAssumption /\ Memory!Spec => []ExponentsMatch
<1>1. Memory!Init => MemoryInv
  BY DEF Memory!Init, MemoryInv, DrawnFor, Memory!NoKeyPair, Memory!InitMatchesPair,
         Memory!OneKeyPerExponent
<1>2. MemoryInv => ExponentsMatch
  BY DEF MemoryInv, ExponentsMatch, Memory!ExponentsMatch
<1>3. Memory!MemoryAssumption => Memory!MemoryAssumption'
  BY DEF Memory!MemoryAssumption
<1> QED BY <1>1, <1>2, <1>3, MemoryStep, PTL DEF Memory!Spec
=============================================================================
