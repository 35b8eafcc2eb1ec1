---------------------------- MODULE CertChatProofs ----------------------------
(***************************************************************************)
(* Proofs about CertChat, for any clients, servers, certificates and       *)
(* bounds: the invariant of CertExchange, what it says of who contributes  *)
(* to a session and when, and that the users of one server see the chat    *)
(* service of ChatService.                                                 *)
(***************************************************************************)
EXTENDS CertExchange, TLAPS, SequenceTheorems

-----------------------------------------------------------------------------
(* What is on the way from a server. *)

\* A queue that grows by what follows it.
LEMMA Follows ==
    ASSUME NEW T, NEW w \in Seq(T), NEW t \in Seq(T)
    PROVE  /\ w \o t \in Seq(T) /\ Len(w \o t) = Len(w) + Len(t)
           /\ Len(w) \in Nat /\ Len(t) \in Nat
           /\ DOMAIN (w \o t) = 1 .. Len(w) + Len(t)
           /\ \A i \in 1 .. Len(w) : (w \o t)[i] = w[i]
           /\ \A i \in 1 .. Len(t) : (w \o t)[Len(w) + i] = t[i]
           /\ \A i \in 1 .. Len(w) + Len(t) : i > Len(w) => (w \o t)[i] = t[i - Len(w)]
BY ConcatProperties

\* One record more.
LEMMA OneMore ==
    ASSUME NEW T, NEW w \in Seq(T), NEW r \in T
    PROVE  /\ w \o <<r>> \in Seq(T) /\ Len(w \o <<r>>) = Len(w) + 1 /\ Len(w) \in Nat
           /\ DOMAIN (w \o <<r>>) = 1 .. Len(w) + 1 /\ DOMAIN w = 1 .. Len(w)
           /\ \A i \in 1 .. Len(w) : (w \o <<r>>)[i] = w[i]
           /\ (w \o <<r>>)[Len(w) + 1] = r
<1>1. w \o <<r>> = Append(w, r)
  BY AppendIsConcat
<1> QED BY <1>1

\* The first record taken.
LEMMA FirstTaken ==
    ASSUME NEW T, NEW w \in Seq(T), w # <<>>
    PROVE  /\ Tail(w) \in Seq(T) /\ Len(Tail(w)) = Len(w) - 1 /\ Len(w) \in Nat /\ Len(w) > 0
           /\ DOMAIN Tail(w) = 1 .. Len(w) - 1 /\ DOMAIN w = 1 .. Len(w)
           /\ \A i \in 1 .. Len(w) - 1 : Tail(w)[i] = w[i + 1]
           /\ Head(w) = w[1] /\ Head(w) \in T
OBVIOUS

\* What is left of a queue that is cut.
LEMMA CutShort ==
    ASSUME NEW T, NEW w \in Seq(T), NEW k \in 0 .. Len(w)
    PROVE  /\ SubSeq(w, 1, k) \in Seq(T) /\ Len(SubSeq(w, 1, k)) = k /\ k \in Nat
           /\ DOMAIN SubSeq(w, 1, k) = 1 .. k /\ DOMAIN w = 1 .. Len(w)
           /\ \A i \in 1 .. k : SubSeq(w, 1, k)[i] = w[i]
<1>1. Len(w) \in Nat /\ k \in Int /\ 1 \in Int
  OBVIOUS
<1>2. k \in Nat /\ k <= Len(w)
  BY <1>1
<1> QED BY <1>1, <1>2

\* How much belongs to the exchange is what there is no line in.
LEMMA ExchangeIs ==
    ASSUME NEW w \in Seq(DownRecord), NEW m \in 0 .. Len(w),
           \A i \in DOMAIN w : w[i].type = "appdata" <=> i > m
    PROVE  Exchange(w) = m
<1>1. Len(w) \in Nat /\ DOMAIN w = 1 .. Len(w)
  OBVIOUS
<1>2. ASSUME NEW n \in 0 .. Len(w), \A i \in DOMAIN w : w[i].type = "appdata" <=> i > n
      PROVE  n = m
  <2>1. CASE n < m
    <3>1. m \in DOMAIN w /\ m > n /\ ~(m > m)
      BY <1>1, <2>1
    <3> QED BY <1>2, <3>1
  <2>2. CASE m < n
    <3>1. n \in DOMAIN w /\ n > m /\ ~(n > n)
      BY <1>1, <2>2
    <3> QED BY <1>2, <3>1
  <2> QED BY <1>1, <2>1, <2>2
<1>3. PICK x : x = Exchange(w)
  OBVIOUS
<1>4. x \in 0 .. Len(w) /\ \A i \in DOMAIN w : w[i].type = "appdata" <=> i > x
  BY <1>3 DEF Exchange
<1> QED BY <1>2, <1>3, <1>4

\* The lines of a queue are in it, behind the exchange.
LEMMA LinesAre ==
    ASSUME NEW w \in Seq(DownRecord), DataLast(w)
    PROVE  \E m \in 0 .. Len(w) :
             /\ Exchange(w) = m /\ \A i \in DOMAIN w : w[i].type = "appdata" <=> i > m
             /\ Lines(w) \in Seq(Told) /\ Len(Lines(w)) = Len(w) - m
             /\ Lines(w) = [i \in 1 .. Len(w) - m |-> w[m + i].line]
<1>1. PICK m \in 0 .. Len(w) : \A i \in DOMAIN w : w[i].type = "appdata" <=> i > m
  BY DEF DataLast
<1>2. Exchange(w) = m
  BY <1>1, ExchangeIs
<1>3. Lines(w) = [i \in 1 .. Len(w) - m |-> w[m + i].line]
  BY <1>2 DEF Lines
<1>4. Len(w) \in Nat /\ Len(w) - m \in Nat
  OBVIOUS
<1>5. ASSUME NEW i \in 1 .. Len(w) - m PROVE w[m + i].line \in Told
  <2>1. m + i \in DOMAIN w /\ m + i > m
    BY <1>4
  <2>2. w[m + i].type = "appdata" /\ w[m + i] \in DownRecord
    BY <1>1, <2>1
  <2> QED BY <2>2 DEF DownRecord, Data, Alert
<1>6. Lines(w) \in Seq(Told) /\ Len(Lines(w)) = Len(w) - m
  BY <1>3, <1>4, <1>5
<1> QED BY <1>1, <1>2, <1>3, <1>6

\* Before the first line there is none.
LEMMA NoLines ==
    ASSUME NEW w \in Seq(DownRecord), NoData(w)
    PROVE  DataLast(w) /\ Lines(w) = <<>>
<1>1. Len(w) \in Nat /\ Len(w) \in 0 .. Len(w) /\ DOMAIN w = 1 .. Len(w)
  OBVIOUS
<1>2. \A i \in DOMAIN w : w[i].type = "appdata" <=> i > Len(w)
  BY <1>1 DEF NoData
<1>3. DataLast(w) /\ Exchange(w) = Len(w)
  BY <1>1, <1>2, ExchangeIs DEF DataLast
<1>4. PICK s : s = Lines(w)
  OBVIOUS
<1>5. s \in Seq(Told) /\ Len(s) = 0
  BY <1>1, <1>3, <1>4, LinesAre
<1>6. s = <<>>
  BY <1>5
<1> QED BY <1>3, <1>4, <1>6

\* A line sent is the last of the lines.
LEMMA LineSent ==
    ASSUME NEW w \in Seq(DownRecord), DataLast(w), NEW r \in Data(Told)
    PROVE  /\ w \o <<r>> \in Seq(DownRecord) /\ DataLast(w \o <<r>>)
           /\ Lines(w \o <<r>>) = Append(Lines(w), r.line)
           /\ Lines(w \o <<r>>) # Lines(w)
<1>1. r \in DownRecord /\ r.type = "appdata" /\ r.line \in Told
  BY DEF DownRecord, Data
<1>2. PICK x : x = w \o <<r>>
  OBVIOUS
<1>3. /\ x \in Seq(DownRecord) /\ Len(x) = Len(w) + 1 /\ Len(w) \in Nat
      /\ DOMAIN x = 1 .. Len(w) + 1 /\ DOMAIN w = 1 .. Len(w)
      /\ (\A i \in 1 .. Len(w) : x[i] = w[i]) /\ x[Len(w) + 1] = r
  BY <1>1, <1>2, OneMore
<1>4. PICK m \in 0 .. Len(w) :
        /\ Exchange(w) = m /\ \A i \in DOMAIN w : w[i].type = "appdata" <=> i > m
        /\ Lines(w) \in Seq(Told) /\ Len(Lines(w)) = Len(w) - m
        /\ Lines(w) = [i \in 1 .. Len(w) - m |-> w[m + i].line]
  BY LinesAre
<1>5. m \in 0 .. Len(x) /\ \A i \in DOMAIN x : x[i].type = "appdata" <=> i > m
  <2>1. ASSUME NEW i \in DOMAIN x PROVE x[i].type = "appdata" <=> i > m
    <3>1. CASE i \in DOMAIN w
      BY <1>3, <1>4, <3>1
    <3>2. CASE i = Len(w) + 1
      BY <1>1, <1>3, <3>2
    <3> QED BY <1>3, <3>1, <3>2
  <2> QED BY <1>3, <2>1
<1>6. DataLast(x) /\ Exchange(x) = m
  BY <1>3, <1>5, ExchangeIs DEF DataLast
<1>7. Lines(x) = [i \in 1 .. Len(w) - m + 1 |-> x[m + i].line]
  <2>1. Len(x) - m = Len(w) - m + 1
    BY <1>3
  <2> QED BY <1>6, <2>1 DEF Lines
<1>8. Lines(x) = Append(Lines(w), r.line)
  <2>1. PICK n : n = Len(w) - m
    OBVIOUS
  <2>2. n \in Nat
    BY <1>3, <2>1
  <2>3. Append(Lines(w), r.line) = [i \in 1 .. n + 1 |-> IF i = n + 1 THEN r.line
        ELSE Lines(w)[i]]
    BY <1>1, <1>4, <2>1, <2>2
  <2>4. ASSUME NEW i \in 1 .. n + 1
        PROVE  x[m + i].line = IF i = n + 1 THEN r.line ELSE Lines(w)[i]
    <3>1. CASE i = n + 1
      <4>1. m + i = Len(w) + 1
        BY <1>3, <2>1, <3>1
      <4> QED BY <1>3, <3>1, <4>1
    <3>2. CASE i # n + 1
      <4>1. i \in 1 .. n /\ m + i \in 1 .. Len(w)
        BY <1>3, <2>1, <2>2, <3>2
      <4>2. x[m + i] = w[m + i] /\ Lines(w)[i] = w[m + i].line
        BY <1>3, <1>4, <2>1, <4>1
      <4> QED BY <3>2, <4>2
    <3> QED BY <3>1, <3>2
  <2> QED BY <1>7, <2>1, <2>3, <2>4
<1>9. Lines(x) # Lines(w)
  <2>1. Len(Append(Lines(w), r.line)) = Len(Lines(w)) + 1 /\ Len(Lines(w)) \in Nat
    BY <1>1, <1>4
  <2>2. Len(Lines(w)) + 1 # Len(Lines(w))
    BY <2>1
  <2> QED BY <1>8, <2>1, <2>2
<1> QED BY <1>2, <1>3, <1>6, <1>8, <1>9

\* A client takes the next record: of the exchange, or the first of the lines.
LEMMA LineTaken ==
    ASSUME NEW w \in Seq(DownRecord), DataLast(w), w # <<>>
    PROVE  /\ Tail(w) \in Seq(DownRecord) /\ DataLast(Tail(w))
           /\ Head(w).type # "appdata" => Lines(Tail(w)) = Lines(w)
           /\ Head(w).type = "appdata" => /\ Lines(w) # <<>> /\ Lines(Tail(w)) = Tail(Lines(w))
                                          /\ Lines(Tail(w)) # Lines(w)
<1>1. PICK x : x = Tail(w)
  OBVIOUS
<1>2. /\ x \in Seq(DownRecord) /\ Len(x) = Len(w) - 1 /\ Len(w) \in Nat /\ Len(w) > 0
      /\ DOMAIN x = 1 .. Len(w) - 1 /\ DOMAIN w = 1 .. Len(w)
      /\ \A i \in 1 .. Len(w) - 1 : x[i] = w[i + 1]
      /\ Head(w) = w[1]
  BY <1>1, FirstTaken
<1>3. PICK m \in 0 .. Len(w) :
        /\ Exchange(w) = m /\ \A i \in DOMAIN w : w[i].type = "appdata" <=> i > m
        /\ Lines(w) \in Seq(Told) /\ Len(Lines(w)) = Len(w) - m
        /\ Lines(w) = [i \in 1 .. Len(w) - m |-> w[m + i].line]
  BY LinesAre
<1>4. Head(w).type = "appdata" <=> m = 0
  BY <1>2, <1>3
<1>5. CASE m = 0
  <2>1. 0 \in 0 .. Len(x) /\ \A i \in DOMAIN x : x[i].type = "appdata" <=> i > 0
    BY <1>2, <1>3, <1>5, SMTT(30)
  <2>2. DataLast(x) /\ Exchange(x) = 0
    BY <1>2, <2>1, ExchangeIs DEF DataLast
  <2>3. Lines(x) = [i \in 1 .. Len(w) - 1 |-> w[i + 1].line]
    <3>1. Lines(x) = [i \in 1 .. Len(w) - 1 |-> x[i].line]
      BY <1>2, <2>2 DEF Lines
    <3> QED BY <1>2, <3>1
  <2>4. PICK s : s = Lines(w)
    OBVIOUS
  <2>5. s \in Seq(Told) /\ Len(s) = Len(w) /\ s = [i \in 1 .. Len(w) |-> w[i].line]
    BY <1>2, <1>3, <1>5, <2>4
  <2>6. /\ s # <<>> /\ Len(Tail(s)) = Len(w) - 1 /\ Tail(s) \in Seq(Told)
        /\ \A i \in 1 .. Len(w) - 1 : Tail(s)[i] = s[i + 1]
    BY <1>2, <2>5
  <2>7. Tail(s) = [i \in 1 .. Len(w) - 1 |-> w[i + 1].line]
    <3>1. \A i \in 1 .. Len(w) - 1 : s[i + 1] = w[i + 1].line
      BY <1>2, <2>5
    <3>2. PICK y : y = Tail(s)
      OBVIOUS
    <3>3. y \in Seq(Told) /\ Len(y) = Len(w) - 1
          /\ \A i \in 1 .. Len(w) - 1 : y[i] = w[i + 1].line
      BY <2>6, <3>1, <3>2
    <3>4. y = [i \in 1 .. Len(y) |-> y[i]]
      BY <3>3
    <3> QED BY <3>2, <3>3, <3>4
  <2>8. Tail(s) # s
    BY <1>2, <2>5, <2>6
  <2> QED BY <1>1, <1>2, <1>4, <1>5, <2>2, <2>3, <2>4, <2>6, <2>7, <2>8
<1>6. CASE m # 0
  <2>0. m - 1 \in 0 .. Len(x) /\ Len(w) \in Nat
    BY <1>2, <1>3, <1>6
  <2>1. ASSUME NEW i \in DOMAIN x PROVE x[i].type = "appdata" <=> i > m - 1
    <3>1. x[i] = w[i + 1] /\ i + 1 \in DOMAIN w /\ i \in Int
      BY <1>2
    <3>2. x[i].type = "appdata" <=> i + 1 > m
      BY <1>3, <3>1
    <3> QED BY <2>0, <3>1, <3>2
  <2>2. DataLast(x) /\ Exchange(x) = m - 1
    BY <1>2, <2>0, <2>1, ExchangeIs DEF DataLast
  <2>3. Lines(x) = [i \in 1 .. Len(x) - (m - 1) |-> x[m - 1 + i].line]
    BY <2>2 DEF Lines
  <2>4. Len(x) - (m - 1) = Len(w) - m /\ \A i \in 1 .. Len(w) - m : x[m - 1 + i] = w[m + i]
    BY <1>2, <1>3, <1>6
  <2>5. Lines(x) = Lines(w)
    BY <1>3, <2>3, <2>4
  <2> QED BY <1>1, <1>2, <1>4, <1>6, <2>2, <2>5
<1> QED BY <1>5, <1>6

\* Of a queue that is cut, the first lines are left.
LEMMA LinesCut ==
    ASSUME NEW w \in Seq(DownRecord), DataLast(w), NEW k \in 0 .. Len(w)
    PROVE  /\ SubSeq(w, 1, k) \in Seq(DownRecord) /\ DataLast(SubSeq(w, 1, k))
           /\ \E j \in 0 .. Len(Lines(w)) : Lines(SubSeq(w, 1, k)) = SubSeq(Lines(w), 1, j)
<1>1. PICK x : x = SubSeq(w, 1, k)
  OBVIOUS
<1>2. /\ x \in Seq(DownRecord) /\ Len(x) = k /\ k \in Nat /\ DOMAIN x = 1 .. k
      /\ DOMAIN w = 1 .. Len(w) /\ \A i \in 1 .. k : x[i] = w[i]
  BY <1>1, CutShort
<1>3. PICK m \in 0 .. Len(w) :
        /\ Exchange(w) = m /\ \A i \in DOMAIN w : w[i].type = "appdata" <=> i > m
        /\ Lines(w) \in Seq(Told) /\ Len(Lines(w)) = Len(w) - m
        /\ Lines(w) = [i \in 1 .. Len(w) - m |-> w[m + i].line]
  BY LinesAre
<1>4. Len(w) \in Nat /\ k <= Len(w) /\ k \in Nat
  BY <1>2
<1>5. CASE k <= m
  <2>1. NoData(x)
    BY <1>2, <1>3, <1>4, <1>5 DEF NoData
  <2>2. DataLast(x) /\ Lines(x) = <<>>
    BY <1>2, <2>1, NoLines
  <2>3. SubSeq(Lines(w), 1, 0) = <<>>
    BY <1>3, SubSeqEmpty
  <2>4. 0 \in 0 .. Len(Lines(w))
    BY <1>3, <1>4
  <2> QED BY <1>1, <1>2, <2>2, <2>3, <2>4
<1>6. CASE ~(k <= m)
  <2>1. m \in 0 .. Len(x) /\ \A i \in DOMAIN x : x[i].type = "appdata" <=> i > m
    BY <1>2, <1>3, <1>4, <1>6
  <2>2. DataLast(x) /\ Exchange(x) = m
    BY <1>2, <2>1, ExchangeIs DEF DataLast
  <2>3. Lines(x) = [i \in 1 .. k - m |-> w[m + i].line]
    <3>1. Lines(x) = [i \in 1 .. k - m |-> x[m + i].line]
      BY <1>2, <2>2 DEF Lines
    <3>2. \A i \in 1 .. k - m : x[m + i] = w[m + i]
      BY <1>2, <1>3, <1>4, <1>6
    <3> QED BY <3>1, <3>2
  <2>4. k - m \in 0 .. Len(w) - m /\ k - m \in Nat
    BY <1>3, <1>4, <1>6
  <2>5. PICK s, j : s = Lines(w) /\ j = k - m
    OBVIOUS
  <2>6. /\ SubSeq(s, 1, j) \in Seq(Told) /\ Len(SubSeq(s, 1, j)) = j
        /\ DOMAIN SubSeq(s, 1, j) = 1 .. j
        /\ \A i \in 1 .. j : SubSeq(s, 1, j)[i] = s[i]
    BY <1>3, <2>4, <2>5, CutShort
  <2>7. \A i \in 1 .. j : s[i] = w[m + i].line
    BY <1>3, <1>4, <2>4, <2>5
  <2>8. PICK y : y = SubSeq(s, 1, j)
    OBVIOUS
  <2>9. y \in Seq(Told) /\ Len(y) = j /\ \A i \in 1 .. j : y[i] = w[m + i].line
    BY <2>6, <2>7, <2>8
  <2>10. Lines(x) \in Seq(Told) /\ Len(Lines(x)) = j
         /\ \A i \in 1 .. j : Lines(x)[i] = w[m + i].line
    <3>1. \A i \in 1 .. j : w[m + i].line \in Told
      BY <2>6, <2>7, <2>9
    <3>2. j \in Nat
      BY <2>4, <2>5
    <3> QED BY <2>3, <2>5, <3>1, <3>2
  <2>11. Lines(x) = y
    BY <2>9, <2>10, SeqEqual
  <2>12. j \in 0 .. Len(Lines(w))
    BY <1>3, <2>4, <2>5
  <2> QED BY <1>1, <1>2, <2>2, <2>5, <2>8, <2>11, <2>12
<1> QED BY <1>5, <1>6

-----------------------------------------------------------------------------
(* What is said of each record on the way. *)

\* Records of the exchange sent when no line has been.
LEMMA ExchangeGoesOn ==
    ASSUME NEW w \in Seq(DownRecord), NoData(w), NEW t \in Seq(DownRecord), NoData(t)
    PROVE  /\ w \o t \in Seq(DownRecord) /\ NoData(w \o t)
<1>1. PICK x : x = w \o t
  OBVIOUS
<1>2. /\ x \in Seq(DownRecord) /\ DOMAIN x = 1 .. Len(w) + Len(t)
      /\ Len(w) \in Nat /\ Len(t) \in Nat
      /\ (\A i \in 1 .. Len(w) : x[i] = w[i])
      /\ \A i \in 1 .. Len(w) + Len(t) : i > Len(w) => x[i] = t[i - Len(w)]
  BY <1>1, Follows
<1>3. ASSUME NEW i \in DOMAIN x PROVE x[i].type # "appdata"
  <2>1. CASE i <= Len(w)
    <3>1. i \in DOMAIN w /\ x[i] = w[i]
      BY <1>2, <2>1
    <3> QED BY <3>1 DEF NoData
  <2>2. CASE i > Len(w)
    <3>1. i - Len(w) \in DOMAIN t /\ x[i] = t[i - Len(w)]
      BY <1>2, <2>2
    <3> QED BY <3>1 DEF NoData
  <2> QED BY <1>2, <2>1, <2>2
<1> QED BY <1>1, <1>2, <1>3 DEF NoData

\* What a server shows, when more follows, when a client takes the first record and
\* when the end is lost.
LEMMA ShownFollows ==
    ASSUME NEW w \in Seq(DownRecord), NEW t \in Seq(DownRecord), NEW creds,
           \A i \in DOMAIN w : ShownBy(w[i], creds), \A i \in DOMAIN t : ShownBy(t[i], creds)
    PROVE  \A i \in DOMAIN (w \o t) : ShownBy((w \o t)[i], creds)
<1>1. PICK x : x = w \o t
  OBVIOUS
<1>2. /\ x \in Seq(DownRecord) /\ DOMAIN x = 1 .. Len(w) + Len(t)
      /\ Len(w) \in Nat /\ Len(t) \in Nat
      /\ (\A i \in 1 .. Len(w) : x[i] = w[i])
      /\ \A i \in 1 .. Len(w) + Len(t) : i > Len(w) => x[i] = t[i - Len(w)]
  BY <1>1, Follows
<1>3. ASSUME NEW i \in DOMAIN x PROVE ShownBy(x[i], creds)
  <2>1. CASE i <= Len(w)
    <3>1. i \in DOMAIN w /\ x[i] = w[i]
      BY <1>2, <2>1
    <3> QED BY <3>1
  <2>2. CASE i > Len(w)
    <3>1. i - Len(w) \in DOMAIN t /\ x[i] = t[i - Len(w)]
      BY <1>2, <2>2
    <3> QED BY <3>1
  <2> QED BY <1>2, <2>1, <2>2
<1> QED BY <1>1, <1>3

\* The same of what is left when the first record is taken.
LEMMA ShownTaken ==
    ASSUME NEW w \in Seq(DownRecord), w # <<>>, NEW creds,
           \A i \in DOMAIN w : ShownBy(w[i], creds)
    PROVE  /\ ShownBy(Head(w), creds)
           /\ \A i \in DOMAIN Tail(w) : ShownBy(Tail(w)[i], creds)
<1>1. PICK x : x = Tail(w)
  OBVIOUS
<1>2. /\ DOMAIN x = 1 .. Len(w) - 1 /\ DOMAIN w = 1 .. Len(w) /\ Len(w) \in Nat /\ Len(w) > 0
      /\ (\A i \in 1 .. Len(w) - 1 : x[i] = w[i + 1]) /\ Head(w) = w[1]
  BY <1>1, FirstTaken
<1>3. ASSUME NEW i \in DOMAIN x PROVE ShownBy(x[i], creds)
  <2>1. i + 1 \in DOMAIN w /\ x[i] = w[i + 1]
    BY <1>2
  <2> QED BY <2>1
<1>4. 1 \in DOMAIN w
  BY <1>2
<1> QED BY <1>1, <1>2, <1>3, <1>4

\* A queue without lines, when the first record is taken.
LEMMA NoDataTaken ==
    ASSUME NEW T, NEW w \in Seq(T), w # <<>>, NoData(w)
    PROVE  NoData(Tail(w)) /\ Head(w).type # "appdata"
<1>1. PICK x : x = Tail(w)
  OBVIOUS
<1>2. /\ DOMAIN x = 1 .. Len(w) - 1 /\ DOMAIN w = 1 .. Len(w) /\ Len(w) \in Nat /\ Len(w) > 0
      /\ (\A i \in 1 .. Len(w) - 1 : x[i] = w[i + 1]) /\ Head(w) = w[1]
  BY <1>1, FirstTaken
<1>3. ASSUME NEW i \in DOMAIN x PROVE x[i].type # "appdata"
  <2>1. i + 1 \in DOMAIN w /\ x[i] = w[i + 1]
    BY <1>2
  <2> QED BY <2>1 DEF NoData
<1>4. 1 \in DOMAIN w
  BY <1>2
<1> QED BY <1>1, <1>2, <1>3, <1>4 DEF NoData

\* What a client has said, when the relay takes the first record of it.
LEMMA SaidTaken ==
    ASSUME NEW w \in Seq(UpRecord), w # <<>>
    PROVE  /\ Tail(w) \in Seq(UpRecord) /\ Head(w) \in UpRecord
           /\ LoginFirst(w) => LoginFirst(Tail(w))
           /\ HasLogin(Tail(w)) => HasLogin(w)
           /\ LoginFirst(w) /\ Head(w).type = "appdata" => ~HasLogin(Tail(w))
           /\ Head(w).type = "appdata" /\ Head(w).line.verb = "LOGIN" => HasLogin(w)
           /\ (\E i \in DOMAIN Tail(w) : Contribution(Tail(w)[i]))
                => \E i \in DOMAIN w : Contribution(w[i])
           /\ Contribution(Head(w)) => \E i \in DOMAIN w : Contribution(w[i])
<1>1. PICK x : x = Tail(w)
  OBVIOUS
<1>2. /\ x \in Seq(UpRecord) /\ Head(w) \in UpRecord
      /\ DOMAIN x = 1 .. Len(w) - 1 /\ DOMAIN w = 1 .. Len(w) /\ Len(w) \in Nat /\ Len(w) > 0
      /\ (\A i \in 1 .. Len(w) - 1 : x[i] = w[i + 1]) /\ Head(w) = w[1]
  BY <1>1, FirstTaken
<1>3. \A i \in DOMAIN x : i + 1 \in DOMAIN w /\ x[i] = w[i + 1] /\ 1 < i + 1
  BY <1>2
<1>4. 1 \in DOMAIN w
  BY <1>2
<1>5. LoginFirst(w) => LoginFirst(x)
  <2> SUFFICES ASSUME LoginFirst(w), NEW i \in DOMAIN x, NEW j \in DOMAIN x,
                      IsLogin(x[i]), j < i
               PROVE  x[j].type # "appdata"
    BY DEF LoginFirst
  <2>1. j + 1 < i + 1
    BY <1>2
  <2> QED BY <1>3, <2>1 DEF LoginFirst
<1>6. HasLogin(x) => HasLogin(w)
  BY <1>3 DEF HasLogin
<1>7. LoginFirst(w) /\ Head(w).type = "appdata" => ~HasLogin(x)
  BY <1>2, <1>3, <1>4 DEF LoginFirst, HasLogin
<1>8. Head(w).type = "appdata" /\ Head(w).line.verb = "LOGIN" => HasLogin(w)
  BY <1>2, <1>4 DEF HasLogin, IsLogin
<1>9. (\E i \in DOMAIN x : Contribution(x[i])) => \E i \in DOMAIN w : Contribution(w[i])
  BY <1>3
<1> QED BY <1>1, <1>2, <1>4, <1>5, <1>6, <1>7, <1>8, <1>9

\* What a client has said, when it says more.
LEMMA SaidMore ==
    ASSUME NEW w \in Seq(UpRecord), NEW r \in UpRecord
    PROVE  /\ w \o <<r>> \in Seq(UpRecord)
           /\ LoginFirst(w) /\ (~IsLogin(r) \/ NoData(w)) => LoginFirst(w \o <<r>>)
           /\ ~IsLogin(r) => (HasLogin(w \o <<r>>) => HasLogin(w))
           /\ NoData(w) => ~HasLogin(w)
           /\ NoData(w) /\ r.type # "appdata" => NoData(w \o <<r>>)
           /\ (\E i \in DOMAIN (w \o <<r>>) : Contribution((w \o <<r>>)[i]))
                => (\E i \in DOMAIN w : Contribution(w[i])) \/ Contribution(r)
<1>1. PICK x : x = w \o <<r>>
  OBVIOUS
<1>2. /\ x \in Seq(UpRecord) /\ Len(w) \in Nat
      /\ DOMAIN x = 1 .. Len(w) + 1 /\ DOMAIN w = 1 .. Len(w)
      /\ (\A i \in 1 .. Len(w) : x[i] = w[i]) /\ x[Len(w) + 1] = r
  BY <1>1, OneMore
<1>3. \A i \in DOMAIN x : \/ i \in DOMAIN w /\ x[i] = w[i]
                          \/ i = Len(w) + 1 /\ x[i] = r
  BY <1>2
<1>4. \A i \in DOMAIN w : i < Len(w) + 1
  BY <1>2
<1>5. ASSUME LoginFirst(w), ~IsLogin(r) \/ NoData(w) PROVE LoginFirst(x)
  <2> SUFFICES ASSUME NEW i \in DOMAIN x, NEW j \in DOMAIN x, IsLogin(x[i]), j < i
               PROVE  x[j].type # "appdata"
    BY DEF LoginFirst
  <2>1. CASE i \in DOMAIN w /\ x[i] = w[i]
    <3>1. j \in DOMAIN w /\ x[j] = w[j]
      BY <1>2, <2>1
    <3> QED BY <1>5, <2>1, <3>1 DEF LoginFirst
  <2>2. CASE i = Len(w) + 1 /\ x[i] = r
    <3>1. NoData(w)
      BY <1>5, <2>2
    <3>2. j \in DOMAIN w /\ x[j] = w[j]
      BY <1>2, <2>2
    <3> QED BY <3>1, <3>2 DEF NoData
  <2> QED BY <1>3, <2>1, <2>2
<1>6. ~IsLogin(r) => (HasLogin(x) => HasLogin(w))
  BY <1>3 DEF HasLogin
<1>7. NoData(w) => ~HasLogin(w)
  BY DEF NoData, HasLogin, IsLogin
<1>8. NoData(w) /\ r.type # "appdata" => NoData(x)
  BY <1>3 DEF NoData
<1>9. (\E i \in DOMAIN x : Contribution(x[i]))
        => (\E i \in DOMAIN w : Contribution(w[i])) \/ Contribution(r)
  BY <1>3
<1> QED BY <1>1, <1>2, <1>5, <1>6, <1>7, <1>8, <1>9

-----------------------------------------------------------------------------
(* What a server does to its connections, and to what is on the way from it. *)

\* Nothing that is seen from outside.
Kept(x) ==
    /\ conns'[x] \in ConnType
    /\ conns'[x].st = conns[x].st /\ conns'[x].hs = conns[x].hs
    /\ conns'[x].user = conns[x].user /\ conns'[x].sess.up = conns[x].sess.up
    /\ conns[x].st = "none" => conns'[x] = conns[x]
    /\ down'[x] = down[x]

\* A line is sent.
Grows(x, line) ==
    /\ conns'[x] \in ConnType
    /\ conns'[x].st = conns[x].st /\ conns'[x].hs = conns[x].hs
    /\ conns[x].sess.up /\ conns'[x].sess.up
    /\ \E r \in Data(Told) : r.line = line /\ down'[x] = down[x] \o <<r>>

\* Nobody logs in or out on the connection.
SameUser(x) == conns'[x].user = conns[x].user

\* Who is registered at the same server.
Colleague(x, c) == Registered(x) /\ Site(x) = Site(c)

\* A line that is answered to its sender alone.
Reply(c) ==
    /\ \A x \in Clients \ {c} : Kept(x)
    /\ SameUser(c) /\ byName' = byName
    /\ \E verb \in {"ERR", "USERS"} : Grows(c, Line(verb, NoName, 0))

\* A line that is answered with nothing.
Wants(c) == (\A x \in Clients : Kept(x)) /\ byName' = byName

\* A message, queued for the one it names.
Post(c, to, m) ==
    /\ Registered(c) /\ Roster(c)[to] # NoClient
    /\ \A x \in Clients \ {Roster(c)[to]} : Kept(x)
    /\ SameUser(Roster(c)[to]) /\ byName' = byName
    /\ Grows(Roster(c)[to], Line("FROM", conns[c].user, m))

\* A login: the user is told OK, the others that the user joined.
Join(c, n) ==
    /\ ~Registered(c) /\ Roster(c)[n] = NoClient
    /\ byName' = [byName EXCEPT ![Site(c)][n] = c]
    /\ conns'[c].user = n /\ Grows(c, Line("OK", n, 0))
    /\ \A x \in Clients \ {c} :
        IF Colleague(x, c) THEN SameUser(x) /\ Grows(x, Line("joined", n, 0)) ELSE Kept(x)

\* All that a line sent to a server can do.
LineEffect(c, line) ==
    \/ Reply(c) \/ Wants(c)
    \/ line.verb = "MSG" /\ line.name \in Names /\ Post(c, line.name, line.msg)
    \/ line.verb = "LOGIN" /\ line.name \in Names /\ Join(c, line.name)

\* Connections with no or another session.
LEMMA ConnTypes ==
    /\ NoSession \in SessionType /\ NoConn \in ConnType /\ NewHandshake \in HandshakeType
    /\ NoConn.sess = NoSession /\ ~NoConn.sess.up /\ NoConn.user = NoName /\ NoConn.st = "none"
    /\ ~NoSession.up
BY DEF NoSession, SessionType, NoConn, ConnType, NewHandshake, HandshakeType

\* A session that is counted on.
LEMMA Counts ==
    ASSUME NEW s \in SessionType
    PROVE  /\ Counted(s) \in SessionType /\ Counted(s).up = s.up
           /\ Opened(s) \in SessionType /\ Opened(s).up = s.up
BY DEF SessionType, Counted, Opened

\* What a line sealed is.
LEMMA SealedIs ==
    ASSUME NEW s \in SessionType, NEW L, NEW line \in L
    PROVE  Sealed(s, line) \in Data(L) /\ Sealed(s, line).line = line
           /\ Sealed(s, line).type = "appdata"
<1>1. s.keys \in {None} \cup [th : Clients \X Certs, pubs :
      (Clients \X {"server"}) \X (Clients \X {"client"})]
      /\ s.role \in {"Client", "Server"} /\ s.tx \in Nat
  BY DEF SessionType, Certs
<1>2. s.keys \in {None} \cup KeysType
  BY <1>1 DEF KeysType, ServerPubs, ClientPubs
<1> QED BY <1>1, <1>2 DEF Sealed, Data

\* A connection whose session changes, and one to be closed.
LEMMA ConnChanges ==
    ASSUME NEW p \in ConnType, NEW s \in SessionType, NEW n \in Names \cup {NoName}
    PROVE  /\ [p EXCEPT !.sess = s] \in ConnType
           /\ [p EXCEPT !.sess = s].st = p.st /\ [p EXCEPT !.sess = s].hs = p.hs
           /\ [p EXCEPT !.sess = s].user = p.user /\ [p EXCEPT !.sess = s].sess = s
           /\ [p EXCEPT !.want = TRUE] \in ConnType
           /\ [p EXCEPT !.want = TRUE].st = p.st /\ [p EXCEPT !.want = TRUE].hs = p.hs
           /\ [p EXCEPT !.want = TRUE].user = p.user /\ [p EXCEPT !.want = TRUE].sess = p.sess
           /\ [p EXCEPT !.user = n] \in ConnType
           /\ [p EXCEPT !.user = n].st = p.st /\ [p EXCEPT !.user = n].hs = p.hs
           /\ [p EXCEPT !.user = n].user = n /\ [p EXCEPT !.user = n].sess = p.sess
BY DEF ConnType

\* A connection after a line: its counter, and nothing else.
LEMMA AfterLineIs ==
    ASSUME NEW p \in ConnType, p.sess.up, NEW line \in Told
    PROVE  /\ AfterLine(p) \in ConnType
           /\ AfterLine(p).st = p.st /\ AfterLine(p).hs = p.hs /\ AfterLine(p).user = p.user
           /\ AfterLine(p).sess.up
           /\ \E r \in Data(Told) : r.line = line /\ Queued(p, line) = <<r>>
<1>1. p.sess \in SessionType
  BY DEF ConnType
<1>2. AfterLine(p) = [p EXCEPT !.sess = Counted(p.sess)]
  BY DEF AfterLine
<1>3. Queued(p, line) = <<Sealed(p.sess, line)>>
  BY DEF Queued
<1>4. p.user \in Names \cup {NoName}
  BY DEF ConnType
<1>5. PICK s : s = Counted(p.sess)
  OBVIOUS
<1>6. s \in SessionType /\ s.up
  BY <1>1, <1>5, Counts
<1>7. PICK q : q = [p EXCEPT !.sess = s]
  OBVIOUS
<1>8. q \in ConnType /\ q.st = p.st /\ q.hs = p.hs /\ q.user = p.user /\ q.sess = s
  BY <1>4, <1>6, <1>7, ConnChanges
<1>9. \E r \in Data(Told) : r.line = line /\ Queued(p, line) = <<r>>
  BY <1>1, <1>3, SealedIs
<1> QED BY <1>2, <1>5, <1>6, <1>7, <1>8, <1>9

\* The lines a server sends.
LEMMA ServerLines ==
    ASSUME NEW n \in Names \cup {NoName}, NEW m \in 0 .. MaxLines,
           NEW verb \in {"OK", "ERR", "USERS", "FROM", "joined", "left"}
    PROVE  Line(verb, n, m) \in Told /\ Line(verb, n, 0) \in Told
<1>1. 0 \in 0 .. MaxLines
  BY CertChatAssumption
<1> QED BY <1>1 DEF Line, Told

\* The state a line is handled in: its record has been opened.
LEMMA OpenedState ==
    ASSUME TypesOK, NEW c \in Clients, conns[c].sess.up
    PROVE  LET s == [Now EXCEPT !.conns[c].sess = Opened(@)] IN
           /\ s.down = down /\ s.conns[c] \in ConnType
           /\ s.conns[c].st = conns[c].st /\ s.conns[c].hs = conns[c].hs
           /\ s.conns[c].user = conns[c].user /\ s.conns[c].sess.up
           /\ s.conns \in [Clients -> ConnType]
           /\ \A x \in Clients \ {c} : s.conns[x] = conns[x]
<1>1. conns[c] \in ConnType /\ conns \in [Clients -> ConnType]
  BY DEF TypesOK
<1>2. conns[c].sess \in SessionType /\ conns[c].user \in Names \cup {NoName}
  BY <1>1 DEF ConnType
<1>3. PICK p : p = [conns[c] EXCEPT !.sess = Opened(conns[c].sess)]
  OBVIOUS
<1>4. /\ p \in ConnType /\ p.st = conns[c].st /\ p.hs = conns[c].hs /\ p.user = conns[c].user
      /\ p.sess.up
  <2>1. PICK s : s = Opened(conns[c].sess)
    OBVIOUS
  <2>2. s \in SessionType /\ s.up
    BY <1>2, <2>1, Counts
  <2>3. p = [conns[c] EXCEPT !.sess = s]
    BY <1>3, <2>1
  <2>4. /\ p \in ConnType /\ p.st = conns[c].st /\ p.hs = conns[c].hs
        /\ p.user = conns[c].user /\ p.sess = s
    BY <1>1, <1>2, <2>2, <2>3, ConnChanges, ZenonT(30)
  <2> QED BY <2>2, <2>4
<1>5. PICK s : s = [Now EXCEPT !.conns[c].sess = Opened(@)]
  OBVIOUS
<1>6. s.down = down /\ s.conns = [conns EXCEPT ![c] = p]
  BY <1>3, <1>5 DEF Now
<1>7. s.conns[c] = p /\ s.conns \in [Clients -> ConnType]
      /\ \A x \in Clients \ {c} : s.conns[x] = conns[x]
  BY <1>1, <1>4, <1>6
<1> QED BY <1>4, <1>5, <1>6, <1>7

\* What is sent to some, at each connection.
LEMMA SendsIs ==
    ASSUME NEW st, NEW whom, NEW line, NEW x \in Clients
    PROVE  /\ SendLines(st, whom, line).conns[x]
                = IF x \in whom THEN AfterLine(st.conns[x]) ELSE st.conns[x]
           /\ SendLines(st, whom, line).down[x]
                = IF x \in whom THEN st.down[x] \o Queued(st.conns[x], line) ELSE st.down[x]
BY DEF SendLines

\* A connection that is told a line after its record was opened.
LEMMA GrowsFrom ==
    ASSUME TypesOK, NEW x \in Clients, NEW p \in ConnType, NEW line \in Told,
           p.sess.up, conns[x].sess.up, p.st = conns[x].st, p.hs = conns[x].hs,
           conns'[x] = AfterLine(p), down'[x] = down[x] \o Queued(p, line)
    PROVE  Grows(x, line) /\ conns'[x].user = p.user
BY AfterLineIs DEF Grows

\* The same, when the connection is to be closed.
LEMMA GrowsFromClosing ==
    ASSUME TypesOK, NEW x \in Clients, NEW p \in ConnType, NEW line \in Told,
           p.sess.up, conns[x].sess.up, p.st = conns[x].st, p.hs = conns[x].hs,
           conns'[x] = [AfterLine(p) EXCEPT !.want = TRUE],
               down'[x] = down[x] \o Queued(p, line)
    PROVE  Grows(x, line) /\ conns'[x].user = p.user
<1>1. PICK q : q = AfterLine(p)
  OBVIOUS
<1>2. /\ q \in ConnType /\ q.st = p.st /\ q.hs = p.hs /\ q.user = p.user /\ q.sess.up
      /\ \E r \in Data(Told) : r.line = line /\ Queued(p, line) = <<r>>
  BY <1>1, AfterLineIs
<1>3. q.sess \in SessionType /\ q.user \in Names \cup {NoName}
  BY <1>2 DEF ConnType
<1>4. PICK z : z = [q EXCEPT !.want = TRUE]
  OBVIOUS
<1>5. z \in ConnType /\ z.st = q.st /\ z.hs = q.hs /\ z.user = q.user /\ z.sess = q.sess
  BY <1>2, <1>3, <1>4, ConnChanges
<1> QED BY <1>1, <1>2, <1>4, <1>5 DEF Grows

\* A connection that nothing is done to.
LEMMA SameIsKept ==
    ASSUME TypesOK, NEW x \in Clients, conns'[x] = conns[x], down'[x] = down[x]
    PROVE  Kept(x)
BY DEF TypesOK, Kept

\* An error or a list of users goes to the one who asked.
LEMMA ReplyIs ==
    ASSUME TypesOK, NEW c \in Clients, conns[c].sess.up,
           NEW verb \in {"ERR", "USERS"}, NEW st,
           st = [Now EXCEPT !.conns[c].sess = Opened(@)],
           \/ Becomes(SendLine(st, c, Line(verb, NoName, 0)))
           \/ Becomes(Closing(SendLine(st, c, Line(verb, NoName, 0)), c)),
           byName' = byName
    PROVE  Reply(c)
<1>1. PICK line : line = Line(verb, NoName, 0)
  OBVIOUS
<1>2. line \in Told
  <2>1. 0 \in 0 .. MaxLines
    BY CertChatAssumption
  <2> QED BY <1>1, <2>1, ServerLines
<1>3. PICK p : p = st.conns[c]
  OBVIOUS
<1>4. /\ p \in ConnType /\ p.st = conns[c].st /\ p.hs = conns[c].hs
      /\ p.user = conns[c].user /\ p.sess.up /\ st.down = down
      /\ \A x \in Clients \ {c} : st.conns[x] = conns[x]
  BY <1>3, OpenedState
<1>5. PICK s : s = SendLines(st, {c}, line)
  OBVIOUS
<1>6. /\ s.conns[c] = AfterLine(p) /\ s.down[c] = down[c] \o Queued(p, line)
      /\ \A x \in Clients \ {c} : s.conns[x] = conns[x] /\ s.down[x] = down[x]
      /\ DOMAIN s.conns = Clients
  BY <1>3, <1>4, <1>5, SendsIs DEF SendLines
<1>7. CASE Becomes(SendLine(st, c, Line(verb, NoName, 0)))
  <2>1. conns' = s.conns /\ down' = s.down
    BY <1>1, <1>5, <1>7 DEF Becomes, SendLine
  <2>2. Grows(c, line) /\ conns'[c].user = p.user
    BY <1>2, <1>4, <1>6, <2>1, GrowsFrom
  <2>3. \A x \in Clients \ {c} : Kept(x)
    BY <1>6, <2>1, SameIsKept
  <2> QED BY <1>1, <1>4, <2>2, <2>3 DEF Reply, SameUser
<1>8. CASE Becomes(Closing(SendLine(st, c, Line(verb, NoName, 0)), c))
  <2>1. conns' = [s.conns EXCEPT ![c].want = TRUE] /\ down' = s.down
    <3>1. s = [conns |-> s.conns, down |-> s.down]
      BY <1>5 DEF SendLines
    <3> QED BY <1>1, <1>5, <1>8, <3>1 DEF Becomes, SendLine, Closing
  <2>2. conns'[c] = [AfterLine(p) EXCEPT !.want = TRUE]
        /\ \A x \in Clients \ {c} : conns'[x] = conns[x]
    BY <1>6, <2>1
  <2>3. Grows(c, line) /\ conns'[c].user = p.user
    BY <1>2, <1>4, <1>6, <2>1, <2>2, GrowsFromClosing
  <2>4. \A x \in Clients \ {c} : Kept(x)
    BY <1>6, <2>1, <2>2, SameIsKept
  <2> QED BY <1>1, <1>4, <2>3, <2>4 DEF Reply, SameUser
<1> QED BY <1>7, <1>8

\* A QUIT is nothing but a wish.
LEMMA WantsIs ==
    ASSUME TypesOK, NEW c \in Clients, conns[c].sess.up, conns[c].st # "none", NEW st,
           st = [Now EXCEPT !.conns[c].sess = Opened(@)],
           Becomes(Closing(st, c)), byName' = byName
    PROVE  Wants(c)
<1>1. PICK p : p = st.conns[c]
  OBVIOUS
<1>2. /\ p \in ConnType /\ p.st = conns[c].st /\ p.hs = conns[c].hs
      /\ p.user = conns[c].user /\ p.sess.up /\ st.down = down
      /\ st.conns \in [Clients -> ConnType]
      /\ \A x \in Clients \ {c} : st.conns[x] = conns[x]
  BY <1>1, OpenedState
<1>3. conns' = [st.conns EXCEPT ![c].want = TRUE] /\ down' = st.down
  <2>1. st = [conns |-> st.conns, down |-> st.down]
    BY DEF Now
  <2> QED BY <2>1 DEF Becomes, Closing
<1>4. conns'[c] = [p EXCEPT !.want = TRUE] /\ \A x \in Clients \ {c} : conns'[x] = conns[x]
  BY <1>1, <1>2, <1>3
<1>5. p.sess \in SessionType /\ p.user \in Names \cup {NoName}
  BY <1>2 DEF ConnType
<1>6. PICK z : z = [p EXCEPT !.want = TRUE]
  OBVIOUS
<1>7. z \in ConnType /\ z.st = p.st /\ z.hs = p.hs /\ z.user = p.user /\ z.sess = p.sess
  BY <1>2, <1>5, <1>6, ConnChanges
<1>8. Kept(c)
  <2>1. conns'[c].sess.up = conns[c].sess.up
    BY <1>2, <1>4, <1>6, <1>7 DEF TypesOK, ConnType, SessionType
  <2> QED BY <1>2, <1>3, <1>4, <1>6, <1>7, <2>1 DEF Kept
<1>9. \A x \in Clients \ {c} : Kept(x)
  BY <1>2, <1>3, <1>4, SameIsKept
<1> QED BY <1>8, <1>9 DEF Wants

\* A roster that is too long is counted, and that is all.
LEMMA CountsIs ==
    ASSUME TypesOK, NEW c \in Clients, conns[c].sess.up, conns[c].st # "none", NEW st,
           st = [Now EXCEPT !.conns[c].sess = Opened(@)],
           Becomes([st EXCEPT !.conns[c].sess = Counted(@)]), byName' = byName
    PROVE  Wants(c)
<1>1. PICK p : p = st.conns[c]
  OBVIOUS
<1>2. /\ p \in ConnType /\ p.st = conns[c].st /\ p.hs = conns[c].hs
      /\ p.user = conns[c].user /\ p.sess.up /\ st.down = down
      /\ st.conns \in [Clients -> ConnType]
      /\ \A x \in Clients \ {c} : st.conns[x] = conns[x]
  BY <1>1, OpenedState
<1>3. PICK s : s = Counted(p.sess)
  OBVIOUS
<1>4. /\ conns' = [st.conns EXCEPT ![c] = [p EXCEPT !.sess = s]]
      /\ down' = st.down
  <2>1. st = [conns |-> st.conns, down |-> st.down]
    BY DEF Now
  <2> QED BY <1>1, <1>3, <2>1 DEF Becomes
<1>5. p.sess \in SessionType /\ p.user \in Names \cup {NoName}
  BY <1>2 DEF ConnType
<1>6. s \in SessionType /\ s.up = p.sess.up
  BY <1>3, <1>5, Counts
<1>7. PICK z : z = [p EXCEPT !.sess = s]
  OBVIOUS
<1>8. z \in ConnType /\ z.st = p.st /\ z.hs = p.hs /\ z.user = p.user /\ z.sess = s
  BY <1>2, <1>5, <1>6, <1>7, ConnChanges, ZenonT(30)
<1>9. conns'[c] = z /\ \A x \in Clients \ {c} : conns'[x] = conns[x]
  BY <1>2, <1>4, <1>7
<1>10. Kept(c)
  <2>1. conns'[c].sess.up = conns[c].sess.up
    BY <1>2, <1>6, <1>8, <1>9 DEF TypesOK, ConnType, SessionType
  <2> QED BY <1>2, <1>4, <1>8, <1>9, <2>1 DEF Kept
<1>11. \A x \in Clients \ {c} : Kept(x)
  BY <1>2, <1>4, <1>9, SameIsKept
<1> QED BY <1>10, <1>11 DEF Wants

\* A line that names somebody online goes there.
LEMMA PostIs ==
    ASSUME TypesOK, NEW c \in Clients, conns[c].sess.up, conns[c].st # "none", Registered(c),
           NEW to \in Names, NEW m \in 1 .. MaxLines, NEW st,
           st = [Now EXCEPT !.conns[c].sess = Opened(@)],
           Roster(c)[to] \in Clients, conns[Roster(c)[to]].sess.up,
           Becomes(SendLine(st, Roster(c)[to], Line("FROM", conns[c].user, m))),
           byName' = byName
    PROVE  Post(c, to, m)
<1>1. PICK line, g : line = Line("FROM", conns[c].user, m) /\ g = Roster(c)[to]
  OBVIOUS
<1>2. line \in Told
  <2>1. m \in 0 .. MaxLines
    BY CertChatAssumption
  <2>2. conns[c].user \in Names \cup {NoName}
    BY DEF TypesOK, ConnType
  <2> QED BY <1>1, <2>1, <2>2, ServerLines
<1>3. PICK p : p = st.conns[c]
  OBVIOUS
<1>4. /\ p \in ConnType /\ p.st = conns[c].st /\ p.hs = conns[c].hs
      /\ p.user = conns[c].user /\ p.sess.up /\ st.down = down
      /\ \A x \in Clients \ {c} : st.conns[x] = conns[x]
  BY <1>3, OpenedState
<1>5. PICK s : s = SendLines(st, {g}, line)
  OBVIOUS
<1>6. g \in Clients /\ conns' = s.conns /\ down' = s.down
  BY <1>1, <1>5 DEF Becomes, SendLine
<1>7. /\ conns'[g] = AfterLine(st.conns[g]) /\ down'[g] = down[g] \o Queued(st.conns[g], line)
      /\ \A x \in Clients \ {g} : conns'[x] = st.conns[x] /\ down'[x] = down[x]
  <2>1. /\ s.conns[g] = AfterLine(st.conns[g])
        /\ s.down[g] = st.down[g] \o Queued(st.conns[g], line)
        /\ \A x \in Clients \ {g} : s.conns[x] = st.conns[x] /\ s.down[x] = st.down[x]
    BY <1>5, <1>6 DEF SendLines
  <2> QED BY <1>4, <1>6, <2>1
<1>8. /\ st.conns[g] \in ConnType /\ st.conns[g].sess.up /\ st.conns[g].st = conns[g].st
      /\ st.conns[g].hs = conns[g].hs /\ st.conns[g].user = conns[g].user
  <2>1. CASE g = c
    BY <1>3, <1>4, <2>1
  <2>2. CASE g # c
    BY <1>1, <1>4, <1>6, <2>2 DEF TypesOK
  <2> QED BY <2>1, <2>2
<1>9. Grows(g, line) /\ SameUser(g)
  <2>1. PICK q : q = st.conns[g]
    OBVIOUS
  <2>2. Grows(g, line) /\ conns'[g].user = q.user
    <3>1. /\ conns'[g] = AfterLine(q) /\ down'[g] = down[g] \o Queued(q, line)
          /\ q \in ConnType /\ q.sess.up /\ q.st = conns[g].st /\ q.hs = conns[g].hs
      BY <1>7, <1>8, <2>1
    <3>2. conns[g].sess.up /\ g \in Clients
      BY <1>1, <1>6
    <3> QED BY <1>2, <3>1, <3>2, GrowsFrom
  <2> QED BY <1>8, <2>1, <2>2 DEF SameUser
<1>10. ASSUME NEW x \in Clients \ {g} PROVE Kept(x)
  <2>1. CASE x = c
    <3>1. conns'[c].sess.up = conns[c].sess.up
      BY <1>3, <1>4, <1>7, <2>1, ZenonT(30) DEF TypesOK, ConnType, SessionType
    <3> QED BY <1>3, <1>4, <1>7, <2>1, <3>1 DEF Kept
  <2>2. CASE x # c
    BY <1>4, <1>7, <2>2, SameIsKept
  <2> QED BY <2>1, <2>2
<1>11. g # NoClient
  BY <1>6, CertChatAssumption
<1> QED BY <1>1, <1>9, <1>10, <1>11 DEF Post

\* A LOGIN that finds its name free.
LEMMA JoinIs ==
    ASSUME TypesOK, NEW c \in Clients, conns[c].sess.up, conns[c].st # "none", ~Registered(c),
           \A x \in Clients : Registered(x) => conns[x].sess.up,
           NEW n \in Names, Roster(c)[n] = NoClient, NEW st,
           st = [Now EXCEPT !.conns[c].sess = Opened(@)],
           Becomes(Broadcast(SendLine([st EXCEPT !.conns[c].user = n], c, Line("OK", n, 0)),
                             Line("joined", n, 0), c)),
           byName' = [byName EXCEPT ![Site(c)][n] = c]
    PROVE  Join(c, n)
<1>1. PICK ok, joined : ok = Line("OK", n, 0) /\ joined = Line("joined", n, 0)
  OBVIOUS
<1>2. ok \in Told /\ joined \in Told
  <2>1. 0 \in 0 .. MaxLines
    BY CertChatAssumption
  <2> QED BY <1>1, <2>1, ServerLines
<1>3. PICK p : p = st.conns[c]
  OBVIOUS
<1>4. /\ p \in ConnType /\ p.st = conns[c].st /\ p.hs = conns[c].hs
      /\ p.user = conns[c].user /\ p.sess.up /\ st.down = down
      /\ st.conns \in [Clients -> ConnType]
      /\ \A x \in Clients \ {c} : st.conns[x] = conns[x]
  BY <1>3, OpenedState
<1>5. PICK q : q = [p EXCEPT !.user = n]
  OBVIOUS
<1>6. q \in ConnType /\ q.st = p.st /\ q.hs = p.hs /\ q.user = n /\ q.sess = p.sess
  <2>1. p.sess \in SessionType
    BY <1>4 DEF ConnType
  <2>2. n \in Names \cup {NoName}
    OBVIOUS
  <2>3. p \in ConnType
    BY <1>4
  <2> QED BY <1>5, <2>2, <2>3 DEF ConnType
<1>7. PICK named : named = [st EXCEPT !.conns[c].user = n]
  OBVIOUS
<1>8. /\ named.conns[c] = q /\ named.down = down
      /\ \A x \in Clients \ {c} : named.conns[x] = conns[x]
  <2>1. st = [conns |-> st.conns, down |-> st.down]
    BY DEF Now
  <2>2. named.conns = [st.conns EXCEPT ![c].user = n] /\ named.down = st.down
    BY <1>7, <2>1
  <2> QED BY <1>3, <1>4, <1>5, <2>2
<1>9. PICK s : s = SendLines(named, {c}, ok)
  OBVIOUS
<1>10. /\ s.conns[c] = AfterLine(q) /\ s.down[c] = down[c] \o Queued(q, ok)
       /\ \A x \in Clients \ {c} : s.conns[x] = conns[x] /\ s.down[x] = down[x]
  <2>1. /\ s.conns[c] = AfterLine(named.conns[c])
        /\ s.down[c] = named.down[c] \o Queued(named.conns[c], ok)
        /\ \A x \in Clients \ {c} : s.conns[x] = named.conns[x] /\ s.down[x] = named.down[x]
    BY <1>9 DEF SendLines
  <2> QED BY <1>8, <2>1
<1>11. PICK whom : whom = {x \in Clients \ {c} : Registered(x) /\ Site(x) = Site(c)}
  OBVIOUS
<1>12. PICK t : t = SendLines(s, whom, joined)
  OBVIOUS
<1>13. conns' = t.conns /\ down' = t.down
  BY <1>1, <1>7, <1>9, <1>11, <1>12 DEF Becomes, Broadcast, SendLine
<1>14. conns'[c] = AfterLine(q) /\ down'[c] = down[c] \o Queued(q, ok)
  BY <1>10, <1>11, <1>12, <1>13, SendsIs, SMTT(30)
<1>15. Grows(c, ok) /\ conns'[c].user = n
  BY <1>2, <1>4, <1>6, <1>14, GrowsFrom
<1>16. ASSUME NEW x \in Clients \ {c}
       PROVE  IF Colleague(x, c) THEN SameUser(x) /\ Grows(x, joined) ELSE Kept(x)
  <2>1. CASE Colleague(x, c)
    <3>1. x \in whom
      BY <1>11, <2>1 DEF Colleague
    <3>2. conns'[x] = AfterLine(conns[x]) /\ down'[x] = down[x] \o Queued(conns[x], joined)
      <4>1. t.conns[x] = AfterLine(s.conns[x])
            /\ t.down[x] = s.down[x] \o Queued(s.conns[x], joined)
        BY <1>12, <3>1 DEF SendLines
      <4> QED BY <1>10, <1>13, <4>1
    <3>3. conns[x] \in ConnType /\ conns[x].sess.up
      BY <2>1 DEF TypesOK, Colleague
    <3>4. Grows(x, joined) /\ SameUser(x)
      BY <1>2, <3>2, <3>3, GrowsFrom DEF SameUser
    <3> QED BY <2>1, <3>4
  <2>2. CASE ~Colleague(x, c)
    <3>1. x \notin whom
      BY <1>11, <2>2 DEF Colleague
    <3>2. conns'[x] = conns[x] /\ down'[x] = down[x]
      BY <1>10, <1>12, <1>13, <3>1, SendsIs
    <3> QED BY <2>2, <3>2, SameIsKept
  <2> QED BY <2>1, <2>2
<1> QED BY <1>1, <1>15, <1>16 DEF Join

\* Connections and queues are functions on the clients.
Shape ==
    /\ conns' = [x \in Clients |-> conns'[x]]
    /\ down' = [x \in Clients |-> down'[x]]

\* Whatever is sent, they stay so.
LEMMA SendsShape ==
    ASSUME NEW st, NEW whom, NEW line,
           Becomes(SendLines(st, whom, line))
    PROVE  Shape
BY DEF SendLines, Becomes, Shape

\* Nor does closing a connection after them change that.
LEMMA ClosingShape ==
    ASSUME NEW st, NEW whom, NEW line, NEW c \in Clients,
           Becomes(Closing(SendLines(st, whom, line), c))
    PROVE  Shape
<1>1. PICK s : s = SendLines(st, whom, line)
  OBVIOUS
<1>2. s = [conns |-> s.conns, down |-> s.down] /\ DOMAIN s.conns = Clients
      /\ DOMAIN s.down = Clients
      /\ s.conns = [x \in Clients |-> s.conns[x]] /\ s.down = [x \in Clients |-> s.down[x]]
  BY <1>1 DEF SendLines
<1>3. conns' = [s.conns EXCEPT ![c].want = TRUE] /\ down' = s.down
  BY <1>1, <1>2 DEF Closing, Becomes
<1> QED BY <1>2, <1>3 DEF Shape

\* What a line does.
LEMMA HandleLineEffect ==
    ASSUME TypesOK, NamesInverse, \A x \in Clients : ConnOK(conns[x]),
           NEW c \in Clients, Site(c) \in Servers, conns[c].sess.up, conns[c].st # "none",
           NEW line \in Asked, NEW st, st = [Now EXCEPT !.conns[c].sess = Opened(@)],
           HandleLine(st, c, line)
    PROVE  LineEffect(c, line) /\ Shape
<1>1. \A x \in Clients : Registered(x) => conns[x].sess.up
  BY DEF ConnOK, Registered
<1>2. Roster(c) \in [Names -> Clients \cup {NoClient}]
  BY DEF TypesOK, Roster
<1>3. st.conns \in [Clients -> ConnType] /\ st.down = down
      /\ st = [conns |-> st.conns, down |-> st.down]
  <2>1. st = [conns |-> st.conns, down |-> st.down]
    BY DEF Now
  <2> QED BY <2>1, OpenedState
<1>4. down = [x \in Clients |-> down[x]]
  BY DEF TypesOK
<1>5. CASE /\ ~Registered(c) /\ line.verb # "LOGIN"
           /\ Becomes(Closing(SendLine(st, c, Err), c)) /\ UNCHANGED byName
  <2>1. Reply(c)
    <3>1. Becomes(Closing(SendLine(st, c, Line("ERR", NoName, 0)), c))
      BY <1>5 DEF Err
    <3>2. "ERR" \in {"ERR", "USERS"} /\ byName' = byName
      BY <1>5
    <3> QED BY <3>1, <3>2, ReplyIs
  <2>2. Shape
    BY <1>5, ClosingShape DEF SendLine
  <2> QED BY <2>1, <2>2 DEF LineEffect
<1>6. CASE line.verb = "LOGIN" /\ HandleLogin(st, c, line.name)
  <2>1. line.name \in Names
    BY <1>6 DEF Asked
  <2>2. CASE Registered(c) /\ Becomes(SendLine(st, c, Err)) /\ UNCHANGED byName
    <3>1. Becomes(SendLine(st, c, Line("ERR", NoName, 0)))
      BY <2>2 DEF Err
    <3>2. "ERR" \in {"ERR", "USERS"} /\ byName' = byName
      BY <2>2
    <3>3. Reply(c)
      BY <3>1, <3>2, ReplyIs
    <3>4. Shape
      BY <2>2, SendsShape DEF SendLine
    <3> QED BY <3>3, <3>4 DEF LineEffect
  <2>3. CASE Becomes(Closing(SendLine(st, c, Err), c)) /\ UNCHANGED byName
    <3>1. Becomes(Closing(SendLine(st, c, Line("ERR", NoName, 0)), c))
      BY <2>3 DEF Err
    <3>2. "ERR" \in {"ERR", "USERS"} /\ byName' = byName
      BY <2>3
    <3>3. Reply(c)
      BY <3>1, <3>2, ReplyIs
    <3>4. Shape
      BY <2>3, ClosingShape DEF SendLine
    <3> QED BY <3>3, <3>4 DEF LineEffect
  <2>4. CASE /\ ~Registered(c) /\ Roster(c)[line.name] = NoClient
             /\ byName' = [byName EXCEPT ![Site(c)][line.name] = c]
             /\ Becomes(Broadcast(SendLine([st EXCEPT !.conns[c].user = line.name], c,
                                           Line("OK", line.name, 0)),
                                  Line("joined", line.name, 0), c))
    <3>1. PICK n \in Names : n = line.name
      BY <2>1
    <3>2. Join(c, n)
      BY <1>1, <2>4, <3>1, JoinIs
    <3>3. Shape
      BY <2>4, SendsShape DEF Broadcast
    <3> QED BY <1>6, <2>1, <3>1, <3>2, <3>3 DEF LineEffect
  <2> QED BY <1>6, <2>2, <2>3, <2>4 DEF HandleLogin
<1>7. CASE Registered(c) /\ line.verb = "MSG" /\ HandleMsg(st, c, line.name, line.msg)
  <2>1. line.msg \in 1 .. MaxLines /\ byName' = byName
    BY <1>7 DEF Asked, HandleMsg
  <2>2. CASE line.name \in Names /\ Roster(c)[line.name] # NoClient
    <3>1. PICK to \in Names, m \in 1 .. MaxLines : to = line.name /\ m = line.msg
      BY <2>1, <2>2
    <3>2. Becomes(SendLine(st, Roster(c)[to], Line("FROM", conns[c].user, m)))
      BY <1>7, <2>2, <3>1 DEF HandleMsg
    <3>3. Roster(c)[to] \in Clients
      BY <1>2, <2>2, <3>1
    <3>4. conns[Roster(c)[to]].sess.up
      <4>1. conns[byName[Site(c)][to]].user = to
        BY <2>2, <3>1 DEF NamesInverse, Roster
      <4>2. to # NoName
        BY CertChatAssumption
      <4> QED BY <1>1, <3>3, <4>1, <4>2 DEF Registered, Roster
    <3>5. Post(c, to, m)
      BY <1>7, <2>1, <3>2, <3>3, <3>4, PostIs
    <3>6. Shape
      BY <3>2, SendsShape DEF SendLine
    <3> QED BY <1>7, <2>2, <3>1, <3>5, <3>6 DEF LineEffect
  <2>3. CASE ~(line.name \in Names /\ Roster(c)[line.name] # NoClient)
    <3>1. Becomes(SendLine(st, c, Line("ERR", NoName, 0)))
      BY <1>7, <2>3 DEF HandleMsg, Err
    <3>2. "ERR" \in {"ERR", "USERS"}
      OBVIOUS
    <3>3. Reply(c)
      BY <2>1, <3>1, <3>2, ReplyIs
    <3>4. Shape
      BY <3>1, SendsShape DEF SendLine
    <3> QED BY <3>3, <3>4 DEF LineEffect
  <2> QED BY <2>2, <2>3
<1>8. CASE Registered(c) /\ line.verb = "WHO" /\ HandleWho(st, c)
  <2>1. byName' = byName
    BY <1>8 DEF HandleWho
  <2>2. CASE Becomes(SendLine(st, c, Line("USERS", NoName, 0)))
    <3>1. "USERS" \in {"ERR", "USERS"}
      OBVIOUS
    <3>2. Reply(c)
      BY <2>1, <2>2, <3>1, ReplyIs
    <3>3. Shape
      BY <2>2, SendsShape DEF SendLine
    <3> QED BY <3>2, <3>3 DEF LineEffect
  <2>3. CASE Becomes([st EXCEPT !.conns[c].sess = Counted(@)])
    <3>1. Wants(c)
      BY <2>1, <2>3, CountsIs
    <3>2. /\ conns' = [st.conns EXCEPT ![c].sess = Counted(st.conns[c].sess)]
          /\ down' = down
      BY <1>3, <2>3 DEF Becomes
    <3>3. Shape
      BY <1>3, <1>4, <3>2 DEF Shape
    <3> QED BY <3>1, <3>3 DEF LineEffect
  <2> QED BY <1>8, <2>2, <2>3 DEF HandleWho, SendUsers
<1>9. CASE Becomes(Closing(st, c)) /\ UNCHANGED byName
  <2>1. Wants(c)
    BY <1>9, WantsIs
  <2>2. conns' = [st.conns EXCEPT ![c].want = TRUE] /\ down' = down
    BY <1>3, <1>9 DEF Becomes, Closing
  <2>3. Shape
    BY <1>3, <1>4, <2>2 DEF Shape
  <2> QED BY <2>1, <2>3 DEF LineEffect
<1> QED BY <1>5, <1>6, <1>7, <1>8, <1>9 DEF HandleLine

-----------------------------------------------------------------------------
(* The exchange. *)

\* What a record of the exchange does to its connection.
Negotiated(c, r) ==
    /\ \A x \in Clients \ {c} : conns'[x] = conns[x] /\ down'[x] = down[x]
    /\ byName' = byName
    /\ ~conns[c].sess.up /\ conns'[c] \in ConnType /\ ConnOK(conns'[c])
    /\ conns'[c].st = conns[c].st /\ SameUser(c)
    /\ conns'[c].sess.up => r.type = "handshake" /\ r.kind = "ClientKex"
    /\ \E t \in Seq(DownRecord) :
        /\ down'[c] = down[c] \o t /\ NoData(t)
        /\ \A i \in DOMAIN t : ShownBy(t[i], servers[Site(c)].creds)

\* One record, and three, as a queue.
LEMMA FewRecords ==
    ASSUME NEW T, NEW a \in T, NEW b \in T, NEW d \in T
    PROVE  /\ <<a>> \in Seq(T) /\ DOMAIN <<a>> = {1} /\ <<a>>[1] = a
           /\ <<a, b, d>> \in Seq(T) /\ DOMAIN <<a, b, d>> = {1, 2, 3}
           /\ <<a, b, d>>[1] = a /\ <<a, b, d>>[2] = b /\ <<a, b, d>>[3] = d
OBVIOUS

\* A connection in the exchange, whatever is done with it.
LEMMA ExchangeTypes ==
    ASSUME NEW p \in ConnType, NEW h \in HandshakeType, NEW s \in SessionType
    PROVE  /\ [p EXCEPT !.hs = h] \in ConnType /\ [p EXCEPT !.hs = h].hs = h
           /\ [p EXCEPT !.hs = h].st = p.st /\ [p EXCEPT !.hs = h].user = p.user
           /\ [p EXCEPT !.hs = h].sess = p.sess
           /\ [p EXCEPT !.hs = h, !.sess = s] \in ConnType
           /\ [p EXCEPT !.hs = h, !.sess = s].hs = h
           /\ [p EXCEPT !.hs = h, !.sess = s].st = p.st
           /\ [p EXCEPT !.hs = h, !.sess = s].user = p.user
           /\ [p EXCEPT !.hs = h, !.sess = s].sess = s
BY DEF ConnType

\* The keys a server derives, and the flight it sends.
LEMMA ServerTypes ==
    ASSUME TypesOK, NEW c \in Clients, Site(c) \in Servers, servers[Site(c)].on,
           ServerOK(Site(c)), NEW r \in UpRecord
    PROVE  /\ servers[Site(c)].creds.cert \in Certs /\ servers[Site(c)].creds.key \in Secrets
           /\ r.type = "handshake" /\ r.kind = "ClientHello" /\ r.val # None
              => r.val \in Clients
           /\ r.type = "handshake" /\ r.kind = "ClientKex" /\ r.val # None
              => r.val \in ClientPubs
<1>1. servers[Site(c)].creds \in UNION {Creds[s] : s \in Servers}
  BY DEF ServerOK
<1> QED BY <1>1 DEF Certs, Secrets, UpRecord, Data, Alert

\* A handshake record has one of Negotiated's effects.
LEMMA NegotiatesEffect ==
    ASSUME TypesOK, NEW c \in Clients, Site(c) \in Servers, servers[Site(c)].on,
           ServerOK(Site(c)), ConnOK(conns[c]), conns[c].st # "none",
           NEW r \in UpRecord, r.type = "handshake", Negotiates(c, r)
    PROVE  Negotiated(c, r) /\ Shape
<1>1. /\ conns \in [Clients -> ConnType] /\ conns[c] \in ConnType
      /\ down \in [Clients -> Seq(DownRecord)] /\ down[c] \in Seq(DownRecord)
  BY DEF TypesOK
<1>2. /\ conns[c].sess \in SessionType /\ conns[c].hs \in HandshakeType
      /\ conns[c].user \in Names \cup {NoName}
  BY <1>1 DEF ConnType
<1>3. ~conns[c].sess.up /\ byName' = byName /\ conns[c].user = NoName
      /\ conns[c].hs.step # "Complete"
  BY DEF Negotiates, ConnOK
<1>4. PICK creds : creds = servers[Site(c)].creds
  OBVIOUS
<1>5. CASE Becomes(SendAlert(c))
  <2>1. PICK p : p = [conns[c] EXCEPT !.want = TRUE]
    OBVIOUS
  <2>2. /\ p \in ConnType /\ p.st = conns[c].st /\ p.hs = conns[c].hs /\ p.user = conns[c].user
        /\ p.sess = conns[c].sess
    BY <1>1, <1>2, <2>1, ConnChanges
  <2>3. conns' = [conns EXCEPT ![c] = p] /\ down' = [down EXCEPT ![c] = down[c] \o <<Alert>>]
    BY <1>5, <2>1 DEF Becomes, SendAlert, Closing, Now, Put
  <2>4. /\ conns'[c] = p /\ down'[c] = down[c] \o <<Alert>>
        /\ \A x \in Clients \ {c} : conns'[x] = conns[x] /\ down'[x] = down[x]
    BY <1>1, <2>2, <2>3
  <2>5. Shape
    BY <1>1, <2>3 DEF Shape
  <2>6. ConnOK(p)
    BY <1>3, <2>2 DEF ConnOK
  <2>7. Alert \in DownRecord /\ Alert.type = "alert"
    BY DEF DownRecord, Alert
  <2>8. PICK t : t = <<Alert>>
    OBVIOUS
  <2>9. t \in Seq(DownRecord) /\ NoData(t)
        /\ \A i \in DOMAIN t : ShownBy(t[i], servers[Site(c)].creds)
    BY <2>7, <2>8, FewRecords DEF NoData, ShownBy
  <2> QED BY <1>3, <2>2, <2>4, <2>5, <2>6, <2>8, <2>9 DEF Negotiated, SameUser
<1>6. CASE /\ FeedAnswers(conns[c].hs, r)
           /\ conns' = [conns EXCEPT ![c].hs = Answered(r)]
           /\ down' = Put(down, c, Flight(c, r))
  <2>1. r.val \in Clients
    BY <1>6, ServerTypes DEF FeedAnswers
  <2>2. PICK h : h = Answered(r)
    OBVIOUS
  <2>3. h \in HandshakeType /\ h.step = "AwaitClientKex" /\ h.random = r.val
    BY <2>1, <2>2 DEF Answered, HandshakeType
  <2>4. PICK p : p = [conns[c] EXCEPT !.hs = h]
    OBVIOUS
  <2>5. /\ p \in ConnType /\ p.st = conns[c].st /\ p.hs = h /\ p.user = conns[c].user
        /\ p.sess = conns[c].sess
    BY <1>1, <1>2, <2>3, <2>4, ExchangeTypes, ZenonT(30)
  <2>6. ConnOK(p)
    BY <1>3, <2>1, <2>3, <2>5 DEF ConnOK
  <2>7. PICK t : t = Flight(c, r)
    OBVIOUS
  <2>8. PICK a, b, d : /\ a = Hs("ServerCert", creds.cert)
                       /\ b = Hs("ServerKex", Pub(c, "server"))
                       /\ d = Hs("ServerProof",
                          Signed(creds.key, r.val, creds.cert, Pub(c, "server")))
    OBVIOUS
  <2>9. t = <<a, b, d>>
    BY <1>4, <2>7, <2>8 DEF Flight
  <2>10. creds.cert \in Certs /\ creds.key \in Secrets
    BY <1>4, ServerTypes
  <2>11. a \in DownRecord /\ a.type = "handshake" /\ a.kind = "ServerCert"
         /\ a.val = creds.cert
    BY <2>8, <2>10 DEF DownRecord, Hs
  <2>12. b \in DownRecord /\ b.type = "handshake" /\ b.kind = "ServerKex"
    BY <2>8 DEF DownRecord, Hs, Pub, ServerPubs
  <2>13. d \in DownRecord /\ d.type = "handshake" /\ d.kind = "ServerProof"
         /\ d.val.key = creds.key
    <3>1. d.val \in Proofs /\ d.val.key = creds.key
      BY <2>1, <2>8, <2>10 DEF Hs, Signed, Proofs, Pub, ServerPubs
    <3> QED BY <2>8, <3>1 DEF DownRecord, Hs
  <2>14. /\ t \in Seq(DownRecord) /\ DOMAIN t = {1, 2, 3}
         /\ t[1] = a /\ t[2] = b /\ t[3] = d
    BY <2>9, <2>11, <2>12, <2>13, FewRecords
  <2>15. NoData(t) /\ \A i \in DOMAIN t : ShownBy(t[i], servers[Site(c)].creds)
    BY <1>4, <2>11, <2>12, <2>13, <2>14 DEF NoData, ShownBy
  <2>16. conns' = [conns EXCEPT ![c] = p] /\ down' = [down EXCEPT ![c] = down[c] \o t]
    BY <1>6, <2>2, <2>4, <2>7 DEF Put
  <2>17. /\ conns'[c] = p /\ down'[c] = down[c] \o t
         /\ \A x \in Clients \ {c} : conns'[x] = conns[x] /\ down'[x] = down[x]
    BY <1>1, <2>16
  <2>18. Shape
    BY <1>1, <2>16 DEF Shape
  <2> QED BY <1>3, <2>5, <2>6, <2>14, <2>15, <2>17, <2>18 DEF Negotiated, SameUser
<1>7. CASE /\ FeedCompletes(conns[c].hs, r)
           /\ conns' = [conns EXCEPT ![c].hs.step = "Complete",
                                     ![c].sess = Install(ServerKeys(c, r), "Server")]
           /\ UNCHANGED down
  <2>1. r.val \in ClientPubs /\ r.kind = "ClientKex" /\ conns[c].hs.random \in Clients
    BY <1>7, ServerTypes DEF FeedCompletes, ConnOK
  <2>2. PICK h : h = [conns[c].hs EXCEPT !.step = "Complete"]
    OBVIOUS
  <2>3. h \in HandshakeType /\ h.step = "Complete"
    BY <1>2, <2>2 DEF HandshakeType
  <2>4. PICK s : s = Install(ServerKeys(c, r), "Server")
    OBVIOUS
  <2>5. s \in SessionType /\ s.up
    <3>1. creds.cert \in Certs
      BY <1>4, ServerTypes
    <3>2. ServerKeys(c, r) \in KeysType
      BY <1>4, <2>1, <3>1 DEF ServerKeys, Derive, Pub, KeysType, ServerPubs
    <3>3. KeysType = [th : Clients \X {cr.cert : cr \in UNION {Creds[x] : x \in Servers}},
                      pubs : (Clients \X {"server"}) \X (Clients \X {"client"})]
      BY DEF KeysType, ServerPubs, ClientPubs, Certs
    <3>4. PICK k : k = ServerKeys(c, r)
      OBVIOUS
    <3>5. s = [up |-> TRUE, keys |-> k, role |-> "Server", tx |-> 0, rx |-> 0]
          /\ k \in KeysType
      BY <2>4, <3>2, <3>4 DEF Install
    <3> QED BY <3>3, <3>5 DEF SessionType
  <2>6. PICK p : p = [conns[c] EXCEPT !.hs = h, !.sess = s]
    OBVIOUS
  <2>7. /\ p \in ConnType /\ p.st = conns[c].st /\ p.hs = h /\ p.user = conns[c].user
        /\ p.sess = s
    <3>1. PICK o : o = conns[c]
      OBVIOUS
    <3>2. o \in ConnType /\ p = [o EXCEPT !.hs = h, !.sess = s]
      BY <1>1, <2>6, <3>1
    <3>3. p \in ConnType /\ p.st = o.st /\ p.hs = h /\ p.user = o.user /\ p.sess = s
      BY <2>3, <2>5, <3>2 DEF ConnType
    <3> QED BY <3>1, <3>3
  <2>8. ConnOK(p)
    BY <1>3, <2>3, <2>5, <2>7 DEF ConnOK
  <2>9. conns' = [conns EXCEPT ![c] = p] /\ down' = down
    BY <1>7, <2>2, <2>4, <2>6
  <2>10. /\ conns'[c] = p /\ down'[c] = down[c]
         /\ \A x \in Clients \ {c} : conns'[x] = conns[x] /\ down'[x] = down[x]
    BY <1>1, <2>9
  <2>11. Shape
    BY <1>1, <2>9 DEF Shape
  <2>12. down'[c] = down[c] \o <<>> /\ <<>> \in Seq(DownRecord) /\ DOMAIN <<>> = {}
    BY <1>1, <2>10, ConcatEmptySeq
  <2>13. NoData(<<>>)
    BY <2>12 DEF NoData
  <2> QED BY <1>3, <2>1, <2>7, <2>8, <2>10, <2>11, <2>12, <2>13 DEF Negotiated, SameUser
<1> QED BY <1>5, <1>6, <1>7 DEF Negotiates

-----------------------------------------------------------------------------
(* One client and its connection, while the relay works. *)

\* The part of the invariant that is about one client.
ClientOK(c) ==
    ProcessOK(clients[c]) /\ ConnOK(conns[c]) /\ SiteOK(c) /\ ProofOK(c) /\ LinesOK(c)

\* The relay has taken nothing of a client, or its first record.
UpKept(x) == up'[x] = up[x] \/ (up[x] # <<>> /\ up'[x] = Tail(up[x]))

\* A contribution that is on the way.
Said(wire) == \E i \in DOMAIN wire : Contribution(wire[i])

\* What a client has said does not become more.
LEMMA UpIs ==
    ASSUME TypesOK, NEW x \in Clients, UpKept(x)
    PROVE  /\ up'[x] \in Seq(UpRecord)
           /\ LoginFirst(up[x]) => LoginFirst(up'[x])
           /\ NoData(up[x]) => NoData(up'[x])
           /\ HasLogin(up'[x]) => HasLogin(up[x])
           /\ Said(up'[x]) => Said(up[x])
           /\ up[x] = <<>> => up'[x] = <<>>
<1>1. up[x] \in Seq(UpRecord)
  BY DEF TypesOK
<1>2. CASE up'[x] = up[x]
  BY <1>1, <1>2
<1>3. CASE up[x] # <<>> /\ up'[x] = Tail(up[x])
  <2>1. /\ Tail(up[x]) \in Seq(UpRecord)
        /\ LoginFirst(up[x]) => LoginFirst(Tail(up[x]))
        /\ HasLogin(Tail(up[x])) => HasLogin(up[x])
        /\ Said(Tail(up[x])) => Said(up[x])
    BY <1>1, <1>3, SaidTaken DEF Said
  <2>2. NoData(up[x]) => NoData(Tail(up[x]))
    BY <1>1, <1>3, NoDataTaken
  <2> QED BY <1>3, <2>1, <2>2
<1> QED BY <1>2, <1>3 DEF UpKept

\* A connection that is told nothing, and keeps its place.
LEMMA KeptKeeps ==
    ASSUME TypesOK, NEW x \in Clients, ClientOK(x), UpKept(x), Kept(x),
           servers' = servers, ends'[x] = ends[x], clients' = clients
    PROVE  ClientOK(x)' /\ down'[x] \in Seq(DownRecord)
<1>1. /\ up'[x] \in Seq(UpRecord)
      /\ LoginFirst(up[x]) => LoginFirst(up'[x])
      /\ NoData(up[x]) => NoData(up'[x])
      /\ HasLogin(up'[x]) => HasLogin(up[x])
      /\ Said(up'[x]) => Said(up[x])
      /\ up[x] = <<>> => up'[x] = <<>>
  BY UpIs
<1>2. ProcessOK(clients[x])' /\ down'[x] \in Seq(DownRecord)
  BY DEF ClientOK, TypesOK, Kept
<1>3. ConnOK(conns[x])'
  BY DEF ClientOK, ConnOK, Kept
<1>4. SiteOK(x)'
  BY <1>1 DEF ClientOK, SiteOK, Kept, Site, NoConn
<1>5. ProofOK(x)'
  BY <1>1 DEF ClientOK, ProofOK, Kept, Site, Contributes, Said
<1>6. LinesOK(x)'
  BY <1>1 DEF ClientOK, LinesOK, Kept, Registered
<1> QED BY <1>2, <1>3, <1>4, <1>5, <1>6 DEF ClientOK

\* A connection that is sent a line.
LEMMA GrowsKeeps ==
    ASSUME TypesOK, NEW x \in Clients, ClientOK(x), UpKept(x), NEW line, Grows(x, line),
           servers' = servers, ends'[x] = ends[x], clients' = clients,
           conns'[x].user # NoName
              \/ ~(clients[x].st \in BeforeLogin \/ HasLogin(up'[x]))
    PROVE  ClientOK(x)' /\ down'[x] \in Seq(DownRecord)
<1>1. /\ up'[x] \in Seq(UpRecord)
      /\ LoginFirst(up[x]) => LoginFirst(up'[x])
      /\ NoData(up[x]) => NoData(up'[x])
      /\ HasLogin(up'[x]) => HasLogin(up[x])
      /\ Said(up'[x]) => Said(up[x])
      /\ up[x] = <<>> => up'[x] = <<>>
  BY UpIs
<1>2. PICK r \in Data(Told) : r.line = line /\ down'[x] = down[x] \o <<r>>
  BY DEF Grows
<1>3. down[x] \in Seq(DownRecord) /\ DataLast(down[x])
  BY DEF TypesOK, ClientOK, LinesOK
<1>4. down'[x] \in Seq(DownRecord) /\ DataLast(down'[x])
  BY <1>2, <1>3, LineSent
<1>5. ProcessOK(clients[x])'
  BY DEF ClientOK
<1>6. conns[x].st # "none" /\ clients[x].st # "off"
  BY ConnTypes DEF Grows, ClientOK, ConnOK, SiteOK
<1>7. ConnOK(conns[x])'
  BY <1>6 DEF ClientOK, ConnOK, Grows
<1>8. SiteOK(x)'
  BY <1>6 DEF ClientOK, SiteOK, Grows, Site
<1>9. ProofOK(x)'
  <2>1. r.type = "appdata" /\ r \in DownRecord
    BY DEF Data, DownRecord
  <2>2. PICK t : t = <<r>>
    OBVIOUS
  <2>3. t \in Seq(DownRecord) /\ \A i \in DOMAIN t : ShownBy(t[i], servers[Site(x)].creds)
    BY <2>1, <2>2, FewRecords DEF ShownBy
  <2>4. ASSUME "acceptor" \in ends[x]
        PROVE  /\ \A i \in DOMAIN down'[x] : ShownBy(down'[x][i], servers[Site(x)].creds)
               /\ clients[x].st \in {"kex", "proof"}
                  => clients[x].cert = servers[Site(x)].creds.cert
               /\ x \notin Strangers => Genuine(servers[Site(x)].creds)
    <3>1. \A i \in DOMAIN down[x] : ShownBy(down[x][i], servers[Site(x)].creds)
      BY <2>4 DEF ClientOK, ProofOK
    <3>2. \A i \in DOMAIN (down[x] \o t) : ShownBy((down[x] \o t)[i], servers[Site(x)].creds)
      BY <1>3, <2>3, <3>1, ShownFollows
    <3>3. Contributes(x)
      BY DEF Grows, Contributes
    <3> QED BY <1>2, <2>2, <2>4, <3>2, <3>3 DEF ClientOK, ProofOK
  <2> QED BY <2>4 DEF ProofOK, Site
<1>10. LinesOK(x)'
  BY <1>1, <1>4 DEF ClientOK, LinesOK, Grows, Registered
<1> QED BY <1>4, <1>5, <1>7, <1>8, <1>9, <1>10 DEF ClientOK

\* A record of the exchange.
LEMMA NegotiatedKeeps ==
    ASSUME TypesOK, NEW x \in Clients, ClientOK(x), NEW r, r = Head(up[x]),
           up[x] # <<>>, up'[x] = Tail(up[x]), Negotiated(x, r), conns[x].st # "none",
           servers' = servers, ends' = ends, clients' = clients
    PROVE  ClientOK(x)' /\ down'[x] \in Seq(DownRecord)
<1>0. UpKept(x)
  BY DEF UpKept
<1>1. /\ up'[x] \in Seq(UpRecord)
      /\ LoginFirst(up[x]) => LoginFirst(up'[x])
      /\ NoData(up[x]) => NoData(up'[x])
      /\ Said(up'[x]) => Said(up[x])
  BY <1>0, UpIs
<1>2. PICK t \in Seq(DownRecord) :
        /\ down'[x] = down[x] \o t /\ NoData(t)
        /\ \A i \in DOMAIN t : ShownBy(t[i], servers[Site(x)].creds)
  BY DEF Negotiated
<1>3. down[x] \in Seq(DownRecord) /\ "acceptor" \in ends[x] /\ NoData(down[x])
  BY DEF TypesOK, ClientOK, SiteOK, LinesOK, Negotiated
<1>4. down'[x] \in Seq(DownRecord) /\ NoData(down'[x])
  BY <1>2, <1>3, ExchangeGoesOn
<1>5. DataLast(down'[x])
  BY <1>4, NoLines
<1>6. ProcessOK(clients[x])' /\ ConnOK(conns[x])'
  BY DEF ClientOK, Negotiated
<1>7. SiteOK(x)'
  BY DEF ClientOK, SiteOK, Negotiated, Site, NoConn
<1>8. ProofOK(x)'
  <2>1. \A i \in DOMAIN (down[x] \o t) : ShownBy((down[x] \o t)[i], servers[Site(x)].creds)
    BY <1>2, <1>3, ShownFollows DEF ClientOK, ProofOK
  <2>2. up[x] \in Seq(UpRecord)
    BY DEF TypesOK
  <2>3. conns'[x].sess.up => Said(up[x])
    BY <2>2, SaidTaken DEF Negotiated, Contribution, Said
  <2>4. Said(up[x]) => Contributes(x)
    BY DEF Said, Contributes
  <2>5. Contributes(x)' => Contributes(x)
    BY <1>1, <2>3, <2>4 DEF Contributes, Said
  <2> QED BY <1>2, <2>1, <2>5 DEF ClientOK, ProofOK, Site
<1>9. LinesOK(x)'
  BY <1>1, <1>4, <1>5 DEF ClientOK, LinesOK
<1> QED BY <1>4, <1>6, <1>7, <1>8, <1>9 DEF ClientOK

\* A connection that is accepted, given up or flushed.
LEMMA StageKeeps ==
    ASSUME TypesOK, NEW x \in Clients, ClientOK(x), UpKept(x),
           NEW st \in {"open", "doomed", "flushed"}, "acceptor" \in ends[x],
           conns' = [conns EXCEPT ![x].st = st], down' = down,
           servers' = servers, ends' = ends, clients' = clients
    PROVE  ClientOK(x)' /\ conns'[x] \in ConnType /\ SameUser(x)
<1>1. /\ up'[x] \in Seq(UpRecord)
      /\ LoginFirst(up[x]) => LoginFirst(up'[x])
      /\ NoData(up[x]) => NoData(up'[x])
      /\ HasLogin(up'[x]) => HasLogin(up[x])
      /\ Said(up'[x]) => Said(up[x])
      /\ up[x] = <<>> => up'[x] = <<>>
  BY UpIs
<1>2. conns \in [Clients -> ConnType]
  BY DEF TypesOK
<1>3. /\ conns'[x].st = st /\ conns'[x].hs = conns[x].hs /\ conns'[x].sess = conns[x].sess
      /\ conns'[x].user = conns[x].user /\ conns'[x] \in ConnType
  BY <1>2 DEF ConnType
<1>4. ProcessOK(clients[x])'
  BY DEF ClientOK
<1>5. ConnOK(conns[x])'
  BY <1>3 DEF ClientOK, ConnOK
<1>6. SiteOK(x)'
  BY <1>1, <1>3 DEF ClientOK, SiteOK, Site, NoConn
<1>7. ProofOK(x)'
  BY <1>1, <1>3 DEF ClientOK, ProofOK, Site, Contributes, Said
<1>8. LinesOK(x)'
  BY <1>1, <1>3 DEF ClientOK, LinesOK, Registered
<1> QED BY <1>3, <1>4, <1>5, <1>6, <1>7, <1>8 DEF ClientOK, SameUser

\* A connection that a step has nothing to do with.
LEMMA OtherKeeps ==
    ASSUME NEW x \in Clients, ClientOK(x),
           conns'[x] = conns[x], down'[x] = down[x], up'[x] = up[x],
           ends'[x] = ends[x], clients'[x] = clients[x],
           "acceptor" \in ends[x] => servers'[Site(x)] = servers[Site(x)]
    PROVE  ClientOK(x)'
<1>1. ProcessOK(clients[x])' /\ ConnOK(conns[x])'
  BY DEF ClientOK
<1>2. SiteOK(x)'
  BY DEF ClientOK, SiteOK, Site
<1>3. ProofOK(x)'
  BY DEF ClientOK, ProofOK, Site, Contributes
<1>4. LinesOK(x)'
  BY DEF ClientOK, LinesOK, Registered
<1> QED BY <1>1, <1>2, <1>3, <1>4 DEF ClientOK

-----------------------------------------------------------------------------
(* The relay's steps. *)

\* The invariant, client by client.
LEMMA CertInvIs ==
    CertInv <=> /\ TypesOK /\ NamesInverse
                /\ \A s \in Servers : ServerOK(s)
                /\ \A c \in Clients : ClientOK(c)
BY DEF CertInv, ClientOK

\* The types, when the relay has sent to some and taken from one.
LEMMA RelayTypes ==
    ASSUME TypesOK, Shape, \A x \in Clients : conns'[x] \in ConnType
        /\ down'[x] \in Seq(DownRecord),
           NEW c \in Clients, up' = up \/ (up[c] # <<>> /\ up' = Take(up, c)),
           byName' \in [Servers -> [Names -> Clients \cup {NoClient}]],
           ends' \in [Clients -> SUBSET {"dialler", "acceptor"}],
           UNCHANGED <<servers, clients, today, lines, junk>>
    PROVE  TypesOK'
<1>1. conns' \in [Clients -> ConnType] /\ down' \in [Clients -> Seq(DownRecord)]
  BY DEF Shape
<1>2. up' \in [Clients -> Seq(UpRecord)]
  <2>1. up \in [Clients -> Seq(UpRecord)] /\ up[c] \in Seq(UpRecord)
    BY DEF TypesOK
  <2>2. CASE up[c] # <<>> /\ up' = Take(up, c)
    <3>1. PICK w : w = Tail(up[c])
      OBVIOUS
    <3>2. w \in Seq(UpRecord)
      BY <2>1, <2>2, <3>1, FirstTaken
    <3>3. up' = [up EXCEPT ![c] = w]
      BY <2>2, <3>1 DEF Take
    <3> QED BY <2>1, <3>2, <3>3
  <2> QED BY <2>1, <2>2
<1> QED BY <1>1, <1>2 DEF TypesOK

\* What the relay takes from one client.
LEMMA TakesOne ==
    ASSUME TypesOK, NEW c \in Clients, up[c] # <<>>, up' = Take(up, c)
    PROVE  /\ up'[c] = Tail(up[c]) /\ Head(up[c]) \in UpRecord /\ UpKept(c)
           /\ \A x \in Clients \ {c} : up'[x] = up[x] /\ UpKept(x)
<1>1. up \in [Clients -> Seq(UpRecord)] /\ up[c] \in Seq(UpRecord)
  BY DEF TypesOK
<1>2. Head(up[c]) \in UpRecord
  BY <1>1, SaidTaken
<1> QED BY <1>1, <1>2 DEF Take, UpKept

\* Nobody joins or leaves.
LEMMA SameNames ==
    ASSUME TypesOK, NamesInverse, \A x \in Clients : SameUser(x), byName' = byName,
           \A x \in Clients : Registered(x) => clients'[x].site = clients[x].site
    PROVE  NamesInverse'
<1>1. ASSUME NEW s \in Servers, NEW n \in Names, byName[s][n] # NoClient
      PROVE  conns'[byName[s][n]].user = n /\ clients'[byName[s][n]].site = s
  <2>1. byName[s][n] \in Clients
    BY <1>1 DEF TypesOK
  <2>2. conns[byName[s][n]].user = n /\ clients[byName[s][n]].site = s
    BY <1>1 DEF NamesInverse, Site
  <2> QED BY <2>1, <2>2, CertChatAssumption DEF SameUser, Registered
<1>2. ASSUME NEW c \in Clients, conns'[c].user # NoName
      PROVE  conns'[c].user \in Names /\ byName[clients'[c].site][conns'[c].user] = c
  BY <1>2 DEF NamesInverse, SameUser, Registered, Roster, Site
<1> QED BY <1>1, <1>2 DEF NamesInverse, Registered, Site

\* One joins under a name that is free.
LEMMA JoinNames ==
    ASSUME TypesOK, NamesInverse, NEW c \in Clients, NEW n \in Names, Site(c) \in Servers,
           \A x \in Clients : ConnOK(conns[x]) /\ SiteOK(x),
           Join(c, n), clients' = clients
    PROVE  NamesInverse' /\ byName' \in [Servers -> [Names -> Clients \cup {NoClient}]]
           /\ \A x \in Clients \ {c} : SameUser(x)
<1>1. /\ byName \in [Servers -> [Names -> Clients \cup {NoClient}]]
      /\ byName' = [byName EXCEPT ![Site(c)][n] = c]
      /\ byName[Site(c)][n] = NoClient /\ conns[c].user = NoName /\ conns'[c].user = n
  BY DEF TypesOK, Join, Roster, Registered
<1>2. byName' \in [Servers -> [Names -> Clients \cup {NoClient}]]
  BY <1>1
<1>3. \A x \in Clients \ {c} : SameUser(x)
  BY DEF Join, Kept, SameUser
<1>4. n # NoName /\ NoClient \notin Clients
  BY CertChatAssumption
<1>5. /\ byName'[Site(c)][n] = c
      /\ \A s \in Servers, m \in Names : s # Site(c) \/ m # n => byName'[s][m] = byName[s][m]
  BY <1>1
<1>6. ASSUME NEW s \in Servers, NEW m \in Names, byName'[s][m] # NoClient
      PROVE  conns'[byName'[s][m]].user = m /\ Site(byName'[s][m]) = s
  <2>1. CASE s = Site(c) /\ m = n
    BY <1>1, <1>5, <2>1
  <2>2. CASE s # Site(c) \/ m # n
    <3>1. byName'[s][m] = byName[s][m] /\ byName[s][m] \in Clients
      BY <1>1, <1>5, <1>6, <2>2
    <3>2. conns[byName[s][m]].user = m /\ Site(byName[s][m]) = s
      BY <1>6, <3>1 DEF NamesInverse
    <3>3. byName[s][m] # c
      BY <1>1, <3>2, CertChatAssumption
    <3> QED BY <1>3, <3>1, <3>2, <3>3 DEF SameUser
  <2> QED BY <2>1, <2>2
<1>7. ASSUME NEW x \in Clients, conns'[x].user # NoName
      PROVE  conns'[x].user \in Names /\ byName'[Site(x)][conns'[x].user] = x
  <2>1. CASE x = c
    BY <1>1, <1>5, <2>1
  <2>2. CASE x # c
    <3>1. conns[x].user \in Names /\ byName[Site(x)][conns[x].user] = x
          /\ conns'[x].user = conns[x].user
      BY <1>3, <1>7, <2>2 DEF NamesInverse, SameUser, Registered, Roster
    <3>2. Site(x) \in Servers
      BY <1>3, <1>7, <2>2, ConnTypes DEF SameUser, SiteOK, ConnOK
    <3>3. x # NoClient
      BY <1>4
    <3> QED BY <1>1, <1>5, <3>1, <3>2, <3>3
  <2> QED BY <2>1, <2>2
<1> QED BY <1>2, <1>3, <1>6, <1>7 DEF NamesInverse, Registered, Site

\* A line.
LEMMA LineKeeps ==
    ASSUME CertInv, NEW c \in Clients, Site(c) \in Servers, conns[c].st # "none",
           up[c] # <<>>, up' = Take(up, c), NEW r, r = Head(up[c]),
           conns[c].sess.up, r.type = "appdata",
           HandleLine([Now EXCEPT !.conns[c].sess = Opened(@)], c, r.line),
           UNCHANGED <<servers, ends, clients, today, lines, junk>>
    PROVE  CertInv'
<1>1. /\ TypesOK /\ NamesInverse /\ (\A s \in Servers : ServerOK(s))
      /\ \A x \in Clients : ClientOK(x) /\ ConnOK(conns[x]) /\ SiteOK(x)
  BY CertInvIs DEF ClientOK
<1>2. /\ up'[c] = Tail(up[c]) /\ r \in UpRecord /\ \A x \in Clients : UpKept(x)
  BY <1>1, TakesOne
<1>3. r.line \in Asked
  BY <1>2 DEF UpRecord, Data, Alert
<1>4. LineEffect(c, r.line) /\ Shape
  BY <1>1, <1>3, HandleLineEffect
<1>5. ~(clients[c].st \in BeforeLogin \/ HasLogin(up'[c]))
  <2>1. up[c] \in Seq(UpRecord) /\ LoginFirst(up[c])
        /\ (clients[c].st \in BeforeLogin => NoData(up[c]))
    BY <1>1 DEF TypesOK, ClientOK, LinesOK
  <2>2. ~HasLogin(up'[c])
    BY <1>2, <2>1, SaidTaken
  <2>3. ~NoData(up[c])
    BY <2>1, NoDataTaken
  <2> QED BY <2>1, <2>2, <2>3
<1>6. byName \in [Servers -> [Names -> Clients \cup {NoClient}]]
      /\ ends \in [Clients -> SUBSET {"dialler", "acceptor"}]
  BY <1>1 DEF TypesOK
<1>7. \A s \in Servers : ServerOK(s)'
  BY <1>1 DEF ServerOK
<1>8. \A x \in Clients : Kept(x) =>
        ClientOK(x)' /\ down'[x] \in Seq(DownRecord) /\ SameUser(x) /\ conns'[x] \in ConnType
  BY <1>1, <1>2, KeptKeeps DEF Kept, SameUser
<1>9. CASE Reply(c)
  <2>1. PICK verb \in {"ERR", "USERS"} : Grows(c, Line(verb, NoName, 0))
    BY <1>9 DEF Reply
  <2>2. ClientOK(c)' /\ down'[c] \in Seq(DownRecord) /\ conns'[c] \in ConnType
    BY <1>1, <1>2, <1>5, <2>1, GrowsKeeps DEF Grows
  <2>3. SameUser(c) /\ byName' = byName /\ \A x \in Clients \ {c} : Kept(x)
    BY <1>9 DEF Reply
  <2>4. /\ \A x \in Clients : ClientOK(x)' /\ SameUser(x)
        /\ \A x \in Clients : conns'[x] \in ConnType /\ down'[x] \in Seq(DownRecord)
    BY <1>8, <2>2, <2>3
  <2>5. TypesOK'
    BY <1>1, <1>4, <1>6, <2>3, <2>4, RelayTypes
  <2>6. NamesInverse'
    BY <1>1, <2>3, <2>4, SameNames
  <2> QED BY <1>7, <2>4, <2>5, <2>6 DEF CertInv, ClientOK
<1>10. CASE Wants(c)
  <2>1. byName' = byName /\ \A x \in Clients : Kept(x)
    BY <1>10 DEF Wants
  <2>2. /\ \A x \in Clients : ClientOK(x)' /\ SameUser(x)
        /\ \A x \in Clients : conns'[x] \in ConnType /\ down'[x] \in Seq(DownRecord)
    BY <1>8, <2>1
  <2>3. TypesOK'
    BY <1>1, <1>4, <1>6, <2>1, <2>2, RelayTypes
  <2>4. NamesInverse'
    BY <1>1, <2>1, <2>2, SameNames
  <2> QED BY <1>7, <2>2, <2>3, <2>4 DEF CertInv, ClientOK
<1>11. CASE r.line.verb = "MSG" /\ r.line.name \in Names /\ Post(c, r.line.name, r.line.msg)
  <2>1. PICK g : g = Roster(c)[r.line.name]
    OBVIOUS
  <2>2. /\ g \in Clients /\ g # NoClient /\ byName' = byName /\ SameUser(g)
        /\ Grows(g, Line("FROM", conns[c].user, r.line.msg))
        /\ \A x \in Clients \ {g} : Kept(x)
    <3>1. PICK to, m : to \in Names /\ to = r.line.name /\ m = r.line.msg /\ Post(c, to, m)
      BY <1>11
    <3>2. g = Roster(c)[to] /\ g # NoClient /\ byName' = byName /\ SameUser(g)
          /\ Grows(g, Line("FROM", conns[c].user, m))
          /\ \A x \in Clients \ {g} : Kept(x)
      BY <2>1, <3>1 DEF Post
    <3>3. g \in Clients
      <4>1. byName[Site(c)] \in [Names -> Clients \cup {NoClient}]
        BY <1>6
      <4> QED BY <3>1, <3>2, <4>1 DEF Roster
    <3> QED BY <3>1, <3>2, <3>3
  <2>3. conns[g].user = r.line.name
    BY <1>1, <1>11, <2>1, <2>2 DEF NamesInverse, Roster
  <2>4. conns'[g].user # NoName
    BY <1>11, <2>2, <2>3, CertChatAssumption DEF SameUser
  <2>5. ClientOK(g)' /\ down'[g] \in Seq(DownRecord) /\ conns'[g] \in ConnType
    BY <1>1, <1>2, <2>2, <2>4, GrowsKeeps DEF Grows
  <2>6. /\ \A x \in Clients : ClientOK(x)' /\ SameUser(x)
        /\ \A x \in Clients : conns'[x] \in ConnType /\ down'[x] \in Seq(DownRecord)
    BY <1>8, <2>2, <2>5
  <2>7. TypesOK'
    BY <1>1, <1>4, <1>6, <2>2, <2>6, RelayTypes
  <2>8. NamesInverse'
    BY <1>1, <2>2, <2>6, SameNames
  <2> QED BY <1>7, <2>6, <2>7, <2>8 DEF CertInv, ClientOK
<1>12. CASE r.line.verb = "LOGIN" /\ r.line.name \in Names /\ Join(c, r.line.name)
  <2>1. PICK n \in Names : n = r.line.name /\ Join(c, n)
    BY <1>12
  <2>2. n # NoName
    BY CertChatAssumption
  <2>3. /\ NamesInverse' /\ byName' \in [Servers -> [Names -> Clients \cup {NoClient}]]
        /\ \A x \in Clients \ {c} : SameUser(x)
    BY <1>1, <2>1, JoinNames
  <2>4. Grows(c, Line("OK", n, 0)) /\ conns'[c].user = n
    BY <2>1 DEF Join
  <2>5. ClientOK(c)' /\ down'[c] \in Seq(DownRecord) /\ conns'[c] \in ConnType
    BY <1>1, <1>2, <2>2, <2>4, GrowsKeeps DEF Grows
  <2>6. ASSUME NEW x \in Clients \ {c}
        PROVE  ClientOK(x)' /\ down'[x] \in Seq(DownRecord) /\ conns'[x] \in ConnType
    <3>1. CASE Colleague(x, c)
      <4>1. Grows(x, Line("joined", n, 0)) /\ conns'[x].user # NoName
        BY <2>1, <3>1 DEF Join, Colleague, SameUser, Registered
      <4> QED BY <1>1, <1>2, <4>1, GrowsKeeps DEF Grows
    <3>2. CASE ~Colleague(x, c)
      <4>1. Kept(x)
        BY <2>1, <3>2 DEF Join
      <4> QED BY <1>8, <4>1
    <3> QED BY <3>1, <3>2
  <2>7. /\ \A x \in Clients : ClientOK(x)'
        /\ \A x \in Clients : conns'[x] \in ConnType /\ down'[x] \in Seq(DownRecord)
    BY <2>5, <2>6
  <2>8. TypesOK'
    BY <1>1, <1>4, <1>6, <2>3, <2>7, RelayTypes
  <2> QED BY <1>7, <2>3, <2>7, <2>8 DEF CertInv, ClientOK
<1> QED BY <1>4, <1>9, <1>10, <1>11, <1>12 DEF LineEffect

\* A connection accepted, given up or flushed.
LEMMA StagesKeep ==
    ASSUME CertInv, NEW c \in Clients, NEW st \in {"open", "doomed", "flushed"},
           "acceptor" \in ends[c], up' = up \/ (up[c] # <<>> /\ up' = Take(up, c)),
           conns' = [conns EXCEPT ![c].st = st], down' = down, byName' = byName,
           UNCHANGED <<servers, ends, clients, today, lines, junk>>
    PROVE  CertInv'
<1>1. /\ TypesOK /\ NamesInverse /\ (\A s \in Servers : ServerOK(s))
      /\ \A x \in Clients : ClientOK(x)
  BY CertInvIs
<1>2. UpKept(c) /\ \A x \in Clients \ {c} : up'[x] = up[x]
  BY <1>1, TakesOne DEF UpKept
<1>3. ClientOK(c)' /\ conns'[c] \in ConnType /\ SameUser(c)
  BY <1>1, <1>2, StageKeeps
<1>4. conns \in [Clients -> ConnType] /\ down \in [Clients -> Seq(DownRecord)]
      /\ ends \in [Clients -> SUBSET {"dialler", "acceptor"}]
      /\ byName \in [Servers -> [Names -> Clients \cup {NoClient}]]
  BY <1>1 DEF TypesOK
<1>5. \A x \in Clients \ {c} : conns'[x] = conns[x]
  BY <1>4
<1>6. \A x \in Clients \ {c} : ClientOK(x)'
  BY <1>1, <1>2, <1>5, OtherKeeps
<1>7. Shape /\ \A x \in Clients : conns'[x] \in ConnType /\ down'[x] \in Seq(DownRecord)
  BY <1>3, <1>4, <1>5 DEF Shape
<1>8. TypesOK'
  BY <1>1, <1>4, <1>7, RelayTypes
<1>9. NamesInverse'
  <2>1. \A x \in Clients : SameUser(x)
    BY <1>3, <1>5 DEF SameUser
  <2> QED BY <1>1, <2>1, SameNames
<1>10. \A s \in Servers : ServerOK(s)'
  BY <1>1 DEF ServerOK
<1> QED BY <1>3, <1>6, <1>8, <1>9, <1>10 DEF CertInv, ClientOK

\* A record.
LEMMA DrainKeeps ==
    ASSUME CertInv, NEW c \in Clients, DrainRecord(c)
    PROVE  CertInv'
<1>1. /\ TypesOK /\ NamesInverse /\ (\A s \in Servers : ServerOK(s))
      /\ \A x \in Clients : ClientOK(x)
  BY CertInvIs
<1>2. PICK r : r = Head(up[c])
  OBVIOUS
<1>3. /\ conns[c].st = "open" /\ up[c] # <<>> /\ up' = Take(up, c)
      /\ UNCHANGED <<servers, ends, clients, today, lines, junk>>
  BY DEF DrainRecord
<1>4. "acceptor" \in ends[c] /\ Site(c) \in Servers /\ servers[Site(c)].on /\ ConnOK(conns[c])
  BY <1>1, <1>3 DEF ClientOK, SiteOK
<1>5. CASE Dooms(c)
  BY <1>3, <1>4, <1>5, StagesKeep DEF Dooms
<1>6. CASE r.type = "handshake" /\ Negotiates(c, r)
  <2>1. /\ up'[c] = Tail(up[c]) /\ r \in UpRecord /\ \A x \in Clients \ {c} : up'[x] = up[x]
    BY <1>1, <1>2, <1>3, TakesOne
  <2>2. Negotiated(c, r) /\ Shape
    BY <1>1, <1>3, <1>4, <1>6, <2>1, NegotiatesEffect
  <2>3. ClientOK(c)' /\ down'[c] \in Seq(DownRecord)
    BY <1>1, <1>2, <1>3, <2>1, <2>2, NegotiatedKeeps
  <2>4. /\ \A x \in Clients \ {c} : conns'[x] = conns[x] /\ down'[x] = down[x]
        /\ byName' = byName /\ conns'[c] \in ConnType /\ SameUser(c)
    BY <2>2 DEF Negotiated
  <2>5. \A x \in Clients \ {c} : ClientOK(x)'
    BY <1>1, <1>3, <2>1, <2>4, OtherKeeps
  <2>6. /\ byName \in [Servers -> [Names -> Clients \cup {NoClient}]]
        /\ ends \in [Clients -> SUBSET {"dialler", "acceptor"}]
        /\ \A x \in Clients : conns[x] \in ConnType /\ down[x] \in Seq(DownRecord)
    BY <1>1 DEF TypesOK
  <2>7. TypesOK'
    BY <1>1, <1>3, <2>2, <2>3, <2>4, <2>6, RelayTypes
  <2>8. NamesInverse'
    <3>1. \A x \in Clients : SameUser(x)
      BY <2>4 DEF SameUser
    <3> QED BY <1>1, <1>3, <2>4, <3>1, SameNames
  <2>9. \A s \in Servers : ServerOK(s)'
    BY <1>1, <1>3 DEF ServerOK
  <2> QED BY <2>3, <2>5, <2>7, <2>8, <2>9 DEF CertInv, ClientOK
<1>7. CASE /\ Opens(conns[c].sess, r)
           /\ HandleLine([Now EXCEPT !.conns[c].sess = Opened(@)], c, r.line)
  <2>1. conns[c].sess.up /\ r.type = "appdata" /\ conns[c].st # "none"
    BY <1>3, <1>7 DEF Opens
  <2> QED BY <1>2, <1>3, <1>4, <1>7, <2>1, LineKeeps
<1> QED BY <1>2, <1>5, <1>6, <1>7 DEF DrainRecord

-----------------------------------------------------------------------------
(* Connections dropped, servers started and stopped. *)

\* A connection is gone, and the others at its server are told so.
Dropped(c) ==
    /\ conns'[c] = NoConn
    /\ \E k \in 0 .. Len(down[c]) : down'[c] = SubSeq(down[c], 1, k)
    /\ \A x \in Clients \ {c} :
        IF Registered(c) /\ Colleague(x, c)
        THEN SameUser(x) /\ Grows(x, Line("left", conns[c].user, 0))
        ELSE conns'[x] = conns[x] /\ down'[x] = down[x]

\* What is told when a connection is dropped.
LEMMA DropEffect ==
    ASSUME TypesOK, \A x \in Clients : ConnOK(conns[x]), NEW c \in Clients, DropConn(c)
    PROVE  Dropped(c) /\ Shape
<1>1. /\ conns \in [Clients -> ConnType] /\ down \in [Clients -> Seq(DownRecord)]
      /\ conns[c].user \in Names \cup {NoName} /\ Len(down[c]) \in Nat
  BY DEF TypesOK, ConnType
<1>2. PICK told : told = IF Registered(c)
                         THEN Broadcast(Now, Line("left", conns[c].user, 0), c) ELSE Now
  OBVIOUS
<1>3. PICK k \in 0 .. Len(down[c]) :
        /\ conns' = [told.conns EXCEPT ![c] = NoConn]
        /\ down' = [told.down EXCEPT ![c] = SubSeq(told.down[c], 1, k)]
  <2>1. \A k \in (IF conns[c].st = "flushed" THEN {}
        ELSE 0 .. Len(down[c])) \cup {Len(down[c])} :
            k \in 0 .. Len(down[c])
    BY <1>1
  <2> QED BY <1>2, <2>1 DEF DropConn
<1>4. CASE ~Registered(c)
  <2>1. told.conns = conns /\ told.down = down
    BY <1>2, <1>4 DEF Now
  <2>2. conns'[c] = NoConn /\ down'[c] = SubSeq(down[c], 1, k)
        /\ \A x \in Clients \ {c} : conns'[x] = conns[x] /\ down'[x] = down[x]
    BY <1>1, <1>3, <2>1
  <2>3. Shape
    BY <1>1, <1>3, <2>1 DEF Shape
  <2> QED BY <1>4, <2>2, <2>3 DEF Dropped
<1>5. CASE Registered(c)
  <2>1. PICK line : line = Line("left", conns[c].user, 0)
    OBVIOUS
  <2>2. line \in Told
    <3>1. 0 \in 0 .. MaxLines
      BY CertChatAssumption
    <3> QED BY <1>1, <2>1, <3>1, ServerLines
  <2>3. PICK whom : whom = {x \in Clients \ {c} : Registered(x) /\ Site(x) = Site(c)}
    OBVIOUS
  <2>4. told = SendLines(Now, whom, line)
    BY <1>2, <1>5, <2>1, <2>3 DEF Broadcast
  <2>5. Now.conns = conns /\ Now.down = down
    BY DEF Now
  <2>6. /\ told.conns = [x \in Clients |-> IF x \in whom THEN AfterLine(conns[x])
           ELSE conns[x]]
        /\ told.down = [x \in Clients |-> IF x \in whom THEN down[x] \o Queued(conns[x], line)
                                                        ELSE down[x]]
    BY <2>4, <2>5 DEF SendLines
  <2>7. c \notin whom
    BY <2>3
  <2>8. conns'[c] = NoConn /\ down'[c] = SubSeq(down[c], 1, k)
    BY <1>3, <2>6, <2>7
  <2>9. \A x \in Clients \ {c} : conns'[x] = told.conns[x] /\ down'[x] = told.down[x]
    BY <1>3, <2>6
  <2>10. ASSUME NEW x \in Clients \ {c}, Colleague(x, c)
         PROVE  SameUser(x) /\ Grows(x, line)
    <3>1. x \in whom /\ conns[x].sess.up /\ conns[x] \in ConnType
      BY <1>1, <2>3, <2>10 DEF Colleague, ConnOK, Registered
    <3>2. conns'[x] = AfterLine(conns[x]) /\ down'[x] = down[x] \o Queued(conns[x], line)
      BY <2>6, <2>9, <3>1
    <3> QED BY <2>2, <3>1, <3>2, GrowsFrom DEF SameUser
  <2>11. ASSUME NEW x \in Clients \ {c}, ~Colleague(x, c)
         PROVE  conns'[x] = conns[x] /\ down'[x] = down[x]
    BY <2>3, <2>6, <2>9, <2>11 DEF Colleague
  <2>12. Shape
    BY <1>3, <2>6 DEF Shape
  <2> QED BY <1>5, <2>1, <2>8, <2>10, <2>11, <2>12 DEF Dropped
<1> QED BY <1>4, <1>5

\* The name of the one who left is free, and no other.
LEMMA DropNames ==
    ASSUME TypesOK, NamesInverse, NEW c \in Clients,
           byName' = [s \in Servers |-> [n \in Names |->
                        IF byName[s][n] = c THEN NoClient ELSE byName[s][n]]],
           conns'[c].user = NoName, \A x \in Clients \ {c} : SameUser(x),
           \A x \in Clients : ConnOK(conns[x]) /\ SiteOK(x),
           clients' = clients
    PROVE  NamesInverse' /\ byName' \in [Servers -> [Names -> Clients \cup {NoClient}]]
<1>1. byName \in [Servers -> [Names -> Clients \cup {NoClient}]]
  BY DEF TypesOK
<1>2. byName' \in [Servers -> [Names -> Clients \cup {NoClient}]]
  BY <1>1
<1>3. \A s \in Servers, n \in Names :
        byName'[s][n] = IF byName[s][n] = c THEN NoClient ELSE byName[s][n]
  OBVIOUS
<1>4. ASSUME NEW s \in Servers, NEW n \in Names, byName'[s][n] # NoClient
      PROVE  conns'[byName'[s][n]].user = n /\ Site(byName'[s][n]) = s
  <2>1. byName'[s][n] = byName[s][n] /\ byName[s][n] \in Clients \ {c}
    BY <1>1, <1>3, <1>4
  <2>2. conns[byName[s][n]].user = n /\ Site(byName[s][n]) = s
    BY <1>4, <2>1 DEF NamesInverse
  <2> QED BY <2>1, <2>2 DEF SameUser
<1>5. ASSUME NEW x \in Clients, conns'[x].user # NoName
      PROVE  conns'[x].user \in Names /\ byName'[Site(x)][conns'[x].user] = x
  <2>1. x # c /\ conns[x].user = conns'[x].user
    BY <1>5 DEF SameUser
  <2>2. conns[x].user \in Names /\ byName[Site(x)][conns[x].user] = x
    BY <1>5, <2>1 DEF NamesInverse, Registered, Roster
  <2>3. Site(x) \in Servers
    BY <1>5, <2>1, ConnTypes DEF SiteOK, ConnOK
  <2> QED BY <1>3, <2>1, <2>2, <2>3
<1>6. PICK names : names = byName'
  OBVIOUS
<1>7. NamesInverse'
  <2>1. \A s \in Servers, n \in Names : names[s][n] # NoClient =>
            conns'[names[s][n]].user = n /\ clients'[names[s][n]].site = s
    BY <1>4, <1>6 DEF Site
  <2>2. \A x \in Clients : conns'[x].user # NoName =>
            conns'[x].user \in Names /\ names[clients'[x].site][conns'[x].user] = x
    BY <1>5, <1>6 DEF Site
  <2> QED BY ONLY <1>6, <2>1, <2>2 DEF NamesInverse, Registered, Site
<1> QED BY <1>2, <1>7

\* A connection whose server does not hold it any more.
LEMMA LostKeeps ==
    ASSUME TypesOK, NEW x \in Clients, ClientOK(x), clients' = clients, up'[x] = up[x],
           conns'[x] = NoConn, ends'[x] = ends[x] \ {"acceptor"},
           NEW k \in 0 .. Len(down[x]), down'[x] = SubSeq(down[x], 1, k),
           clients[x].st = "off" => down'[x] = <<>>
    PROVE  ClientOK(x)' /\ conns'[x] \in ConnType /\ down'[x] \in Seq(DownRecord)
<1>1. down[x] \in Seq(DownRecord) /\ DataLast(down[x])
  BY DEF TypesOK, ClientOK, LinesOK
<1>2. down'[x] \in Seq(DownRecord) /\ DataLast(down'[x])
  BY <1>1, LinesCut
<1>3. ProcessOK(clients[x])'
  BY DEF ClientOK
<1>4. ConnOK(conns[x])' /\ conns'[x] \in ConnType
  BY ConnTypes DEF ConnOK, NoConn, NewHandshake
<1>5. SiteOK(x)'
  BY ConnTypes DEF ClientOK, SiteOK, Site
<1>6. ProofOK(x)'
  BY DEF ProofOK
<1>7. LinesOK(x)'
  BY <1>2 DEF ClientOK, LinesOK
<1> QED BY <1>2, <1>3, <1>4, <1>5, <1>6, <1>7 DEF ClientOK

\* A connection that is dropped.
LEMMA DropKeeps ==
    ASSUME CertInv, NEW c \in Clients, DropConn(c)
    PROVE  CertInv'
<1>1. /\ TypesOK /\ NamesInverse /\ (\A s \in Servers : ServerOK(s))
      /\ \A x \in Clients : ClientOK(x) /\ ConnOK(conns[x]) /\ SiteOK(x)
  BY CertInvIs DEF ClientOK
<1>2. Dropped(c) /\ Shape
  BY <1>1, DropEffect
<1>3. /\ conns[c].st # "none" /\ ends' = [ends EXCEPT ![c] = ends[c] \ {"acceptor"}]
      /\ byName' = [s \in Servers |-> [n \in Names |->
                        IF byName[s][n] = c THEN NoClient ELSE byName[s][n]]]
      /\ UNCHANGED <<servers, up, clients, today, lines, junk>>
  BY DEF DropConn
<1>4. /\ ends \in [Clients -> SUBSET {"dialler", "acceptor"}]
      /\ down \in [Clients -> Seq(DownRecord)] /\ conns \in [Clients -> ConnType]
  BY <1>1 DEF TypesOK
<1>5. clients[c].st # "off" /\ ends'[c] = ends[c] \ {"acceptor"}
      /\ (\A x \in Clients \ {c} : ends'[x] = ends[x])
      /\ ends' \in [Clients -> SUBSET {"dialler", "acceptor"}]
  BY <1>1, <1>3, <1>4, ConnTypes DEF SiteOK
<1>6. ClientOK(c)' /\ conns'[c] \in ConnType /\ down'[c] \in Seq(DownRecord)
  <2>1. PICK k \in 0 .. Len(down[c]) : down'[c] = SubSeq(down[c], 1, k)
    BY <1>2 DEF Dropped
  <2> QED BY <1>1, <1>2, <1>3, <1>5, <2>1, LostKeeps DEF Dropped
<1>7. ASSUME NEW x \in Clients \ {c}
      PROVE  /\ ClientOK(x)' /\ conns'[x] \in ConnType /\ down'[x] \in Seq(DownRecord)
             /\ SameUser(x)
  <2>1. CASE Registered(c) /\ Colleague(x, c)
    <3>1. SameUser(x) /\ Grows(x, Line("left", conns[c].user, 0))
      BY <1>2, <2>1 DEF Dropped
    <3>2. conns'[x].user # NoName /\ UpKept(x)
      BY <1>3, <2>1, <3>1 DEF SameUser, Colleague, Registered, UpKept
    <3> QED BY <1>1, <1>3, <1>5, <3>1, <3>2, GrowsKeeps DEF Grows
  <2>2. CASE ~(Registered(c) /\ Colleague(x, c))
    <3>1. conns'[x] = conns[x] /\ down'[x] = down[x] /\ SameUser(x)
      BY <1>2, <2>2 DEF Dropped, SameUser
    <3> QED BY <1>1, <1>3, <1>4, <1>5, <3>1, OtherKeeps
  <2> QED BY <2>1, <2>2
<1>8. conns'[c].user = NoName
  BY <1>2, ConnTypes DEF Dropped
<1>9. NamesInverse' /\ byName' \in [Servers -> [Names -> Clients \cup {NoClient}]]
  BY <1>1, <1>3, <1>7, <1>8, DropNames
<1>10. TypesOK'
  BY <1>1, <1>2, <1>3, <1>5, <1>6, <1>7, <1>9, RelayTypes
<1>11. \A s \in Servers : ServerOK(s)'
  BY <1>1, <1>3 DEF ServerOK
<1> QED BY <1>6, <1>7, <1>9, <1>10, <1>11 DEF CertInv, ClientOK

\* A server starts: nobody is connected to it.
LEMMA StartKeeps ==
    ASSUME CertInv, NEW s \in Servers, StartServer(s)
    PROVE  CertInv'
<1>1. /\ TypesOK /\ NamesInverse /\ (\A t \in Servers : ServerOK(t))
      /\ \A x \in Clients : ClientOK(x) /\ SiteOK(x)
  BY CertInvIs DEF ClientOK
<1>2. PICK creds \in Creds[s] :
        servers' = [servers EXCEPT ![s] = [on |-> TRUE, creds |-> creds,
                                           starts |-> servers[s].starts + 1]]
  BY DEF StartServer
<1>3. /\ ~servers[s].on /\ servers[s].starts < MaxStarts
      /\ UNCHANGED <<ends, up, down, clients, conns, byName, today, lines, junk>>
  BY DEF StartServer
<1>4. servers \in [Servers -> ServerType] /\ servers[s].starts \in 0 .. MaxStarts
      /\ MaxStarts \in Nat
  BY <1>1, CertChatAssumption DEF TypesOK, ServerType
<1>5. PICK n : n = servers[s].starts + 1
  OBVIOUS
<1>6. n \in 1 .. MaxStarts /\ n \in 0 .. MaxStarts
  BY <1>3, <1>4, <1>5
<1>7. PICK v : v = [on |-> TRUE, creds |-> creds, starts |-> n]
  OBVIOUS
<1>8. v \in ServerType
  BY <1>6, <1>7 DEF ServerType
<1>9. /\ servers' \in [Servers -> ServerType] /\ servers'[s] = v
      /\ \A t \in Servers \ {s} : servers'[t] = servers[t]
  BY <1>2, <1>4, <1>5, <1>7, <1>8
<1>10. TypesOK'
  BY <1>1, <1>3, <1>9 DEF TypesOK
<1>11. \A t \in Servers : ServerOK(t)'
  BY <1>1, <1>6, <1>7, <1>9 DEF ServerOK
<1>12. NamesInverse'
  BY <1>1, <1>3 DEF NamesInverse, Registered, Roster, Site
<1>13. \A x \in Clients : ClientOK(x)'
  <2>1. ASSUME NEW x \in Clients,
        "acceptor" \in ends[x] PROVE servers'[Site(x)] = servers[Site(x)]
    BY <1>1, <1>3, <1>9, <2>1 DEF SiteOK
  <2>2. conns' = conns /\ down' = down /\ up' = up /\ ends' = ends /\ clients' = clients
    BY <1>3
  <2> QED BY <1>1, <2>1, <2>2, OtherKeeps
<1> QED BY <1>10, <1>11, <1>12, <1>13 DEF CertInv, ClientOK

\* A server stops: everything that concerned it is cut or forgotten.
LEMMA StopEffect ==
    ASSUME TypesOK, NEW s \in Servers, StopServer(s)
    PROVE  /\ \A x \in Clients :
                IF Site(x) = s
                THEN /\ conns'[x] = NoConn /\ ends'[x] = ends[x] \ {"acceptor"}
                     /\ \E k \in 0 .. Len(down[x]) : down'[x] = SubSeq(down[x], 1, k)
                     /\ down[x] = <<>> => down'[x] = <<>>
                ELSE conns'[x] = conns[x] /\ ends'[x] = ends[x] /\ down'[x] = down[x]
           /\ Shape /\ ends' = [x \in Clients |-> ends'[x]]
<1>1. /\ conns \in [Clients -> ConnType] /\ down \in [Clients -> Seq(DownRecord)]
      /\ ends \in [Clients -> SUBSET {"dialler", "acceptor"}]
  BY DEF TypesOK
<1>2. PICK here : here = {c \in Clients : Site(c) = s}
  OBVIOUS
<1>3. PICK k \in {0} \cup {Len(down[c]) : c \in here} :
        down' = [c \in Clients |-> IF c \in here /\ Len(down[c]) > k THEN SubSeq(down[c], 1, k)
                                   ELSE down[c]]
  BY <1>2 DEF StopServer
<1>4. k \in Nat
  BY <1>1, <1>2, <1>3
<1>5. /\ conns' = [c \in Clients |-> IF c \in here THEN NoConn ELSE conns[c]]
      /\ ends' = [c \in Clients |-> IF c \in here THEN ends[c] \ {"acceptor"} ELSE ends[c]]
  BY <1>2 DEF StopServer
<1>6. Shape /\ ends' = [x \in Clients |-> ends'[x]]
  BY <1>3, <1>5 DEF Shape
<1>7. ASSUME NEW x \in Clients, Site(x) = s
      PROVE  /\ conns'[x] = NoConn /\ ends'[x] = ends[x] \ {"acceptor"}
             /\ \E j \in 0 .. Len(down[x]) : down'[x] = SubSeq(down[x], 1, j)
             /\ down[x] = <<>> => down'[x] = <<>>
  <2>1. x \in here /\ down[x] \in Seq(DownRecord) /\ Len(down[x]) \in Nat
    BY <1>1, <1>2, <1>7
  <2>2. CASE Len(down[x]) > k
    <3>1. down'[x] = SubSeq(down[x], 1, k) /\ k \in 0 .. Len(down[x]) /\ down[x] # <<>>
      BY <1>3, <1>4, <2>1, <2>2
    <3> QED BY <1>5, <2>1, <3>1
  <2>3. CASE ~(Len(down[x]) > k)
    <3>1. down'[x] = down[x]
      BY <1>3, <2>1, <2>3
    <3>2. PICK w : w = down[x]
      OBVIOUS
    <3>3. w = SubSeq(w, 1, Len(w)) /\ Len(w) \in 0 .. Len(w)
      BY <2>1, <3>2
    <3> QED BY <1>5, <2>1, <3>1, <3>2, <3>3
  <2> QED BY <2>2, <2>3
<1>8. ASSUME NEW x \in Clients, Site(x) # s
      PROVE  conns'[x] = conns[x] /\ ends'[x] = ends[x] /\ down'[x] = down[x]
  BY <1>2, <1>3, <1>5, <1>8
<1> QED BY <1>6, <1>7, <1>8

\* A server stops, and its connections end with it.
LEMMA StopKeeps ==
    ASSUME CertInv, NEW s \in Servers, StopServer(s)
    PROVE  CertInv'
<1>1. /\ TypesOK /\ NamesInverse /\ (\A t \in Servers : ServerOK(t))
      /\ \A x \in Clients : ClientOK(x) /\ ConnOK(conns[x]) /\ SiteOK(x)
  BY CertInvIs DEF ClientOK
<1>2. /\ servers' = [servers EXCEPT ![s].on = FALSE]
      /\ byName' = [byName EXCEPT ![s] = [n \in Names |-> NoClient]]
      /\ UNCHANGED <<up, clients, today, lines, junk>>
  BY DEF StopServer
<1>3. /\ servers \in [Servers -> ServerType]
      /\ byName \in [Servers -> [Names -> Clients \cup {NoClient}]]
      /\ ends \in [Clients -> SUBSET {"dialler", "acceptor"}]
      /\ \A x \in Clients : conns[x] \in ConnType /\ down[x] \in Seq(DownRecord)
  BY <1>1 DEF TypesOK
<1>4. /\ servers' \in [Servers -> ServerType] /\ ~servers'[s].on
      /\ \A t \in Servers \ {s} : servers'[t] = servers[t]
  BY <1>2, <1>3 DEF ServerType
<1>5. /\ byName' \in [Servers -> [Names -> Clients \cup {NoClient}]]
      /\ \A n \in Names : byName'[s][n] = NoClient
      /\ \A t \in Servers \ {s} : byName'[t] = byName[t]
  <2>1. PICK b : b = [n \in Names |-> NoClient]
    OBVIOUS
  <2>2. b \in [Names -> Clients \cup {NoClient}] /\ \A n \in Names : b[n] = NoClient
    BY <2>1
  <2> QED BY <1>2, <1>3, <2>1, <2>2
<1>6. Shape /\ ends' = [x \in Clients |-> ends'[x]]
  BY <1>1, StopEffect
<1>7. ASSUME NEW x \in Clients, Site(x) = s
      PROVE  /\ ClientOK(x)' /\ conns'[x] \in ConnType /\ down'[x] \in Seq(DownRecord)
             /\ conns'[x].user = NoName /\ ends'[x] \in SUBSET {"dialler", "acceptor"}
  <2>1. /\ conns'[x] = NoConn /\ ends'[x] = ends[x] \ {"acceptor"}
        /\ down[x] = <<>> => down'[x] = <<>>
    BY <1>1, <1>7, StopEffect
  <2>2. PICK k \in 0 .. Len(down[x]) : down'[x] = SubSeq(down[x], 1, k)
    BY <1>1, <1>7, StopEffect
  <2>3. clients[x].st = "off" => down'[x] = <<>>
    BY <1>1, <2>1 DEF SiteOK
  <2>4. ClientOK(x)' /\ conns'[x] \in ConnType /\ down'[x] \in Seq(DownRecord)
    BY <1>1, <1>2, <2>1, <2>2, <2>3, LostKeeps
  <2> QED BY <1>3, <2>1, <2>4, ConnTypes
<1>8. ASSUME NEW x \in Clients, Site(x) # s
      PROVE  /\ ClientOK(x)' /\ conns'[x] = conns[x] /\ down'[x] = down[x]
             /\ ends'[x] = ends[x]
  <2>1. conns'[x] = conns[x] /\ down'[x] = down[x] /\ ends'[x] = ends[x]
    BY <1>1, <1>8, StopEffect
  <2>2. "acceptor" \in ends[x] => servers'[Site(x)] = servers[Site(x)]
    BY <1>1, <1>4, <1>8 DEF SiteOK
  <2>3. clients' = clients /\ up' = up
    BY <1>2
  <2> QED BY <1>1, <2>1, <2>2, <2>3, OtherKeeps
<1>9. TypesOK'
  <2>1. conns' \in [Clients -> ConnType] /\ down' \in [Clients -> Seq(DownRecord)]
    BY <1>3, <1>6, <1>7, <1>8 DEF Shape
  <2>2. ends' \in [Clients -> SUBSET {"dialler", "acceptor"}]
    BY <1>3, <1>6, <1>7, <1>8
  <2> QED BY <1>1, <1>2, <1>4, <1>5, <2>1, <2>2 DEF TypesOK
<1>10. \A t \in Servers : ServerOK(t)'
  BY <1>1, <1>4 DEF ServerOK
<1>11. NamesInverse'
  <2>1. ASSUME NEW t \in Servers, NEW n \in Names, byName'[t][n] # NoClient
        PROVE  conns'[byName'[t][n]].user = n /\ Site(byName'[t][n]) = t
    <3>1. t # s /\ byName'[t][n] = byName[t][n] /\ byName[t][n] \in Clients
      BY <1>3, <1>5, <2>1
    <3>2. conns[byName[t][n]].user = n /\ Site(byName[t][n]) = t
      BY <1>1, <2>1, <3>1 DEF NamesInverse
    <3> QED BY <1>8, <3>1, <3>2
  <2>2. ASSUME NEW x \in Clients, conns'[x].user # NoName
        PROVE  conns'[x].user \in Names /\ byName'[Site(x)][conns'[x].user] = x
    <3>1. Site(x) # s /\ conns'[x] = conns[x]
      BY <1>7, <1>8, <2>2
    <3>2. conns[x].user \in Names /\ byName[Site(x)][conns[x].user] = x
      BY <1>1, <2>2, <3>1 DEF NamesInverse, Registered, Roster
    <3>3. Site(x) \in Servers
      BY <1>1, <2>2, <3>1, ConnTypes DEF SiteOK, ConnOK
    <3> QED BY <1>5, <3>1, <3>2, <3>3
  <2> QED BY <1>2, <2>1, <2>2 DEF NamesInverse, Registered, Roster, Site
<1> QED BY <1>7, <1>8, <1>9, <1>10, <1>11 DEF CertInv, ClientOK

-----------------------------------------------------------------------------
(* The clients' steps. *)

\* What a client may do to its side: it takes a record or not, says one or not.
ClientMoves(c, p, e, speaks, r) ==
    /\ clients' = [clients EXCEPT ![c] = p] /\ ends' = [ends EXCEPT ![c] = e]
    /\ up' = IF speaks THEN Put(up, c, <<r>>) ELSE up
    /\ down' = down \/ (down[c] # <<>> /\ down' = Take(down, c))
    /\ UNCHANGED <<servers, conns, byName>>

\* The step it goes to is one it may go to with what it has seen and says.
MayMove(c, p, speaks, r) ==
    /\ clients[c].st # "off" /\ p.st # "off" /\ p.site = Site(c)
    /\ p.st = "strange" => clients[c].st = "strange"
    /\ p.st \in BeforeLogin => clients[c].st \in BeforeLogin /\ (speaks => r.type # "appdata")
    /\ speaks /\ IsLogin(r) => clients[c].st \in BeforeLogin
    /\ "acceptor" \in ends[c] =>
        /\ p.st \in {"kex", "proof"} => p.cert = servers[Site(c)].creds.cert
        /\ c \notin Strangers
           /\ (p.st \in {"keyed", "login", "on"} \/ (speaks /\ Contribution(r)))
             => Contributes(c) \/ Genuine(servers[Site(c)].creds)

\* The client's own part of the invariant.
LEMMA MoveKeeps ==
    ASSUME CertInv, NEW c \in Clients, NEW p \in ProcessType, ProcessOK(p),
           NEW e \in SUBSET {"dialler", "acceptor"},
           "acceptor" \in e <=> "acceptor" \in ends[c],
           NEW speaks \in BOOLEAN, NEW r \in UpRecord,
           ClientMoves(c, p, e, speaks, r), MayMove(c, p, speaks, r)
    PROVE  /\ ClientOK(c)' /\ up'[c] \in Seq(UpRecord) /\ down'[c] \in Seq(DownRecord)
           /\ \A x \in Clients \ {c} :
                /\ clients'[x] = clients[x] /\ ends'[x] = ends[x]
                /\ up'[x] = up[x] /\ down'[x] = down[x]
<1>1. TypesOK /\ ClientOK(c) /\ ConnOK(conns[c]) /\ SiteOK(c) /\ ProofOK(c) /\ LinesOK(c)
  BY CertInvIs DEF ClientOK
<1>2. /\ clients \in [Clients -> ProcessType]
      /\ ends \in [Clients -> SUBSET {"dialler", "acceptor"}]
      /\ up \in [Clients -> Seq(UpRecord)] /\ down \in [Clients -> Seq(DownRecord)]
      /\ up[c] \in Seq(UpRecord) /\ down[c] \in Seq(DownRecord)
  BY <1>1 DEF TypesOK
<1>3. /\ clients'[c] = p /\ ends'[c] = e
      /\ conns' = conns /\ servers' = servers
      /\ \A x \in Clients \ {c} : clients'[x] = clients[x] /\ ends'[x] = ends[x]
  BY <1>2 DEF ClientMoves
<1>4. /\ up'[c] \in Seq(UpRecord) /\ LoginFirst(up'[c])
      /\ NoData(up[c]) /\ (speaks => r.type # "appdata") => NoData(up'[c])
      /\ HasLogin(up'[c]) => HasLogin(up[c]) \/ (speaks /\ IsLogin(r))
      /\ Said(up'[c]) => Said(up[c]) \/ (speaks /\ Contribution(r))
      /\ \A x \in Clients \ {c} : up'[x] = up[x]
  <2>1. speaks /\ IsLogin(r) => NoData(up[c])
    BY <1>1 DEF LinesOK, MayMove
  <2>2. LoginFirst(up[c])
    BY <1>1 DEF LinesOK
  <2>3. CASE ~speaks
    BY <1>2, <2>2, <2>3 DEF ClientMoves
  <2>4. CASE speaks
    <3>1. PICK w : w = up[c] \o <<r>>
      OBVIOUS
    <3>2. up' = [up EXCEPT ![c] = w]
      BY <2>4, <3>1 DEF ClientMoves, Put
    <3>3. up'[c] = w /\ \A x \in Clients \ {c} : up'[x] = up[x]
      BY <1>2, <3>2
    <3>4. /\ w \in Seq(UpRecord)
          /\ LoginFirst(up[c]) /\ (~IsLogin(r) \/ NoData(up[c])) => LoginFirst(w)
          /\ ~IsLogin(r) => (HasLogin(w) => HasLogin(up[c]))
          /\ NoData(up[c]) /\ r.type # "appdata" => NoData(w)
          /\ Said(w) => Said(up[c]) \/ Contribution(r)
      BY <1>2, <3>1, SaidMore DEF Said
    <3> QED BY <2>1, <2>2, <2>4, <3>3, <3>4
  <2> QED BY <2>3, <2>4
<1>5. PICK creds : creds = servers[Site(c)].creds
  OBVIOUS
<1>6. /\ down'[c] \in Seq(DownRecord) /\ DataLast(down'[c])
      /\ NoData(down[c]) => NoData(down'[c])
      /\ (\A i \in DOMAIN down[c] : ShownBy(down[c][i], creds))
            => \A i \in DOMAIN down'[c] : ShownBy(down'[c][i], creds)
      /\ \A x \in Clients \ {c} : down'[x] = down[x]
  <2>1. DataLast(down[c])
    BY <1>1 DEF LinesOK
  <2>2. CASE down' = down
    BY <1>2, <2>1, <2>2
  <2>3. CASE down[c] # <<>> /\ down' = Take(down, c)
    <3>1. PICK w : w = Tail(down[c])
      OBVIOUS
    <3>2. down' = [down EXCEPT ![c] = w]
      BY <2>3, <3>1 DEF Take
    <3>3. down'[c] = w /\ \A x \in Clients \ {c} : down'[x] = down[x]
      BY <1>2, <3>2
    <3>4. w \in Seq(DownRecord) /\ DataLast(w)
      BY <1>2, <2>1, <2>3, <3>1, LineTaken
    <3>5. NoData(down[c]) => NoData(w)
      BY <1>2, <2>3, <3>1, NoDataTaken
    <3>6. (\A i \in DOMAIN down[c] : ShownBy(down[c][i], creds))
            => \A i \in DOMAIN w : ShownBy(w[i], creds)
      BY <1>2, <2>3, <3>1, ShownTaken
    <3> QED BY <3>3, <3>4, <3>5, <3>6
  <2> QED BY <2>2, <2>3 DEF ClientMoves
<1>7. Site(c)' = Site(c)
  BY <1>3 DEF Site, MayMove
<1>8. ProcessOK(clients[c])' /\ ConnOK(conns[c])'
  BY <1>1, <1>3
<1>9. SiteOK(c)'
  <2>1. clients[c].st # "off" /\ p.st # "off"
        /\ (p.st = "strange" => clients[c].st = "strange")
    BY DEF MayMove
  <2> QED BY <1>1, <1>3, <1>7, <2>1 DEF SiteOK
<1>10. ProofOK(c)'
  <2> SUFFICES ASSUME "acceptor" \in ends[c]
               PROVE  /\ \A i \in DOMAIN down'[c] : ShownBy(down'[c][i], creds)
                      /\ p.st \in {"kex", "proof"} => p.cert = creds.cert
                      /\ c \notin Strangers /\ Contributes(c)' => Genuine(creds)
    BY <1>3, <1>5, <1>7 DEF ProofOK
  <2>1. \A i \in DOMAIN down'[c] : ShownBy(down'[c][i], creds)
    BY <1>1, <1>5, <1>6 DEF ProofOK
  <2>2. p.st \in {"kex", "proof"} => p.cert = creds.cert
    BY <1>5 DEF MayMove
  <2>3. Contributes(c)' =>
          \/ Contributes(c) \/ p.st \in {"keyed", "login", "on"} \/ (speaks /\ Contribution(r))
    BY <1>3, <1>4 DEF Contributes, Said
  <2>4. c \notin Strangers /\ Contributes(c) => Genuine(creds)
    BY <1>1, <1>5 DEF ProofOK
  <2> QED BY <1>5, <2>1, <2>2, <2>3, <2>4 DEF MayMove
<1>11. LinesOK(c)'
  <2>1. p.st \in BeforeLogin => NoData(up'[c])
    BY <1>1, <1>4 DEF MayMove, LinesOK
  <2>2. "acceptor" \in e /\ ~conns[c].sess.up => NoData(down'[c])
    BY <1>1, <1>6 DEF LinesOK
  <2>3. ("acceptor" \in e /\ conns[c].user = NoName
        /\ (p.st \in BeforeLogin \/ HasLogin(up'[c])))
            => NoData(down'[c])
    <3>1. p.st \in BeforeLogin \/ HasLogin(up'[c])
            => clients[c].st \in BeforeLogin \/ HasLogin(up[c])
      BY <1>4 DEF MayMove
    <3> QED BY <1>1, <1>6, <3>1 DEF LinesOK, Registered
  <2> QED BY <1>3, <1>4, <1>6, <2>1, <2>2, <2>3 DEF LinesOK, Registered
<1> QED BY <1>3, <1>4, <1>6, <1>8, <1>9, <1>10, <1>11 DEF ClientOK

\* The whole invariant.
LEMMA MovesKeep ==
    ASSUME CertInv, NEW c \in Clients, NEW p \in ProcessType, ProcessOK(p),
           NEW e \in SUBSET {"dialler", "acceptor"},
           "acceptor" \in e <=> "acceptor" \in ends[c],
           NEW speaks \in BOOLEAN, NEW r \in UpRecord,
           ClientMoves(c, p, e, speaks, r), MayMove(c, p, speaks, r),
           today' = today, lines' \in 0 .. MaxLines, junk' \in 0 .. MaxJunk
    PROVE  CertInv'
<1>1. /\ TypesOK /\ NamesInverse /\ (\A s \in Servers : ServerOK(s))
      /\ \A x \in Clients : ClientOK(x)
  BY CertInvIs
<1>2. /\ ClientOK(c)' /\ up'[c] \in Seq(UpRecord) /\ down'[c] \in Seq(DownRecord)
      /\ \A x \in Clients \ {c} :
           /\ clients'[x] = clients[x] /\ ends'[x] = ends[x]
           /\ up'[x] = up[x] /\ down'[x] = down[x]
  BY MoveKeeps
<1>3. conns' = conns /\ byName' = byName /\ servers' = servers
      /\ clients' = [clients EXCEPT ![c] = p] /\ ends' = [ends EXCEPT ![c] = e]
  BY DEF ClientMoves
<1>4. /\ clients \in [Clients -> ProcessType]
      /\ ends \in [Clients -> SUBSET {"dialler", "acceptor"}]
      /\ up \in [Clients -> Seq(UpRecord)] /\ down \in [Clients -> Seq(DownRecord)]
  BY <1>1 DEF TypesOK
<1>5. \A x \in Clients \ {c} : ClientOK(x)'
  BY <1>1, <1>2, <1>3, OtherKeeps
<1>6. up' \in [Clients -> Seq(UpRecord)]
  <2>1. up' = [x \in Clients |-> up'[x]]
    <3>1. CASE speaks
      BY <1>4, <3>1 DEF ClientMoves, Put
    <3>2. CASE ~speaks
      BY <1>4, <3>2 DEF ClientMoves
    <3> QED BY <3>1, <3>2
  <2> QED BY <1>2, <1>4, <2>1
<1>7. down' \in [Clients -> Seq(DownRecord)]
  <2>1. down' = [x \in Clients |-> down'[x]]
    BY <1>4 DEF ClientMoves, Take
  <2> QED BY <1>2, <1>4, <2>1
<1>8. clients' \in [Clients -> ProcessType]
      /\ ends' \in [Clients -> SUBSET {"dialler", "acceptor"}]
  BY <1>3, <1>4
<1>9. TypesOK'
  BY <1>1, <1>3, <1>6, <1>7, <1>8 DEF TypesOK
<1>10. NamesInverse'
  <2>1. \A x \in Clients : SameUser(x)
    BY <1>3 DEF SameUser
  <2>2. \A x \in Clients : clients'[x].site = clients[x].site
    BY <1>3, <1>4 DEF MayMove, Site
  <2> QED BY <1>1, <1>3, <2>1, <2>2, SameNames
<1>11. \A s \in Servers : ServerOK(s)'
  BY <1>1, <1>3 DEF ServerOK
<1> QED BY <1>2, <1>5, <1>9, <1>10, <1>11 DEF CertInv, ClientOK

\* A client that ends, with a last word or without.
LEMMA EndsKeep ==
    ASSUME CertInv, NEW c \in Clients, clients[c].st # "off", Ends(c),
           NEW speaks \in BOOLEAN, NEW r \in UpRecord, ~IsLogin(r),
           speaks /\ Contribution(r) => clients[c].st \in {"keyed", "login", "on"},
           up' = IF speaks THEN Put(up, c, <<r>>) ELSE up,
           down' = down \/ (down[c] # <<>> /\ down' = Take(down, c)),
           UNCHANGED <<servers, conns, byName, today, lines, junk>>
    PROVE  CertInv'
<1>1. TypesOK /\ ProcessOK(clients[c])
  BY CertInvIs DEF ClientOK
<1>2. PICK p, e : /\ p = [NoProcess EXCEPT !.st = "gone", !.site = Site(c)]
                  /\ e = ends[c] \ {"dialler"}
  OBVIOUS
<1>3. Site(c) \in Servers /\ ends[c] \in SUBSET {"dialler", "acceptor"}
      /\ lines \in 0 .. MaxLines /\ junk \in 0 .. MaxJunk
  BY <1>1 DEF ProcessOK, Site, TypesOK
<1>4. p \in ProcessType /\ p.st = "gone" /\ p.site = Site(c)
  BY <1>2, <1>3, ConnTypes DEF NoProcess, ProcessType
<1>5. ProcessOK(p)
  BY <1>3, <1>4 DEF ProcessOK
<1>6. e \in SUBSET {"dialler", "acceptor"} /\ ("acceptor" \in e <=> "acceptor" \in ends[c])
  BY <1>2, <1>3
<1>7. ClientMoves(c, p, e, speaks, r)
  BY <1>2 DEF ClientMoves, Ends
<1>8. MayMove(c, p, speaks, r)
  BY <1>4 DEF MayMove, BeforeLogin, Contributes
<1> QED BY <1>3, <1>4, <1>5, <1>6, <1>7, <1>8, MovesKeep

\* A client that goes on with the connection it has.
LEMMA GoesOnKeep ==
    ASSUME CertInv, NEW c \in Clients, NEW p \in ProcessType, ProcessOK(p),
           NEW speaks \in BOOLEAN, NEW r \in UpRecord,
           clients' = [clients EXCEPT ![c] = p], MayMove(c, p, speaks, r), ends' = ends,
           up' = IF speaks THEN Put(up, c, <<r>>) ELSE up,
           down' = down \/ (down[c] # <<>> /\ down' = Take(down, c)),
           UNCHANGED <<servers, conns, byName, today>>,
           lines' \in 0 .. MaxLines, junk' \in 0 .. MaxJunk
    PROVE  CertInv'
<1>1. TypesOK
  BY CertInvIs
<1>2. PICK e : e = ends[c]
  OBVIOUS
<1>3. e \in SUBSET {"dialler", "acceptor"} /\ ends' = [ends EXCEPT ![c] = e]
  BY <1>1, <1>2 DEF TypesOK
<1>4. ClientMoves(c, p, e, speaks, r)
  BY <1>3 DEF ClientMoves
<1> QED BY <1>2, <1>3, <1>4, MovesKeep

\* What a client learns from the records of the exchange.
LEMMA HandshakeRecords ==
    ASSUME NEW r \in DownRecord
    PROVE  /\ r.type = "handshake" /\ r.kind = "ServerCert" => r.val \in Certs
           /\ r.type = "handshake" /\ r.kind = "ServerKex" => r.val \in ServerPubs
BY DEF DownRecord, Data, Alert

\* The certificate, and the public value.
LEMMA ReceivesKeep ==
    ASSUME CertInv, NEW c \in Clients, clients[c].st \in DOMAIN Due, down[c] # <<>>,
           down' = Take(down, c), Receives(c, Head(down[c])),
           UNCHANGED <<servers, conns, byName, today, lines, junk>>
    PROVE  CertInv'
<1>1. TypesOK /\ ProcessOK(clients[c]) /\ ProofOK(c)
  BY CertInvIs DEF ClientOK
<1>2. /\ clients[c] \in ProcessType /\ down[c] \in Seq(DownRecord)
      /\ lines \in 0 .. MaxLines /\ junk \in 0 .. MaxJunk
      /\ clients \in [Clients -> ProcessType]
  BY <1>1 DEF TypesOK
<1>3. PICK r : r = Head(down[c])
  OBVIOUS
<1>4. r \in DownRecord
  BY <1>2, <1>3, FirstTaken
<1>5. Alert \in UpRecord /\ Alert.type = "alert"
  BY DEF UpRecord, Alert
<1>6. /\ Due["cert"] = "ServerCert" /\ Due["kex"] = "ServerKex"
  BY DEF Due
<1>7. CASE /\ clients[c].st = "cert"
           /\ clients' = [clients EXCEPT ![c].st = "kex", ![c].cert = r.val]
           /\ UNCHANGED <<up, ends>>
  <2>1. r.type = "handshake" /\ r.kind = "ServerCert"
    BY <1>3, <1>6, <1>7 DEF Receives, IsDue
  <2>2. PICK cert : cert = r.val
    OBVIOUS
  <2>3. cert \in Certs
    BY <1>4, <2>1, <2>2, HandshakeRecords
  <2>4. PICK o, p : o = clients[c] /\ p = [o EXCEPT !.st = "kex", !.cert = cert]
    OBVIOUS
  <2>5. p \in ProcessType /\ p.st = "kex" /\ p.cert = cert /\ p.site = o.site
        /\ p.user = o.user
    BY <1>2, <2>3, <2>4 DEF ProcessType
  <2>6. clients' = [clients EXCEPT ![c] = p]
    BY <1>2, <1>7, <2>2, <2>4
  <2>7. ProcessOK(p)
    BY <1>1, <1>7, <2>3, <2>4, <2>5 DEF ProcessOK
  <2>8. "acceptor" \in ends[c] => cert = servers[Site(c)].creds.cert
    <3>1. "acceptor" \in ends[c] => ShownBy(r, servers[Site(c)].creds)
      BY <1>1, <1>2, <1>3, ShownTaken DEF ProofOK
    <3> QED BY <2>1, <2>2, <3>1 DEF ShownBy
  <2>9. MayMove(c, p, FALSE, Alert)
    BY <1>7, <2>4, <2>5, <2>8 DEF MayMove, BeforeLogin, Site
  <2> QED BY <1>2, <1>5, <1>7, <2>5, <2>6, <2>7, <2>9, GoesOnKeep
<1>8. CASE /\ clients[c].st = "kex"
           /\ clients' = [clients EXCEPT ![c].st = "proof", ![c].pub = r.val]
           /\ UNCHANGED <<up, ends>>
  <2>1. r.type = "handshake" /\ r.kind = "ServerKex"
    BY <1>3, <1>6, <1>8 DEF Receives, IsDue
  <2>2. PICK pub : pub = r.val
    OBVIOUS
  <2>3. pub \in ServerPubs
    BY <1>4, <2>1, <2>2, HandshakeRecords
  <2>4. PICK o, p : o = clients[c] /\ p = [o EXCEPT !.st = "proof", !.pub = pub]
    OBVIOUS
  <2>5. p \in ProcessType /\ p.st = "proof" /\ p.cert = o.cert /\ p.pub = pub
        /\ p.site = o.site /\ p.user = o.user
    BY <1>2, <2>3, <2>4 DEF ProcessType
  <2>6. clients' = [clients EXCEPT ![c] = p]
    BY <1>2, <1>8, <2>2, <2>4
  <2>7. ProcessOK(p)
    BY <1>1, <1>8, <2>3, <2>4, <2>5 DEF ProcessOK
  <2>8. "acceptor" \in ends[c] => o.cert = servers[Site(c)].creds.cert
    BY <1>1, <1>8, <2>4 DEF ProofOK
  <2>9. MayMove(c, p, FALSE, Alert)
    BY <1>8, <2>4, <2>5, <2>8 DEF MayMove, BeforeLogin, Site
  <2> QED BY <1>2, <1>5, <1>8, <2>5, <2>6, <2>7, <2>9, GoesOnKeep
<1> QED BY <1>3, <1>7, <1>8 DEF Receives

\* The proof: a client that accepts it has what it says of the server.
LEMMA AcceptedIsGenuine ==
    ASSUME CertInv, NEW c \in Clients, clients[c].st = "proof", down[c] # <<>>,
           "acceptor" \in ends[c], IsDue(c, Head(down[c])), Accepts(clients[c].cert),
           Verifies(clients[c].cert, Head(down[c]).val, c, clients[c].pub)
    PROVE  /\ Genuine(servers[Site(c)].creds)
           /\ today <= servers[Site(c)].creds.cert.until
<1>1. TypesOK /\ ProofOK(c)
  BY CertInvIs DEF ClientOK
<1>2. PICK r, creds, cert : r = Head(down[c]) /\ creds = servers[Site(c)].creds
                            /\ cert = clients[c].cert
  OBVIOUS
<1>3. down[c] \in Seq(DownRecord)
  BY <1>1 DEF TypesOK
<1>4. ShownBy(r, creds) /\ cert = creds.cert
  BY <1>1, <1>2, <1>3, ShownTaken DEF ProofOK
<1>5. r.type = "handshake" /\ r.kind = "ServerProof"
  BY <1>2 DEF IsDue, Due
<1>6. r.val.key = cert.key
  BY <1>2 DEF Verifies, Signed
<1>7. creds.key = cert.key
  BY <1>4, <1>5, <1>6 DEF ShownBy
<1>8. cert.trusted /\ today <= cert.until /\ cert.host = Expected
  BY <1>2 DEF Accepts
<1> QED BY <1>2, <1>4, <1>7, <1>8 DEF Genuine

\* The public value of the client.
LEMMA JudgesKeep ==
    ASSUME CertInv, NEW c \in Clients, down[c] # <<>>,
           down' = Take(down, c), Judges(c, Head(down[c])),
           UNCHANGED <<servers, conns, byName, today, lines, junk>>
    PROVE  CertInv'
<1>1. TypesOK /\ ProcessOK(clients[c])
  BY CertInvIs DEF ClientOK
<1>2. /\ clients[c] \in ProcessType /\ clients \in [Clients -> ProcessType]
      /\ lines \in 0 .. MaxLines /\ junk \in 0 .. MaxJunk
  BY <1>1 DEF TypesOK
<1>3. PICK me, r : me = clients[c] /\ r = Head(down[c])
  OBVIOUS
<1>4. me.st = "proof" /\ IsDue(c, r) /\ me.cert \in Certs /\ me.pub \in ServerPubs
  BY <1>1, <1>3 DEF Judges, ProcessOK
<1>5. Alert \in UpRecord /\ ~Contribution(Alert) /\ ~IsLogin(Alert)
  BY DEF UpRecord, Alert, Contribution, IsLogin
<1>6. CASE up' = Put(up, c, <<Alert>>) /\ Ends(c)
  BY <1>3, <1>4, <1>5, <1>6, EndsKeep
<1>7. CASE Ends(c) /\ UNCHANGED up
  BY <1>3, <1>4, <1>5, <1>7, EndsKeep
<1>8. CASE /\ Accepts(me.cert) /\ Verifies(me.cert, r.val, c, me.pub)
           /\ up' = Put(up, c, <<Hs("ClientKex", Pub(c, "client"))>>)
           /\ clients' = [clients EXCEPT ![c].st = "keyed",
                ![c].sess = Install(Derive(c, me.cert, me.pub, Pub(c, "client")), "Client")]
           /\ UNCHANGED ends
  <2>1. PICK s : s = Install(Derive(c, me.cert, me.pub, Pub(c, "client")), "Client")
    OBVIOUS
  <2>2. s \in SessionType
    <3>1. Derive(c, me.cert, me.pub, Pub(c, "client")) \in KeysType
      BY <1>4 DEF Derive, Pub, KeysType, ClientPubs
    <3>2. KeysType = [th : Clients \X {cr.cert : cr \in UNION {Creds[x] : x \in Servers}},
                      pubs : (Clients \X {"server"}) \X (Clients \X {"client"})]
      BY DEF KeysType, ServerPubs, ClientPubs, Certs
    <3>3. PICK k : k = Derive(c, me.cert, me.pub, Pub(c, "client"))
      OBVIOUS
    <3>4. s = [up |-> TRUE, keys |-> k, role |-> "Client", tx |-> 0, rx |-> 0]
          /\ k \in KeysType
      BY <2>1, <3>1, <3>3 DEF Install
    <3> QED BY <3>2, <3>4 DEF SessionType
  <2>3. PICK p : p = [me EXCEPT !.st = "keyed", !.sess = s]
    OBVIOUS
  <2>4. p \in ProcessType /\ p.st = "keyed" /\ p.site = me.site /\ p.user = me.user
    BY <1>2, <1>3, <2>2, <2>3 DEF ProcessType
  <2>5. clients' = [clients EXCEPT ![c] = p]
    BY <1>2, <1>3, <1>8, <2>1, <2>3
  <2>6. ProcessOK(p)
    BY <1>1, <1>3, <1>4, <2>4 DEF ProcessOK
  <2>7. PICK k : k = Hs("ClientKex", Pub(c, "client"))
    OBVIOUS
  <2>8. k \in UpRecord /\ ~IsLogin(k) /\ k.type # "appdata"
    BY <2>7 DEF UpRecord, Hs, IsLogin, Pub, ClientPubs
  <2>9. "acceptor" \in ends[c] => Genuine(servers[Site(c)].creds)
    BY <1>3, <1>4, <1>8, AcceptedIsGenuine
  <2>10. MayMove(c, p, TRUE, k)
    BY <1>3, <1>4, <2>4, <2>8, <2>9 DEF MayMove, BeforeLogin, Site
  <2> QED BY <1>2, <1>8, <2>4, <2>5, <2>6, <2>7, <2>8, <2>10, GoesOnKeep
<1> QED BY <1>3, <1>6, <1>7, <1>8 DEF Judges

\* The exchange.
LEMMA HandshakeKeeps ==
    ASSUME CertInv, NEW c \in Clients, ClientHandshake(c)
    PROVE  CertInv'
<1>1. /\ clients[c].st \in DOMAIN Due /\ down[c] # <<>> /\ down' = Take(down, c)
      /\ UNCHANGED <<servers, conns, byName, today, lines, junk>>
  BY DEF ClientHandshake
<1>2. Alert \in UpRecord /\ ~Contribution(Alert) /\ ~IsLogin(Alert)
  BY DEF UpRecord, Alert, Contribution, IsLogin
<1>3. CASE Ends(c) /\ UNCHANGED up
  <2>1. clients[c].st # "off"
    BY <1>1 DEF Due
  <2> QED BY <1>1, <1>2, <1>3, <2>1, EndsKeep
<1> QED BY <1>1, <1>3, ReceivesKeep, JudgesKeep DEF ClientHandshake

\* The lines a client sends.
LEMMA SaysKeep ==
    ASSUME CertInv, NEW c \in Clients, NEW line \in Asked, Says(c, line),
           NEW st \in {"login", "on"},
           clients' = [clients EXCEPT ![c].st = st, ![c].sess = Counted(@)], ends' = ends,
           clients[c].st \in {"keyed", "login", "on"},
           line.verb = "LOGIN" => clients[c].st = "keyed",
           lines' \in 0 .. MaxLines
    PROVE  CertInv'
<1>1. TypesOK /\ ProcessOK(clients[c])
  BY CertInvIs DEF ClientOK
<1>2. PICK me : me = clients[c]
  OBVIOUS
<1>3. me \in ProcessType /\ me.sess \in SessionType /\ clients \in [Clients -> ProcessType]
      /\ junk \in 0 .. MaxJunk
  BY <1>1, <1>2 DEF TypesOK, ProcessType
<1>4. PICK s, p : s = Counted(me.sess) /\ p = [me EXCEPT !.st = st, !.sess = s]
  OBVIOUS
<1>5. s \in SessionType
  BY <1>3, <1>4, Counts
<1>6. p \in ProcessType /\ p.st = st /\ p.site = me.site /\ p.user = me.user
  BY <1>3, <1>4, <1>5 DEF ProcessType
<1>7. clients' = [clients EXCEPT ![c] = p]
  BY <1>2, <1>3, <1>4
<1>8. ProcessOK(p)
  BY <1>1, <1>2, <1>6 DEF ProcessOK
<1>9. PICK r : r = Sealed(me.sess, line)
  OBVIOUS
<1>10. r \in UpRecord /\ (IsLogin(r) => line.verb = "LOGIN")
  <2>1. r \in Data(Asked) /\ r.line = line
    BY <1>3, <1>9, SealedIs
  <2> QED BY <2>1 DEF UpRecord, IsLogin
<1>11. MayMove(c, p, TRUE, r)
  BY <1>2, <1>6, <1>10 DEF MayMove, BeforeLogin, Site, Contributes
<1>12. /\ up' = Put(up, c, <<r>>) /\ UNCHANGED <<servers, down, conns, byName, today, junk>>
  BY <1>2, <1>9 DEF Says
<1> QED BY <1>3, <1>6, <1>7, <1>8, <1>10, <1>11, <1>12, GoesOnKeep

\* A client sends its LOGIN.
LEMMA LoginKeeps ==
    ASSUME CertInv, NEW c \in Clients, Login(c)
    PROVE  CertInv'
<1>1. clients[c].user \in Names /\ lines' \in 0 .. MaxLines
  BY CertInvIs DEF ClientOK, ProcessOK, Login, TypesOK
<1>2. PICK line : line = Line("LOGIN", clients[c].user, 0)
  OBVIOUS
<1>3. line \in Asked
  BY <1>1, <1>2 DEF Asked, Line
<1> QED BY <1>1, <1>2, <1>3, SaysKeep DEF Login

\* A user types a command.
LEMMA InputKeeps ==
    ASSUME CertInv, NEW c \in Clients, HandleInput(c)
    PROVE  CertInv'
<1>1. TypesOK
  BY CertInvIs
<1>2. /\ clients[c].st = "on" /\ clients[c] \in ProcessType
      /\ lines \in 0 .. MaxLines /\ MaxLines \in Nat
      /\ clients \in [Clients -> ProcessType] /\ clients[c].sess \in SessionType
  BY <1>1, CertChatAssumption DEF TypesOK, HandleInput, ProcessType
<1>3. CASE /\ lines < MaxLines /\ lines' = lines + 1
           /\ \/ \E to \in Names \cup {NoName} : Says(c, Line("MSG", to, lines + 1))
              \/ Says(c, Line("WHO", NoName, 0))
           /\ clients' = [clients EXCEPT ![c].sess = Counted(@)]
           /\ UNCHANGED ends
  <2>1. lines' \in 0 .. MaxLines /\ lines + 1 \in 1 .. MaxLines
    BY <1>2, <1>3
  <2>2. PICK line \in Asked : Says(c, line) /\ line.verb # "LOGIN"
    <3>1. ASSUME NEW to \in Names \cup {NoName}, NEW m \in 1 .. MaxLines
          PROVE  Line("MSG", to, m) \in Asked /\ Line("MSG", to, m).verb # "LOGIN"
      BY DEF Asked, Line
    <3>2. Line("WHO", NoName, 0) \in Asked /\ Line("WHO", NoName, 0).verb # "LOGIN"
      BY DEF Asked, Line
    <3>3. PICK m \in 1 .. MaxLines : m = lines + 1
      BY <2>1
    <3> QED BY <1>3, <3>1, <3>2, <3>3
  <2>3. clients' = [clients EXCEPT ![c].st = "on", ![c].sess = Counted(@)]
    <3>1. PICK o, s : o = clients[c] /\ s = Counted(clients[c].sess)
      OBVIOUS
    <3>2. [o EXCEPT !.sess = s] = [o EXCEPT !.st = "on", !.sess = s]
      BY <1>2, <3>1 DEF ProcessType
    <3>3. clients' = [clients EXCEPT ![c] = [o EXCEPT !.sess = s]]
      BY <1>2, <1>3, <3>1
    <3> QED BY <1>2, <3>1, <3>2, <3>3
  <2> QED BY <1>2, <1>3, <2>1, <2>2, <2>3, SaysKeep
<1>4. CASE Says(c, Line("QUIT", NoName, 0)) /\ Ends(c) /\ UNCHANGED lines
  <2>1. PICK line, s : line = Line("QUIT", NoName, 0) /\ s = clients[c].sess
    OBVIOUS
  <2>2. line \in Asked /\ line.verb # "LOGIN"
    BY <2>1 DEF Asked, Line
  <2>3. PICK r : r = Sealed(s, line)
    OBVIOUS
  <2>4. r \in UpRecord /\ ~IsLogin(r)
    <3>1. r \in Data(Asked) /\ r.line = line
      BY <1>2, <2>1, <2>2, <2>3, SealedIs
    <3> QED BY <2>2, <3>1 DEF UpRecord, IsLogin
  <2>5. up' = Put(up, c, <<r>>) /\ UNCHANGED <<servers, down, conns, byName, today, junk>>
    BY <1>4, <2>1, <2>3 DEF Says
  <2> QED BY <1>2, <1>4, <2>4, <2>5, EndsKeep
<1> QED BY <1>3, <1>4 DEF HandleInput

\* What a client reads.
LEMMA ReadsKeeps ==
    ASSUME CertInv, NEW c \in Clients, Reads(c)
    PROVE  CertInv'
<1>1. TypesOK /\ ProcessOK(clients[c])
  BY CertInvIs DEF ClientOK
<1>2. /\ clients[c].st \in {"login", "on"} /\ down[c] # <<>> /\ down' = Take(down, c)
      /\ UNCHANGED <<servers, up, conns, byName, today, lines, junk>>
  BY DEF Reads
<1>3. Alert \in UpRecord /\ ~Contribution(Alert) /\ ~IsLogin(Alert)
  BY DEF UpRecord, Alert, Contribution, IsLogin
<1>4. CASE Ends(c)
  BY <1>2, <1>3, <1>4, EndsKeep
<1>5. CASE clients' = [clients EXCEPT ![c].st = "on", ![c].sess = Opened(@)] /\ UNCHANGED ends
  <2>1. PICK me : me = clients[c]
    OBVIOUS
  <2>2. me \in ProcessType /\ me.sess \in SessionType /\ clients \in [Clients -> ProcessType]
        /\ lines \in 0 .. MaxLines /\ junk \in 0 .. MaxJunk
    BY <1>1, <2>1 DEF TypesOK, ProcessType
  <2>3. PICK s, p : s = Opened(me.sess) /\ p = [me EXCEPT !.st = "on", !.sess = s]
    OBVIOUS
  <2>4. s \in SessionType
    BY <2>2, <2>3, Counts
  <2>5. p \in ProcessType /\ p.st = "on" /\ p.site = me.site /\ p.user = me.user
    BY <2>2, <2>3, <2>4 DEF ProcessType
  <2>6. clients' = [clients EXCEPT ![c] = p]
    BY <1>5, <2>1, <2>2, <2>3
  <2>7. ProcessOK(p)
    BY <1>1, <1>2, <2>1, <2>5 DEF ProcessOK
  <2>8. MayMove(c, p, FALSE, Alert)
    BY <1>2, <2>1, <2>5 DEF MayMove, BeforeLogin, Site, Contributes
  <2> QED BY <1>2, <1>3, <1>5, <2>2, <2>5, <2>6, <2>7, <2>8, GoesOnKeep
<1> QED BY <1>4, <1>5 DEF Reads

\* A client that finds the connection closed, or is killed.
LEMMA ClosedKeeps ==
    ASSUME CertInv, NEW c \in Clients, SeesClose(c) \/ Dies(c)
    PROVE  CertInv'
<1>1. Alert \in UpRecord /\ ~Contribution(Alert) /\ ~IsLogin(Alert)
  BY DEF UpRecord, Alert, Contribution, IsLogin
<1>2. clients[c].st # "off" /\ Ends(c)
      /\ UNCHANGED <<servers, up, down, conns, byName, today, lines, junk>>
  BY DEF SeesClose, Dies, Due
<1> QED BY <1>1, <1>2, EndsKeep

\* What strangers send.
LEMMA StrangerKeeps ==
    ASSUME CertInv, NEW c \in Clients, StrangerSends(c)
    PROVE  CertInv'
<1>1. TypesOK /\ ProcessOK(clients[c]) /\ SiteOK(c)
  BY CertInvIs DEF ClientOK
<1>2. /\ clients[c].st = "strange" /\ junk < MaxJunk /\ junk' = junk + 1
      /\ UNCHANGED <<servers, ends, down, clients, conns, byName, today, lines>>
  BY DEF StrangerSends
<1>3. PICK r \in {Hs("ClientHello", c), Hs("ClientHello", None),
      Hs("ClientKex", Pub(c, "client")),
                  Hs("ClientKex", None), Alert, Sealed(NoSession, Err)} :
        up' = Put(up, c, <<r>>)
  BY DEF StrangerSends
<1>4. r \in UpRecord /\ ~IsLogin(r)
  <2>1. Hs("ClientHello", c) \in UpRecord /\ ~IsLogin(Hs("ClientHello", c))
    BY DEF UpRecord, Hs, IsLogin
  <2>2. Hs("ClientHello", None) \in UpRecord /\ ~IsLogin(Hs("ClientHello", None))
    BY DEF UpRecord, Hs, IsLogin
  <2>3. Hs("ClientKex", Pub(c, "client")) \in UpRecord
        /\ ~IsLogin(Hs("ClientKex", Pub(c, "client")))
    BY DEF UpRecord, Hs, IsLogin, Pub, ClientPubs
  <2>4. Hs("ClientKex", None) \in UpRecord /\ ~IsLogin(Hs("ClientKex", None))
    BY DEF UpRecord, Hs, IsLogin
  <2>5. Alert \in UpRecord /\ ~IsLogin(Alert)
    BY DEF UpRecord, Alert, IsLogin
  <2>6. Err \in Asked /\ Err.verb # "LOGIN"
    BY DEF Err, Line, Asked
  <2>7. Sealed(NoSession, Err) \in Data(Asked) /\ Sealed(NoSession, Err).line = Err
    BY <2>6, ConnTypes, SealedIs
  <2>8. Sealed(NoSession, Err) \in UpRecord /\ ~IsLogin(Sealed(NoSession, Err))
    BY <2>6, <2>7 DEF UpRecord, IsLogin
  <2> QED BY <1>3, <2>1, <2>2, <2>3, <2>4, <2>5, <2>8
<1>5. /\ clients[c] \in ProcessType /\ clients' = [clients EXCEPT ![c] = clients[c]]
      /\ lines' \in 0 .. MaxLines /\ junk' \in 0 .. MaxJunk
  <2>1. junk \in 0 .. MaxJunk /\ MaxJunk \in Nat /\ lines \in 0 .. MaxLines
    BY <1>1, CertChatAssumption DEF TypesOK
  <2>2. junk' \in 0 .. MaxJunk
    BY <1>2, <2>1
  <2> QED BY <1>1, <1>2, <2>1, <2>2 DEF TypesOK
<1>6. c \in Strangers
  BY <1>1, <1>2 DEF SiteOK
<1>7. MayMove(c, clients[c], TRUE, r)
  BY <1>2, <1>4, <1>6 DEF MayMove, BeforeLogin, Site
<1>8. down' = down /\ ends' = ends /\ UNCHANGED <<servers, conns, byName, today>>
  BY <1>2
<1> QED BY <1>1, <1>3, <1>4, <1>5, <1>7, <1>8, GoesOnKeep

-----------------------------------------------------------------------------
(* A connection is opened. *)

\* A client dials: it is accepted, by a server that runs.
LEMMA DialKeeps ==
    ASSUME CertInv, NEW c \in Clients, NEW s \in Servers, Dials(c, s),
           NEW p \in ProcessType, ProcessOK(p), clients' = [clients EXCEPT ![c] = p],
           p.site = s, p.st \in {"cert", "strange"}, p.st = "strange" => c \in Strangers,
           up' = up \/ up' = Put(up, c, <<Hs("ClientHello", c)>>)
    PROVE  CertInv'
<1>1. /\ TypesOK /\ NamesInverse /\ (\A t \in Servers : ServerOK(t))
      /\ \A x \in Clients : ClientOK(x)
  BY CertInvIs
<1>2. /\ clients[c].st = "off" /\ servers[s].on
      /\ ends' = [ends EXCEPT ![c] = {"dialler", "acceptor"}]
      /\ UNCHANGED <<servers, down, conns, byName, today, lines, junk>>
  BY DEF Dials
<1>3. up[c] = <<>> /\ down[c] = <<>> /\ conns[c] = NoConn /\ ConnOK(conns[c])
  BY <1>1, <1>2 DEF ClientOK, SiteOK
<1>4. /\ clients \in [Clients -> ProcessType]
      /\ ends \in [Clients -> SUBSET {"dialler", "acceptor"}]
      /\ up \in [Clients -> Seq(UpRecord)] /\ down \in [Clients -> Seq(DownRecord)]
  BY <1>1 DEF TypesOK
<1>5. PICK h : h = Hs("ClientHello", c)
  OBVIOUS
<1>6. h \in UpRecord /\ ~Contribution(h) /\ ~IsLogin(h) /\ h.type # "appdata"
  BY <1>5 DEF UpRecord, Hs, Contribution, IsLogin
<1>7. /\ up' \in [Clients -> Seq(UpRecord)] /\ (\A x \in Clients \ {c} : up'[x] = up[x])
      /\ LoginFirst(up'[c]) /\ NoData(up'[c]) /\ ~HasLogin(up'[c]) /\ ~Said(up'[c])
  <2>0. PICK e : e = up[c]
    OBVIOUS
  <2>1. e \in Seq(UpRecord) /\ LoginFirst(e) /\ NoData(e) /\ ~HasLogin(e) /\ ~Said(e)
    BY <1>3, <2>0 DEF LoginFirst, NoData, HasLogin, Said
  <2>2. CASE up' = up
    BY <1>4, <2>0, <2>1, <2>2
  <2>3. CASE up' = Put(up, c, <<Hs("ClientHello", c)>>)
    <3>1. PICK w : w = e \o <<h>>
      OBVIOUS
    <3>2. up' = [up EXCEPT ![c] = w]
      BY <1>5, <2>0, <2>3, <3>1 DEF Put
    <3>3. w \in Seq(UpRecord) /\ LoginFirst(w) /\ NoData(w) /\ ~HasLogin(w) /\ ~Said(w)
      BY <1>6, <2>1, <3>1, SaidMore DEF Said
    <3> QED BY <1>4, <3>2, <3>3
  <2> QED BY <2>2, <2>3
<1>8. /\ clients'[c] = p /\ ends'[c] = {"dialler", "acceptor"}
      /\ clients' \in [Clients -> ProcessType]
      /\ ends' \in [Clients -> SUBSET {"dialler", "acceptor"}]
      /\ \A x \in Clients \ {c} : clients'[x] = clients[x] /\ ends'[x] = ends[x]
  BY <1>2, <1>4
<1>9. \A x \in Clients \ {c} : ClientOK(x)'
  BY <1>1, <1>2, <1>7, <1>8, OtherKeeps
<1>10. ClientOK(c)'
  <2>1. ProcessOK(clients[c])' /\ ConnOK(conns[c])'
    BY <1>2, <1>3, <1>8
  <2>2. SiteOK(c)'
    BY <1>2, <1>3, <1>8 DEF SiteOK, Site
  <2>3. PICK d : d = down'[c]
    OBVIOUS
  <2>4. d = <<>> /\ d \in Seq(DownRecord) /\ DOMAIN d = {}
    <3>1. d = <<>>
      BY <1>2, <1>3, <2>3
    <3> QED BY <3>1
  <2>5. NoData(d)
    BY <2>4 DEF NoData
  <2>6. ~conns'[c].sess.up
    BY <1>2, <1>3, ConnTypes
  <2>7. ~Contributes(c)'
    BY <1>7, <1>8, <2>6 DEF Contributes, Said
  <2>8. ProofOK(c)'
    BY <1>8, <2>3, <2>4, <2>7 DEF ProofOK
  <2>9. LinesOK(c)'
    <3>1. DataLast(d)
      BY <2>4, <2>5, NoLines
    <3> QED BY <1>7, <2>3, <2>5, <3>1 DEF LinesOK
  <2> QED BY <2>1, <2>2, <2>8, <2>9 DEF ClientOK
<1>11. TypesOK'
  BY <1>1, <1>2, <1>7, <1>8 DEF TypesOK
<1>12. NamesInverse'
  <2>1. \A x \in Clients : SameUser(x)
    BY <1>2 DEF SameUser
  <2>2. \A x \in Clients : Registered(x) => clients'[x].site = clients[x].site
    BY <1>3, <1>8, ConnTypes DEF Registered
  <2> QED BY <1>1, <1>2, <2>1, <2>2, SameNames
<1>13. \A t \in Servers : ServerOK(t)'
  BY <1>1, <1>2 DEF ServerOK
<1> QED BY <1>9, <1>10, <1>11, <1>12, <1>13 DEF CertInv, ClientOK

\* A client of this program, or a stranger, connects.
LEMMA ConnectKeeps ==
    ASSUME CertInv, NEW c \in Clients, NEW s \in Servers,
           StrangerConnects(c, s) \/ \E name \in Names : Connect(c, s, name)
    PROVE  CertInv'
<1>1. /\ clients \in [Clients -> ProcessType] /\ clients[c] \in ProcessType
      /\ Dials(c, s)
  BY CertInvIs DEF TypesOK, StrangerConnects, Connect
<1>2. PICK o : o = clients[c]
  OBVIOUS
<1>3. CASE StrangerConnects(c, s)
  <2>1. PICK p : p = [o EXCEPT !.st = "strange", !.site = s]
    OBVIOUS
  <2>2. p \in ProcessType /\ p.st = "strange" /\ p.site = s
    BY <1>1, <1>2, <2>1 DEF ProcessType
  <2>3. clients' = [clients EXCEPT ![c] = p]
    BY <1>1, <1>2, <1>3, <2>1 DEF StrangerConnects
  <2>4. ProcessOK(p)
    BY <2>2 DEF ProcessOK
  <2>5. c \in Strangers /\ up' = up
    BY <1>3 DEF StrangerConnects
  <2> QED BY <1>1, <2>2, <2>3, <2>4, <2>5, DialKeeps
<1>4. CASE \E name \in Names : Connect(c, s, name)
  <2>0. PICK name \in Names : Connect(c, s, name)
    BY <1>4
  <2>1. PICK p : p = [o EXCEPT !.st = "cert", !.site = s, !.user = name]
    OBVIOUS
  <2>2. p \in ProcessType /\ p.st = "cert" /\ p.site = s /\ p.user = name
    BY <1>1, <1>2, <2>1 DEF ProcessType
  <2>3. clients' = [clients EXCEPT ![c] = p]
    BY <1>1, <1>2, <2>0, <2>1 DEF Connect
  <2>4. ProcessOK(p)
    BY <2>2 DEF ProcessOK
  <2>5. up' = Put(up, c, <<Hs("ClientHello", c)>>)
    BY <2>0 DEF Connect
  <2> QED BY <1>1, <2>2, <2>3, <2>4, <2>5, DialKeeps
<1> QED BY <1>3, <1>4

\* A day passes: nobody looks.
LEMMA DayKeeps ==
    ASSUME CertInv, DayPasses \/ UNCHANGED vars
    PROVE  CertInv'
<1>1. UNCHANGED <<servers, ends, up, down, clients, conns, byName, lines, junk>>
  BY DEF DayPasses, vars
<1>2. /\ TypesOK /\ NamesInverse /\ (\A t \in Servers : ServerOK(t))
      /\ \A x \in Clients : ClientOK(x)
  BY CertInvIs
<1>3. today' \in 0 .. MaxTime
  BY <1>2, CertChatAssumption DEF TypesOK, DayPasses, vars
<1>4. TypesOK'
  BY <1>1, <1>2, <1>3 DEF TypesOK
<1>5. NamesInverse'
  BY <1>1, <1>2 DEF NamesInverse, Registered, Site
<1>6. \A t \in Servers : ServerOK(t)'
  BY <1>1, <1>2 DEF ServerOK
<1>7. \A x \in Clients : ClientOK(x)'
  BY <1>1, <1>2, OtherKeeps
<1> QED BY <1>4, <1>5, <1>6, <1>7 DEF CertInv, ClientOK

\* Nothing is running.
LEMMA CertInit == Init => CertInv
<1> SUFFICES ASSUME Init PROVE CertInv
  OBVIOUS
<1>1. PICK e : e = <<>>
  OBVIOUS
<1>2. e \in Seq(UpRecord) /\ e \in Seq(DownRecord) /\ DOMAIN e = {}
  BY <1>1
<1>3. NoProcess \in ProcessType /\ NoProcess.st = "off"
  BY ConnTypes DEF NoProcess, ProcessType
<1>4. 0 \in 0 .. MaxTime /\ 0 \in 0 .. MaxLines /\ 0 \in 0 .. MaxJunk /\ 0 \in 0 .. MaxStarts
  BY CertChatAssumption
<1>5. TypesOK
  <2>1. servers \in [Servers -> ServerType]
    BY <1>4 DEF Init, ServerType
  <2>2. up \in [Clients -> Seq(UpRecord)] /\ down \in [Clients -> Seq(DownRecord)]
    BY <1>1, <1>2 DEF Init
  <2>3. conns \in [Clients -> ConnType]
    BY ConnTypes DEF Init
  <2>4. clients \in [Clients -> ProcessType]
    BY <1>3 DEF Init
  <2>5. byName \in [Servers -> [Names -> Clients \cup {NoClient}]]
    BY DEF Init
  <2>6. ends \in [Clients -> SUBSET {"dialler", "acceptor"}]
    BY DEF Init
  <2> QED BY <1>4, <2>1, <2>2, <2>3, <2>4, <2>5, <2>6 DEF Init, TypesOK
<1>6. NamesInverse
  BY ConnTypes DEF Init, NamesInverse, Registered
<1>7. \A s \in Servers : ServerOK(s)
  BY DEF Init, ServerOK
<1>8. ASSUME NEW c \in Clients PROVE ClientOK(c)
  <2>1. /\ clients[c] = NoProcess /\ conns[c] = NoConn /\ ends[c] = {}
        /\ up[c] = e /\ down[c] = e
    BY <1>1 DEF Init
  <2>2. ProcessOK(clients[c])
    BY <1>3, <2>1 DEF ProcessOK
  <2>3. ConnOK(conns[c])
    BY <2>1 DEF ConnOK, NoConn, NoSession, NewHandshake
  <2>4. SiteOK(c)
    BY <1>1, <1>3, <2>1, ConnTypes DEF SiteOK
  <2>5. ProofOK(c)
    BY <2>1 DEF ProofOK
  <2>6. NoData(e) /\ LoginFirst(e) /\ DataLast(e)
    <3>1. NoData(e) /\ LoginFirst(e)
      BY <1>2 DEF NoData, LoginFirst
    <3> QED BY <1>2, <3>1, NoLines
  <2>7. LinesOK(c)
    BY <2>1, <2>6 DEF LinesOK
  <2> QED BY <2>2, <2>3, <2>4, <2>5, <2>7 DEF ClientOK
<1> QED BY <1>5, <1>6, <1>7, <1>8, CertInvIs

\* Whatever the relay does.
LEMMA RelayKeeps ==
    ASSUME CertInv, NEW c \in Clients, Relay(c)
    PROVE  CertInv'
<1>1. CASE AcceptNew(c)
  BY <1>1, StagesKeep DEF AcceptNew
<1>2. CASE DrainRecord(c)
  BY <1>2, DrainKeeps
<1>3. CASE PeerClosed(c)
  <2>1. "acceptor" \in ends[c]
    BY <1>3, CertInvIs DEF PeerClosed, ClientOK, SiteOK
  <2> QED BY <1>3, <2>1, StagesKeep DEF PeerClosed, Dooms
<1>4. CASE Quit(c)
  <2>1. "acceptor" \in ends[c]
    BY <1>4, CertInvIs DEF Quit, ClientOK, SiteOK
  <2> QED BY <1>4, <2>1, StagesKeep DEF Quit
<1>5. CASE DropConn(c)
  BY <1>5, DropKeeps
<1> QED BY <1>1, <1>2, <1>3, <1>4, <1>5 DEF Relay

\* Whatever a client's thread does.
LEMMA ClientKeeps ==
    ASSUME CertInv, NEW c \in Clients, ClientThread(c)
    PROVE  CertInv'
BY HandshakeKeeps, LoginKeeps, ReadsKeeps, ClosedKeeps DEF ClientThread

\* Whatever users, strangers, operators and the days do.
LEMMA WorldKeeps ==
    ASSUME CertInv, World
    PROVE  CertInv'
<1>1. CASE \E c \in Clients, s \in Servers :
              StrangerConnects(c, s) \/ \E name \in Names : Connect(c, s, name)
  BY <1>1, ConnectKeeps
<1>2. CASE \E c \in Clients : HandleInput(c) \/ Dies(c) \/ StrangerSends(c)
  BY <1>2, InputKeeps, ClosedKeeps, StrangerKeeps
<1>3. CASE \E s \in Servers : StartServer(s) \/ StopServer(s)
  BY <1>3, StartKeeps, StopKeeps
<1>4. CASE DayPasses
  BY <1>4, DayKeeps
<1> QED BY <1>1, <1>2, <1>3, <1>4 DEF World

\* Every step keeps the invariant.
LEMMA CertStep == CertInv /\ [Next]_vars => CertInv'
BY RelayKeeps, ClientKeeps, WorldKeeps, DayKeeps DEF Next

\* The invariant of CertExchange holds in every behaviour: of any clients,
\* strangers, servers and certificates, however the steps of the processes fall.
THEOREM CertInvariance == Spec => []CertInv
BY CertInit, CertStep, PTL DEF Spec

\* The types of TypeOK: a server that runs has credentials of its own, and a
\* connection it holds is one it accepted and still runs for.
THEOREM CertTypes == Spec => []TypeOK
<1>1. CertInv => TypeOK
  <2> SUFFICES ASSUME CertInv PROVE TypeOK
    OBVIOUS
  <2>1. /\ TypesOK /\ (\A s \in Servers : ServerOK(s))
        /\ \A c \in Clients : ConnOK(conns[c]) /\ SiteOK(c)
    BY DEF CertInv
  <2>2. ASSUME NEW c \in Clients
        PROVE  /\ clients[c].sess \in SessionType /\ conns[c].sess \in SessionType
               /\ clients[c].site \in Servers \cup {None}
               /\ conns[c].st \in {"none", "open", "doomed", "flushed"}
               /\ conns[c].st # "none" => servers[Site(c)].on /\ "acceptor" \in ends[c]
               /\ conns[c].sess.up <=> conns[c].hs.step = "Complete"
    <3>1. clients[c] \in ProcessType /\ conns[c] \in ConnType
      BY <2>1 DEF TypesOK
    <3>2. clients[c].sess \in SessionType /\ clients[c].site \in Servers \cup {None}
      BY <3>1 DEF ProcessType
    <3>3. conns[c].sess \in SessionType
          /\ conns[c].st \in {"none", "open", "doomed", "flushed"}
      BY <3>1 DEF ConnType
    <3> QED BY <2>1, <3>2, <3>3 DEF ConnOK, SiteOK
  <2> QED BY <2>1, <2>2 DEF TypeOK, TypesOK, ServerOK
<1> QED BY <1>1, CertInvariance, PTL

\* A client that is not a stranger contributes to a session only at a server
\* whose certificate the certifier signed and whose key belongs to it: by the
\* time it says ClientKex or a line, the server has proved both.
THEOREM NothingIsContributed == Spec => []NothingBeforeProof
<1>1. CertInv => NothingBeforeProof
  BY DEF CertInv, ProofOK, Contributes, NothingBeforeProof
<1> QED BY <1>1, CertInvariance, PTL

\* Only a proof that is accepted takes a client on.
LEMMA OnlyJudged ==
    ASSUME TypesOK, [Next]_vars, NEW c \in Clients,
           clients[c].st = "proof", clients'[c].st = "keyed"
    PROVE  /\ down[c] # <<>> /\ IsDue(c, Head(down[c])) /\ Accepts(clients[c].cert)
           /\ Verifies(clients[c].cert, Head(down[c]).val, c, clients[c].pub)
<1>1. clients \in [Clients -> ProcessType] /\ clients' # clients
  BY DEF TypesOK
<1>2. ASSUME NEW x \in Clients PROVE ~Ends(x)
  <2>1. Ends(x) => clients'[x].st = "gone" /\ \A y \in Clients \ {x} : clients'[y] = clients[y]
    BY <1>1, ConnTypes DEF Ends, NoProcess
  <2> QED BY <2>1
<1>3. ASSUME NEW x \in Clients PROVE ~Relay(x)
  BY <1>1 DEF Relay, AcceptNew, DrainRecord, PeerClosed, Quit, DropConn
<1>4. ~World
  <2>1. ASSUME NEW x \in Clients, NEW s \in Servers, NEW name \in Names, Connect(x, s, name)
        PROVE  FALSE
    BY <1>1, <2>1 DEF Connect, ProcessType
  <2>2. ASSUME NEW x \in Clients, NEW s \in Servers, StrangerConnects(x, s)
        PROVE  FALSE
    BY <1>1, <2>2 DEF StrangerConnects, ProcessType
  <2>3. ASSUME NEW x \in Clients, HandleInput(x) PROVE FALSE
    <3>1. clients' = [clients EXCEPT ![x].sess = Counted(@)]
      BY <1>2, <2>3 DEF HandleInput
    <3> QED BY <1>1, <3>1 DEF ProcessType
  <2>4. ASSUME NEW x \in Clients, Dies(x) PROVE FALSE
    BY <1>2, <2>4 DEF Dies
  <2>5. ASSUME NEW x \in Clients, StrangerSends(x) PROVE FALSE
    BY <1>1, <2>5 DEF StrangerSends
  <2>6. ASSUME NEW s \in Servers, StartServer(s) \/ StopServer(s) PROVE FALSE
    BY <1>1, <2>6 DEF StartServer, StopServer
  <2>7. ~DayPasses
    BY <1>1 DEF DayPasses
  <2> QED BY <2>1, <2>2, <2>3, <2>4, <2>5, <2>6, <2>7 DEF World
<1>5. PICK x \in Clients : ClientThread(x)
  BY <1>1, <1>3, <1>4 DEF Next, vars
<1>6. ~Login(x)
  BY <1>1 DEF Login, ProcessType
<1>7. ~Reads(x)
  <2>1. Reads(x) => clients' = [clients EXCEPT ![x].st = "on", ![x].sess = Opened(@)]
    BY <1>2 DEF Reads
  <2>2. clients' # [clients EXCEPT ![x].st = "on", ![x].sess = Opened(@)]
    BY <1>1 DEF ProcessType
  <2> QED BY <2>1, <2>2
<1>8. ~SeesClose(x)
  BY <1>2 DEF SeesClose
<1>9. ClientHandshake(x)
  BY <1>5, <1>6, <1>7, <1>8 DEF ClientThread
<1>10. ~Receives(x, Head(down[x]))
  BY <1>1 DEF Receives, ProcessType
<1>11. Judges(x, Head(down[x])) /\ down[x] # <<>>
  BY <1>2, <1>9, <1>10 DEF ClientHandshake
<1>12. x = c
  <2>1. \E p : clients' = [clients EXCEPT ![x] = p]
    <3>1. \A st, s : [clients EXCEPT ![x].st = st, ![x].sess = s]
                        = [clients EXCEPT ![x] = [clients[x] EXCEPT !.st = st, !.sess = s]]
      BY <1>1
    <3> QED BY <1>2, <1>11, <3>1 DEF Judges
  <2> QED BY <1>1, <2>1
<1> QED BY <1>2, <1>11, <1>12 DEF Judges

\* Past the last day of a certificate nobody completes the exchange with the
\* server that runs on with it.
THEOREM NobodyJoinsAnExpiredServer == Spec => NobodyJoinsExpired
<1>1. CertInv /\ [Next]_vars =>
        [\A c \in Clients :
            clients[c].st = "proof" /\ clients'[c].st = "keyed" /\ "acceptor" \in ends[c] =>
                today <= servers[Site(c)].creds.cert.until]_vars
  <2> SUFFICES ASSUME CertInv, [Next]_vars, NEW c \in Clients, clients[c].st = "proof",
                      clients'[c].st = "keyed", "acceptor" \in ends[c]
               PROVE  today <= servers[Site(c)].creds.cert.until
    OBVIOUS
  <2>1. TypesOK
    BY CertInvIs
  <2>2. /\ down[c] # <<>> /\ IsDue(c, Head(down[c])) /\ Accepts(clients[c].cert)
        /\ Verifies(clients[c].cert, Head(down[c]).val, c, clients[c].pub)
    BY <2>1, OnlyJudged
  <2> QED BY <2>2, AcceptedIsGenuine
<1> QED BY <1>1, CertInvariance, PTL DEF Spec, NobodyJoinsExpired

-----------------------------------------------------------------------------
(* The service that the users of one server see. *)

\* The inboxes of the abstract service.
Boxes == [c \in Clients |-> Inbox(c)]

\* A process that dials nobody.
Away == {"off", "strange", "gone"}

\* Whose inbox it is that is on the way.
Shown(c) == Site(c) = Home /\ (clients[c].st \notin Away \/ Registered(c))

\* Who is online at one of the servers is registered there.
LEMMA BoxIs ==
    CertInv => \A c \in Clients : Boxes[c] = IF Shown(c) THEN Lines(down[c]) ELSE <<>>
<1> SUFFICES ASSUME CertInv, NEW c \in Clients
             PROVE  Boxes[c] = IF Shown(c) THEN Lines(down[c]) ELSE <<>>
  OBVIOUS
<1>1. TypesOK /\ NamesInverse /\ ConnOK(conns[c]) /\ SiteOK(c)
  BY CertInvIs DEF ClientOK
<1>2. Online(c) <=> Registered(c)
  <2>1. ASSUME Online(c) PROVE Registered(c)
    <3>1. PICK s \in Servers, n \in Names : byName[s][n] = c
      BY <2>1 DEF Online
    <3>2. c # NoClient /\ n # NoName
      BY CertChatAssumption
    <3> QED BY <1>1, <3>1, <3>2 DEF NamesInverse, Registered
  <2>2. ASSUME Registered(c) PROVE Online(c)
    <3>1. Site(c) \in Servers
      BY <1>1, <2>2, ConnTypes DEF ConnOK, SiteOK, Registered
    <3>2. conns[c].user \in Names /\ byName[Site(c)][conns[c].user] = c
      BY <1>1, <2>2 DEF NamesInverse
    <3> QED BY <3>1, <3>2 DEF Online
  <2> QED BY <2>1, <2>2
<1>3. Boxes[c] = Inbox(c)
  BY DEF Boxes
<1> QED BY <1>2, <1>3 DEF Inbox, Shown, Away

\* The same after a step.
LEMMA NextBoxIs ==
    CertInv' => (\A c \in Clients : Boxes[c] = IF Shown(c) THEN Lines(down[c]) ELSE <<>>)'
BY BoxIs, PTL

\* Who is online at the service is registered at the server.
LEMMA OnlineIs ==
    ASSUME CertInv, NEW c \in Clients
    PROVE  c \in Service!Online <=> Registered(c) /\ Site(c) = Home
<1>1. TypesOK /\ NamesInverse /\ Home \in Servers /\ c # NoClient
  BY CertInvIs, CertChatAssumption
<1>2. c \in Service!Online <=> \E n \in Names : byName[Home][n] = c
  BY <1>1 DEF Service!Online
<1>3. \A n \in Names : n # NoName
  BY CertChatAssumption
<1> QED BY <1>1, <1>2, <1>3 DEF NamesInverse, Registered

\* What is on the way to a client, as lines.
LEMMA LinesTyped ==
    ASSUME CertInv, NEW c \in Clients
    PROVE  down[c] \in Seq(DownRecord) /\ DataLast(down[c]) /\ Lines(down[c]) \in Seq(Told)
<1>1. down[c] \in Seq(DownRecord) /\ DataLast(down[c])
  BY CertInvIs DEF TypesOK, ClientOK, LinesOK
<1> QED BY <1>1, LinesAre

\* An inbox holds lines of the service.
LEMMA BoxTyped ==
    ASSUME CertInv
    PROVE  Boxes \in [Clients -> Seq(Told)]
<1>1. ASSUME NEW c \in Clients PROVE Boxes[c] \in Seq(Told)
  <2>1. Lines(down[c]) \in Seq(Told)
    BY LinesTyped
  <2>2. <<>> \in Seq(Told)
    OBVIOUS
  <2> QED BY <2>1, <2>2, BoxIs
<1>2. Boxes = [c \in Clients |-> Boxes[c]]
  BY DEF Boxes
<1> QED BY <1>1, <1>2

\* A step of the service, or none.
ServiceStep == Service!Next \/ (byName'[Home] = byName[Home] /\ Boxes' = Boxes)

\* Inboxes are the same when each is.
LEMMA BoxesSame ==
    ASSUME \A x \in Clients : Boxes'[x] = Boxes[x]
    PROVE  Boxes' = Boxes
<1>1. Boxes = [x \in Clients |-> Boxes[x]] /\ Boxes' = [x \in Clients |-> Boxes'[x]]
  BY DEF Boxes
<1> QED BY <1>1

\* An inbox of which nothing is touched.
LEMMA BoxSame ==
    ASSUME CertInv, CertInv', NEW x \in Clients, down'[x] = down[x], SameUser(x),
           clients'[x] = clients[x]
    PROVE  Boxes'[x] = Boxes[x]
<1>1. Shown(x)' <=> Shown(x)
  BY DEF Shown, Site, SameUser, Registered
<1> QED BY <1>1, BoxIs, NextBoxIs

\* An inbox nobody looks into.
LEMMA BoxHidden ==
    ASSUME CertInv, CertInv', NEW x \in Clients, ~Shown(x), ~Shown(x)'
    PROVE  Boxes'[x] = Boxes[x]
BY BoxIs, NextBoxIs

\* One more line in an inbox.
LEMMA BoxGrows ==
    ASSUME CertInv, CertInv', NEW x \in Clients, NEW line, Grows(x, line), Shown(x)',
           Shown(x) \/ NoData(down[x])
    PROVE  Boxes'[x] = Append(Boxes[x], line) /\ Boxes'[x] # Boxes[x]
<1>1. PICK r \in Data(Told) : r.line = line /\ down'[x] = down[x] \o <<r>>
  BY DEF Grows
<1>2. down[x] \in Seq(DownRecord) /\ DataLast(down[x])
  BY LinesTyped
<1>3. Lines(down'[x]) = Append(Lines(down[x]), line) /\ Lines(down'[x]) # Lines(down[x])
  BY <1>1, <1>2, LineSent
<1>4. Boxes[x] = Lines(down[x])
  <2>1. CASE Shown(x)
    BY <2>1, BoxIs
  <2>2. CASE ~Shown(x)
    <3>1. Lines(down[x]) = <<>>
      BY <1>2, <2>2, NoLines
    <3> QED BY <2>2, <3>1, BoxIs
  <2> QED BY <2>1, <2>2
<1>5. Boxes'[x] = Lines(down'[x])
  BY NextBoxIs
<1> QED BY <1>3, <1>4, <1>5

\* The beginning of an inbox is left.
LEMMA BoxCut ==
    ASSUME CertInv, CertInv', NEW x \in Clients, clients'[x] = clients[x],
           conns'[x].user = NoName,
           NEW k \in 0 .. Len(down[x]), down'[x] = SubSeq(down[x], 1, k)
    PROVE  \E j \in 0 .. Len(Boxes[x]) : Boxes'[x] = SubSeq(Boxes[x], 1, j)
<1>1. down[x] \in Seq(DownRecord) /\ DataLast(down[x]) /\ Boxes[x] \in Seq(Told)
  BY LinesTyped, BoxTyped
<1>2. CASE Shown(x)'
  <2>1. Shown(x)
    BY <1>2 DEF Shown, Site, Registered
  <2>2. Boxes[x] = Lines(down[x]) /\ Boxes'[x] = Lines(down'[x])
    BY <1>2, <2>1, BoxIs, NextBoxIs
  <2> QED BY <1>1, <2>2, LinesCut
<1>3. CASE ~Shown(x)'
  <2>1. Boxes'[x] = <<>>
    BY <1>3, NextBoxIs
  <2>2. PICK s : s = Boxes[x]
    OBVIOUS
  <2>3. 0 \in 0 .. Len(s) /\ SubSeq(s, 1, 0) = <<>>
    BY <1>1, <2>2, SubSeqEmpty
  <2> QED BY <2>1, <2>2, <2>3
<1> QED BY <1>2, <1>3

\* A function on the clients is what it is at each of them.
LEMMA TellIs ==
    ASSUME NEW boxes, NEW whom, NEW line,
           \A x \in Clients :
               Boxes'[x] = IF x \in whom THEN Append(boxes[x], line) ELSE boxes[x]
    PROVE  Boxes' = Service!Tell(boxes, whom, line)
<1>1. Boxes' = [x \in Clients |-> Boxes'[x]]
  BY DEF Boxes
<1>2. Service!Tell(boxes, whom, line)
         = [x \in Clients |-> IF x \in whom THEN Append(boxes[x], line) ELSE boxes[x]]
  BY DEF Service!Tell
<1> QED BY <1>1, <1>2

\* Service and server have the same lines.
LEMMA SameLine ==
    ASSUME NEW verb, NEW name, NEW msg
    PROVE  Service!Line(verb, name, msg) = Line(verb, name, msg)
BY DEF Service!Line, Line

\* A connection that is told nothing.
LEMMA KeptBox ==
    ASSUME CertInv, CertInv', NEW x \in Clients, Kept(x), clients' = clients
    PROVE  Boxes'[x] = Boxes[x]
BY BoxSame DEF Kept, SameUser

\* An answer of the server is an answer of the service.
LEMMA ReplyServes ==
    ASSUME CertInv, CertInv', NEW c \in Clients, Reply(c), clients' = clients
    PROVE  ServiceStep
<1>1. PICK verb \in {"ERR", "USERS"} : Grows(c, Line(verb, NoName, 0))
  BY DEF Reply
<1>2. byName' = byName /\ SameUser(c) /\ \A x \in Clients \ {c} : Boxes'[x] = Boxes[x]
  BY KeptBox DEF Reply
<1>3. Shown(c)' <=> Shown(c)
  BY <1>2 DEF Shown, Site, SameUser, Registered
<1>4. CASE Shown(c)
  <2>1. Boxes'[c] = Append(Boxes[c], Line(verb, NoName, 0)) /\ Boxes'[c] # Boxes[c]
    BY <1>1, <1>3, <1>4, BoxGrows
  <2>2. Boxes' = Service!Tell(Boxes, {c}, Line(verb, NoName, 0))
    BY <1>2, <2>1, TellIs
  <2>3. Service!Answer(c, verb, NoName)
    BY <1>2, <2>2, SameLine DEF Service!Answer, Boxes
  <2>4. Service!Seen
    BY <2>1 DEF Service!Seen, Boxes
  <2> QED BY <2>3, <2>4 DEF ServiceStep, Service!Next
<1>5. CASE ~Shown(c)
  <2>1. Boxes'[c] = Boxes[c]
    BY <1>3, <1>5, BoxHidden
  <2> QED BY <1>2, <2>1, BoxesSame DEF ServiceStep
<1> QED BY <1>4, <1>5

\* A FROM line queued is a message posted.
LEMMA PostServes ==
    ASSUME CertInv, CertInv', NEW c \in Clients, Site(c) \in Servers,
           NEW to \in Names, NEW m \in 1 .. MaxLines, Post(c, to, m), clients' = clients
    PROVE  ServiceStep
<1>1. PICK g, line : g = Roster(c)[to] /\ line = Line("FROM", conns[c].user, m)
  OBVIOUS
<1>2. TypesOK /\ NamesInverse
  BY CertInvIs
<1>3. /\ g # NoClient /\ SameUser(g) /\ byName' = byName /\ Grows(g, line) /\ Registered(c)
      /\ \A x \in Clients \ {g} : Kept(x)
  BY <1>1 DEF Post
<1>4. g \in Clients /\ Registered(g) /\ Site(g) = Site(c)
  <2>1. byName[Site(c)] \in [Names -> Clients \cup {NoClient}]
    BY <1>2 DEF TypesOK
  <2>2. conns[byName[Site(c)][to]].user = to /\ Site(byName[Site(c)][to]) = Site(c)
    BY <1>1, <1>2, <1>3 DEF NamesInverse, Roster
  <2> QED BY <1>1, <1>3, <2>1, <2>2, CertChatAssumption DEF Roster, Registered
<1>5. \A x \in Clients \ {g} : Boxes'[x] = Boxes[x]
  BY <1>3, KeptBox
<1>6. /\ Shown(g)' <=> Shown(g)
      /\ Shown(g) <=> Site(c) = Home
  BY <1>3, <1>4 DEF Shown, Site, SameUser, Registered
<1>7. CASE Site(c) = Home
  <2>1. Boxes'[g] = Append(Boxes[g], line) /\ Boxes'[g] # Boxes[g]
    BY <1>3, <1>4, <1>6, <1>7, BoxGrows
  <2>2. Boxes' = Service!Tell(Boxes, {g}, line)
    BY <1>5, <2>1, TellIs
  <2>3. conns[c].user \in Names /\ byName[Home][conns[c].user] = c /\ c # NoClient
    BY <1>2, <1>3, <1>7, CertChatAssumption DEF NamesInverse
  <2>4. Service!Post(conns[c].user, to, m)
    BY <1>1, <1>3, <1>7, <2>2, <2>3, SameLine DEF Service!Post, Boxes, Roster
  <2>5. Service!Seen
    BY <1>4, <2>1 DEF Service!Seen, Boxes
  <2> QED BY <2>3, <2>4, <2>5 DEF ServiceStep, Service!Next
<1>8. CASE Site(c) # Home
  <2>1. Boxes'[g] = Boxes[g]
    BY <1>4, <1>6, <1>8, BoxHidden
  <2> QED BY <1>3, <1>5, <2>1, BoxesSame DEF ServiceStep
<1> QED BY <1>7, <1>8

\* A LOGIN granted is a user who joins.
LEMMA JoinServes ==
    ASSUME CertInv, CertInv', NEW c \in Clients, Site(c) \in Servers, "acceptor" \in ends[c],
           NEW n \in Names, Join(c, n), clients' = clients, HasLogin(up[c])
    PROVE  ServiceStep
<1>1. TypesOK /\ NamesInverse /\ LinesOK(c)
  BY CertInvIs DEF ClientOK
<1>2. PICK ok, joined : ok = Line("OK", n, 0) /\ joined = Line("joined", n, 0)
  OBVIOUS
<1>3. /\ ~Registered(c) /\ Roster(c)[n] = NoClient /\ conns'[c].user = n /\ Grows(c, ok)
      /\ byName' = [byName EXCEPT ![Site(c)][n] = c] /\ n # NoName
  BY <1>2, CertChatAssumption DEF Join
<1>4. NoData(down[c])
  BY <1>1, <1>3 DEF LinesOK
<1>5. byName \in [Servers -> [Names -> Clients \cup {NoClient}]] /\ Home \in Servers
      /\ NoClient \notin Clients
  BY <1>1, CertChatAssumption DEF TypesOK
<1>6. CASE Site(c) = Home
  <2>1. Shown(c)'
    BY <1>3, <1>6 DEF Shown, Site, Registered
  <2>2. Boxes'[c] = Append(Boxes[c], ok)
    BY <1>3, <1>4, <2>1, BoxGrows
  <2>3. ASSUME NEW x \in Clients \ {c}
        PROVE  Boxes'[x] = IF Registered(x) /\ Site(x) = Home THEN Append(Boxes[x], joined)
                                                              ELSE Boxes[x]
    <3>1. CASE Registered(x) /\ Site(x) = Home
      <4>1. SameUser(x) /\ Grows(x, joined)
        BY <1>2, <1>6, <3>1 DEF Join, Colleague
      <4>2. Shown(x) /\ Shown(x)'
        BY <3>1, <4>1 DEF Shown, Site, SameUser, Registered
      <4> QED BY <3>1, <4>1, <4>2, BoxGrows
    <3>2. CASE ~(Registered(x) /\ Site(x) = Home)
      <4>1. Kept(x)
        BY <1>6, <3>2 DEF Join, Colleague
      <4> QED BY <3>2, <4>1, KeptBox
    <3> QED BY <3>1, <3>2
  <2>4. c \notin Service!Online
        /\ \A x \in Clients : x \in Service!Online <=> Registered(x) /\ Site(x) = Home
    BY <1>3, OnlineIs
  <2>5. PICK first : first = Service!Tell(Boxes, {c}, ok)
    OBVIOUS
  <2>6. \A x \in Clients : first[x] = IF x = c THEN Append(Boxes[x], ok) ELSE Boxes[x]
    BY <2>5 DEF Service!Tell
  <2>7. \A x \in Clients :
          Boxes'[x] = IF x \in Service!Online THEN Append(first[x], joined) ELSE first[x]
    BY <2>2, <2>3, <2>4, <2>6
  <2>8. Boxes' = Service!Tell(first, Service!Online, joined)
    BY <2>7, TellIs
  <2>9. byName'[Home] = [byName[Home] EXCEPT ![n] = c]
    BY <1>3, <1>5, <1>6
  <2>10. Service!Join(c, n)
    BY <1>2, <1>3, <1>6, <2>4, <2>5, <2>8, <2>9, SameLine DEF Service!Join, Boxes, Roster
  <2>11. Service!Seen
    <3>1. byName'[Home][n] # byName[Home][n]
      BY <1>3, <1>5, <1>6, <2>9 DEF Roster
    <3> QED BY <3>1 DEF Service!Seen
  <2> QED BY <2>10, <2>11 DEF ServiceStep, Service!Next
<1>7. CASE Site(c) # Home
  <2>1. byName'[Home] = byName[Home]
    BY <1>3, <1>5, <1>7
  <2>2. ASSUME NEW x \in Clients PROVE Boxes'[x] = Boxes[x]
    <3>1. CASE Site(x) # Home
      <4>1. ~Shown(x) /\ ~Shown(x)'
        BY <3>1 DEF Shown, Site
      <4> QED BY <4>1, BoxHidden
    <3>2. CASE Site(x) = Home
      <4>1. Kept(x)
        BY <1>7, <3>2 DEF Join, Colleague
      <4> QED BY <4>1, KeptBox
    <3> QED BY <3>1, <3>2
  <2> QED BY <2>1, <2>2, BoxesSame DEF ServiceStep
<1> QED BY <1>6, <1>7

\* Boxes that are all the same, and the names of the server too.
LEMMA NothingServed ==
    ASSUME \A x \in Clients : Boxes'[x] = Boxes[x], byName'[Home] = byName[Home]
    PROVE  ServiceStep
BY BoxesSame DEF ServiceStep

\* A record handled is one of these, or nothing the service shows.
LEMMA DrainServes ==
    ASSUME CertInv, CertInv', NEW c \in Clients, DrainRecord(c)
    PROVE  ServiceStep
<1>1. /\ TypesOK /\ NamesInverse /\ (\A s \in Servers : ServerOK(s))
      /\ \A x \in Clients : ClientOK(x) /\ ConnOK(conns[x]) /\ SiteOK(x)
  BY CertInvIs DEF ClientOK
<1>2. PICK r : r = Head(up[c])
  OBVIOUS
<1>3. /\ conns[c].st = "open" /\ up[c] # <<>> /\ up' = Take(up, c)
      /\ UNCHANGED <<servers, ends, clients, today, lines, junk>>
  BY DEF DrainRecord
<1>4. "acceptor" \in ends[c] /\ Site(c) \in Servers /\ servers[Site(c)].on
  BY <1>1, <1>3 DEF SiteOK
<1>5. r \in UpRecord
  BY <1>1, <1>2, <1>3, TakesOne
<1>6. CASE Dooms(c)
  <2>1. conns \in [Clients -> ConnType]
    BY <1>1 DEF TypesOK
  <2>2. \A x \in Clients : SameUser(x)
    BY <1>6, <2>1 DEF Dooms, SameUser, ConnType
  <2> QED BY <1>3, <1>6, <2>2, BoxSame, NothingServed DEF Dooms
<1>7. CASE r.type = "handshake" /\ Negotiates(c, r)
  <2>1. Negotiated(c, r)
    BY <1>1, <1>3, <1>4, <1>5, <1>7, NegotiatesEffect
  <2>2. /\ \A x \in Clients \ {c} : conns'[x] = conns[x] /\ down'[x] = down[x]
        /\ byName' = byName /\ ~conns[c].sess.up /\ SameUser(c)
    BY <2>1 DEF Negotiated
  <2>3. \A x \in Clients \ {c} : Boxes'[x] = Boxes[x]
    BY <1>3, <2>2, BoxSame DEF SameUser
  <2>4. NoData(down[c]) /\ down[c] \in Seq(DownRecord)
    BY <1>1, <1>4, <2>2, LinesTyped DEF ClientOK, LinesOK
  <2>5. PICK t \in Seq(DownRecord) : down'[c] = down[c] \o t /\ NoData(t)
    BY <2>1 DEF Negotiated
  <2>6. NoData(down'[c]) /\ down'[c] \in Seq(DownRecord)
    BY <2>4, <2>5, ExchangeGoesOn
  <2>7. Lines(down[c]) = <<>> /\ Lines(down'[c]) = <<>>
    BY <2>4, <2>6, NoLines
  <2>8. Boxes'[c] = Boxes[c]
    BY <2>7, BoxIs, NextBoxIs
  <2> QED BY <2>2, <2>3, <2>8, NothingServed
<1>8. CASE /\ Opens(conns[c].sess, r)
           /\ HandleLine([Now EXCEPT !.conns[c].sess = Opened(@)], c, r.line)
  <2>1. conns[c].sess.up /\ r.type = "appdata" /\ conns[c].st # "none"
    BY <1>3, <1>8 DEF Opens
  <2>2. r.line \in Asked
    BY <1>5, <2>1 DEF UpRecord, Data, Alert
  <2>3. LineEffect(c, r.line)
    BY <1>1, <1>4, <1>8, <2>1, <2>2, HandleLineEffect
  <2>4. CASE Reply(c)
    BY <1>3, <2>4, ReplyServes
  <2>5. CASE Wants(c)
    <3>1. byName' = byName /\ \A x \in Clients : Boxes'[x] = Boxes[x]
      BY <1>3, <2>5, KeptBox DEF Wants
    <3> QED BY <3>1, NothingServed
  <2>6. CASE r.line.verb = "MSG" /\ r.line.name \in Names /\ Post(c, r.line.name, r.line.msg)
    <3>1. r.line.msg \in 1 .. MaxLines
      BY <2>2, <2>6 DEF Asked
    <3> QED BY <1>3, <1>4, <2>6, <3>1, PostServes
  <2>7. CASE r.line.verb = "LOGIN" /\ r.line.name \in Names /\ Join(c, r.line.name)
    <3>1. HasLogin(up[c])
      <4>1. up[c] \in Seq(UpRecord)
        BY <1>1 DEF TypesOK
      <4> QED BY <1>2, <1>3, <2>1, <2>7, <4>1, SaidTaken
    <3> QED BY <1>3, <1>4, <2>7, <3>1, JoinServes
  <2> QED BY <2>3, <2>4, <2>5, <2>6, <2>7 DEF LineEffect
<1> QED BY <1>2, <1>6, <1>7, <1>8 DEF DrainRecord

\* A connection accepted, given up or flushed is nothing the service shows.
LEMMA StageServes ==
    ASSUME CertInv, CertInv', NEW c \in Clients, NEW st,
           conns' = [conns EXCEPT ![c].st = st], down' = down, byName' = byName,
           clients' = clients
    PROVE  ServiceStep
<1>1. conns \in [Clients -> ConnType]
  BY CertInvIs DEF TypesOK
<1>2. \A x \in Clients : SameUser(x)
  BY <1>1 DEF SameUser, ConnType
<1> QED BY <1>2, BoxSame, NothingServed

\* The end of an inbox whose user is not online is forgotten.
LEMMA ForgetServes ==
    ASSUME CertInv, NEW c \in Clients, ~(Registered(c) /\ Site(c) = Home),
           byName'[Home] = byName[Home],
           \E k \in 0 .. Len(Boxes[c]) : Boxes'[c] = SubSeq(Boxes[c], 1, k),
           \A x \in Clients \ {c} : Boxes'[x] = Boxes[x]
    PROVE  ServiceStep
<1>1. PICK k \in 0 .. Len(Boxes[c]) : Boxes'[c] = SubSeq(Boxes[c], 1, k)
  OBVIOUS
<1>2. Boxes \in [Clients -> Seq(Told)]
  BY BoxTyped
<1>3. Boxes' = [Boxes EXCEPT ![c] = SubSeq(@, 1, k)]
  <2>1. Boxes' = [x \in Clients |-> Boxes'[x]]
    BY DEF Boxes
  <2> QED BY <1>1, <1>2, <2>1
<1>4. c \notin Service!Online /\ k <= Len(Boxes[c])
  BY <1>1, <1>2, OnlineIs
<1>5. Service!Forget(c, k)
  BY <1>3, <1>4 DEF Service!Forget, Service!Cut, Boxes
<1>6. CASE Boxes' = Boxes
  BY <1>6 DEF ServiceStep
<1>7. CASE Boxes' # Boxes
  <2>1. Service!Seen
    BY <1>7 DEF Service!Seen, Boxes
  <2>2. \E l \in 0 .. Len(Boxes[c]) : Service!Forget(c, l)
    BY <1>5
  <2> QED BY <2>1, <2>2 DEF ServiceStep, Service!Next, Boxes
<1> QED BY <1>6, <1>7

\* drop_conn is a user who leaves, or a connection forgotten.
LEMMA DropServes ==
    ASSUME CertInv, CertInv', NEW c \in Clients, DropConn(c)
    PROVE  ServiceStep
<1>1. /\ TypesOK /\ NamesInverse /\ \A x \in Clients : ConnOK(conns[x])
  BY CertInvIs DEF ClientOK
<1>2. Dropped(c)
  BY <1>1, DropEffect
<1>3. /\ byName' = [s \in Servers |-> [n \in Names |->
                        IF byName[s][n] = c THEN NoClient ELSE byName[s][n]]]
      /\ clients' = clients /\ Home \in Servers /\ NoClient \notin Clients
  BY CertChatAssumption DEF DropConn
<1>4. byName[Home] \in [Names -> Clients \cup {NoClient}]
      /\ byName'[Home] = [n \in Names |-> IF byName[Home][n] = c THEN NoClient
         ELSE byName[Home][n]]
  BY <1>1, <1>3 DEF TypesOK
<1>5. conns'[c].user = NoName
  BY <1>2, ConnTypes DEF Dropped
<1>6. PICK k \in 0 .. Len(Boxes[c]) : Boxes'[c] = SubSeq(Boxes[c], 1, k)
  <2>1. PICK j \in 0 .. Len(down[c]) : down'[c] = SubSeq(down[c], 1, j)
    BY <1>2 DEF Dropped
  <2> QED BY <1>3, <1>5, <2>1, BoxCut
<1>7. CASE ~(Registered(c) /\ Site(c) = Home)
  <2>1. byName'[Home] = byName[Home]
    <3>1. \A n \in Names : byName[Home][n] # c
      BY <1>1, <1>3, <1>7, CertChatAssumption DEF NamesInverse, Registered
    <3> QED BY <1>4, <3>1
  <2>2. ASSUME NEW x \in Clients \ {c} PROVE Boxes'[x] = Boxes[x]
    <3>1. CASE Registered(c) /\ Colleague(x, c)
      <4>1. ~Shown(x) /\ ~Shown(x)'
        BY <1>3, <1>7, <3>1 DEF Shown, Site, Colleague
      <4> QED BY <4>1, BoxHidden
    <3>2. CASE ~(Registered(c) /\ Colleague(x, c))
      <4>1. conns'[x] = conns[x] /\ down'[x] = down[x]
        BY <1>2, <3>2 DEF Dropped
      <4> QED BY <1>3, <4>1, BoxSame DEF SameUser
    <3> QED BY <3>1, <3>2
  <2> QED BY <1>6, <1>7, <2>1, <2>2, ForgetServes
<1>8. CASE Registered(c) /\ Site(c) = Home
  <2>1. PICK u \in Names : u = conns[c].user /\ byName[Home][u] = c
    BY <1>1, <1>8 DEF NamesInverse
  <2>2. PICK line : line = Line("left", u, 0)
    OBVIOUS
  <2>3. ASSUME NEW x \in Clients \ {c}
        PROVE  Boxes'[x] = IF Registered(x) /\ Site(x) = Home THEN Append(Boxes[x], line)
                                                              ELSE Boxes[x]
    <3>1. CASE Registered(x) /\ Site(x) = Home
      <4>1. SameUser(x) /\ Grows(x, line)
        BY <1>2, <1>8, <2>1, <2>2, <3>1 DEF Dropped, Colleague
      <4>2. Shown(x) /\ Shown(x)'
        BY <1>3, <3>1, <4>1 DEF Shown, Site, SameUser, Registered
      <4> QED BY <3>1, <4>1, <4>2, BoxGrows
    <3>2. CASE ~(Registered(x) /\ Site(x) = Home)
      <4>1. conns'[x] = conns[x] /\ down'[x] = down[x]
        BY <1>2, <1>8, <3>2 DEF Dropped, Colleague
      <4>2. Boxes'[x] = Boxes[x]
        BY <1>3, <4>1, BoxSame DEF SameUser
      <4> QED BY <3>2, <4>2
    <3> QED BY <3>1, <3>2
  <2>4. \A x \in Clients : x \in Service!Online <=> Registered(x) /\ Site(x) = Home
    BY OnlineIs
  <2>5. PICK cut : cut = [Boxes EXCEPT ![c] = SubSeq(@, 1, k)]
    OBVIOUS
  <2>6. cut[c] = SubSeq(Boxes[c], 1, k) /\ \A x \in Clients \ {c} : cut[x] = Boxes[x]
    BY <2>5, BoxTyped
  <2>7. PICK whom : whom = Service!Online \ {byName[Home][u]}
    OBVIOUS
  <2>8. \A x \in Clients : x \in whom <=> x # c /\ Registered(x) /\ Site(x) = Home
    BY <2>1, <2>4, <2>7
  <2>9. Boxes' = Service!Tell(cut, whom, line)
    <3>1. \A x \in Clients : Boxes'[x] = IF x \in whom THEN Append(cut[x], line) ELSE cut[x]
      BY <1>6, <2>3, <2>6, <2>8
    <3> QED BY <3>1, TellIs
  <2>10. byName'[Home] = [byName[Home] EXCEPT ![u] = NoClient]
    <3>1. \A n \in Names : byName[Home][n] = c <=> n = u
      BY <1>1, <1>3, <2>1 DEF NamesInverse
    <3> QED BY <1>4, <3>1
  <2>11. k <= Len(Boxes[c]) /\ c # NoClient
    BY <1>3, BoxTyped
  <2>12. cut = Service!Cut(byName[Home][u], k)
    BY <2>1, <2>5 DEF Service!Cut, Boxes
  <2>13. Service!Leave(u, k)
    BY <2>1, <2>2, <2>7, <2>9, <2>10, <2>11, <2>12, SameLine DEF Service!Leave, Boxes
  <2>14. Service!Seen
    <3>1. byName'[Home][u] = NoClient /\ byName[Home][u] # NoClient
      BY <1>4, <2>1, <2>10, <2>11
    <3> QED BY <3>1 DEF Service!Seen
  <2>15. k \in 0 .. Len(Boxes[byName[Home][u]]) /\ byName[Home][u] # NoClient
    BY <2>1, <2>11
  <2>16. \E l \in 0 .. Len(Boxes[byName[Home][u]]) : Service!Leave(u, l)
    BY <2>13, <2>15
  <2> QED BY <2>14, <2>15, <2>16 DEF ServiceStep, Service!Next, Boxes
<1> QED BY <1>7, <1>8

\* A server stopping ends the service it gives, for everybody, and no other.
LEMMA StopServes ==
    ASSUME CertInv, CertInv', NEW s \in Servers, StopServer(s)
    PROVE  ServiceStep
<1>1. TypesOK
  BY CertInvIs
<1>2. /\ byName' = [byName EXCEPT ![s] = [n \in Names |-> NoClient]] /\ clients' = clients
      /\ byName \in [Servers -> [Names -> Clients \cup {NoClient}]] /\ Home \in Servers
  BY <1>1, CertChatAssumption DEF StopServer, TypesOK
<1>3. \A x \in Clients :
        IF Site(x) = s
        THEN conns'[x] = NoConn
            /\ \E k \in 0 .. Len(down[x]) : down'[x] = SubSeq(down[x], 1, k)
        ELSE conns'[x] = conns[x] /\ down'[x] = down[x]
  BY <1>1, StopEffect
<1>4. CASE s = Home
  <2>1. byName'[Home] = [n \in Names |-> NoClient]
    BY <1>2, <1>4
  <2>2. ASSUME NEW x \in Clients
        PROVE  \E k \in 0 .. Len(Boxes[x]) : Boxes'[x] = SubSeq(Boxes[x], 1, k)
    <3>1. CASE Site(x) = Home
      <4>1. conns'[x].user = NoName
        BY <1>3, <1>4, <3>1, ConnTypes
      <4>2. PICK k \in 0 .. Len(down[x]) : down'[x] = SubSeq(down[x], 1, k)
        BY <1>3, <1>4, <3>1
      <4> QED BY <1>2, <4>1, <4>2, BoxCut
    <3>2. CASE Site(x) # Home
      <4>1. ~Shown(x) /\ ~Shown(x)'
        BY <1>2, <3>2 DEF Shown, Site
      <4>2. Boxes[x] = <<>> /\ Boxes'[x] = <<>>
        BY <4>1, BoxIs, NextBoxIs
      <4>3. 0 \in 0 .. Len(<<>>) /\ SubSeq(<<>>, 1, 0) = <<>>
        OBVIOUS
      <4> QED BY <4>2, <4>3
    <3> QED BY <3>1, <3>2
  <2>3. DOMAIN Boxes' = Clients
    BY DEF Boxes
  <2>4. Service!Halt
    BY <2>1, <2>2, <2>3 DEF Service!Halt, Boxes
  <2>5. CASE Boxes' = Boxes /\ byName'[Home] = byName[Home]
    BY <2>5 DEF ServiceStep
  <2>6. CASE Boxes' # Boxes \/ byName'[Home] # byName[Home]
    <3>1. Service!Seen
      BY <2>6 DEF Service!Seen, Boxes
    <3> QED BY <2>4, <3>1 DEF ServiceStep, Service!Next
  <2> QED BY <2>5, <2>6
<1>5. CASE s # Home
  <2>1. byName'[Home] = byName[Home]
    BY <1>2, <1>5
  <2>2. ASSUME NEW x \in Clients PROVE Boxes'[x] = Boxes[x]
    <3>1. CASE Site(x) = s
      <4>1. ~Shown(x) /\ ~Shown(x)'
        BY <1>2, <1>5, <3>1 DEF Shown, Site
      <4> QED BY <4>1, BoxHidden
    <3>2. CASE Site(x) # s
      BY <1>2, <1>3, <3>2, BoxSame DEF SameUser
    <3> QED BY <3>1, <3>2
  <2> QED BY <2>1, <2>2, NothingServed
<1> QED BY <1>4, <1>5

-----------------------------------------------------------------------------
(* The clients. *)

\* A step of one client, seen from the service: it is away or comes nearer, and takes a
\* record or not.
Steps(c) ==
    /\ conns' = conns /\ byName' = byName
    /\ clients'[c].site = Site(c)
    /\ clients[c].st \in Away => clients'[c].st \in Away
    /\ down'[c] = down[c] \/ (down[c] # <<>> /\ down'[c] = Tail(down[c]))
    /\ \A x \in Clients \ {c} : clients'[x] = clients[x] /\ down'[x] = down[x]

\* So a client that only steps does nothing the service shows, or takes a line.
LEMMA StepsServe ==
    ASSUME CertInv, CertInv', NEW c \in Clients, Steps(c)
    PROVE  ServiceStep
<1>1. byName' = byName /\ \A x \in Clients \ {c} : Boxes'[x] = Boxes[x]
  BY BoxSame DEF Steps, SameUser
<1>2. Registered(c)' <=> Registered(c)
  BY DEF Steps, Registered
<1>3. Site(c)' = Site(c)
  BY DEF Steps, Site
<1>4. CASE ~Shown(c)'
  <2>1. Boxes'[c] = <<>> /\ ~(Registered(c) /\ Site(c) = Home)
    BY <1>2, <1>3, <1>4, NextBoxIs DEF Shown
  <2>2. \E k \in 0 .. Len(Boxes[c]) : Boxes'[c] = SubSeq(Boxes[c], 1, k)
    <3>1. PICK s : s = Boxes[c]
      OBVIOUS
    <3>2. s \in Seq(Told)
      BY <3>1, BoxTyped
    <3>3. 0 \in 0 .. Len(s) /\ SubSeq(s, 1, 0) = <<>>
      BY <3>2, SubSeqEmpty
    <3> QED BY <2>1, <3>1, <3>3
  <2> QED BY <1>1, <2>1, <2>2, ForgetServes
<1>5. CASE Shown(c)'
  <2>1. Shown(c)
    BY <1>2, <1>3, <1>5 DEF Shown, Steps
  <2>2. Boxes[c] = Lines(down[c]) /\ Boxes'[c] = Lines(down'[c])
    BY <1>5, <2>1, BoxIs, NextBoxIs
  <2>3. CASE down'[c] = down[c]
    BY <1>1, <2>2, <2>3, NothingServed
  <2>4. CASE down[c] # <<>> /\ down'[c] = Tail(down[c])
    <3>1. down[c] \in Seq(DownRecord) /\ DataLast(down[c])
      BY LinesTyped
    <3>2. CASE Head(down[c]).type # "appdata"
      <4>1. Boxes'[c] = Boxes[c]
        BY <2>2, <2>4, <3>1, <3>2, LineTaken
      <4> QED BY <1>1, <4>1, NothingServed
    <3>3. CASE Head(down[c]).type = "appdata"
      <4>1. Boxes[c] # <<>> /\ Boxes'[c] = Tail(Boxes[c]) /\ Boxes'[c] # Boxes[c]
        BY <2>2, <2>4, <3>1, <3>3, LineTaken
      <4>2. Boxes' = [Boxes EXCEPT ![c] = Tail(@)]
        <5>1. Boxes' = [x \in Clients |-> Boxes'[x]]
          BY DEF Boxes
        <5> QED BY <1>1, <4>1, <5>1, BoxTyped
      <4>3. Service!See(c)
        BY <1>1, <4>1, <4>2 DEF Service!See, Boxes
      <4>4. Service!Seen
        BY <4>1 DEF Service!Seen, Boxes
      <4> QED BY <4>3, <4>4 DEF ServiceStep, Service!Next
    <3> QED BY <3>2, <3>3
  <2> QED BY <2>3, <2>4 DEF Steps
<1> QED BY <1>4, <1>5

\* A client that ends keeps the server it dialled.
LEMMA EndsStep ==
    ASSUME TypesOK, NEW c \in Clients, Ends(c), conns' = conns, byName' = byName,
           down' = down \/ (down[c] # <<>> /\ down' = Take(down, c))
    PROVE  Steps(c)
<1>1. clients \in [Clients -> ProcessType] /\ down \in [Clients -> Seq(DownRecord)]
  BY DEF TypesOK
<1>2. clients'[c].site = Site(c) /\ clients'[c].st = "gone"
      /\ \A x \in Clients \ {c} : clients'[x] = clients[x]
  BY <1>1 DEF Ends, NoProcess
<1>3. /\ down'[c] = down[c] \/ (down[c] # <<>> /\ down'[c] = Tail(down[c]))
      /\ \A x \in Clients \ {c} : down'[x] = down[x]
  BY <1>1 DEF Take
<1> QED BY <1>2, <1>3 DEF Steps, Away

\* One that goes on, too.
LEMMA GoesOnStep ==
    ASSUME TypesOK, NEW c \in Clients, NEW p, clients' = [clients EXCEPT ![c] = p],
           p.site = Site(c), clients[c].st \in Away => p.st \in Away,
           conns' = conns, byName' = byName,
           down' = down \/ (down[c] # <<>> /\ down' = Take(down, c))
    PROVE  Steps(c)
<1>1. clients \in [Clients -> ProcessType] /\ down \in [Clients -> Seq(DownRecord)]
  BY DEF TypesOK
<1>2. clients'[c] = p /\ \A x \in Clients \ {c} : clients'[x] = clients[x]
  BY <1>1
<1>3. /\ down'[c] = down[c] \/ (down[c] # <<>> /\ down'[c] = Tail(down[c]))
      /\ \A x \in Clients \ {c} : down'[x] = down[x]
  BY <1>1 DEF Take
<1> QED BY <1>2, <1>3 DEF Steps

\* The exchange, seen from the service.
LEMMA HandshakeStep ==
    ASSUME TypesOK, NEW c \in Clients, ClientHandshake(c)
    PROVE  Steps(c)
<1>1. /\ clients \in [Clients -> ProcessType] /\ clients[c].st \notin Away
      /\ conns' = conns /\ byName' = byName /\ down[c] # <<>> /\ down' = Take(down, c)
  BY DEF TypesOK, ClientHandshake, Due, Away
<1>2. PICK o, r : o = clients[c] /\ r = Head(down[c])
  OBVIOUS
<1>3. o \in ProcessType
  BY <1>1, <1>2
<1>4. CASE Ends(c)
  BY <1>1, <1>4, EndsStep
<1>5. CASE \E st, v : clients' = [clients EXCEPT ![c].st = st, ![c].cert = v]
  <2>1. PICK st, v : clients' = [clients EXCEPT ![c].st = st, ![c].cert = v]
    BY <1>5
  <2>2. PICK p : p = [o EXCEPT !.st = st, !.cert = v]
    OBVIOUS
  <2>3. clients' = [clients EXCEPT ![c] = p] /\ p.site = o.site
    BY <1>1, <1>2, <1>3, <2>1, <2>2 DEF ProcessType
  <2> QED BY <1>1, <1>2, <2>3, GoesOnStep DEF Site
<1>6. CASE \E st, v : clients' = [clients EXCEPT ![c].st = st, ![c].pub = v]
  <2>1. PICK st, v : clients' = [clients EXCEPT ![c].st = st, ![c].pub = v]
    BY <1>6
  <2>2. PICK p : p = [o EXCEPT !.st = st, !.pub = v]
    OBVIOUS
  <2>3. clients' = [clients EXCEPT ![c] = p] /\ p.site = o.site
    BY <1>1, <1>2, <1>3, <2>1, <2>2 DEF ProcessType
  <2> QED BY <1>1, <1>2, <2>3, GoesOnStep DEF Site
<1>7. CASE \E st, v : clients' = [clients EXCEPT ![c].st = st, ![c].sess = v]
  <2>1. PICK st, v : clients' = [clients EXCEPT ![c].st = st, ![c].sess = v]
    BY <1>7
  <2>2. PICK p : p = [o EXCEPT !.st = st, !.sess = v]
    OBVIOUS
  <2>3. clients' = [clients EXCEPT ![c] = p] /\ p.site = o.site
    BY <1>1, <1>2, <1>3, <2>1, <2>2 DEF ProcessType
  <2> QED BY <1>1, <1>2, <2>3, GoesOnStep DEF Site
<1>8. Receives(c, r) => (\E st, v : clients' = [clients EXCEPT ![c].st = st, ![c].cert = v])
                        \/ (\E st, v : clients' = [clients EXCEPT ![c].st = st, ![c].pub = v])
  BY DEF Receives
<1>9. Judges(c, r) => Ends(c) \/ \E st, v :
      clients' = [clients EXCEPT ![c].st = st, ![c].sess = v]
  BY DEF Judges
<1> QED BY <1>2, <1>4, <1>5, <1>6, <1>7, <1>8, <1>9 DEF ClientHandshake

\* Everything else a client does.
LEMMA ClientStep ==
    ASSUME TypesOK, NEW c \in Clients,
           Login(c) \/ Reads(c) \/ SeesClose(c) \/ HandleInput(c)
               \/ Dies(c) \/ StrangerSends(c)
    PROVE  Steps(c)
<1>1. clients \in [Clients -> ProcessType] /\ down \in [Clients -> Seq(DownRecord)]
      /\ conns' = conns /\ byName' = byName
  BY DEF TypesOK, Login, Reads, SeesClose, HandleInput, Dies, StrangerSends, Says
<1>2. PICK o : o = clients[c]
  OBVIOUS
<1>3. o \in ProcessType /\ o.st = clients[c].st /\ o.site = Site(c)
  BY <1>1, <1>2 DEF Site
<1>4. CASE SeesClose(c) \/ Dies(c)
  BY <1>1, <1>4, EndsStep DEF SeesClose, Dies
<1>5. CASE Login(c)
  <2>1. PICK p : p = [o EXCEPT !.st = "login", !.sess = Counted(o.sess)]
    OBVIOUS
  <2>2. clients' = [clients EXCEPT ![c] = p] /\ p.site = o.site
    BY <1>1, <1>2, <1>3, <1>5, <2>1 DEF Login, ProcessType
  <2>3. clients[c].st \notin Away /\ down' = down
    BY <1>5 DEF Login, Away, Says
  <2> QED BY <1>1, <1>3, <2>2, <2>3, GoesOnStep
<1>6. CASE Reads(c)
  <2>1. down[c] # <<>> /\ down' = Take(down, c) /\ clients[c].st \notin Away
    BY <1>6 DEF Reads, Away
  <2>2. CASE Ends(c)
    BY <1>1, <2>1, <2>2, EndsStep
  <2>3. CASE clients' = [clients EXCEPT ![c].st = "on", ![c].sess = Opened(@)]
    <3>1. PICK p : p = [o EXCEPT !.st = "on", !.sess = Opened(o.sess)]
      OBVIOUS
    <3>2. clients' = [clients EXCEPT ![c] = p] /\ p.site = o.site
      BY <1>1, <1>2, <1>3, <2>3, <3>1 DEF ProcessType
    <3> QED BY <1>1, <1>3, <2>1, <3>2, GoesOnStep
  <2> QED BY <1>6, <2>2, <2>3 DEF Reads
<1>7. CASE HandleInput(c)
  <2>1. down' = down /\ clients[c].st \notin Away
    BY <1>7 DEF HandleInput, Says, Away
  <2>2. CASE Ends(c)
    BY <1>1, <2>1, <2>2, EndsStep
  <2>3. CASE clients' = [clients EXCEPT ![c].sess = Counted(@)]
    <3>1. PICK p : p = [o EXCEPT !.sess = Counted(o.sess)]
      OBVIOUS
    <3>2. clients' = [clients EXCEPT ![c] = p] /\ p.site = o.site
      BY <1>1, <1>2, <1>3, <2>3, <3>1 DEF ProcessType
    <3> QED BY <1>1, <1>3, <2>1, <3>2, GoesOnStep
  <2> QED BY <1>7, <2>2, <2>3 DEF HandleInput
<1>8. CASE StrangerSends(c)
  BY <1>8 DEF StrangerSends, Steps, Site
<1> QED BY <1>4, <1>5, <1>6, <1>7, <1>8

\* A client that connects has been told nothing.
LEMMA DialServes ==
    ASSUME CertInv, CertInv', NEW c \in Clients, NEW s \in Servers, Dials(c, s),
           \A x \in Clients \ {c} : clients'[x] = clients[x]
    PROVE  ServiceStep
<1>1. SiteOK(c)
  BY CertInvIs DEF ClientOK
<1>2. /\ clients[c].st = "off"
      /\ conns' = conns /\ byName' = byName /\ down' = down
  BY DEF Dials
<1>3. down[c] = <<>>
  BY <1>1, <1>2 DEF SiteOK
<1>4. Lines(down[c]) = <<>>
  <2>1. PICK w : w = down[c]
    OBVIOUS
  <2>2. w = <<>> /\ w \in Seq(DownRecord) /\ DOMAIN w = {}
    BY <1>3, <2>1
  <2>3. NoData(w)
    BY <2>2 DEF NoData
  <2> QED BY <2>1, <2>2, <2>3, NoLines
<1>5. Boxes'[c] = Boxes[c]
  BY <1>2, <1>4, BoxIs, NextBoxIs
<1>6. \A x \in Clients \ {c} : Boxes'[x] = Boxes[x]
  BY <1>2, BoxSame DEF SameUser
<1> QED BY <1>2, <1>5, <1>6, NothingServed

\* Every step of servers and clients is a step of the service, or none.
LEMMA EveryStepServes ==
    ASSUME CertInv, CertInv', [Next]_vars
    PROVE  ServiceStep
<1>0. TypesOK /\ clients \in [Clients -> ProcessType]
  BY CertInvIs DEF TypesOK
<1>1. ASSUME NEW c \in Clients, Relay(c) PROVE ServiceStep
  <2>1. CASE AcceptNew(c)
    BY <2>1, StageServes DEF AcceptNew
  <2>2. CASE DrainRecord(c)
    BY <2>2, DrainServes
  <2>3. CASE PeerClosed(c)
    BY <2>3, StageServes DEF PeerClosed, Dooms
  <2>4. CASE Quit(c)
    BY <2>4, StageServes DEF Quit
  <2>5. CASE DropConn(c)
    BY <2>5, DropServes
  <2> QED BY <1>1, <2>1, <2>2, <2>3, <2>4, <2>5 DEF Relay
<1>2. ASSUME NEW c \in Clients, ClientThread(c) PROVE ServiceStep
  <2>1. Steps(c)
    BY <1>0, <1>2, HandshakeStep, ClientStep DEF ClientThread
  <2> QED BY <2>1, StepsServe
<1>3. ASSUME NEW c \in Clients, HandleInput(c) \/ Dies(c) \/ StrangerSends(c) PROVE ServiceStep
  <2>1. Steps(c)
    BY <1>0, <1>3, ClientStep
  <2> QED BY <2>1, StepsServe
<1>4. ASSUME NEW c \in Clients, NEW s \in Servers,
             StrangerConnects(c, s) \/ \E name \in Names : Connect(c, s, name)
      PROVE  ServiceStep
  <2>1. Dials(c, s) /\ \A x \in Clients \ {c} : clients'[x] = clients[x]
    BY <1>0, <1>4 DEF StrangerConnects, Connect
  <2> QED BY <2>1, DialServes
<1>5. CASE UNCHANGED <<down, conns, byName, clients>>
  BY <1>5, BoxSame, NothingServed DEF SameUser
<1>6. ASSUME NEW s \in Servers, StartServer(s) PROVE ServiceStep
  BY <1>5, <1>6 DEF StartServer
<1>7. ASSUME NEW s \in Servers, StopServer(s) PROVE ServiceStep
  BY <1>7, StopServes
<1>8. CASE DayPasses \/ UNCHANGED vars
  BY <1>5, <1>8 DEF DayPasses, vars
<1> QED BY <1>1, <1>2, <1>3, <1>4, <1>6, <1>7, <1>8 DEF Next, World

\* Each server is the chat service to the clients that dialled it: what is on the way to a
\* client after the exchange is its inbox, g_by_name of the server is the roster.
THEOREM CertChatServes == Spec => ServiceSpec
<1>1. Init => Service!Init
  <2> SUFFICES ASSUME Init PROVE Service!Init
    OBVIOUS
  <2>1. byName[Home] = [n \in Names |-> NoClient]
    BY CertChatAssumption DEF Init
  <2>2. CertInv
    BY CertInit
  <2>3. ASSUME NEW c \in Clients PROVE Boxes[c] = <<>>
    <3>1. clients[c].st = "off" /\ conns[c].user = NoName
      BY ConnTypes DEF Init, NoProcess
    <3>2. ~Shown(c)
      BY <3>1 DEF Shown, Away, Registered
    <3> QED BY <2>2, <3>2, BoxIs
  <2>4. Boxes = [c \in Clients |-> <<>>]
    <3>1. Boxes = [c \in Clients |-> Boxes[c]]
      BY DEF Boxes
    <3> QED BY <2>3, <3>1
  <2> QED BY <2>1, <2>4 DEF Service!Init, Boxes
<1>2. CertInv /\ CertInv' /\ [Next]_vars => [Service!Next]_<<byName[Home], Boxes>>
  BY EveryStepServes DEF ServiceStep
<1>3. CertInv /\ CertInv' /\ [Next]_vars
        => [Service!Next]_<<byName[Home], [c \in Clients |-> Inbox(c)]>>
  BY <1>2 DEF Boxes
<1> QED BY <1>1, <1>3, CertInvariance, PTL DEF Spec, ServiceSpec, Service!Spec
===============================================================================
