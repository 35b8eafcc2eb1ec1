--------------------------- MODULE SealedChatProofs ---------------------------
(***************************************************************************)
(* Proofs about SealedChat, for any clients, victims, strangers and        *)
(* bounds: the invariant of SealedLegs, what it says of the fingerprints   *)
(* and of the counters of every session, that LOGIN comes first, and that  *)
(* what the users see is the service of ChatService.                       *)
(***************************************************************************)
EXTENDS SealedLegs, TLAPS, SequenceTheorems, FiniteSetTheorems

-----------------------------------------------------------------------------
(* What is on the way on a leg. *)

\* One record more.
LEMMA OneMore ==
    ASSUME NEW T, NEW w \in Seq(T), NEW r \in T
    PROVE  /\ Append(w, r) \in Seq(T) /\ Len(Append(w, r)) = Len(w) + 1 /\ Len(w) \in Nat
           /\ DOMAIN Append(w, r) = 1 .. Len(w) + 1 /\ DOMAIN w = 1 .. Len(w)
           /\ \A i \in 1 .. Len(w) : Append(w, r)[i] = w[i]
           /\ Append(w, r)[Len(w) + 1] = r /\ Append(w, r) # <<>>
           /\ w \o <<r>> = Append(w, r)
           /\ w = <<>> => Append(w, r) = <<r>> /\ Head(Append(w, r)) = r
           /\ w # <<>> => Head(Append(w, r)) = Head(w)
<1>1. w \o <<r>> = Append(w, r)
  BY AppendIsConcat
<1>2. PICK x : x = Append(w, r)
  OBVIOUS
<1>3. /\ x \in Seq(T) /\ Len(x) = Len(w) + 1 /\ Len(w) \in Nat
      /\ DOMAIN x = 1 .. Len(w) + 1 /\ DOMAIN w = 1 .. Len(w)
      /\ (\A i \in 1 .. Len(w) : x[i] = w[i]) /\ x[Len(w) + 1] = r
  BY <1>2
<1>4. x # <<>> /\ Head(x) = x[1]
  BY <1>3
<1>5. w = <<>> => Len(w) = 0 /\ Append(w, r) = <<r>>
  OBVIOUS
<1>6. w = <<>> => x = <<r>> /\ Head(x) = r
  BY <1>2, <1>3, <1>4, <1>5
<1>7. ASSUME w # <<>> PROVE Head(x) = Head(w)
  <2>1. Head(w) = w[1] /\ 1 \in 1 .. Len(w)
    BY <1>7
  <2> QED BY <1>3, <1>4, <2>1
<1> QED BY <1>1, <1>2, <1>3, <1>4, <1>6, <1>7

\* The first record taken.
LEMMA FirstTaken ==
    ASSUME NEW T, NEW w \in Seq(T), w # <<>>
    PROVE  /\ Tail(w) \in Seq(T) /\ Len(Tail(w)) = Len(w) - 1 /\ Len(w) \in Nat /\ Len(w) > 0
           /\ DOMAIN Tail(w) = 1 .. Len(w) - 1 /\ DOMAIN w = 1 .. Len(w)
           /\ \A i \in 1 .. Len(w) - 1 : Tail(w)[i] = w[i + 1]
           /\ Head(w) = w[1] /\ Head(w) \in T
OBVIOUS

\* What is left of a queue that is cut.
LEMMA CutShort ==
    ASSUME NEW T, NEW w \in Seq(T), NEW k \in 0 .. Len(w)
    PROVE  /\ SubSeq(w, 1, k) \in Seq(T) /\ Len(SubSeq(w, 1, k)) = k /\ k \in Nat
           /\ DOMAIN SubSeq(w, 1, k) = 1 .. k /\ DOMAIN w = 1 .. Len(w)
           /\ \A i \in 1 .. k : SubSeq(w, 1, k)[i] = w[i]
<1>1. Len(w) \in Nat /\ k \in Int /\ 1 \in Int
  OBVIOUS
<1>2. k \in Nat /\ k <= Len(w)
  BY <1>1
<1> QED BY <1>1, <1>2

\* Nothing is on the way.
LEMMA StreamEmpty ==
    ASSUME NEW keys, NEW role, NEW rx \in Nat, NEW n \in Nat
    PROVE  Stream(<<>>, keys, role, rx, rx, n)
<1>1. Len(<<>>) = 0 /\ DOMAIN <<>> = {} /\ 0 \in 0 .. Len(<<>>)
  OBVIOUS
<1>2. rx \in rx + (Len(<<>>) - 0) .. rx + (Len(<<>>) - 0) + n
  BY <1>1
<1> QED BY <1>1, <1>2 DEF Stream

\* A stream with another sealed record.
LEMMA StreamMore ==
    ASSUME NEW T, NEW w \in Seq(T), NEW keys, NEW role, NEW rx \in Nat, NEW tx \in Nat,
           NEW n \in Nat, Stream(w, keys, role, rx, tx, n), NEW r \in T,
           r.type = "appdata", r.keys = keys, r.role = role, r.seq = tx
    PROVE  Stream(Append(w, r), keys, role, rx, tx + 1, n)
<1>1. PICK m \in 0 .. Len(w) :
        /\ tx \in rx + (Len(w) - m) .. rx + (Len(w) - m) + n /\ (m > 0 => rx = 0)
        /\ \A i \in DOMAIN w : w[i].type = "appdata" <=> i > m
        /\ \A i \in DOMAIN w : i > m =>
            /\ w[i].keys = keys /\ w[i].role = role
            /\ w[i].seq \in rx + (i - m) - 1 .. rx + (i - m) - 1 + n
  BY DEF Stream
<1>2. PICK x : x = Append(w, r)
  OBVIOUS
<1>3. /\ Len(x) = Len(w) + 1 /\ DOMAIN x = 1 .. Len(w) + 1 /\ DOMAIN w = 1 .. Len(w)
      /\ Len(w) \in Nat /\ (\A i \in 1 .. Len(w) : x[i] = w[i]) /\ x[Len(w) + 1] = r
  BY <1>2, OneMore
<1>4. m \in 0 .. Len(x) /\ m \in Nat /\ m <= Len(w)
  BY <1>3
<1>5. tx + 1 \in rx + (Len(x) - m) .. rx + (Len(x) - m) + n
  BY <1>1, <1>3, <1>4
<1>6. ASSUME NEW i \in DOMAIN x
      PROVE  /\ x[i].type = "appdata" <=> i > m
             /\ i > m => /\ x[i].keys = keys /\ x[i].role = role
                         /\ x[i].seq \in rx + (i - m) - 1 .. rx + (i - m) - 1 + n
  <2>1. CASE i \in 1 .. Len(w)
    BY <1>1, <1>3, <2>1
  <2>2. CASE i = Len(w) + 1
    <3>1. i > m /\ tx \in rx + (i - m) - 1 .. rx + (i - m) - 1 + n
      BY <1>1, <1>3, <1>4, <2>2
    <3> QED BY <1>3, <2>2, <3>1
  <2> QED BY <1>3, <2>1, <2>2
<1>7. Stream(x, keys, role, rx, tx + 1, n)
  BY <1>1, <1>4, <1>5, <1>6 DEF Stream
<1> QED BY <1>2, <1>7

\* The writer counts one that it does not send.
LEMMA StreamSkips ==
    ASSUME NEW T, NEW w \in Seq(T), NEW keys, NEW role, NEW rx \in Nat, NEW tx \in Nat,
           NEW n \in Nat, Stream(w, keys, role, rx, tx, n)
    PROVE  Stream(w, keys, role, rx, tx + 1, n + 1)
<1>1. PICK m \in 0 .. Len(w) :
        /\ tx \in rx + (Len(w) - m) .. rx + (Len(w) - m) + n /\ (m > 0 => rx = 0)
        /\ \A i \in DOMAIN w : w[i].type = "appdata" <=> i > m
        /\ \A i \in DOMAIN w : i > m =>
            /\ w[i].keys = keys /\ w[i].role = role
            /\ w[i].seq \in rx + (i - m) - 1 .. rx + (i - m) - 1 + n
  BY DEF Stream
<1>2. Len(w) \in Nat /\ m \in Nat
  OBVIOUS
<1>3. tx + 1 \in rx + (Len(w) - m) .. rx + (Len(w) - m) + (n + 1)
  BY <1>1, <1>2
<1>4. ASSUME NEW i \in DOMAIN w, i > m
      PROVE  w[i].seq \in rx + (i - m) - 1 .. rx + (i - m) - 1 + (n + 1)
  <2>1. w[i].seq \in rx + (i - m) - 1 .. rx + (i - m) - 1 + n
    BY <1>1, <1>4, Zenon
  <2>2. i \in Nat
    BY DEF Stream
  <2> QED BY <1>2, <2>1, <2>2, SMTT(30)
<1> QED BY <1>1, <1>3, <1>4 DEF Stream

\* The exchange goes on as long as nothing is sealed.
LEMMA StreamStarts ==
    ASSUME NEW T, NEW w \in Seq(T), NEW keys, NEW role, NEW rx \in Nat, NEW n \in Nat,
           Stream(w, keys, role, rx, 0, n), NEW r \in T, r.type # "appdata", NEW k \in Nat
    PROVE  rx = 0 /\ Stream(Append(w, r), keys, role, rx, 0, k)
<1>1. PICK m \in 0 .. Len(w) :
        /\ 0 \in rx + (Len(w) - m) .. rx + (Len(w) - m) + n /\ (m > 0 => rx = 0)
        /\ \A i \in DOMAIN w : w[i].type = "appdata" <=> i > m
  BY DEF Stream
<1>2. PICK x : x = Append(w, r)
  OBVIOUS
<1>3. /\ Len(x) = Len(w) + 1 /\ DOMAIN x = 1 .. Len(w) + 1 /\ DOMAIN w = 1 .. Len(w)
      /\ Len(w) \in Nat /\ (\A i \in 1 .. Len(w) : x[i] = w[i]) /\ x[Len(w) + 1] = r
  BY <1>2, OneMore
<1>4. m = Len(w) /\ rx = 0
  <2>1. m \in Nat /\ m <= Len(w) /\ 0 >= rx + (Len(w) - m) /\ rx \in Nat
    BY <1>1, <1>3
  <2>2. PICK e : e = Len(w)
    OBVIOUS
  <2>3. e \in Nat /\ m <= e /\ 0 >= rx + (e - m)
    BY <1>3, <2>1, <2>2
  <2>4. m = e /\ rx = 0
    BY <2>1, <2>3
  <2> QED BY <2>2, <2>4
<1>5. Len(w) + 1 \in 0 .. Len(x) /\ rx + (Len(x) - (Len(w) + 1)) = 0
  BY <1>3, <1>4
<1>6. ASSUME NEW i \in DOMAIN x
      PROVE  x[i].type # "appdata" /\ ~(i > Len(w) + 1)
  <2>1. CASE i \in 1 .. Len(w)
    BY <1>1, <1>3, <1>4, <2>1
  <2>2. CASE i = Len(w) + 1
    BY <1>3, <2>2
  <2> QED BY <1>3, <2>1, <2>2
<1>7. Stream(x, keys, role, rx, 0, k)
  <2>1. 0 \in rx + (Len(x) - (Len(w) + 1)) .. rx + (Len(x) - (Len(w) + 1)) + k
    BY <1>5
  <2> QED BY <1>4, <1>5, <1>6, <2>1 DEF Stream
<1> QED BY <1>2, <1>4, <1>7

\* The reader takes the first record: of the exchange, or a line, which is the next
\* one unless some were skipped.
LEMMA StreamTaken ==
    ASSUME NEW T, NEW w \in Seq(T), w # <<>>, NEW keys, NEW role,
           NEW rx \in Nat, NEW tx \in Nat, NEW n \in Nat, Stream(w, keys, role, rx, tx, n)
    PROVE  /\ Head(w).type # "appdata" => rx = 0 /\ Stream(Tail(w), keys, role, rx, tx, n)
           /\ Head(w).type = "appdata" =>
                /\ Head(w).keys = keys /\ Head(w).role = role /\ Head(w).seq \in rx .. rx + n
                /\ Stream(Tail(w), keys, role, rx + 1, tx, n)
<1>1. PICK m \in 0 .. Len(w) :
        /\ tx \in rx + (Len(w) - m) .. rx + (Len(w) - m) + n /\ (m > 0 => rx = 0)
        /\ \A i \in DOMAIN w : w[i].type = "appdata" <=> i > m
        /\ \A i \in DOMAIN w : i > m =>
            /\ w[i].keys = keys /\ w[i].role = role
            /\ w[i].seq \in rx + (i - m) - 1 .. rx + (i - m) - 1 + n
  BY DEF Stream
<1>2. PICK x : x = Tail(w)
  OBVIOUS
<1>3. /\ Len(x) = Len(w) - 1 /\ Len(w) \in Nat /\ Len(w) > 0
      /\ DOMAIN x = 1 .. Len(w) - 1 /\ DOMAIN w = 1 .. Len(w)
      /\ (\A i \in 1 .. Len(w) - 1 : x[i] = w[i + 1]) /\ Head(w) = w[1]
  BY <1>2, FirstTaken
<1>4. 1 \in DOMAIN w /\ (w[1].type = "appdata" <=> 1 > m) /\ m \in Nat
  BY <1>1, <1>3, SMTT(30)
<1>5. ASSUME NEW i \in DOMAIN x
      PROVE  /\ i + 1 \in DOMAIN w /\ i \in Nat /\ x[i] = w[i + 1]
             /\ x[i].type = "appdata" <=> i + 1 > m
             /\ i + 1 > m => x[i].keys = keys /\ x[i].role = role
                             /\ x[i].seq \in rx + (i + 1 - m) - 1
                                                 .. rx + (i + 1 - m) - 1 + n
  <2>1. i + 1 \in DOMAIN w /\ i \in Nat /\ x[i] = w[i + 1]
    BY <1>3
  <2> QED BY <1>1, <2>1, SMTT(30)
<1>6. CASE m > 0
  <2>1. /\ m - 1 \in 0 .. Len(x) /\ rx = 0
        /\ tx \in rx + (Len(x) - (m - 1)) .. rx + (Len(x) - (m - 1)) + n
    BY <1>1, <1>3, <1>4, <1>6
  <2>2. ASSUME NEW i \in DOMAIN x
        PROVE  /\ x[i].type = "appdata" <=> i > m - 1
               /\ i > m - 1 => x[i].keys = keys /\ x[i].role = role
                               /\ x[i].seq \in rx + (i - (m - 1)) - 1
                                                   .. rx + (i - (m - 1)) - 1 + n
    <3>1. (i > m - 1 <=> i + 1 > m) /\ rx + (i - (m - 1)) - 1 = rx + (i + 1 - m) - 1
      BY <1>4, <1>5
    <3> QED BY <1>5, <3>1
  <2>3. Stream(x, keys, role, rx, tx, n)
    BY <2>1, <2>2 DEF Stream
  <2> QED BY <1>2, <1>3, <1>4, <1>6, <2>1, <2>3
<1>7. CASE m = 0
  <2>1. /\ 0 \in 0 .. Len(x) /\ Head(w).type = "appdata"
        /\ tx \in rx + 1 + (Len(x) - 0) .. rx + 1 + (Len(x) - 0) + n
    BY <1>1, <1>3, <1>4, <1>7
  <2>2. Head(w).keys = keys /\ Head(w).role = role /\ Head(w).seq \in rx .. rx + n
    BY <1>1, <1>3, <1>4, <1>7
  <2>3. ASSUME NEW i \in DOMAIN x
        PROVE  /\ x[i].type = "appdata" <=> i > 0
               /\ i > 0 => x[i].keys = keys /\ x[i].role = role
                           /\ x[i].seq \in rx + 1 + (i - 0) - 1
                                               .. rx + 1 + (i - 0) - 1 + n
    <3>0. i \in Nat /\ i > 0 /\ i + 1 > m
      BY <1>3, <1>7
    <3>1. i > 0 /\ i + 1 > m /\ rx + 1 + (i - 0) - 1 = rx + (i + 1 - m) - 1
      BY <1>7, <3>0
    <3>2. x[i].seq \in rx + (i + 1 - m) - 1 .. rx + (i + 1 - m) - 1 + n
      BY <1>5, <3>1
    <3>3. PICK e : e = rx + (i + 1 - m) - 1
      OBVIOUS
    <3>4. x[i].seq \in e .. e + n /\ e = rx + 1 + (i - 0) - 1
      BY <3>1, <3>2, <3>3
    <3>5. x[i].type = "appdata" /\ x[i].keys = keys /\ x[i].role = role
      BY <1>5, <3>1
    <3> QED BY <3>1, <3>4, <3>5
  <2>4. Stream(x, keys, role, rx + 1, tx, n)
    BY <2>1, <2>3, SMTT(30) DEF Stream
  <2> QED BY <1>2, <2>1, <2>2, <2>4
<1> QED BY <1>4, <1>6, <1>7

\* The end of a queue is lost.
LEMMA StreamCut ==
    ASSUME NEW T, NEW w \in Seq(T), NEW keys, NEW role, NEW k \in 0 .. Len(w),
           NEW rx \in Nat, NEW tx \in Nat, NEW n \in Nat, Stream(w, keys, role, rx, tx, n)
    PROVE  \E t \in Nat : Stream(SubSeq(w, 1, k), keys, role, rx, t, n)
<1>1. PICK m \in 0 .. Len(w) :
        /\ tx \in rx + (Len(w) - m) .. rx + (Len(w) - m) + n /\ (m > 0 => rx = 0)
        /\ \A i \in DOMAIN w : w[i].type = "appdata" <=> i > m
        /\ \A i \in DOMAIN w : i > m =>
            /\ w[i].keys = keys /\ w[i].role = role
            /\ w[i].seq \in rx + (i - m) - 1 .. rx + (i - m) - 1 + n
  BY DEF Stream
<1>2. PICK x : x = SubSeq(w, 1, k)
  OBVIOUS
<1>3. /\ Len(x) = k /\ DOMAIN x = 1 .. k /\ DOMAIN w = 1 .. Len(w) /\ Len(w) \in Nat
      /\ (\A i \in 1 .. k : x[i] = w[i]) /\ k \in Nat /\ k <= Len(w) /\ m \in Nat
  BY <1>2, CutShort
<1>4. CASE m <= k
  <2>1. /\ m \in 0 .. Len(x) /\ rx + (Len(x) - m) \in Nat
        /\ rx + (Len(x) - m) \in rx + (Len(x) - m) .. rx + (Len(x) - m) + n
    BY <1>3, <1>4
  <2>2. ASSUME NEW i \in DOMAIN x
        PROVE  /\ x[i].type = "appdata" <=> i > m
               /\ i > m => x[i].keys = keys /\ x[i].role = role
                           /\ x[i].seq \in rx + (i - m) - 1 .. rx + (i - m) - 1 + n
    <3>1. i \in DOMAIN w /\ x[i] = w[i]
      BY <1>3
    <3> QED BY <1>1, <3>1
  <2>3. Stream(x, keys, role, rx, rx + (Len(x) - m), n)
    BY <1>1, <2>1, <2>2 DEF Stream
  <2> QED BY <1>2, <2>1, <2>3
<1>5. CASE k < m
  <2>1. /\ k \in 0 .. Len(x) /\ rx + (Len(x) - k) = rx /\ rx = 0
        /\ rx + (Len(x) - k) \in rx + (Len(x) - k) .. rx + (Len(x) - k) + n
    BY <1>1, <1>3, <1>5
  <2>2. ASSUME NEW i \in DOMAIN x PROVE x[i].type # "appdata" /\ ~(i > k)
    BY <1>1, <1>3, <1>5
  <2>3. Stream(x, keys, role, rx, rx + (Len(x) - k), n)
    BY <2>1, <2>2 DEF Stream
  <2> QED BY <1>2, <2>1, <2>3
<1> QED BY <1>3, <1>4, <1>5

\* One record more, when each is looked at alone.
LEMMA ValsMore ==
    ASSUME NEW T, NEW w \in Seq(T), NEW r \in T, NEW l
    PROVE  /\ DownVals(l, w) /\ (r.type = "handshake" => r.val = Pub(l, "server"))
                => DownVals(l, Append(w, r))
           /\ UpVals(l, w) /\ (IsNear(l) => UpVal(l, r)) => UpVals(l, Append(w, r))
           /\ NoneSealed(w) /\ ~IsSealed(r) => NoneSealed(Append(w, r))
           /\ NoData(w) /\ r.type # "appdata" => NoData(Append(w, r))
<1>1. PICK x : x = Append(w, r)
  OBVIOUS
<1>2. /\ DOMAIN x = 1 .. Len(w) + 1 /\ DOMAIN w = 1 .. Len(w) /\ Len(w) \in Nat
      /\ (\A i \in 1 .. Len(w) : x[i] = w[i]) /\ x[Len(w) + 1] = r
  BY <1>1, OneMore
<1>3. \A i \in DOMAIN x : (i \in DOMAIN w /\ x[i] = w[i]) \/ x[i] = r
  BY <1>2
<1> QED BY <1>1, <1>3 DEF DownVals, UpVals, NoneSealed, NoData

\* The first record taken.
LEMMA ValsTaken ==
    ASSUME NEW T, NEW w \in Seq(T), w # <<>>, NEW l
    PROVE  /\ DownVals(l, w) => DownVals(l, Tail(w))
           /\ DownVals(l, w) /\ Head(w).type = "handshake" => Head(w).val = Pub(l, "server")
           /\ UpVals(l, w) => UpVals(l, Tail(w)) /\ (IsNear(l) => UpVal(l, Head(w)))
           /\ NoneSealed(w) => NoneSealed(Tail(w)) /\ ~IsSealed(Head(w))
           /\ NoData(w) => NoData(Tail(w)) /\ Head(w).type # "appdata"
<1>1. PICK x : x = Tail(w)
  OBVIOUS
<1>2. /\ DOMAIN x = 1 .. Len(w) - 1 /\ DOMAIN w = 1 .. Len(w) /\ Len(w) \in Nat /\ Len(w) > 0
      /\ (\A i \in 1 .. Len(w) - 1 : x[i] = w[i + 1]) /\ Head(w) = w[1]
  BY <1>1, FirstTaken
<1>3. 1 \in DOMAIN w /\ \A i \in DOMAIN x : i + 1 \in DOMAIN w /\ x[i] = w[i + 1]
  BY <1>2
<1> QED BY <1>1, <1>2, <1>3 DEF DownVals, UpVals, NoneSealed, NoData

\* The end lost.
LEMMA ValsCut ==
    ASSUME NEW T, NEW w \in Seq(T), NEW k \in 0 .. Len(w), NEW l
    PROVE  /\ DownVals(l, w) => DownVals(l, SubSeq(w, 1, k))
           /\ NoData(w) => NoData(SubSeq(w, 1, k))
<1>1. PICK x : x = SubSeq(w, 1, k)
  OBVIOUS
<1>2. /\ DOMAIN x = 1 .. k /\ DOMAIN w = 1 .. Len(w) /\ Len(w) \in Nat /\ k \in Nat
      /\ \A i \in 1 .. k : x[i] = w[i]
  BY <1>1, CutShort
<1>3. \A i \in DOMAIN x : i \in DOMAIN w /\ x[i] = w[i]
  BY <1>2
<1> QED BY <1>1, <1>3 DEF DownVals, NoData

-----------------------------------------------------------------------------
(* Sessions. *)

\* Sessions that are not there, and that are counted on.
LEMMA Sessions ==
    /\ NoSession \in SessionType /\ ~NoSession.up /\ NoSession.tx = 0 /\ NoSession.rx = 0
    /\ NoSession.skipped = 0
    /\ \A s \in SessionType :
        /\ s.tx \in Nat /\ s.rx \in Nat /\ s.skipped \in Nat
        /\ Counted(s) \in SessionType /\ Counted(s).tx = s.tx + 1 /\ Counted(s).rx = s.rx
        /\ Counted(s).up = s.up /\ Counted(s).keys = s.keys /\ Counted(s).role = s.role
        /\ Opened(s) \in SessionType /\ Opened(s).rx = s.rx + 1 /\ Opened(s).tx = s.tx
        /\ Opened(s).up = s.up /\ Opened(s).keys = s.keys /\ Opened(s).role = s.role
        /\ Counted(s).skipped = s.skipped /\ Opened(s).skipped = s.skipped
        /\ Skipped(s) \in SessionType /\ Skipped(s).tx = s.tx + 1 /\ Skipped(s).rx = s.rx
        /\ Skipped(s).up = s.up /\ Skipped(s).keys = s.keys /\ Skipped(s).role = s.role
        /\ Skipped(s).skipped = s.skipped + 1
<1>1. /\ NoSession \in SessionType /\ ~NoSession.up /\ NoSession.tx = 0 /\ NoSession.rx = 0
      /\ NoSession.skipped = 0
  BY DEF NoSession, SessionType
<1>2. ASSUME NEW s \in SessionType
      PROVE  /\ s.tx \in Nat /\ s.rx \in Nat /\ s.skipped \in Nat
             /\ Counted(s) \in SessionType /\ Counted(s).tx = s.tx + 1
             /\ Counted(s).rx = s.rx /\ Counted(s).skipped = s.skipped
             /\ Counted(s).up = s.up /\ Counted(s).keys = s.keys /\ Counted(s).role = s.role
  BY <1>2 DEF SessionType, Counted
<1>3. ASSUME NEW s \in SessionType
      PROVE  /\ Opened(s) \in SessionType /\ Opened(s).rx = s.rx + 1 /\ Opened(s).tx = s.tx
             /\ Opened(s).skipped = s.skipped
             /\ Opened(s).up = s.up /\ Opened(s).keys = s.keys /\ Opened(s).role = s.role
  BY <1>3 DEF SessionType, Opened
<1>4. ASSUME NEW s \in SessionType
      PROVE  /\ Skipped(s) \in SessionType /\ Skipped(s).tx = s.tx + 1
             /\ Skipped(s).rx = s.rx /\ Skipped(s).skipped = s.skipped + 1
             /\ Skipped(s).up = s.up /\ Skipped(s).keys = s.keys /\ Skipped(s).role = s.role
  <2>1. PICK q : q = Counted(s)
    OBVIOUS
  <2>2. /\ q \in SessionType /\ q.tx = s.tx + 1 /\ q.rx = s.rx /\ q.skipped = s.skipped
        /\ q.up = s.up /\ q.keys = s.keys /\ q.role = s.role
    BY <1>2, <1>4, <2>1
  <2>3. Skipped(s) = [q EXCEPT !.skipped = @ + 1]
    BY <2>1 DEF Skipped
  <2> QED BY <2>2, <2>3 DEF SessionType
<1> QED BY <1>1, <1>2, <1>3, <1>4

\* The keys of a leg are keys, and no others.
LEMMA LegKeys ==
    ASSUME NEW l \in Legs
    PROVE  /\ KeysOf(l) \in KeysType /\ KeysOf(l) # NoKeys /\ KeysOf(l).random = l
           /\ KeysOf(l).pubs[1] = Pub(l, "server")
           /\ Pub(l, "server") \in ServerPubs /\ Pub(l, "client") \in ClientPubs
           /\ Pub(l, "client") # NoPub /\ l # NoKeys
<1>1. Pub(l, "server") \in ServerPubs /\ Pub(l, "client") \in ClientPubs
  BY DEF Pub, ServerPubs, ClientPubs
<1>2. KeysOf(l) \in KeysType /\ KeysOf(l).random = l /\ KeysOf(l).pubs[1] = Pub(l, "server")
  BY <1>1 DEF KeysOf, Derive, KeysType
<1> QED BY <1>1, <1>2, NothingAssumption

\* A session that is installed.
LEMMA Installs ==
    ASSUME NEW l \in Legs, NEW role \in {"Client", "Server"}, NEW s,
           s = Install(KeysOf(l), role)
    PROVE  /\ s \in SessionType /\ s.up /\ s.keys = KeysOf(l) /\ s.role = role
           /\ s.tx = 0 /\ s.rx = 0 /\ s.skipped = 0
<1>1. KeysOf(l) \in KeysType
  BY LegKeys
<1> QED BY <1>1 DEF Install, SessionType

\* What a sealed line is.
LEMMA SealedIs ==
    ASSUME NEW s, NEW line, NEW r, r = Sealed(s, line)
    PROVE  /\ r.type = "appdata" /\ r.line = line
           /\ r.keys = s.keys /\ r.role = s.role /\ r.seq = s.tx
BY DEF Sealed

\* Of which type it is.
LEMMA SealedTyped ==
    ASSUME NEW s \in SessionType, NEW L, NEW line \in L
    PROVE  Sealed(s, line) \in Data(L)
BY DEF SessionType, Sealed, Data

-----------------------------------------------------------------------------
(* What fits on the way down. *)

\* Nothing on either way.
LEMMA FitsEmpty ==
    ASSUME NEW l, NEW h, NEW a, NEW r, NEW d, NEW t,
           h => a.tx = 0 /\ a.rx = 0 /\ a.skipped = 0,
           r => d.rx = 0 /\ d.tx = 0
    PROVE  /\ DownFits(l, <<>>, h, a, r, d)
           /\ ~t => UpFits(l, <<>>, h, a, r, d, t)
           /\ ~r /\ IsNear(l) => UpFits(l, <<>>, h, a, r, d, t)
<1>1. 0 \in Nat
  OBVIOUS
<1>2. Stream(<<>>, KeysOf(l), "Server", 0, 0, 0) /\ Stream(<<>>, KeysOf(l), "Client", 0, 0, 0)
  BY <1>1, StreamEmpty
<1>3. DOMAIN <<>> = {}
  OBVIOUS
<1>4. NoneSealed(<<>>)
  BY <1>3 DEF NoneSealed
<1>5. ASSUME h PROVE a.rx = 0 /\ a.tx = 0 /\ a.skipped = 0
  BY <1>5
<1>6. DownFits(l, <<>>, h, a, r, d)
  BY <1>1, <1>2 DEF DownFits
<1>7. ASSUME ~t PROVE UpFits(l, <<>>, h, a, r, d, t)
  BY <1>1, <1>2, <1>7 DEF UpFits
<1>8. ASSUME ~r, IsNear(l) PROVE UpFits(l, <<>>, h, a, r, d, t)
  BY <1>4, <1>8 DEF UpFits
<1> QED BY <1>6, <1>7, <1>8

\* An end is gone, or stays as it is.
LEMMA DownLess ==
    ASSUME NEW l, NEW w, NEW h, NEW a, NEW r, NEW d, DownFits(l, w, h, a, r, d),
           NEW h2, NEW a2, NEW r2, NEW d2,
           h2 => h /\ a2.tx = a.tx /\ a2.skipped = a.skipped,
           r2 => r /\ d2.rx = d.rx
    PROVE  DownFits(l, w, h2, a2, r2, d2)
BY DEF DownFits

\* The acceptor is gone, with the end of its queue.
LEMMA DownCut ==
    ASSUME NEW l, NEW T, NEW w \in Seq(T), NEW h, NEW a, NEW r, NEW d,
           DownFits(l, w, h, a, r, d), NEW k \in 0 .. Len(w), NEW a2
    PROVE  DownFits(l, SubSeq(w, 1, k), FALSE, a2, r, d)
<1>1. PICK rx, tx, n \in Nat : /\ (r => rx = d.rx) /\ (~AtRelay(l) => n = 0)
                               /\ Stream(w, KeysOf(l), "Server", rx, tx, n)
  BY DEF DownFits
<1>2. \E t \in Nat : Stream(SubSeq(w, 1, k), KeysOf(l), "Server", rx, t, n)
  BY <1>1, StreamCut
<1> QED BY <1>1, <1>2 DEF DownFits

\* The acceptor seals a line.
LEMMA DownSealed ==
    ASSUME NEW l, NEW T, NEW w \in Seq(T), NEW h, NEW a \in SessionType, NEW r, NEW d,
           DownFits(l, w, h, a, r, d), h, a.keys = KeysOf(l), a.role = "Server",
           NEW line, Sealed(a, line) \in T, NEW h2
    PROVE  DownFits(l, Append(w, Sealed(a, line)), h2, Counted(a), r, d)
<1>1. PICK rx, tx, n \in Nat : /\ (r => rx = d.rx) /\ tx = a.tx /\ n = a.skipped
                               /\ (~AtRelay(l) => n = 0)
                               /\ Stream(w, KeysOf(l), "Server", rx, tx, n)
  BY DEF DownFits
<1>2. PICK s : s = Sealed(a, line)
  OBVIOUS
<1>3. s \in T /\ s.type = "appdata" /\ s.keys = KeysOf(l) /\ s.role = "Server" /\ s.seq = tx
  BY <1>1, <1>2, SealedIs
<1>4. Stream(Append(w, s), KeysOf(l), "Server", rx, tx + 1, n)
  BY <1>1, <1>3, StreamMore
<1>5. Counted(a).tx = tx + 1 /\ tx + 1 \in Nat /\ Counted(a).skipped = n
  BY <1>1, Sessions
<1> QED BY <1>1, <1>2, <1>4, <1>5 DEF DownFits

\* The acceptor, which is the relay, seals a line and does not send it.
LEMMA DownSkips ==
    ASSUME NEW l, NEW T, NEW w \in Seq(T), NEW h, NEW a \in SessionType, NEW r, NEW d,
           DownFits(l, w, h, a, r, d), h, AtRelay(l)
    PROVE  DownFits(l, w, h, Skipped(a), r, d)
<1>1. PICK rx, tx, n \in Nat : /\ (r => rx = d.rx) /\ tx = a.tx /\ n = a.skipped
                               /\ Stream(w, KeysOf(l), "Server", rx, tx, n)
  BY DEF DownFits
<1>2. Stream(w, KeysOf(l), "Server", rx, tx + 1, n + 1)
  BY <1>1, StreamSkips
<1>3. Skipped(a).tx = tx + 1 /\ Skipped(a).skipped = n + 1 /\ tx + 1 \in Nat /\ n + 1 \in Nat
  BY <1>1, Sessions
<1> QED BY <1>1, <1>2, <1>3 DEF DownFits

\* The acceptor goes on with the exchange, or is done with it.
LEMMA DownExchanged ==
    ASSUME NEW l, NEW T, NEW w \in Seq(T), NEW h, NEW a, NEW r, NEW d,
           DownFits(l, w, h, a, r, d), h, a.tx = 0, NEW s \in T, s.type # "appdata",
           NEW h2, NEW a2, a2.tx = 0, a2.skipped \in {0, a.skipped}
    PROVE  DownFits(l, Append(w, s), h2, a2, r, d)
<1>1. PICK rx, n \in Nat : /\ (r => rx = d.rx) /\ n = a.skipped /\ (~AtRelay(l) => n = 0)
                           /\ Stream(w, KeysOf(l), "Server", rx, 0, n)
  BY DEF DownFits
<1>2. 0 \in Nat /\ a2.skipped \in Nat /\ (~AtRelay(l) => a2.skipped = 0)
  BY <1>1
<1>3. Stream(Append(w, s), KeysOf(l), "Server", rx, 0, a2.skipped)
  BY <1>1, <1>2, StreamStarts
<1> QED BY <1>1, <1>2, <1>3 DEF DownFits

\* The dialler takes a record of the exchange.
LEMMA DownHeard ==
    ASSUME NEW l, NEW T, NEW w \in Seq(T), w # <<>>, NEW h, NEW a, NEW r, NEW d,
           DownFits(l, w, h, a, r, d), r, Head(w).type # "appdata"
    PROVE  /\ d.rx = 0
           /\ \A r2, d2 : d2.rx = 0 => DownFits(l, Tail(w), h, a, r2, d2)
<1>1. PICK rx, tx, n \in Nat : /\ rx = d.rx /\ (h => tx = a.tx /\ n = a.skipped)
                               /\ (~AtRelay(l) => n = 0)
                               /\ Stream(w, KeysOf(l), "Server", rx, tx, n)
  BY DEF DownFits
<1>2. rx = 0 /\ Stream(Tail(w), KeysOf(l), "Server", rx, tx, n)
  BY <1>1, StreamTaken
<1> QED BY <1>1, <1>2 DEF DownFits

\* The dialler takes a line that it opens: it has the keys, and no other number fits
\* unless some were skipped.
LEMMA DownOpens ==
    ASSUME NEW l, NEW T, NEW w \in Seq(T), w # <<>>, NEW h, NEW a, NEW r,
           NEW d \in SessionType, DownFits(l, w, h, a, r, d), r, Head(w).type = "appdata"
    PROVE  /\ Head(w).keys = KeysOf(l) /\ Head(w).role = "Server"
           /\ ~AtRelay(l) => Head(w).seq = d.rx
           /\ \A r2 : DownFits(l, Tail(w), h, a, r2, Opened(d))
<1>1. PICK rx, tx, n \in Nat : /\ rx = d.rx /\ (h => tx = a.tx /\ n = a.skipped)
                               /\ (~AtRelay(l) => n = 0)
                               /\ Stream(w, KeysOf(l), "Server", rx, tx, n)
  BY DEF DownFits
<1>2. /\ Head(w).keys = KeysOf(l) /\ Head(w).role = "Server" /\ Head(w).seq \in rx .. rx + n
      /\ Stream(Tail(w), KeysOf(l), "Server", rx + 1, tx, n)
  BY <1>1, StreamTaken
<1>3. Opened(d).rx = rx + 1 /\ rx + 1 \in Nat
  BY <1>1, Sessions
<1>4. ASSUME ~AtRelay(l) PROVE Head(w).seq = d.rx
  <2>1. n = 0 /\ Head(w).seq \in rx .. rx + n
    BY <1>1, <1>2, <1>4
  <2> QED BY <1>1, <2>1
<1> QED BY <1>1, <1>2, <1>3, <1>4 DEF DownFits

\* The dialler takes a last record.
LEMMA DownLast ==
    ASSUME NEW l, NEW T, NEW w \in Seq(T), w # <<>>, NEW h, NEW a, NEW r, NEW d,
           DownFits(l, w, h, a, r, d), NEW d2
    PROVE  DownFits(l, Tail(w), h, a, FALSE, d2)
<1>1. PICK rx, tx, n \in Nat : /\ (h => tx = a.tx /\ n = a.skipped) /\ (~AtRelay(l) => n = 0)
                               /\ Stream(w, KeysOf(l), "Server", rx, tx, n)
  BY DEF DownFits
<1>2. \E k \in Nat : Stream(Tail(w), KeysOf(l), "Server", k, tx, n)
  <2>1. rx + 1 \in Nat
    OBVIOUS
  <2> QED BY <1>1, <2>1, StreamTaken
<1> QED BY <1>1, <1>2 DEF DownFits

-----------------------------------------------------------------------------
(* What fits on the way up. *)

\* An end is gone, or stays as it is.
LEMMA UpLess ==
    ASSUME NEW l, NEW w, NEW g, NEW a, NEW r, NEW d, NEW t, UpFits(l, w, g, a, r, d, t),
           NEW g2, NEW a2, NEW r2, NEW d2, NEW t2,
           g2 => g /\ a2.rx = a.rx, r2 => r /\ d2.tx = d.tx, t2 => t
    PROVE  UpFits(l, w, g2, a2, r2, d2, t2)
<1> SUFFICES ASSUME g2 PROVE UpFits(l, w, g2, a2, r2, d2, t2)
  BY DEF UpFits
<1>1. g /\ a2.rx = a.rx
  OBVIOUS
<1>2. CASE ~r /\ IsNear(l) /\ a.rx = 0 /\ NoneSealed(w)
  BY <1>1, <1>2 DEF UpFits
<1>3. CASE /\ ~t
           /\ \E tx \in Nat : (r => tx = d.tx) /\ Stream(w, KeysOf(l), "Client", a.rx, tx, 0)
  <2>1. PICK tx \in Nat : (r => tx = d.tx) /\ Stream(w, KeysOf(l), "Client", a.rx, tx, 0)
    BY <1>3
  <2>2. (r2 => tx = d2.tx) /\ Stream(w, KeysOf(l), "Client", a2.rx, tx, 0) /\ ~t2
    BY <1>1, <1>3, <2>1
  <2> QED BY <2>2 DEF UpFits
<1> QED BY <1>1, <1>2, <1>3 DEF UpFits

\* The dialler seals a line.
LEMMA UpSealed ==
    ASSUME NEW l, NEW T, NEW w \in Seq(T), NEW g, NEW a \in SessionType, NEW r,
           NEW d \in SessionType, NEW t, UpFits(l, w, g, a, r, d, t), r,
           d.keys = KeysOf(l), d.role = "Client", NEW line, Sealed(d, line) \in T, NEW r2
    PROVE  UpFits(l, Append(w, Sealed(d, line)), g, a, r2, Counted(d), t)
<1> SUFFICES ASSUME g PROVE UpFits(l, Append(w, Sealed(d, line)), g, a, r2, Counted(d), t)
  BY DEF UpFits
<1>1. PICK tx \in Nat : tx = d.tx /\ Stream(w, KeysOf(l), "Client", a.rx, tx, 0) /\ ~t
  BY DEF UpFits
<1>2. PICK s : s = Sealed(d, line)
  OBVIOUS
<1>3. s \in T /\ s.type = "appdata" /\ s.keys = KeysOf(l) /\ s.role = "Client" /\ s.seq = tx
  BY <1>1, <1>2, SealedIs
<1>4. a.rx \in Nat
  BY Sessions
<1>5. Stream(Append(w, s), KeysOf(l), "Client", a.rx, tx + 1, 0)
  BY <1>1, <1>3, <1>4, StreamMore
<1>6. Counted(d).tx = tx + 1 /\ tx + 1 \in Nat
  BY <1>1, Sessions
<1> QED BY <1>1, <1>2, <1>5, <1>6 DEF UpFits

\* The dialler goes on with the exchange.
LEMMA UpExchanged ==
    ASSUME NEW l, NEW T, NEW w \in Seq(T), NEW g, NEW a \in SessionType, NEW r,
           NEW d, NEW t, UpFits(l, w, g, a, r, d, t), r, d.tx = 0,
           NEW s \in T, s.type # "appdata", NEW r2, NEW d2, d2.tx = 0
    PROVE  UpFits(l, Append(w, s), g, a, r2, d2, t)
<1> SUFFICES ASSUME g PROVE UpFits(l, Append(w, s), g, a, r2, d2, t)
  BY DEF UpFits
<1>1. Stream(w, KeysOf(l), "Client", a.rx, 0, 0) /\ ~t
  BY DEF UpFits
<1>2. a.rx \in Nat
  BY Sessions
<1>3. Stream(Append(w, s), KeysOf(l), "Client", a.rx, 0, 0)
  BY <1>1, <1>2, StreamStarts
<1>4. 0 \in Nat
  OBVIOUS
<1> QED BY <1>1, <1>3, <1>4 DEF UpFits

\* One that does not keep to the protocol sends anything but what is sealed.
LEMMA UpStrange ==
    ASSUME NEW l, NEW T, NEW w \in Seq(T), NEW g, NEW a, NEW r, NEW d, NEW t,
           UpFits(l, w, g, a, r, d, t), t, NEW s \in T, ~IsSealed(s)
    PROVE  UpFits(l, Append(w, s), g, a, r, d, t)
<1>1. NoneSealed(w) => NoneSealed(Append(w, s))
  BY ValsMore
<1> QED BY <1>1 DEF UpFits

\* The acceptor takes a record of the exchange.
LEMMA UpHeard ==
    ASSUME NEW l, NEW T, NEW w \in Seq(T), w # <<>>, NEW g, NEW a \in SessionType,
           NEW r, NEW d, NEW t, UpFits(l, w, g, a, r, d, t), Head(w).type # "appdata"
    PROVE  /\ g => a.rx = 0
           /\ \A a2 : a2.rx = 0 => UpFits(l, Tail(w), g, a2, r, d, t)
<1> SUFFICES ASSUME g PROVE a.rx = 0 /\ \A a2 : a2.rx = 0 => UpFits(l, Tail(w), g, a2, r, d, t)
  BY DEF UpFits
<1>1. CASE ~r /\ IsNear(l) /\ a.rx = 0 /\ NoneSealed(w)
  <2>1. NoneSealed(Tail(w))
    BY <1>1, ValsTaken
  <2> QED BY <1>1, <2>1 DEF UpFits
<1>2. CASE /\ ~t
           /\ \E tx \in Nat : (r => tx = d.tx) /\ Stream(w, KeysOf(l), "Client", a.rx, tx, 0)
  <2>1. PICK tx \in Nat : (r => tx = d.tx) /\ Stream(w, KeysOf(l), "Client", a.rx, tx, 0)
    BY <1>2
  <2>2. a.rx \in Nat
    BY Sessions
  <2>3. a.rx = 0 /\ Stream(Tail(w), KeysOf(l), "Client", a.rx, tx, 0)
    BY <2>1, <2>2, StreamTaken
  <2> QED BY <1>2, <2>1, <2>3 DEF UpFits
<1> QED BY <1>1, <1>2 DEF UpFits

\* The acceptor takes a line that it opens.
LEMMA UpOpens ==
    ASSUME NEW l \in Legs, NEW T, NEW w \in Seq(T), w # <<>>, NEW g, NEW a \in SessionType,
           NEW r, NEW d, NEW t, UpFits(l, w, g, a, r, d, t), a.keys = KeysOf(l),
           Opens(a, Head(w))
    PROVE  UpFits(l, Tail(w), g, Opened(a), r, d, t)
<1> SUFFICES ASSUME g PROVE UpFits(l, Tail(w), g, Opened(a), r, d, t)
  BY DEF UpFits
<1>1. Head(w).type = "appdata" /\ Head(w).keys = KeysOf(l) /\ IsSealed(Head(w))
  BY LegKeys DEF Opens, IsSealed
<1>2. ~NoneSealed(w)
  BY <1>1, ValsTaken
<1>3. PICK tx \in Nat : (r => tx = d.tx) /\ Stream(w, KeysOf(l), "Client", a.rx, tx, 0) /\ ~t
  BY <1>2 DEF UpFits
<1>4. a.rx \in Nat /\ Opened(a).rx = a.rx + 1
  BY Sessions
<1>5. Stream(Tail(w), KeysOf(l), "Client", a.rx + 1, tx, 0)
  BY <1>1, <1>3, <1>4, StreamTaken
<1> QED BY <1>3, <1>4, <1>5 DEF UpFits

\* The acceptor takes a line that it does not open: nobody has sealed it.
LEMMA UpGivenUp ==
    ASSUME NEW l, NEW T, NEW w \in Seq(T), w # <<>>, NEW g, NEW a \in SessionType,
           NEW r, NEW d, NEW t, UpFits(l, w, g, a, r, d, t), a.keys = KeysOf(l),
           a.up, a.role = "Server", ~Opens(a, Head(w))
    PROVE  UpFits(l, Tail(w), g, a, r, d, t)
<1> SUFFICES ASSUME g PROVE UpFits(l, Tail(w), g, a, r, d, t)
  BY DEF UpFits
<1>1. CASE ~r /\ IsNear(l) /\ a.rx = 0 /\ NoneSealed(w)
  <2>1. NoneSealed(Tail(w))
    BY <1>1, ValsTaken
  <2> QED BY <1>1, <2>1 DEF UpFits
<1>2. CASE /\ ~t
           /\ \E tx \in Nat : (r => tx = d.tx) /\ Stream(w, KeysOf(l), "Client", a.rx, tx, 0)
  <2>1. PICK tx \in Nat : (r => tx = d.tx) /\ Stream(w, KeysOf(l), "Client", a.rx, tx, 0)
    BY <1>2
  <2>2. a.rx \in Nat
    BY Sessions
  <2>3. CASE Head(w).type = "appdata"
    <3>1. Head(w).keys = KeysOf(l) /\ Head(w).role = "Client" /\ Head(w).seq = a.rx
      BY <2>1, <2>2, <2>3, StreamTaken
    <3> QED BY <2>3, <3>1 DEF Opens
  <2>4. CASE Head(w).type # "appdata"
    <3>1. Stream(Tail(w), KeysOf(l), "Client", a.rx, tx, 0)
      BY <2>1, <2>2, <2>4, StreamTaken
    <3> QED BY <1>2, <2>1, <3>1 DEF UpFits
  <2> QED BY <2>3, <2>4
<1> QED BY <1>1, <1>2 DEF UpFits

\* A stream that starts where its reader is, is in step but for what was skipped.
LEMMA StreamInStep ==
    ASSUME NEW l \in Legs, NEW T, NEW w \in Seq(T), NEW role, NEW s \in SessionType,
           s.keys = KeysOf(l), NEW tx \in Nat, NEW n \in Nat,
           Stream(w, KeysOf(l), role, s.rx, tx, n), NEW S, 0 .. n \subseteq S
    PROVE  InStep(w, s, S)
<1>1. PICK m \in 0 .. Len(w) :
        /\ \A i \in DOMAIN w : w[i].type = "appdata" <=> i > m
        /\ \A i \in DOMAIN w : i > m =>
            /\ w[i].keys = KeysOf(l) /\ w[i].role = role
            /\ w[i].seq \in s.rx + (i - m) - 1 .. s.rx + (i - m) - 1 + n
  BY DEF Stream
<1>2. DOMAIN w = 1 .. Len(w) /\ Len(w) \in Nat /\ m \in Nat /\ s.rx \in Nat
  BY Sessions
<1>3. KeysOf(l) # NoKeys
  BY LegKeys
<1>4. ASSUME NEW i \in DOMAIN w, IsSealed(w[i])
      PROVE  w[i].keys = s.keys /\ w[i].seq - (s.rx + Before(w, i)) \in S
  <2>1. i > m /\ i \in Nat /\ i <= Len(w)
    BY <1>1, <1>2, <1>4 DEF IsSealed
  <2>2. {j \in 1 .. i - 1 : IsSealed(w[j])} = m + 1 .. i - 1
    <3>1. ASSUME NEW j \in 1 .. i - 1 PROVE IsSealed(w[j]) <=> j > m
      <4>1. j \in DOMAIN w
        BY <1>2, <2>1
      <4> QED BY <1>1, <1>3, <4>1 DEF IsSealed
    <3> QED BY <1>2, <2>1, <3>1
  <2>3. Cardinality(m + 1 .. i - 1) = i - 1 - m
    <3>1. m + 1 \in Int /\ i - 1 \in Int
      BY <1>2, <2>1
    <3>2. Cardinality(m + 1 .. i - 1) = IF m + 1 > i - 1 THEN 0 ELSE (i - 1) - (m + 1) + 1
      BY <3>1, FS_Interval
    <3> QED BY <1>2, <2>1, <3>2
  <2>4. Before(w, i) = i - 1 - m
    BY <2>2, <2>3 DEF Before
  <2>5. /\ w[i].keys = KeysOf(l)
        /\ w[i].seq \in s.rx + (i - m) - 1 .. s.rx + (i - m) - 1 + n
    BY <1>1, <2>1
  <2>6. w[i].seq - (s.rx + (i - 1 - m)) \in 0 .. n
    BY <1>2, <2>1, <2>5
  <2> QED BY <2>4, <2>5, <2>6
<1> QED BY <1>4 DEF InStep

\* What is told to a dialler that reads is in step, but for what the relay skipped.
LEMMA DownInStep ==
    ASSUME NEW l \in Legs, NEW T, NEW w \in Seq(T), NEW s \in SessionType,
           s.keys = KeysOf(l), NEW o, NEW h, DownFits(l, w, h, o, TRUE, s)
    PROVE  /\ InStep(w, s, Nat) /\ (~AtRelay(l) => InStep(w, s, {0}))
           /\ h => InStep(w, s, 0 .. o.skipped)
<1>1. PICK tx, n \in Nat : /\ (h => n = o.skipped) /\ (~AtRelay(l) => n = 0)
                           /\ Stream(w, KeysOf(l), "Server", s.rx, tx, n)
  BY DEF DownFits
<1>2. 0 .. n \subseteq Nat /\ 0 .. 0 \subseteq {0} /\ 0 .. n \subseteq 0 .. n
  OBVIOUS
<1>3. InStep(w, s, Nat) /\ InStep(w, s, 0 .. n)
  BY <1>1, <1>2, StreamInStep
<1>4. n = 0 => InStep(w, s, {0})
  BY <1>1, <1>2, StreamInStep
<1> QED BY <1>1, <1>3, <1>4

\* What is said to an acceptor that listens is in step.
LEMMA UpInStep ==
    ASSUME NEW l \in Legs, NEW T, NEW w \in Seq(T), NEW s \in SessionType,
           s.keys = KeysOf(l), NEW o, NEW r, NEW t, UpFits(l, w, TRUE, s, r, o, t)
    PROVE  InStep(w, s, {0})
<1>1. CASE NoneSealed(w)
  BY <1>1 DEF NoneSealed, InStep
<1>2. CASE \E tx \in Nat : Stream(w, KeysOf(l), "Client", s.rx, tx, 0)
  <2>1. 0 .. 0 \subseteq {0} /\ 0 \in Nat
    OBVIOUS
  <2> QED BY <1>2, <2>1, StreamInStep
<1> QED BY <1>1, <1>2 DEF UpFits

-----------------------------------------------------------------------------
(* Legs. *)

\* The two ends of a leg, by whose it is.
LEMMA LegIs ==
    ASSUME NEW c \in Clients
    PROVE  /\ Near(c) \in Legs /\ Last(c) \in Legs
           /\ Owner(Near(c)) = c /\ Owner(Far(c)) = c /\ Owner(Last(c)) = c
           /\ Near(c) # Far(c) /\ IsNear(Near(c)) /\ ~IsNear(Far(c))
           /\ AtRelay(Last(c))
           /\ c \in Victims => Far(c) \in Legs /\ Last(c) = Far(c) /\ ~AtRelay(Near(c))
           /\ c \notin Victims => Last(c) = Near(c) /\ AtRelay(Near(c))
<1>1. Near(c)[1] = c /\ Far(c)[1] = c /\ Near(c)[2] = "near" /\ Far(c)[2] = "far"
  BY DEF Near, Far
<1>2. Near(c) # Far(c)
  BY <1>1
<1> QED BY <1>1, <1>2 DEF Legs, Last, Owner, IsNear, AtRelay

\* Every leg is one of these.
LEMMA LegsAre ==
    ASSUME NEW l \in Legs
    PROVE  /\ Owner(l) \in Clients
           /\ l = Near(Owner(l)) \/ (l = Far(Owner(l)) /\ Owner(l) \in Victims)
           /\ IsNear(l) <=> l = Near(Owner(l))
           /\ AtRelay(l) <=> l = Last(Owner(l))
           /\ IsNear(l) \/ AtRelay(l)
<1>1. Victims \subseteq Clients
  BY SealedChatAssumption
<1>2. Owner(l) \in Clients
      /\ (l = Near(Owner(l)) \/ (l = Far(Owner(l)) /\ Owner(l) \in Victims))
  <2>1. CASE l \in {Near(c) : c \in Clients}
    BY <2>1, LegIs
  <2>2. CASE l \in {Far(v) : v \in Victims}
    BY <1>1, <2>2, LegIs
  <2> QED BY <2>1, <2>2 DEF Legs
<1>3. IsNear(l) \/ AtRelay(l)
  BY <1>2, LegIs DEF IsNear, AtRelay
<1> QED BY <1>2, <1>3 DEF IsNear, AtRelay

\* The sessions at the ends.
LEMMA EndTypes ==
    ASSUME TypesOK, NEW l \in Legs
    PROVE  /\ Acceptor(l) \in SessionType /\ Dialler(l) \in SessionType
           /\ up[l] \in Seq(UpRecord) /\ down[l] \in Seq(DownRecord)
<1>1. Owner(l) \in Clients
  BY LegsAre
<1>2. /\ conns[Owner(l)] \in ConnType /\ clients[Owner(l)] \in ProcessType
      /\ proxy \in ProxyType
      /\ up[l] \in Seq(UpRecord) /\ down[l] \in Seq(DownRecord)
  BY <1>1 DEF TypesOK
<1>3. /\ conns[Owner(l)].sess \in SessionType /\ clients[Owner(l)].sess \in SessionType
      /\ proxy.vsess \in SessionType /\ proxy.ssess \in SessionType
  BY <1>2 DEF ConnType, ProcessType, ProxyType
<1> QED BY <1>2, <1>3, Sessions DEF Acceptor, Dialler

\* The ends of the legs of a client, and of those of the proxy.
LEMMA EndsAre ==
    ASSUME NEW c \in Clients
    PROVE  /\ Dialler(Near(c)) = clients[c].sess
           /\ (Runs(Near(c)) <=> clients[c].st \in Running)
           /\ Strange(Near(c)) <=> clients[c].st = "strange"
           /\ ~Altered(Near(c))
           /\ Acceptor(Last(c)) = conns[c].sess /\ AcceptorStep(Last(c)) = conns[c].hs
           /\ Held(Last(c)) <=> "acceptor" \in ends[Last(c)]
           /\ c \in Victims =>
                /\ Acceptor(Near(c)) = IF Victim = c THEN proxy.vsess ELSE NoSession
                /\ AcceptorStep(Near(c)) = IF Victim = c THEN proxy.hs ELSE NewHandshake
                /\ Held(Near(c)) <=> "acceptor" \in ends[Near(c)] \/ Victim = c
                /\ Hears(Near(c)) <=> Held(Near(c))
                /\ Dialler(Far(c)) = IF Victim = c THEN proxy.ssess ELSE NoSession
                /\ Runs(Far(c)) <=> Victim = c /\ proxy.st \in {"server", "pump"}
                /\ ~Strange(Far(c)) /\ (Altered(Far(c)) <=> proxy.hit = c)
           /\ Altered(Last(c)) => c \in Victims /\ proxy.hit = c
           /\ Hears(Last(c)) <=>
                /\ "acceptor" \in ends[Last(c)] /\ ~Altered(Last(c))
                /\ conns[c].st \in {"none", "open"} \/ conns[c].sess.up
BY LegIs DEF Dialler, Runs, Strange, Altered, Acceptor, AcceptorStep, Held, Hears

\* A client without a connection.
LEMMA ConnTypes ==
    /\ NewHandshake \in HandshakeType /\ NoConn \in ConnType /\ NoProcess \in ProcessType
    /\ NoConn.sess = NoSession /\ NoConn.user = NoName /\ NoConn.st = "none" /\ ~NoConn.want
    /\ NoConn.hs = NewHandshake /\ NewHandshake.step = "AwaitClientHello"
    /\ NoProcess.sess = NoSession /\ NoProcess.st = "off"
BY Sessions DEF NewHandshake, HandshakeType, NoConn, ConnType, NoProcess, ProcessType

\* The invariant says that the fingerprints tell.
LEMMA InvFingerprints == SealedInv => FingerprintsTell
<1> SUFFICES ASSUME SealedInv PROVE FingerprintsTell
  OBVIOUS
<1>1. /\ TypesOK /\ ProxyOK /\ \A l \in Legs : KeysOK(l) /\ KeysFit(l, Acceptor(l),
         AcceptorStep(l), Dialler(l))
  BY DEF SealedInv, LegOK, KeysOK
<1>2. ASSUME NEW c \in Clients
      PROVE  /\ clients[c].sess.up => clients[c].sess.keys = KeysOf(Near(c))
             /\ conns[c].sess.up => conns[c].sess.keys = KeysOf(Last(c))
  <2>1. /\ KeysFit(Near(c), Acceptor(Near(c)), AcceptorStep(Near(c)), clients[c].sess)
        /\ KeysFit(Last(c), conns[c].sess, AcceptorStep(Last(c)), Dialler(Last(c)))
    BY <1>1, LegIs, EndsAre
  <2> QED BY <2>1, Sessions DEF KeysFit
<1>3. ASSUME Victim \in Victims
      PROVE  /\ proxy.vsess.up => proxy.vsess.keys = KeysOf(Near(Victim))
             /\ proxy.ssess.up => proxy.ssess.keys = KeysOf(Far(Victim))
  <2>1. Victim \in Clients
    BY <1>3, SealedChatAssumption
  <2>2. /\ KeysFit(Near(Victim), proxy.vsess, AcceptorStep(Near(Victim)),
           Dialler(Near(Victim)))
        /\ KeysFit(Far(Victim), Acceptor(Far(Victim)), AcceptorStep(Far(Victim)), proxy.ssess)
    BY <1>1, <1>3, <2>1, LegIs, EndsAre
  <2> QED BY <2>2, Sessions DEF KeysFit
<1>4. ASSUME NEW c \in Clients, c \in Victims PROVE KeysOf(Near(c)) # KeysOf(Far(c))
  <2>1. Near(c) \in Legs /\ Far(c) \in Legs /\ Near(c) # Far(c)
    BY <1>4, LegIs
  <2> QED BY <2>1, LegKeys
<1>5. \A c \in Clients : clients[c].sess.up /\ conns[c].sess.up =>
        (clients[c].sess.keys = conns[c].sess.keys <=> c \notin Victims)
  BY <1>2, <1>4, LegIs
<1>6. proxy.vsess.up \/ proxy.ssess.up => Victim \in Victims
  BY <1>1, Sessions DEF ProxyOK, TypesOK, ProxyType, Victim
<1>7. Victim \in Victims => Victim \in Clients /\ Last(Victim) = Far(Victim)
  BY SealedChatAssumption, LegIs
<1>8. /\ proxy.vsess.up /\ clients[Victim].sess.up
         => clients[Victim].sess.keys = proxy.vsess.keys
      /\ proxy.ssess.up /\ conns[Victim].sess.up => conns[Victim].sess.keys = proxy.ssess.keys
  BY <1>2, <1>3, <1>6, <1>7
<1> QED BY <1>5, <1>8 DEF FingerprintsTell

\* The invariant says that the lines are in step.
LEMMA InvLines == SealedInv => LinesInStep
<1> SUFFICES ASSUME SealedInv PROVE LinesInStep
  OBVIOUS
<1>1. /\ TypesOK /\ ProxyOK /\ \A c \in Clients : ProcessOK(c) /\ ConnOK(c)
      /\ \A l \in Legs : /\ DownFits(l, down[l], Held(l), Acceptor(l), Runs(l), Dialler(l))
                         /\ UpFits(l, up[l], Hears(l), Acceptor(l), Runs(l), Dialler(l),
                            Strange(l))
                         /\ KeysFit(l, Acceptor(l), AcceptorStep(l), Dialler(l))
  BY DEF SealedInv, LegOK, KeysOK, DownOK, UpOK
<1>2. ASSUME NEW l \in Legs, Runs(l), Dialler(l).up
      PROVE  /\ InStep(down[l], Dialler(l), Nat)
             /\ ~AtRelay(l) => InStep(down[l], Dialler(l), {0})
             /\ Held(l) => InStep(down[l], Dialler(l), 0 .. Acceptor(l).skipped)
  <2>1. Dialler(l) \in SessionType /\ down[l] \in Seq(DownRecord)
    BY <1>1, EndTypes
  <2>2. Dialler(l).keys = KeysOf(l)
    BY <1>1, <1>2, Sessions DEF KeysFit
  <2>3. DownFits(l, down[l], Held(l), Acceptor(l), TRUE, Dialler(l))
    BY <1>1, <1>2 DEF DownFits
  <2> QED BY <2>1, <2>2, <2>3, DownInStep
<1>3. ASSUME NEW l \in Legs, Hears(l), Acceptor(l).up
      PROVE  InStep(up[l], Acceptor(l), {0})
  <2>1. Acceptor(l) \in SessionType /\ up[l] \in Seq(UpRecord)
    BY <1>1, EndTypes
  <2>2. Acceptor(l).keys = KeysOf(l)
    BY <1>1, <1>3, Sessions DEF KeysFit
  <2>3. UpFits(l, up[l], TRUE, Acceptor(l), Runs(l), Dialler(l), Strange(l))
    BY <1>1, <1>3 DEF UpFits
  <2> QED BY <2>1, <2>2, <2>3, UpInStep
<1>4. ASSUME NEW c \in Clients, clients[c].sess.up
      PROVE  InStep(down[Near(c)], clients[c].sess, IF c \in Victims THEN {0} ELSE Skips(c))
  <2>1. clients[c].st \in Running
    BY <1>1, <1>4, Sessions DEF ProcessOK, Running
  <2>2. /\ InStep(down[Near(c)], clients[c].sess, Nat)
        /\ ~AtRelay(Near(c)) => InStep(down[Near(c)], clients[c].sess, {0})
        /\ Held(Near(c)) =>
             InStep(down[Near(c)], clients[c].sess, 0 .. Acceptor(Near(c)).skipped)
    BY <1>2, <1>4, <2>1, LegIs, EndsAre
  <2>3. CASE c \in Victims
    BY <2>2, <2>3, LegIs
  <2>4. CASE c \notin Victims
    <3>1. /\ AtRelay(Near(c)) /\ Near(c) = Last(c) /\ Acceptor(Near(c)) = conns[c].sess
          /\ Held(Near(c)) <=> "acceptor" \in ends[Last(c)]
      BY <2>4, LegIs, EndsAre
    <3> QED BY <2>2, <2>4, <3>1 DEF Skips
  <2> QED BY <2>3, <2>4
<1>5. ASSUME NEW c \in Clients, conns[c].sess.up, proxy.hit # c
      PROVE  InStep(up[Last(c)], conns[c].sess, {0})
  <2>1. "acceptor" \in ends[Last(c)]
    BY <1>1, <1>5, Sessions, ConnTypes DEF ConnOK
  <2>2. Hears(Last(c))
    BY <1>5, <2>1, EndsAre
  <2> QED BY <1>3, <1>5, <2>2, LegIs, EndsAre
<1>6. proxy.vsess.up \/ proxy.ssess.up => Victim \in Victims /\ Victim \in Clients
  BY <1>1, Sessions, SealedChatAssumption DEF ProxyOK, TypesOK, ProxyType, Victim
<1>7. ASSUME proxy.vsess.up PROVE InStep(up[Near(Victim)], proxy.vsess, {0})
  BY <1>3, <1>6, <1>7, LegIs, EndsAre
<1>8. ASSUME proxy.ssess.up PROVE InStep(down[Far(Victim)], proxy.ssess, Skips(Victim))
  <2>1. proxy.st \in {"server", "pump"}
    BY <1>1, <1>8, Sessions DEF ProxyOK, TypesOK, ProxyType
  <2>2. /\ InStep(down[Far(Victim)], proxy.ssess, Nat)
        /\ Held(Far(Victim)) =>
             InStep(down[Far(Victim)], proxy.ssess, 0 .. Acceptor(Far(Victim)).skipped)
    BY <1>2, <1>6, <1>8, <2>1, LegIs, EndsAre
  <2>3. /\ AtRelay(Far(Victim)) /\ Far(Victim) = Last(Victim)
        /\ Acceptor(Far(Victim)) = conns[Victim].sess
        /\ Held(Far(Victim)) <=> "acceptor" \in ends[Last(Victim)]
    BY <1>6, <1>8, LegIs, EndsAre
  <2> QED BY <2>2, <2>3 DEF Skips
<1> QED BY <1>4, <1>5, <1>7, <1>8 DEF LinesInStep

\* The invariant says that everything has its type.
LEMMA InvTypes == SealedInv => TypeOK
<1> SUFFICES ASSUME SealedInv PROVE TypeOK
  OBVIOUS
<1>1. TypesOK
  BY DEF SealedInv
<1>2. ASSUME NEW c \in Clients, conns[c].sess.up
      PROVE  conns[c].sess.keys.pubs[1] = Pub(Last(c), "server")
  <2>1. KeysFit(Last(c), conns[c].sess, AcceptorStep(Last(c)), Dialler(Last(c)))
    BY LegIs, EndsAre DEF SealedInv, LegOK, KeysOK
  <2>2. conns[c].sess.keys = KeysOf(Last(c))
    BY <1>2, <2>1, Sessions DEF KeysFit
  <2> QED BY <2>2, LegIs, LegKeys
<1> QED BY <1>1, <1>2 DEF TypesOK, TypeOK, ConnType, ProcessType, ProxyType

-----------------------------------------------------------------------------
(* What the relay does with a line.                                        *)

\* The session of x once the relay has opened a line of c.
Base(x, c) == IF x = c THEN Opened(conns[c].sess) ELSE conns[x].sess

\* Nobody logs in or out on the connection.
SameUser(x) == conns'[x].user = conns[x].user

\* Nothing is sent, and the session is s, or has counted what was not sent.
Kept(x, s) ==
    /\ conns'[x] \in ConnType
    /\ conns'[x].st = conns[x].st /\ conns'[x].hs = conns[x].hs
    /\ SameUser(x)
    /\ conns'[x].sess = s \/ (s.up /\ conns[x].sess.up /\ conns'[x].sess = Skipped(s))
    /\ conns[x].st = "none" => conns'[x] = conns[x]
    /\ down'[Last(x)] = down[Last(x)]

\* A line is sent, in a session that was s before.
Grows(x, s, line) ==
    /\ conns'[x] \in ConnType
    /\ conns'[x].st = conns[x].st /\ conns'[x].hs = conns[x].hs
    /\ line \in Told /\ s.up /\ conns[x].sess.up /\ conns'[x].sess = Counted(s)
    /\ down'[Last(x)] = Append(down[Last(x)], Sealed(s, line))

\* A line that is answered to its sender alone.
Reply(c) ==
    /\ \A x \in Clients \ {c} : Kept(x, conns[x].sess)
    /\ SameUser(c) /\ byName' = byName
    /\ \E verb \in {"ERR", "USERS"} : Grows(c, Base(c, c), Line(verb, NoName, 0))

\* A line that is not answered.
Wants(c) == (\A x \in Clients : Kept(x, Base(x, c))) /\ byName' = byName

\* A line that goes to somebody.
Post(c, to, m) ==
    /\ Registered(c) /\ byName[to] # NoClient /\ byName' = byName
    /\ SameUser(byName[to])
    /\ Grows(byName[to], Base(byName[to], c), Line("FROM", conns[c].user, m))
    /\ \A x \in Clients \ {byName[to]} : Kept(x, Base(x, c))

\* A LOGIN that is accepted.
Join(c, n) ==
    /\ ~Registered(c) /\ byName[n] = NoClient /\ byName' = [byName EXCEPT ![n] = c]
    /\ conns'[c].user = n /\ Grows(c, Base(c, c), Line("OK", n, 0))
    /\ \A x \in Clients \ {c} :
        IF Registered(x) THEN SameUser(x) /\ Grows(x, conns[x].sess, Line("joined", n, 0))
                         ELSE Kept(x, conns[x].sess)

\* All that a line sent to the relay can do.
LineEffect(c, line) ==
    \/ Reply(c) \/ Wants(c)
    \/ line.verb = "MSG" /\ line.name \in Names /\ Post(c, line.name, line.msg)
    \/ line.verb = "LOGIN" /\ line.name \in Names /\ Join(c, line.name)

\* Connections and queues stay functions, and no other leg is sent anything.
Shape ==
    /\ conns' = [x \in Clients |-> conns'[x]]
    /\ down' = [l \in Legs |-> down'[l]]
    /\ \A l \in Legs : ~AtRelay(l) => down'[l] = down[l]

\* A connection whose session changes, and one to be closed.
LEMMA ConnChanges ==
    ASSUME NEW p \in ConnType, NEW s \in SessionType, NEW n \in Names \cup {NoName}
    PROVE  /\ [p EXCEPT !.sess = s] \in ConnType
           /\ [p EXCEPT !.sess = s].st = p.st /\ [p EXCEPT !.sess = s].hs = p.hs
           /\ [p EXCEPT !.sess = s].user = p.user /\ [p EXCEPT !.sess = s].sess = s
           /\ [p EXCEPT !.want = TRUE] \in ConnType
           /\ [p EXCEPT !.want = TRUE].st = p.st /\ [p EXCEPT !.want = TRUE].hs = p.hs
           /\ [p EXCEPT !.want = TRUE].user = p.user /\ [p EXCEPT !.want = TRUE].sess = p.sess
           /\ [p EXCEPT !.user = n] \in ConnType
           /\ [p EXCEPT !.user = n].st = p.st /\ [p EXCEPT !.user = n].hs = p.hs
           /\ [p EXCEPT !.user = n].user = n /\ [p EXCEPT !.user = n].sess = p.sess
BY DEF ConnType

\* A connection after a line: its counter, and nothing else.
LEMMA AfterLineIs ==
    ASSUME NEW p \in ConnType, p.sess.up, NEW line
    PROVE  /\ AfterLine(p) \in ConnType
           /\ AfterLine(p).st = p.st /\ AfterLine(p).hs = p.hs /\ AfterLine(p).user = p.user
           /\ AfterLine(p).sess = Counted(p.sess)
           /\ Queued(p, line) = <<Sealed(p.sess, line)>>
<1>1. p.sess \in SessionType /\ p.user \in Names \cup {NoName}
  BY DEF ConnType
<1>2. AfterLine(p) = [p EXCEPT !.sess = Counted(p.sess)]
  BY DEF AfterLine
<1>3. Queued(p, line) = <<Sealed(p.sess, line)>>
  BY DEF Queued
<1>4. PICK s : s = Counted(p.sess)
  OBVIOUS
<1>5. s \in SessionType
  BY <1>1, <1>4, Sessions
<1>6. PICK q : q = [p EXCEPT !.sess = s]
  OBVIOUS
<1>7. q \in ConnType /\ q.st = p.st /\ q.hs = p.hs /\ q.user = p.user /\ q.sess = s
  BY <1>1, <1>5, <1>6, ConnChanges, ZenonT(30)
<1> QED BY <1>2, <1>3, <1>4, <1>6, <1>7

\* The lines the relay sends.
LEMMA RelayLines ==
    ASSUME NEW n \in Names \cup {NoName}, NEW m \in 0 .. MaxLines,
           NEW verb \in {"OK", "ERR", "USERS", "FROM", "joined", "left"}
    PROVE  Line(verb, n, m) \in Told /\ Line(verb, n, 0) \in Told
<1>1. 0 \in 0 .. MaxLines
  BY SealedChatAssumption
<1> QED BY <1>1 DEF Line, Told

\* The state a line is handled in: its record has been opened.
LEMMA OpenedState ==
    ASSUME TypesOK, NEW c \in Clients, conns[c].sess.up
    PROVE  LET s == [Now EXCEPT !.conns[c].sess = Opened(@)] IN
           /\ s.down = down /\ s.conns[c] \in ConnType
           /\ s.conns[c].st = conns[c].st /\ s.conns[c].hs = conns[c].hs
           /\ s.conns[c].user = conns[c].user /\ s.conns[c].sess = Base(c, c)
           /\ s.conns[c].sess.up
           /\ s.conns \in [Clients -> ConnType]
           /\ \A x \in Clients \ {c} : s.conns[x] = conns[x]
<1>1. conns[c] \in ConnType /\ conns \in [Clients -> ConnType]
  BY DEF TypesOK
<1>2. conns[c].sess \in SessionType /\ conns[c].user \in Names \cup {NoName}
  BY <1>1 DEF ConnType
<1>3. PICK p : p = [conns[c] EXCEPT !.sess = Opened(conns[c].sess)]
  OBVIOUS
<1>4. /\ p \in ConnType /\ p.st = conns[c].st /\ p.hs = conns[c].hs /\ p.user = conns[c].user
      /\ p.sess = Base(c, c) /\ p.sess.up
  <2>1. PICK s : s = Opened(conns[c].sess)
    OBVIOUS
  <2>2. s \in SessionType /\ s.up /\ s = Base(c, c)
    BY <1>2, <2>1, Sessions DEF Base
  <2>3. p = [conns[c] EXCEPT !.sess = s]
    BY <1>3, <2>1
  <2>4. /\ p \in ConnType /\ p.st = conns[c].st /\ p.hs = conns[c].hs
        /\ p.user = conns[c].user /\ p.sess = s
    BY <1>1, <1>2, <2>2, <2>3, ConnChanges, ZenonT(30)
  <2> QED BY <2>2, <2>4
<1>5. PICK s : s = [Now EXCEPT !.conns[c].sess = Opened(@)]
  OBVIOUS
<1>6. s.down = down /\ s.conns = [conns EXCEPT ![c] = p]
  BY <1>3, <1>5 DEF Now
<1>7. s.conns[c] = p /\ s.conns \in [Clients -> ConnType]
      /\ \A x \in Clients \ {c} : s.conns[x] = conns[x]
  BY <1>1, <1>4, <1>6
<1> QED BY <1>4, <1>5, <1>6, <1>7

\* What is sent to some, at each connection.
LEMMA SendsIs ==
    ASSUME NEW st, NEW whom, NEW line, NEW s, s = SendLines(st, whom, line)
    PROVE  \A x \in Clients :
             /\ s.conns[x] = IF x \in whom THEN AfterLine(st.conns[x]) ELSE st.conns[x]
             /\ s.down[Last(x)] = IF x \in whom
                                  THEN st.down[Last(x)] \o Queued(st.conns[x], line)
                                  ELSE st.down[Last(x)]
<1>1. \A x \in Clients : Last(x) \in Legs /\ Last(x)[1] = x
  BY LegIs DEF Owner
<1> QED BY <1>1 DEF SendLines

\* A connection that is told a line after its record was opened.
LEMMA GrowsFrom ==
    ASSUME TypesOK, NEW x \in Clients, NEW p \in ConnType, NEW line \in Told,
           p.sess.up, conns[x].sess.up, p.st = conns[x].st, p.hs = conns[x].hs,
           conns'[x] = AfterLine(p), down'[Last(x)] = down[Last(x)] \o Queued(p, line)
    PROVE  Grows(x, p.sess, line) /\ conns'[x].user = p.user
<1>1. /\ AfterLine(p) \in ConnType
      /\ AfterLine(p).st = p.st /\ AfterLine(p).hs = p.hs /\ AfterLine(p).user = p.user
      /\ AfterLine(p).sess = Counted(p.sess)
      /\ Queued(p, line) = <<Sealed(p.sess, line)>>
  BY AfterLineIs
<1>2. down[Last(x)] \in Seq(DownRecord)
  BY LegIs, EndTypes
<1>3. PICK r : r = Sealed(p.sess, line)
  OBVIOUS
<1>4. r \in DownRecord
  <2>1. p.sess \in SessionType
    BY DEF ConnType
  <2> QED BY <1>3, <2>1, SealedTyped DEF DownRecord
<1>5. down'[Last(x)] = Append(down[Last(x)], r)
  BY <1>1, <1>2, <1>3, <1>4, OneMore
<1> QED BY <1>1, <1>3, <1>5 DEF Grows

\* The same, when the connection is to be closed.
LEMMA GrowsFromClosing ==
    ASSUME TypesOK, NEW x \in Clients, NEW p \in ConnType, NEW line \in Told,
           p.sess.up, conns[x].sess.up, p.st = conns[x].st, p.hs = conns[x].hs,
           conns'[x] = [AfterLine(p) EXCEPT !.want = TRUE],
           down'[Last(x)] = down[Last(x)] \o Queued(p, line)
    PROVE  Grows(x, p.sess, line) /\ conns'[x].user = p.user
<1>1. PICK q : q = AfterLine(p)
  OBVIOUS
<1>2. /\ q \in ConnType /\ q.st = p.st /\ q.hs = p.hs /\ q.user = p.user
      /\ q.sess = Counted(p.sess) /\ Queued(p, line) = <<Sealed(p.sess, line)>>
  BY <1>1, AfterLineIs
<1>3. q.sess \in SessionType /\ q.user \in Names \cup {NoName}
  BY <1>2 DEF ConnType
<1>4. PICK z : z = [q EXCEPT !.want = TRUE]
  OBVIOUS
<1>5. z \in ConnType /\ z.st = q.st /\ z.hs = q.hs /\ z.user = q.user /\ z.sess = q.sess
  BY <1>2, <1>3, <1>4, ConnChanges
<1>6. down[Last(x)] \in Seq(DownRecord)
  BY LegIs, EndTypes
<1>7. PICK r : r = Sealed(p.sess, line)
  OBVIOUS
<1>8. r \in DownRecord
  <2>1. p.sess \in SessionType
    BY DEF ConnType
  <2> QED BY <1>7, <2>1, SealedTyped DEF DownRecord
<1>9. down'[Last(x)] = Append(down[Last(x)], r)
  BY <1>2, <1>6, <1>7, <1>8, OneMore
<1> QED BY <1>1, <1>2, <1>4, <1>5, <1>7, <1>9 DEF Grows

\* A connection that nothing is done to.
LEMMA SameIsKept ==
    ASSUME TypesOK, NEW x \in Clients, conns'[x] = conns[x], down'[Last(x)] = down[Last(x)]
    PROVE  Kept(x, conns[x].sess)
BY DEF TypesOK, Kept, SameUser

\* An error or a list of users goes to the one who asked.
LEMMA ReplyIs ==
    ASSUME TypesOK, NEW c \in Clients, conns[c].sess.up,
           NEW verb \in {"ERR", "USERS"}, NEW st,
           st = [Now EXCEPT !.conns[c].sess = Opened(@)],
           \/ Becomes(SendLine(st, c, Line(verb, NoName, 0)))
           \/ Becomes(Closing(SendLine(st, c, Line(verb, NoName, 0)), c)),
           byName' = byName
    PROVE  Reply(c)
<1>1. PICK line : line = Line(verb, NoName, 0)
  OBVIOUS
<1>2. line \in Told
  <2>1. 0 \in 0 .. MaxLines
    BY SealedChatAssumption
  <2> QED BY <1>1, <2>1, RelayLines
<1>3. PICK p : p = st.conns[c]
  OBVIOUS
<1>4. /\ p \in ConnType /\ p.st = conns[c].st /\ p.hs = conns[c].hs
      /\ p.user = conns[c].user /\ p.sess = Base(c, c) /\ p.sess.up /\ st.down = down
      /\ \A x \in Clients \ {c} : st.conns[x] = conns[x]
  BY <1>3, OpenedState
<1>5. PICK s : s = SendLines(st, {c}, line)
  OBVIOUS
<1>6. /\ s.conns[c] = AfterLine(p) /\ s.down[Last(c)] = down[Last(c)] \o Queued(p, line)
      /\ \A x \in Clients \ {c} : s.conns[x] = conns[x] /\ s.down[Last(x)] = down[Last(x)]
      /\ DOMAIN s.conns = Clients
  <2>1. DOMAIN s.conns = Clients
    BY <1>5 DEF SendLines
  <2>2. \A x \in Clients :
          /\ s.conns[x] = IF x \in {c} THEN AfterLine(st.conns[x]) ELSE st.conns[x]
          /\ s.down[Last(x)] = IF x \in {c}
                               THEN st.down[Last(x)] \o Queued(st.conns[x], line)
                               ELSE st.down[Last(x)]
    BY ONLY <1>5, SendsIs
  <2>3. s.conns[c] = AfterLine(p) /\ s.down[Last(c)] = down[Last(c)] \o Queued(p, line)
    BY <1>3, <1>4, <2>2
  <2>4. \A x \in Clients \ {c} : s.conns[x] = conns[x] /\ s.down[Last(x)] = down[Last(x)]
    BY <1>4, <2>2
  <2> QED BY <2>1, <2>3, <2>4
<1>7. CASE Becomes(SendLine(st, c, Line(verb, NoName, 0)))
  <2>1. conns' = s.conns /\ down' = s.down
    BY <1>1, <1>5, <1>7 DEF Becomes, SendLine
  <2>2. Grows(c, p.sess, line) /\ conns'[c].user = p.user
    BY <1>2, <1>4, <1>6, <2>1, GrowsFrom
  <2>3. \A x \in Clients \ {c} : Kept(x, conns[x].sess)
    BY <1>6, <2>1, SameIsKept
  <2> QED BY <1>1, <1>4, <2>2, <2>3 DEF Reply, SameUser
<1>8. CASE Becomes(Closing(SendLine(st, c, Line(verb, NoName, 0)), c))
  <2>1. conns' = [s.conns EXCEPT ![c].want = TRUE] /\ down' = s.down
    <3>1. s = [conns |-> s.conns, down |-> s.down]
      BY <1>5 DEF SendLines
    <3> QED BY <1>1, <1>5, <1>8, <3>1 DEF Becomes, SendLine, Closing
  <2>2. conns'[c] = [AfterLine(p) EXCEPT !.want = TRUE]
        /\ \A x \in Clients \ {c} : conns'[x] = conns[x]
    BY <1>6, <2>1
  <2>3. Grows(c, p.sess, line) /\ conns'[c].user = p.user
    BY <1>2, <1>4, <1>6, <2>1, <2>2, GrowsFromClosing
  <2>4. \A x \in Clients \ {c} : Kept(x, conns[x].sess)
    BY <1>6, <2>1, <2>2, SameIsKept
  <2> QED BY <1>1, <1>4, <2>3, <2>4 DEF Reply, SameUser
<1> QED BY <1>7, <1>8

\* A roster that is too long is counted and not sent.
LEMMA SkipIs ==
    ASSUME TypesOK, NEW c \in Clients, conns[c].sess.up, conns[c].st # "none", NEW st,
           st = [Now EXCEPT !.conns[c].sess = Opened(@)],
           Becomes([st EXCEPT !.conns[c].sess = Skipped(@)]), byName' = byName
    PROVE  Wants(c)
<1>1. PICK p : p = st.conns[c]
  OBVIOUS
<1>2. /\ p \in ConnType /\ p.st = conns[c].st /\ p.hs = conns[c].hs
      /\ p.user = conns[c].user /\ p.sess = Base(c, c) /\ p.sess.up /\ st.down = down
      /\ st.conns \in [Clients -> ConnType]
      /\ \A x \in Clients \ {c} : st.conns[x] = conns[x]
  BY <1>1, OpenedState
<1>3. conns' = [st.conns EXCEPT ![c].sess = Skipped(@)] /\ down' = st.down
  <2>1. st = [conns |-> st.conns, down |-> st.down]
    BY DEF Now
  <2> QED BY <2>1 DEF Becomes
<1>4. PICK s : s = Skipped(p.sess)
  OBVIOUS
<1>5. s \in SessionType /\ p.user \in Names \cup {NoName}
  BY <1>2, <1>4, Sessions DEF ConnType
<1>6. PICK z : z = [p EXCEPT !.sess = s]
  OBVIOUS
<1>7. conns'[c] = z /\ \A x \in Clients \ {c} : conns'[x] = conns[x]
  BY <1>1, <1>2, <1>3, <1>4, <1>6
<1>8. z \in ConnType /\ z.st = p.st /\ z.hs = p.hs /\ z.user = p.user /\ z.sess = s
  BY <1>2, <1>5, <1>6, ConnChanges, ZenonT(30)
<1>9. Kept(c, Base(c, c))
  BY <1>2, <1>3, <1>4, <1>7, <1>8 DEF Kept, SameUser
<1>10. \A x \in Clients \ {c} : Kept(x, conns[x].sess)
  BY <1>2, <1>3, <1>7, SameIsKept
<1> QED BY <1>9, <1>10 DEF Wants, Base

\* A QUIT is nothing but a wish.
LEMMA WantsIs ==
    ASSUME TypesOK, NEW c \in Clients, conns[c].sess.up, conns[c].st # "none", NEW st,
           st = [Now EXCEPT !.conns[c].sess = Opened(@)],
           Becomes(Closing(st, c)), byName' = byName
    PROVE  Wants(c)
<1>1. PICK p : p = st.conns[c]
  OBVIOUS
<1>2. /\ p \in ConnType /\ p.st = conns[c].st /\ p.hs = conns[c].hs
      /\ p.user = conns[c].user /\ p.sess = Base(c, c) /\ st.down = down
      /\ st.conns \in [Clients -> ConnType]
      /\ \A x \in Clients \ {c} : st.conns[x] = conns[x]
  BY <1>1, OpenedState
<1>3. conns' = [st.conns EXCEPT ![c].want = TRUE] /\ down' = st.down
  <2>1. st = [conns |-> st.conns, down |-> st.down]
    BY DEF Now
  <2> QED BY <2>1 DEF Becomes, Closing
<1>4. conns'[c] = [p EXCEPT !.want = TRUE] /\ \A x \in Clients \ {c} : conns'[x] = conns[x]
  BY <1>1, <1>2, <1>3
<1>5. p.sess \in SessionType /\ p.user \in Names \cup {NoName}
  BY <1>2 DEF ConnType
<1>6. PICK z : z = [p EXCEPT !.want = TRUE]
  OBVIOUS
<1>7. z \in ConnType /\ z.st = p.st /\ z.hs = p.hs /\ z.user = p.user /\ z.sess = p.sess
  BY <1>2, <1>5, <1>6, ConnChanges
<1>8. Kept(c, Base(c, c))
  BY <1>2, <1>3, <1>4, <1>6, <1>7 DEF Kept, SameUser
<1>9. \A x \in Clients \ {c} : Kept(x, conns[x].sess)
  BY <1>2, <1>3, <1>4, SameIsKept
<1> QED BY <1>8, <1>9 DEF Wants, Base

\* A line that names somebody online goes there.
LEMMA PostIs ==
    ASSUME TypesOK, NEW c \in Clients, conns[c].sess.up, conns[c].st # "none", Registered(c),
           NEW to \in Names, NEW m \in 1 .. MaxLines, NEW st,
           st = [Now EXCEPT !.conns[c].sess = Opened(@)],
           byName[to] \in Clients, conns[byName[to]].sess.up,
           Becomes(SendLine(st, byName[to], Line("FROM", conns[c].user, m))),
           byName' = byName
    PROVE  Post(c, to, m)
<1>1. PICK line, g : line = Line("FROM", conns[c].user, m) /\ g = byName[to]
  OBVIOUS
<1>2. line \in Told
  <2>1. m \in 0 .. MaxLines
    BY SealedChatAssumption
  <2>2. conns[c].user \in Names \cup {NoName}
    BY DEF TypesOK, ConnType
  <2> QED BY <1>1, <2>1, <2>2, RelayLines
<1>3. PICK p : p = st.conns[c]
  OBVIOUS
<1>4. /\ p \in ConnType /\ p.st = conns[c].st /\ p.hs = conns[c].hs
      /\ p.user = conns[c].user /\ p.sess = Base(c, c) /\ p.sess.up /\ st.down = down
      /\ \A x \in Clients \ {c} : st.conns[x] = conns[x]
  BY <1>3, OpenedState
<1>5. PICK s : s = SendLines(st, {g}, line)
  OBVIOUS
<1>6. g \in Clients /\ conns' = s.conns /\ down' = s.down
  BY <1>1, <1>5 DEF Becomes, SendLine
<1>7. \A x \in Clients :
        /\ conns'[x] = IF x \in {g} THEN AfterLine(st.conns[x]) ELSE st.conns[x]
        /\ down'[Last(x)] = IF x \in {g} THEN down[Last(x)] \o Queued(st.conns[x], line)
                                         ELSE down[Last(x)]
  <2>1. \A x \in Clients :
          /\ s.conns[x] = IF x \in {g} THEN AfterLine(st.conns[x]) ELSE st.conns[x]
          /\ s.down[Last(x)] = IF x \in {g} THEN st.down[Last(x)] \o Queued(st.conns[x], line)
                                            ELSE st.down[Last(x)]
    BY ONLY <1>5, SendsIs
  <2> QED BY <1>4, <1>6, <2>1
<1>8. PICK q : q = st.conns[g]
  OBVIOUS
<1>9. /\ q \in ConnType /\ q.sess = Base(g, c) /\ q.sess.up /\ q.st = conns[g].st
      /\ q.hs = conns[g].hs /\ q.user = conns[g].user
  <2>1. CASE g = c
    BY <1>3, <1>4, <1>8, <2>1
  <2>2. CASE g # c
    BY <1>1, <1>4, <1>6, <1>8, <2>2 DEF TypesOK, Base
  <2> QED BY <2>1, <2>2
<1>10. Grows(g, q.sess, line) /\ SameUser(g)
  <2>1. conns'[g] = AfterLine(q) /\ down'[Last(g)] = down[Last(g)] \o Queued(q, line)
    BY <1>6, <1>7, <1>8
  <2>2. conns[g].sess.up
    BY <1>1
  <2> QED BY <1>2, <1>6, <1>9, <2>1, <2>2, GrowsFrom DEF SameUser
<1>11. ASSUME NEW x \in Clients \ {g} PROVE Kept(x, Base(x, c))
  <2>1. conns'[x] = st.conns[x] /\ down'[Last(x)] = down[Last(x)]
    BY <1>7
  <2>2. CASE x = c
    BY <1>3, <1>4, <2>1, <2>2 DEF Kept, SameUser
  <2>3. CASE x # c
    BY <1>4, <2>1, <2>3, SameIsKept DEF Base
  <2> QED BY <2>2, <2>3
<1>12. g # NoClient
  BY <1>6, SealedChatAssumption
<1> QED BY <1>1, <1>9, <1>10, <1>11, <1>12 DEF Post

\* A LOGIN that finds its name free.
LEMMA JoinIs ==
    ASSUME TypesOK, NEW c \in Clients, conns[c].sess.up, conns[c].st # "none", ~Registered(c),
           \A x \in Clients : Registered(x) => conns[x].sess.up,
           NEW n \in Names, byName[n] = NoClient, NEW st,
           st = [Now EXCEPT !.conns[c].sess = Opened(@)],
           Becomes(Broadcast(SendLine([st EXCEPT !.conns[c].user = n], c, Line("OK", n, 0)),
                             Line("joined", n, 0), c)),
           byName' = [byName EXCEPT ![n] = c]
    PROVE  Join(c, n)
<1>1. PICK ok, joined : ok = Line("OK", n, 0) /\ joined = Line("joined", n, 0)
  OBVIOUS
<1>2. ok \in Told /\ joined \in Told
  <2>1. 0 \in 0 .. MaxLines
    BY SealedChatAssumption
  <2> QED BY <1>1, <2>1, RelayLines
<1>3. PICK p : p = st.conns[c]
  OBVIOUS
<1>4. /\ p \in ConnType /\ p.st = conns[c].st /\ p.hs = conns[c].hs
      /\ p.user = conns[c].user /\ p.sess = Base(c, c) /\ p.sess.up /\ st.down = down
      /\ st.conns \in [Clients -> ConnType]
      /\ \A x \in Clients \ {c} : st.conns[x] = conns[x]
  BY <1>3, OpenedState
<1>5. PICK q : q = [p EXCEPT !.user = n]
  OBVIOUS
<1>6. q \in ConnType /\ q.st = p.st /\ q.hs = p.hs /\ q.user = n /\ q.sess = p.sess
  <2>1. n \in Names \cup {NoName}
    OBVIOUS
  <2> QED BY <1>4, <1>5, <2>1 DEF ConnType
<1>7. PICK named : named = [st EXCEPT !.conns[c].user = n]
  OBVIOUS
<1>8. /\ named.conns[c] = q /\ named.down = down
      /\ \A x \in Clients \ {c} : named.conns[x] = conns[x]
  <2>1. st = [conns |-> st.conns, down |-> st.down]
    BY DEF Now
  <2>2. named.conns = [st.conns EXCEPT ![c].user = n] /\ named.down = st.down
    BY <1>7, <2>1
  <2> QED BY <1>3, <1>4, <1>5, <2>2
<1>9. PICK s : s = SendLines(named, {c}, ok)
  OBVIOUS
<1>10. \A x \in Clients :
        /\ s.conns[x] = IF x \in {c} THEN AfterLine(named.conns[x]) ELSE named.conns[x]
        /\ s.down[Last(x)] = IF x \in {c} THEN named.down[Last(x)] \o Queued(named.conns[x],
           ok)
                                          ELSE named.down[Last(x)]
  BY <1>9, SendsIs
<1>11. PICK whom : whom = {x \in Clients \ {c} : Registered(x)}
  OBVIOUS
<1>12. PICK t : t = SendLines(s, whom, joined)
  OBVIOUS
<1>13. conns' = t.conns /\ down' = t.down
  BY <1>1, <1>7, <1>9, <1>11, <1>12 DEF Becomes, Broadcast, SendLine
<1>14. \A x \in Clients :
        /\ conns'[x] = IF x \in whom THEN AfterLine(s.conns[x]) ELSE s.conns[x]
        /\ down'[Last(x)] = IF x \in whom THEN s.down[Last(x)] \o Queued(s.conns[x], joined)
                                          ELSE s.down[Last(x)]
  BY <1>12, <1>13, SendsIs
<1>15. conns'[c] = AfterLine(q) /\ down'[Last(c)] = down[Last(c)] \o Queued(q, ok)
  <2>1. c \notin whom
    BY <1>11
  <2> QED BY <1>8, <1>10, <1>14, <2>1
<1>16. Grows(c, q.sess, ok) /\ conns'[c].user = n
  BY <1>2, <1>4, <1>6, <1>15, GrowsFrom
<1>17. ASSUME NEW x \in Clients \ {c}
       PROVE  IF Registered(x) THEN SameUser(x) /\ Grows(x, conns[x].sess, joined)
                               ELSE Kept(x, conns[x].sess)
  <2>0. s.conns[x] = conns[x] /\ s.down[Last(x)] = down[Last(x)]
    BY <1>8, <1>10
  <2>1. CASE Registered(x)
    <3>1. x \in whom
      BY <1>11, <2>1
    <3>2. conns'[x] = AfterLine(conns[x])
          /\ down'[Last(x)] = down[Last(x)] \o Queued(conns[x], joined)
      BY <1>14, <2>0, <3>1
    <3>3. conns[x] \in ConnType /\ conns[x].sess.up
      BY <2>1 DEF TypesOK
    <3>4. SameUser(x) /\ Grows(x, conns[x].sess, joined)
      BY <1>2, <3>2, <3>3, GrowsFrom DEF SameUser
    <3> QED BY <2>1, <3>4
  <2>2. CASE ~Registered(x)
    <3>1. x \notin whom
      BY <1>11, <2>2
    <3>2. conns'[x] = conns[x] /\ down'[Last(x)] = down[Last(x)]
      BY <1>14, <2>0, <3>1
    <3> QED BY <2>2, <3>2, SameIsKept
  <2> QED BY <2>1, <2>2
<1> QED BY <1>1, <1>4, <1>6, <1>16, <1>17 DEF Join

\* Whatever is sent, connections and queues stay functions.
LEMMA SendsShape ==
    ASSUME NEW st, NEW whom, NEW line, NEW s, s = SendLines(st, whom, line)
    PROVE  /\ s = [conns |-> s.conns, down |-> s.down]
           /\ s.conns = [x \in Clients |-> s.conns[x]]
           /\ s.down = [l \in Legs |-> s.down[l]]
           /\ \A l \in Legs : ~AtRelay(l) => s.down[l] = st.down[l]
<1>1. /\ s = [conns |-> s.conns, down |-> s.down]
      /\ s.conns = [x \in Clients |-> s.conns[x]]
      /\ s.down = [l \in Legs |-> s.down[l]]
  BY DEF SendLines
<1>2. ASSUME NEW l \in Legs, ~AtRelay(l) PROVE s.down[l] = st.down[l]
  <2>1. l # Last(l[1])
    BY <1>2 DEF AtRelay, Owner
  <2> QED BY <2>1 DEF SendLines
<1> QED BY <1>1, <1>2

\* Becoming a state of that shape, and closing a connection as well.
LEMMA BecomesShape ==
    ASSUME NEW s, NEW c \in Clients, s = [conns |-> s.conns, down |-> s.down],
           s.conns = [x \in Clients |-> s.conns[x]], s.down = [l \in Legs |-> s.down[l]],
           \A l \in Legs : ~AtRelay(l) => s.down[l] = down[l],
           Becomes(s) \/ Becomes(Closing(s, c))
    PROVE  Shape
<1>1. CASE Becomes(s)
  BY <1>1 DEF Becomes, Shape
<1>2. CASE Becomes(Closing(s, c))
  <2>1. conns' = [s.conns EXCEPT ![c].want = TRUE] /\ down' = s.down
    BY <1>2 DEF Closing, Becomes
  <2> QED BY <2>1 DEF Shape
<1> QED BY <1>1, <1>2

\* A line to one, after which a connection may be to be closed.
LEMMA OneShape ==
    ASSUME NEW st, \A l \in Legs : ~AtRelay(l) => st.down[l] = down[l],
           NEW c \in Clients, NEW x, NEW t,
           Becomes(SendLine(st, x, t)) \/ Becomes(Closing(SendLine(st, x, t), c))
    PROVE  Shape
<1>1. PICK s : s = SendLines(st, {x}, t)
  OBVIOUS
<1>2. Becomes(s) \/ Becomes(Closing(s, c))
  BY <1>1 DEF SendLine
<1>3. /\ s = [conns |-> s.conns, down |-> s.down]
      /\ s.conns = [z \in Clients |-> s.conns[z]]
      /\ s.down = [l \in Legs |-> s.down[l]]
      /\ \A l \in Legs : ~AtRelay(l) => s.down[l] = st.down[l]
  BY ONLY <1>1, SendsShape, SMTT(30)
<1>4. \A l \in Legs : ~AtRelay(l) => s.down[l] = down[l]
  BY <1>3
<1> QED BY <1>2, <1>3, <1>4, BecomesShape

\* A line to one, then another to some.
LEMMA TwoShape ==
    ASSUME NEW st, \A l \in Legs : ~AtRelay(l) => st.down[l] = down[l],
           NEW c, c \in Clients, NEW t, NEW whom, NEW j,
           Becomes(SendLines(SendLine(st, c, t), whom, j))
    PROVE  Shape
<1>0. PICK who : who = {c}
  OBVIOUS
<1>1. PICK s : s = SendLines(st, who, t)
  OBVIOUS
<1>2. /\ s = [conns |-> s.conns, down |-> s.down]
      /\ s.conns = [z \in Clients |-> s.conns[z]]
      /\ s.down = [l \in Legs |-> s.down[l]]
      /\ \A l \in Legs : ~AtRelay(l) => s.down[l] = st.down[l]
  BY ONLY <1>1, SendsShape
<1>3. PICK u : u = SendLines(s, whom, j)
  OBVIOUS
<1>4. Becomes(u)
  BY <1>0, <1>1, <1>3 DEF SendLine
<1>5. /\ u = [conns |-> u.conns, down |-> u.down]
      /\ u.conns = [z \in Clients |-> u.conns[z]]
      /\ u.down = [l \in Legs |-> u.down[l]]
      /\ \A l \in Legs : ~AtRelay(l) => u.down[l] = s.down[l]
  BY ONLY <1>3, SendsShape
<1>6. \A l \in Legs : ~AtRelay(l) => u.down[l] = down[l]
  BY <1>2, <1>5
<1> QED BY <1>4, <1>5, <1>6, BecomesShape

\* What a line does.
LEMMA HandleLineEffect ==
    ASSUME TypesOK, NamesInverse, \A x \in Clients : Registered(x) => conns[x].sess.up,
           NEW c \in Clients, conns[c].sess.up, conns[c].st # "none",
           NEW line \in Asked, NEW st, st = [Now EXCEPT !.conns[c].sess = Opened(@)],
           HandleLine(st, c, line)
    PROVE  LineEffect(c, line) /\ Shape
<1>1. byName \in [Names -> Clients \cup {NoClient}]
  BY DEF TypesOK
<1>2. st.conns \in [Clients -> ConnType] /\ st.down = down
      /\ st = [conns |-> st.conns, down |-> st.down]
  <2>1. st = [conns |-> st.conns, down |-> st.down]
    BY DEF Now
  <2> QED BY <2>1, OpenedState
<1>3. down = [l \in Legs |-> down[l]]
  BY DEF TypesOK
<1>4. \A x, t : Becomes(SendLine(st, x, t)) \/ Becomes(Closing(SendLine(st, x, t), c))
        => Shape
  <2>1. \A l \in Legs : ~AtRelay(l) => st.down[l] = down[l]
    BY <1>2
  <2> QED BY <2>1, OneShape
<1>5. CASE /\ ~Registered(c) /\ line.verb # "LOGIN"
           /\ Becomes(Closing(SendLine(st, c, Err), c)) /\ UNCHANGED byName
  <2>1. Reply(c)
    <3>1. Becomes(Closing(SendLine(st, c, Line("ERR", NoName, 0)), c))
      BY <1>5 DEF Err
    <3>2. "ERR" \in {"ERR", "USERS"} /\ byName' = byName
      BY <1>5
    <3> QED BY <3>1, <3>2, ReplyIs
  <2> QED BY <1>4, <1>5, <2>1 DEF LineEffect
<1>6. CASE line.verb = "LOGIN" /\ HandleLogin(st, c, line.name)
  <2>1. line.name \in Names
    BY <1>6 DEF Asked
  <2>2. CASE Registered(c) /\ Becomes(SendLine(st, c, Err)) /\ UNCHANGED byName
    <3>1. Becomes(SendLine(st, c, Line("ERR", NoName, 0)))
      BY <2>2 DEF Err
    <3>2. "ERR" \in {"ERR", "USERS"} /\ byName' = byName
      BY <2>2
    <3>3. Reply(c)
      BY <3>1, <3>2, ReplyIs
    <3> QED BY <1>4, <2>2, <3>3 DEF LineEffect
  <2>3. CASE Becomes(Closing(SendLine(st, c, Err), c)) /\ UNCHANGED byName
    <3>1. Becomes(Closing(SendLine(st, c, Line("ERR", NoName, 0)), c))
      BY <2>3 DEF Err
    <3>2. "ERR" \in {"ERR", "USERS"} /\ byName' = byName
      BY <2>3
    <3>3. Reply(c)
      BY <3>1, <3>2, ReplyIs
    <3> QED BY <1>4, <2>3, <3>3 DEF LineEffect
  <2>4. CASE /\ ~Registered(c) /\ byName[line.name] = NoClient
             /\ byName' = [byName EXCEPT ![line.name] = c]
             /\ Becomes(Broadcast(SendLine([st EXCEPT !.conns[c].user = line.name], c,
                                           Line("OK", line.name, 0)),
                                  Line("joined", line.name, 0), c))
    <3>1. PICK n \in Names : n = line.name
      BY <2>1
    <3>2. Join(c, n)
      BY <2>4, <3>1, JoinIs
    <3>3. Shape
      <4>1. PICK named : named = [st EXCEPT !.conns[c].user = n]
        OBVIOUS
      <4>2. named.down = down
        BY <1>2, <4>1
      <4>3. Becomes(SendLines(SendLine(named, c, Line("OK", n, 0)),
                              {x \in Clients \ {c} : Registered(x)}, Line("joined", n, 0)))
        BY <2>4, <3>1, <4>1 DEF Broadcast
      <4> QED BY <4>2, <4>3, TwoShape
    <3> QED BY <1>6, <2>1, <3>1, <3>2, <3>3 DEF LineEffect
  <2> QED BY <1>6, <2>2, <2>3, <2>4 DEF HandleLogin
<1>7. CASE Registered(c) /\ line.verb = "MSG" /\ HandleMsg(st, c, line.name, line.msg)
  <2>1. line.msg \in 1 .. MaxLines /\ byName' = byName
    BY <1>7 DEF Asked, HandleMsg
  <2>2. CASE line.name \in Names /\ byName[line.name] # NoClient
    <3>1. PICK to \in Names, m \in 1 .. MaxLines : to = line.name /\ m = line.msg
      BY <2>1, <2>2
    <3>2. Becomes(SendLine(st, byName[to], Line("FROM", conns[c].user, m)))
      BY <1>7, <2>2, <3>1 DEF HandleMsg
    <3>3. byName[to] \in Clients
      BY <1>1, <2>2, <3>1
    <3>4. conns[byName[to]].sess.up
      <4>1. conns[byName[to]].user = to
        BY <2>2, <3>1 DEF NamesInverse
      <4>2. to # NoName
        BY SealedChatAssumption
      <4> QED BY <3>3, <4>1, <4>2 DEF Registered
    <3>5. Post(c, to, m)
      BY <1>7, <2>1, <3>2, <3>3, <3>4, PostIs
    <3>6. Shape
      BY <1>4, <3>2, <3>3
    <3> QED BY <1>7, <2>2, <3>1, <3>5, <3>6 DEF LineEffect
  <2>3. CASE ~(line.name \in Names /\ byName[line.name] # NoClient)
    <3>1. Becomes(SendLine(st, c, Line("ERR", NoName, 0)))
      BY <1>7, <2>3 DEF HandleMsg, Err
    <3>2. "ERR" \in {"ERR", "USERS"}
      OBVIOUS
    <3>3. Reply(c)
      BY <2>1, <3>1, <3>2, ReplyIs
    <3> QED BY <1>4, <3>1, <3>3 DEF LineEffect
  <2> QED BY <2>2, <2>3
<1>8. CASE Registered(c) /\ line.verb = "WHO" /\ HandleWho(st, c)
  <2>1. byName' = byName /\ Becomes(SendUsers(st, c))
    BY <1>8 DEF HandleWho
  <2>2. CASE SendUsers(st, c) = SendLine(st, c, Line("USERS", NoName, 0))
    <3>1. Becomes(SendLine(st, c, Line("USERS", NoName, 0)))
      BY <2>1, <2>2
    <3>2. "USERS" \in {"ERR", "USERS"}
      OBVIOUS
    <3>3. Reply(c)
      BY <2>1, <3>1, <3>2, ReplyIs
    <3> QED BY <1>4, <3>1, <3>3 DEF LineEffect
  <2>3. CASE SendUsers(st, c) = [st EXCEPT !.conns[c].sess = Skipped(@)]
    <3>1. Becomes([st EXCEPT !.conns[c].sess = Skipped(@)])
      BY <2>1, <2>3
    <3>2. Wants(c)
      BY <2>1, <3>1, SkipIs
    <3>3. conns' = [st.conns EXCEPT ![c].sess = Skipped(@)] /\ down' = down
      BY <1>2, <3>1 DEF Becomes
    <3>4. Shape
      BY <1>2, <1>3, <3>3 DEF Shape
    <3> QED BY <3>2, <3>4 DEF LineEffect
  <2> QED BY <2>2, <2>3 DEF SendUsers
<1>9. CASE Becomes(Closing(st, c)) /\ UNCHANGED byName
  <2>1. Wants(c)
    BY <1>9, WantsIs
  <2>2. conns' = [st.conns EXCEPT ![c].want = TRUE] /\ down' = down
    BY <1>2, <1>9 DEF Becomes, Closing
  <2>3. Shape
    BY <1>2, <1>3, <2>2 DEF Shape
  <2> QED BY <2>1, <2>3 DEF LineEffect
<1> QED BY <1>5, <1>6, <1>7, <1>8, <1>9 DEF HandleLine

-----------------------------------------------------------------------------
(* Legs, while somebody takes a step.                                      *)

\* What the invariant says of a leg, part by part.
LEMMA LegOKIs ==
    ASSUME NEW l
    PROVE  LegOK(l) <=>
             /\ DownFits(l, down[l], Held(l), Acceptor(l), Runs(l), Dialler(l))
             /\ UpFits(l, up[l], Hears(l), Acceptor(l), Runs(l), Dialler(l), Strange(l))
             /\ DownVals(l, down[l]) /\ UpVals(l, up[l])
             /\ KeysFit(l, Acceptor(l), AcceptorStep(l), Dialler(l))
BY DEF LegOK, DownOK, UpOK, ValsOK, KeysOK

\* A leg with nothing new on it, whose ends are as they were or gone.
LEMMA LegLess ==
    ASSUME NEW l, LegOK(l), up'[l] = up[l], down'[l] = down[l],
           Held(l)' => Held(l) /\ Acceptor(l)' = Acceptor(l),
           Hears(l)' => Hears(l) /\ Acceptor(l)' = Acceptor(l),
           Runs(l)' => Runs(l) /\ Dialler(l)' = Dialler(l), Strange(l)' => Strange(l),
           Acceptor(l)' \in {Acceptor(l), NoSession}, Dialler(l)' \in {Dialler(l), NoSession},
           AcceptorStep(l)' \in {AcceptorStep(l), NewHandshake}
    PROVE  LegOK(l)'
<1>0. /\ DownFits(l, down[l], Held(l), Acceptor(l), Runs(l), Dialler(l))
      /\ UpFits(l, up[l], Hears(l), Acceptor(l), Runs(l), Dialler(l), Strange(l))
      /\ DownVals(l, down[l]) /\ UpVals(l, up[l])
      /\ KeysFit(l, Acceptor(l), AcceptorStep(l), Dialler(l))
  BY LegOKIs
<1>1. DownFits(l, down[l], Held(l)', Acceptor(l)', Runs(l)', Dialler(l)')
  BY <1>0, DownLess
<1>2. UpFits(l, up[l], Hears(l)', Acceptor(l)', Runs(l)', Dialler(l)', Strange(l)')
  BY <1>0, UpLess
<1>3. KeysFit(l, Acceptor(l)', AcceptorStep(l)', Dialler(l)')
  BY <1>0, ConnTypes DEF KeysFit
<1> QED BY <1>0, <1>1, <1>2, <1>3 DEF LegOK, DownOK, UpOK, ValsOK, KeysOK

\* A leg that a step has nothing to do with.
LEMMA LegSame ==
    ASSUME NEW l \in Legs, LegOK(l), up'[l] = up[l], down'[l] = down[l], ends'[l] = ends[l],
           clients'[Owner(l)] = clients[Owner(l)], conns'[Owner(l)] = conns[Owner(l)],
           proxy' = proxy
    PROVE  LegOK(l)'
<1>1. /\ Held(l)' = Held(l) /\ Hears(l)' = Hears(l) /\ Acceptor(l)' = Acceptor(l)
      /\ AcceptorStep(l)' = AcceptorStep(l) /\ Runs(l)' = Runs(l) /\ Dialler(l)' = Dialler(l)
      /\ Strange(l)' = Strange(l)
  BY DEF Held, Hears, Altered, Acceptor, AcceptorStep, Runs, Dialler, Strange, Victim, AtRelay,
         IsNear, Owner
<1> QED BY <1>1, LegLess

\* The relay's connections stay as they are but for what they are told: the leg of one of
\* them, whose record may have been taken.
LEMMA LegSent ==
    ASSUME TypesOK, NEW x \in Clients, NEW l, l = Last(x), LegOK(l),
           NEW s \in SessionType, s.up = conns[x].sess.up, s.keys = conns[x].sess.keys,
           s.role = conns[x].sess.role, s.tx = conns[x].sess.tx,
           s.skipped = conns[x].sess.skipped, conns[x].sess = NoSession => s = NoSession,
           UpFits(l, up'[l], Hears(l), s, Runs(l), Dialler(l), Strange(l)),
           UpVals(l, up'[l]), "acceptor" \in ends[l],
           Kept(x, s) \/ \E line : Grows(x, s, line),
           ends'[l] = ends[l], clients' = clients, proxy' = proxy
    PROVE  LegOK(l)' /\ down'[l] \in Seq(DownRecord) /\ conns'[x] \in ConnType
<1>1. l \in Legs /\ down[l] \in Seq(DownRecord)
  BY LegIs, EndTypes
<1>2. /\ DownFits(l, down[l], Held(l), conns[x].sess, Runs(l), Dialler(l))
      /\ DownVals(l, down[l]) /\ KeysFit(l, conns[x].sess, AcceptorStep(l), Dialler(l))
  BY LegOKIs, EndsAre
<1>3. Held(l)
  BY EndsAre
<1>4. /\ Held(l)' = Held(l) /\ Runs(l)' = Runs(l) /\ Dialler(l)' = Dialler(l)
      /\ Strange(l)' = Strange(l)
  BY DEF Held, Runs, Dialler, Strange, Victim
<1>5. /\ conns'[x] \in ConnType /\ conns'[x].st = conns[x].st /\ conns'[x].hs = conns[x].hs
      /\ conns'[x].sess = s \/ (s.up /\ conns'[x].sess \in {Counted(s), Skipped(s)})
  BY DEF Kept, Grows
<1>6. /\ conns'[x].sess.rx = s.rx /\ conns'[x].sess.up = s.up /\ conns'[x].sess.keys = s.keys
      /\ conns'[x].sess.role = s.role
  BY <1>5, Sessions
<1>7. /\ Acceptor(l)' = conns'[x].sess /\ AcceptorStep(l)' = AcceptorStep(l)
  BY <1>5, LegIs DEF Acceptor, AcceptorStep
<1>8. Hears(l)' = Hears(l)
  BY <1>4, <1>5, <1>6, LegIs DEF Hears, Altered
<1>9. UpFits(l, up'[l], Hears(l), conns'[x].sess, Runs(l), Dialler(l), Strange(l))
  BY <1>6, UpLess
<1>10. KeysFit(l, conns'[x].sess, AcceptorStep(l), Dialler(l))
  <2>1. conns[x].sess = NoSession => conns'[x].sess = NoSession
    BY <1>5, Sessions
  <2> QED BY <1>2, <1>6, <2>1 DEF KeysFit
<1>11. /\ DownFits(l, down'[l], Held(l), conns'[x].sess, Runs(l), Dialler(l))
       /\ DownVals(l, down'[l]) /\ down'[l] \in Seq(DownRecord)
  <2>1. CASE Kept(x, s)
    <3>1. down'[l] = down[l] /\ conns'[x].sess \in {s, Skipped(s)}
      BY <2>1 DEF Kept
    <3>2. DownFits(l, down[l], Held(l), s, Runs(l), Dialler(l))
      BY <1>2, DownLess
    <3>3. DownFits(l, down[l], Held(l), Skipped(s), Runs(l), Dialler(l))
      BY <1>1, <1>3, <3>2, LegIs, DownSkips
    <3> QED BY <1>1, <1>2, <3>1, <3>2, <3>3
  <2>2. CASE \E line : Grows(x, s, line)
    <3>1. PICK line \in Told : /\ s.up /\ conns'[x].sess = Counted(s)
                               /\ down'[l] = Append(down[l], Sealed(s, line))
      BY <2>2 DEF Grows
    <3>2. PICK r : r = Sealed(s, line)
      OBVIOUS
    <3>3. r \in DownRecord /\ r.type = "appdata"
      BY <3>2, SealedTyped, SealedIs DEF DownRecord
    <3>4. conns[x].sess # NoSession
      BY <3>1, Sessions
    <3>5. s.keys = KeysOf(l) /\ s.role = "Server"
      BY <1>2, <3>4 DEF KeysFit
    <3>6. DownFits(l, down[l], Held(l), s, Runs(l), Dialler(l))
      BY <1>2, DownLess
    <3>7. DownFits(l, Append(down[l], Sealed(s, line)), Held(l), Counted(s), Runs(l),
          Dialler(l))
      BY <1>1, <1>3, <3>2, <3>3, <3>5, <3>6, DownSealed
    <3>8. DownVals(l, Append(down[l], r)) /\ Append(down[l], r) \in Seq(DownRecord)
      BY <1>1, <1>2, <3>3, ValsMore, OneMore
    <3> QED BY <3>1, <3>2, <3>7, <3>8
  <2> QED BY <2>1, <2>2
<1> QED BY <1>4, <1>5, <1>7, <1>8, <1>9, <1>10, <1>11
        DEF LegOK, DownOK, UpOK, ValsOK, KeysOK

-----------------------------------------------------------------------------
(* Clients, while the relay takes a step.                                  *)

\* What the invariant says of a client, apart from its legs.
OwnOK(x) == ProcessOK(x) /\ ConnOK(x) /\ (x \in Victims => FarOK(x))

\* The same with the leg of its connection to the relay, and with the types.
StaysOK(x) ==
    /\ LegOK(Last(x))' /\ OwnOK(x)'
    /\ conns'[x] \in ConnType /\ down'[Last(x)] \in Seq(DownRecord)

\* The invariant, leg by leg and client by client.
LEMMA SealedInvIs ==
    SealedInv <=> /\ TypesOK /\ ProxyOK /\ NamesInverse
                  /\ \A l \in Legs : LegOK(l)
                  /\ \A c \in Clients : OwnOK(c)
<1>1. Victims \subseteq Clients
  BY SealedChatAssumption
<1> QED BY <1>1 DEF SealedInv, OwnOK

\* A leg that does not end at the relay, while the relay takes a step.
LEMMA LegAway ==
    ASSUME NEW l \in Legs, LegOK(l), ~AtRelay(l), up'[l] = up[l], down'[l] = down[l],
           ends'[l] = ends[l], clients' = clients, proxy' = proxy
    PROVE  LegOK(l)'
<1>1. /\ Held(l)' = Held(l) /\ Hears(l)' = Hears(l) /\ Acceptor(l)' = Acceptor(l)
      /\ AcceptorStep(l)' = AcceptorStep(l) /\ Runs(l)' = Runs(l) /\ Dialler(l)' = Dialler(l)
      /\ Strange(l)' = Strange(l)
  BY DEF Held, Hears, Altered, Acceptor, AcceptorStep, Runs, Dialler, Strange, Victim, AtRelay,
         IsNear, Owner
<1> QED BY <1>1, LegLess

\* The relay may take from one leg, and sends on the legs that end at it.
LEMMA RelayKeeps ==
    ASSUME SealedInv, Shape, up' \in [Legs -> Seq(UpRecord)],
           ends' \in [Legs -> SUBSET {"dialler", "acceptor"}],
           \A l \in Legs : ~AtRelay(l) => up'[l] = up[l] /\ ends'[l] = ends[l],
           \A x \in Clients : StaysOK(x),
           NamesInverse', byName' \in [Names -> Clients \cup {NoClient}],
           UNCHANGED <<clients, proxy, lines, junk>>
    PROVE  SealedInv'
<1>1. TypesOK /\ ProxyOK /\ \A l \in Legs : LegOK(l)
  BY SealedInvIs
<1>2. ASSUME NEW l \in Legs
      PROVE  LegOK(l)' /\ down'[l] \in Seq(DownRecord)
  <2>1. CASE AtRelay(l)
    BY <2>1, LegsAre DEF StaysOK
  <2>2. CASE ~AtRelay(l)
    BY <1>1, <2>2, LegAway, EndTypes DEF Shape
  <2> QED BY <2>1, <2>2
<1>3. conns' \in [Clients -> ConnType] /\ down' \in [Legs -> Seq(DownRecord)]
  BY <1>2 DEF Shape, StaysOK
<1>4. TypesOK'
  BY <1>1, <1>3 DEF TypesOK
<1>5. ProxyOK'
  BY <1>1 DEF ProxyOK, Victim
<1>6. \A l \in Legs : LegOK(l)'
  BY <1>2
<1>7. \A x \in Clients : OwnOK(x)'
  BY DEF StaysOK
<1>8. Victims \subseteq Clients
  BY SealedChatAssumption
<1> QED BY <1>4, <1>5, <1>6, <1>7, <1>8 DEF SealedInv, OwnOK

\* What is taken from a leg.
LEMMA TakesOne ==
    ASSUME TypesOK, NEW l \in Legs, up[l] # <<>>, up' = Take(up, l)
    PROVE  /\ up'[l] = Tail(up[l]) /\ Head(up[l]) \in UpRecord /\ Tail(up[l]) \in Seq(UpRecord)
           /\ up' \in [Legs -> Seq(UpRecord)]
           /\ \A k \in Legs \ {l} : up'[k] = up[k]
<1>1. up \in [Legs -> Seq(UpRecord)] /\ up[l] \in Seq(UpRecord)
  BY DEF TypesOK
<1>2. PICK w : w = Tail(up[l])
  OBVIOUS
<1>3. w \in Seq(UpRecord) /\ Head(up[l]) \in UpRecord
  BY <1>1, <1>2, FirstTaken
<1>4. up' = [up EXCEPT ![l] = w]
  BY <1>2 DEF Take
<1> QED BY <1>1, <1>2, <1>3, <1>4

\* The record the relay reads, and what follows it.
LEMMA OnlyOne ==
    ASSUME NEW r
    PROVE  Tail(<<r>>) = <<>> /\ Head(<<r>>) = r /\ <<r>> # <<>>
OBVIOUS

\* A client that the relay holds a connection of has dialled, and the proxy too.
LEMMA HasDialled ==
    ASSUME NEW x \in Clients, OwnOK(x), "acceptor" \in ends[Last(x)]
    PROVE  clients[x].st # "off" /\ (x \in Victims => ~Undialled(x))
BY LegIs DEF OwnOK, ProcessOK, FarOK, Undialled

\* One that no step has to do with.
LEMMA OwnSame ==
    ASSUME NEW x \in Clients, OwnOK(x), conns'[x] = conns[x], clients'[x] = clients[x],
           \A l \in Legs : Owner(l) = x =>
              up'[l] = up[l] /\ down'[l] = down[l] /\ ends'[l] = ends[l],
           proxy' = proxy
    PROVE  OwnOK(x)'
<1>1. up'[Near(x)] = up[Near(x)] /\ down'[Near(x)] = down[Near(x)]
      /\ ends'[Near(x)] = ends[Near(x)]
  BY LegIs
<1>2. x \in Victims =>
      up'[Far(x)] = up[Far(x)] /\ down'[Far(x)] = down[Far(x)] /\ ends'[Far(x)] = ends[Far(x)]
  BY LegIs
<1>3. ends'[Last(x)] = ends[Last(x)]
  BY LegIs
<1>4. ProcessOK(x)' /\ ConnOK(x)'
  BY <1>1, <1>3 DEF OwnOK, ProcessOK, ConnOK, Victim
<1>5. ASSUME x \in Victims PROVE FarOK(x)'
  <2>1. Undialled(x)' = Undialled(x)
    BY <1>1 DEF Undialled, Victim
  <2> QED BY <1>2, <1>5, <2>1 DEF OwnOK, FarOK, Victim
<1> QED BY <1>4, <1>5 DEF OwnOK

\* A connection that a line may have been taken from, and that may be told one.
LEMMA OwnSent ==
    ASSUME TypesOK, NEW x \in Clients, OwnOK(x), "acceptor" \in ends[Last(x)],
           NEW s \in SessionType, s.up = conns[x].sess.up, Kept(x, s) \/ \E line :
               Grows(x, s, line),
           SameUser(x) \/ conns[x].sess.up,
           up'[Last(x)] = up[Last(x)] \/ conns[x].sess.up,
           ends'[Last(x)] = ends[Last(x)], ends'[Near(x)] = ends[Near(x)],
           clients' = clients, proxy' = proxy
    PROVE  OwnOK(x)'
<1>1. clients[x].st # "off" /\ (x \in Victims => ~Undialled(x))
  BY HasDialled
<1>2. ProcessOK(x)'
  BY <1>1 DEF OwnOK, ProcessOK
<1>3. /\ conns'[x].st = conns[x].st /\ conns'[x].hs = conns[x].hs
      /\ conns'[x].sess.up = conns[x].sess.up
  BY Sessions DEF Kept, Grows
<1>4. conns[x].st = "none" => conns[x] = NoConn /\ ~conns[x].sess.up
  BY ConnTypes, Sessions DEF OwnOK, ConnOK
<1>5. ConnOK(x)'
  BY <1>3, <1>4 DEF OwnOK, ConnOK, Kept, Grows, SameUser
<1>6. ASSUME x \in Victims PROVE FarOK(x)'
  <2>1. Last(x) = Far(x) /\ Far(x) \in Legs
    BY <1>6, LegIs
  <2>2. FarOK(x) /\ ConnOK(x)
    BY <1>6 DEF OwnOK
  <2>3. ~Undialled(x)'
    BY <1>1, <1>6 DEF Undialled, Victim
  <2>4. conns[x].hs.step # "Complete" =>
          up'[Far(x)] = up[Far(x)] /\ down'[Far(x)] = down[Far(x)]
    <3>1. conns[x].hs.step # "Complete" => ~conns[x].sess.up
      BY <2>2 DEF ConnOK
    <3>2. ~conns[x].sess.up => Kept(x, s)
      BY DEF Grows
    <3> QED BY <2>1, <3>1, <3>2 DEF Kept
  <2>5. \A i \in DOMAIN down'[Far(x)] : down'[Far(x)][i].type = "handshake" =>
            i \in DOMAIN down[Far(x)] /\ down[Far(x)][i].type = "handshake"
    <3>1. CASE Kept(x, s)
      BY <2>1, <3>1 DEF Kept
    <3>2. CASE \E line : Grows(x, s, line)
      <4>1. PICK line : down'[Far(x)] = Append(down[Far(x)], Sealed(s, line))
        BY <2>1, <3>2 DEF Grows
      <4>2. PICK r : r = Sealed(s, line)
        OBVIOUS
      <4>3. r.type = "appdata"
        BY <4>2, SealedIs
      <4>4. PICK w : w = Append(down[Far(x)], r)
        OBVIOUS
      <4>5. w = down'[Far(x)]
        BY <4>1, <4>2, <4>4
      <4>6. down[Far(x)] \in Seq(DownRecord)
        BY <2>1, EndTypes
      <4>7. PICK o : o = down[Far(x)]
        OBVIOUS
      <4>8. /\ DOMAIN w = 1 .. Len(o) + 1 /\ DOMAIN o = 1 .. Len(o) /\ Len(o) \in Nat
            /\ (\A i \in 1 .. Len(o) : w[i] = o[i]) /\ w[Len(o) + 1] = r
        <5>1. o \in Seq(DownRecord \cup {r}) /\ r \in DownRecord \cup {r}
          BY <4>6, <4>7
        <5> QED BY <4>4, <4>7, <5>1, OneMore
      <4> QED BY <4>3, <4>5, <4>7, <4>8
    <3> QED BY <3>1, <3>2
  <2>6. "acceptor" \in ends[Far(x)]
    BY <2>1
  <2>7. Victim' = Victim
    BY DEF Victim
  <2> QED BY <1>3, <2>2, <2>3, <2>4, <2>5, <2>6, <2>7 DEF FarOK
<1> QED BY <1>2, <1>5, <1>6 DEF OwnOK

\* One that is told something, or nothing.
LEMMA SentKeeps ==
    ASSUME TypesOK, NEW x \in Clients, LegOK(Last(x)), OwnOK(x), "acceptor" \in ends[Last(x)],
           up'[Last(x)] = up[Last(x)], Kept(x, conns[x].sess) \/ \E line :
               Grows(x, conns[x].sess, line),
           SameUser(x) \/ conns[x].sess.up,
           ends'[Last(x)] = ends[Last(x)], ends'[Near(x)] = ends[Near(x)],
           clients' = clients, proxy' = proxy
    PROVE  StaysOK(x)
<1>1. PICK l : l = Last(x)
  OBVIOUS
<1>2. PICK s : s = conns[x].sess
  OBVIOUS
<1>3. s \in SessionType
  BY <1>2 DEF TypesOK, ConnType
<1>4. UpFits(l, up[l], Hears(l), s, Runs(l), Dialler(l), Strange(l)) /\ UpVals(l, up[l])
  BY <1>1, <1>2, LegOKIs, EndsAre
<1>5. Kept(x, s) \/ \E line : Grows(x, s, line)
  BY <1>2
<1>6. LegOK(l) /\ up'[l] = up[l] /\ "acceptor" \in ends[l]
  BY <1>1
<1>7. LegOK(l)' /\ down'[l] \in Seq(DownRecord) /\ conns'[x] \in ConnType
  BY <1>1, <1>2, <1>3, <1>4, <1>5, <1>6, LegSent
<1>8. OwnOK(x)'
  BY <1>2, <1>3, <1>5, OwnSent
<1> QED BY <1>1, <1>7, <1>8 DEF StaysOK, Last

\* One that the relay has nothing to do with.
LEMMA RestKeeps ==
    ASSUME TypesOK, NEW x \in Clients, LegOK(Last(x)), OwnOK(x), conns'[x] = conns[x],
           \A l \in Legs : Owner(l) = x =>
              up'[l] = up[l] /\ down'[l] = down[l] /\ ends'[l] = ends[l],
           clients' = clients, proxy' = proxy
    PROVE  StaysOK(x)
<1>1. PICK l : l = Last(x)
  OBVIOUS
<1>2. l \in Legs /\ Owner(l) = x
  BY <1>1, LegIs
<1>3. LegOK(l)'
  BY <1>1, <1>2, LegSame
<1>4. conns[x] \in ConnType /\ down[l] \in Seq(DownRecord)
  BY <1>2 DEF TypesOK
<1>5. OwnOK(x)'
  BY OwnSame
<1> QED BY <1>1, <1>2, <1>3, <1>4, <1>5 DEF StaysOK, Last

\* Nobody joins or leaves.
LEMMA SameNames ==
    ASSUME TypesOK, NamesInverse, \A x \in Clients : SameUser(x), byName' = byName
    PROVE  NamesInverse'
<1>1. ASSUME NEW n \in Names, byName[n] # NoClient PROVE conns'[byName[n]].user = n
  <2>1. byName[n] \in Clients
    BY <1>1 DEF TypesOK
  <2> QED BY <1>1, <2>1 DEF SameUser, NamesInverse
<1>2. ASSUME NEW c \in Clients, conns'[c].user # NoName
      PROVE  conns'[c].user \in Names /\ byName[conns'[c].user] = c
  BY <1>2 DEF NamesInverse, SameUser, Registered
<1> QED BY <1>1, <1>2 DEF NamesInverse, Registered

\* One joins under a name that is free.
LEMMA JoinNames ==
    ASSUME TypesOK, NamesInverse, NEW c \in Clients, NEW n \in Names, Join(c, n)
    PROVE  NamesInverse' /\ byName' \in [Names -> Clients \cup {NoClient}]
           /\ \A x \in Clients \ {c} : SameUser(x)
<1>1. /\ byName \in [Names -> Clients \cup {NoClient}]
      /\ byName' = [byName EXCEPT ![n] = c]
      /\ byName[n] = NoClient /\ conns[c].user = NoName /\ conns'[c].user = n
  BY DEF TypesOK, Join, Registered
<1>2. byName' \in [Names -> Clients \cup {NoClient}]
  BY <1>1
<1>3. \A x \in Clients \ {c} : SameUser(x)
  BY DEF Join, Kept, SameUser
<1>4. n # NoName /\ NoClient \notin Clients
  BY SealedChatAssumption
<1>5. byName'[n] = c /\ \A m \in Names : m # n => byName'[m] = byName[m]
  BY <1>1
<1>6. ASSUME NEW m \in Names, byName'[m] # NoClient
      PROVE  conns'[byName'[m]].user = m
  <2>1. CASE m = n
    BY <1>1, <1>5, <2>1
  <2>2. CASE m # n
    <3>1. byName'[m] = byName[m] /\ byName[m] \in Clients
      BY <1>1, <1>5, <1>6, <2>2
    <3>2. conns[byName[m]].user = m
      BY <1>6, <3>1 DEF NamesInverse
    <3>3. byName[m] # c
      BY <1>1, <3>2, SealedChatAssumption
    <3> QED BY <1>3, <3>1, <3>2, <3>3 DEF SameUser
  <2> QED BY <2>1, <2>2
<1>7. ASSUME NEW x \in Clients, conns'[x].user # NoName
      PROVE  conns'[x].user \in Names /\ byName'[conns'[x].user] = x
  <2>1. CASE x = c
    BY <1>1, <1>5, <2>1
  <2>2. CASE x # c
    <3>1. conns[x].user \in Names /\ byName[conns[x].user] = x
          /\ conns'[x].user = conns[x].user
      BY <1>3, <1>7, <2>2 DEF NamesInverse, SameUser, Registered
    <3>2. x # NoClient
      BY <1>4
    <3> QED BY <1>1, <1>5, <3>1, <3>2
  <2> QED BY <2>1, <2>2
<1> QED BY <1>2, <1>3, <1>6, <1>7 DEF NamesInverse, Registered

-----------------------------------------------------------------------------
(* The relay's steps. *)

\* A line.
LEMMA LineKeeps ==
    ASSUME SealedInv, NEW c \in Clients, conns[c].st = "open",
           up[Last(c)] # <<>>, up' = Take(up, Last(c)), NEW r, r = Head(up[Last(c)]),
           Opens(conns[c].sess, r),
           HandleLine([Now EXCEPT !.conns[c].sess = Opened(@)], c, r.line),
           UNCHANGED <<ends, clients, proxy, lines, junk>>
    PROVE  SealedInv'
<1>1. /\ TypesOK /\ ProxyOK /\ NamesInverse /\ (\A l \in Legs : LegOK(l))
      /\ \A x \in Clients : OwnOK(x) /\ ConnOK(x)
  BY SealedInvIs DEF OwnOK
<1>2. PICK l : l = Last(c)
  OBVIOUS
<1>3. /\ l \in Legs /\ Owner(l) = c /\ AtRelay(l)
  BY <1>2, LegIs
<1>4. /\ up'[l] = Tail(up[l]) /\ r \in UpRecord /\ up' \in [Legs -> Seq(UpRecord)]
      /\ \A k \in Legs \ {l} : up'[k] = up[k]
  BY <1>1, <1>2, <1>3, TakesOne
<1>5. conns[c].sess.up /\ r.type = "appdata" /\ conns[c].st # "none" /\ "acceptor" \in ends[l]
  BY <1>1, <1>2 DEF Opens, ConnOK
<1>6. r.line \in Asked
  BY <1>4, <1>5 DEF UpRecord, Data, Alert, Hs
<1>7. LineEffect(c, r.line) /\ Shape
  <2>1. \A x \in Clients : Registered(x) => conns[x].sess.up
    BY <1>1 DEF ConnOK, Registered
  <2>2. PICK line \in Asked : line = r.line
    BY <1>6
  <2>3. PICK st : st = [Now EXCEPT !.conns[c].sess = Opened(@)]
    OBVIOUS
  <2>4. HandleLine(st, c, line)
    BY <2>2, <2>3
  <2>5. LineEffect(c, line) /\ Shape
    BY <1>1, <1>5, <2>1, <2>3, <2>4, HandleLineEffect
  <2> QED BY <2>2, <2>5
<1>8. conns[c].sess \in SessionType /\ up[l] \in Seq(UpRecord)
  BY <1>1, <1>3, EndTypes DEF TypesOK, ConnType
<1>9. PICK s : s = Opened(conns[c].sess)
  OBVIOUS
<1>10. /\ s \in SessionType /\ s.up = conns[c].sess.up /\ s.keys = conns[c].sess.keys
       /\ s.role = conns[c].sess.role /\ s.tx = conns[c].sess.tx
       /\ s.skipped = conns[c].sess.skipped /\ s = Base(c, c)
  BY <1>8, <1>9, Sessions DEF Base
<1>11. conns[c].sess # NoSession
  BY <1>5, Sessions
<1>12. /\ UpFits(l, up[l], Hears(l), conns[c].sess, Runs(l), Dialler(l), Strange(l))
       /\ UpVals(l, up[l]) /\ conns[c].sess.keys = KeysOf(l)
  BY <1>1, <1>2, <1>3, <1>11, LegOKIs, EndsAre DEF KeysFit
<1>13. UpFits(l, up'[l], Hears(l), s, Runs(l), Dialler(l), Strange(l)) /\ UpVals(l, up'[l])
  BY <1>2, <1>3, <1>4, <1>8, <1>9, <1>12, UpOpens, ValsTaken
<1>14. ASSUME Kept(c, s) \/ \E line : Grows(c, s, line) PROVE StaysOK(c)
  <2>1. LegOK(l)
    BY <1>1, <1>3
  <2>2. LegOK(l)' /\ down'[l] \in Seq(DownRecord) /\ conns'[c] \in ConnType
    BY <1>1, <1>2, <1>5, <1>10, <1>11, <1>13, <1>14, <2>1, LegSent
  <2>3. OwnOK(c)'
    BY <1>1, <1>2, <1>5, <1>10, <1>14, OwnSent
  <2> QED BY <1>2, <2>2, <2>3 DEF StaysOK, Last
<1>15. ASSUME NEW x \in Clients \ {c},
              Kept(x, conns[x].sess) \/ \E line : Grows(x, conns[x].sess, line),
              SameUser(x)
       PROVE  StaysOK(x)
  <2>1. LegOK(Last(x)) /\ up'[Last(x)] = up[Last(x)] /\ OwnOK(x)
    BY <1>1, <1>2, <1>4, LegIs
  <2>2. CASE "acceptor" \in ends[Last(x)]
    BY <1>1, <1>15, <2>1, <2>2, SentKeeps
  <2>3. CASE "acceptor" \notin ends[Last(x)]
    <3>1. conns[x].st = "none" /\ ~conns[x].sess.up
      BY <1>1, <2>3, ConnTypes, Sessions DEF ConnOK
    <3>2. conns'[x] = conns[x] /\ down'[Last(x)] = down[Last(x)]
      BY <1>15, <3>1 DEF Kept, Grows
    <3>3. \A k \in Legs : Owner(k) = x => up'[k] = up[k] /\ down'[k] = down[k]
          /\ ends'[k] = ends[k]
      BY <1>3, <1>4, <1>7, <3>2, LegsAre DEF Shape
    <3> QED BY <1>1, <2>1, <3>2, <3>3, RestKeeps
  <2> QED BY <2>2, <2>3
<1>16. \A x \in Clients \ {c} : Base(x, c) = conns[x].sess
  BY DEF Base
<1>17. \A k \in Legs : ~AtRelay(k) => up'[k] = up[k] /\ ends'[k] = ends[k]
  BY <1>3, <1>4
<1>18. byName \in [Names -> Clients \cup {NoClient}]
       /\ ends' \in [Legs -> SUBSET {"dialler", "acceptor"}]
  BY <1>1 DEF TypesOK
<1>19. ASSUME \A x \in Clients : StaysOK(x), NamesInverse',
              byName' \in [Names -> Clients \cup {NoClient}]
       PROVE  SealedInv'
  BY <1>4, <1>7, <1>17, <1>18, <1>19, RelayKeeps
<1>20. ASSUME \A x \in Clients : SameUser(x) /\ StaysOK(x), byName' = byName PROVE SealedInv'
  <2>1. NamesInverse'
    BY <1>1, <1>20, SameNames
  <2> QED BY <1>18, <1>19, <1>20, <2>1
<1>21. CASE Reply(c)
  <2>1. StaysOK(c) /\ SameUser(c) /\ byName' = byName
    BY <1>10, <1>14, <1>21 DEF Reply
  <2>2. \A x \in Clients \ {c} : StaysOK(x) /\ SameUser(x)
    BY <1>15, <1>21 DEF Reply, Kept
  <2> QED BY <1>20, <2>1, <2>2
<1>22. CASE Wants(c)
  <2>1. StaysOK(c) /\ SameUser(c) /\ byName' = byName
    BY <1>10, <1>14, <1>22 DEF Wants, Kept
  <2>2. \A x \in Clients \ {c} : StaysOK(x) /\ SameUser(x)
    BY <1>15, <1>16, <1>22 DEF Wants, Kept
  <2> QED BY <1>20, <2>1, <2>2
<1>23. CASE \E to \in Names : \E m : Post(c, to, m)
  <2>1. PICK to \in Names : \E m : Post(c, to, m)
    BY <1>23
  <2>2. PICK g : g = byName[to]
    OBVIOUS
  <2>3. g \in Clients
    BY <1>1, <2>1, <2>2 DEF Post, TypesOK
  <2>4. /\ byName' = byName /\ SameUser(g) /\ \E line : Grows(g, Base(g, c), line)
        /\ \A x \in Clients \ {g} : Kept(x, Base(x, c))
    BY <2>1, <2>2 DEF Post
  <2>5. \A x \in Clients : /\ Kept(x, Base(x, c)) \/ \E line : Grows(x, Base(x, c), line)
                           /\ SameUser(x)
    BY <2>4 DEF Kept
  <2>6. StaysOK(c)
    BY <1>10, <1>14, <2>5
  <2>7. \A x \in Clients \ {c} : StaysOK(x)
    BY <1>15, <1>16, <2>5
  <2> QED BY <1>20, <2>4, <2>5, <2>6, <2>7
<1>24. CASE \E n \in Names : Join(c, n)
  <2>1. PICK n \in Names : Join(c, n)
    BY <1>24
  <2>2. /\ NamesInverse' /\ byName' \in [Names -> Clients \cup {NoClient}]
        /\ \A x \in Clients \ {c} : SameUser(x)
    BY <1>1, <2>1, JoinNames
  <2>3. StaysOK(c)
    BY <1>10, <1>14, <2>1 DEF Join
  <2>4. \A x \in Clients \ {c} : StaysOK(x)
    BY <1>15, <2>1, <2>2 DEF Join
  <2> QED BY <1>19, <2>2, <2>3, <2>4
<1> QED BY <1>7, <1>21, <1>22, <1>23, <1>24 DEF LineEffect

\* The relay changes one connection, may take from it, and sends it at most one record.
LEMMA OneKeeps ==
    ASSUME SealedInv, NEW c \in Clients, NEW l, l = Last(c),
           up' = up \/ (up[l] # <<>> /\ up' = Take(up, l)),
           NEW p \in ConnType, conns' = [conns EXCEPT ![c] = p], p.user = conns[c].user,
           NEW w \in Seq(DownRecord), down' = [down EXCEPT ![l] = w],
           LegOK(l)', OwnOK(c)', UNCHANGED <<ends, clients, byName, proxy, lines, junk>>
    PROVE  SealedInv'
<1>1. /\ TypesOK /\ NamesInverse /\ (\A k \in Legs : LegOK(k))
      /\ \A x \in Clients : OwnOK(x)
  BY SealedInvIs
<1>2. l \in Legs /\ Owner(l) = c /\ AtRelay(l) /\ \A x \in Clients : Owner(Last(x)) = x
  BY LegIs
<1>3. /\ up \in [Legs -> Seq(UpRecord)] /\ down \in [Legs -> Seq(DownRecord)]
      /\ conns \in [Clients -> ConnType] /\ byName \in [Names -> Clients \cup {NoClient}]
      /\ ends \in [Legs -> SUBSET {"dialler", "acceptor"}]
  BY <1>1 DEF TypesOK
<1>4. /\ \A k \in Legs \ {l} : up'[k] = up[k] /\ down'[k] = down[k]
      /\ up' \in [Legs -> Seq(UpRecord)]
  BY <1>1, <1>2, <1>3, TakesOne
<1>5. conns'[c] = p /\ \A x \in Clients \ {c} : conns'[x] = conns[x]
  BY <1>3
<1>6. down'[l] = w
  BY <1>2, <1>3
<1>7. StaysOK(c)
  BY <1>5, <1>6 DEF StaysOK, Last
<1>8. ASSUME NEW x \in Clients \ {c} PROVE StaysOK(x)
  <2>1. \A k \in Legs : Owner(k) = x => up'[k] = up[k] /\ down'[k] = down[k]
        /\ ends'[k] = ends[k]
    BY <1>2, <1>4
  <2>2. LegOK(Last(x)) /\ OwnOK(x)
    BY <1>1, LegIs
  <2> QED BY <1>1, <1>5, <2>1, <2>2, RestKeeps
<1>9. Shape
  BY <1>2, <1>3, <1>4 DEF Shape
<1>10. NamesInverse'
  <2>1. \A x \in Clients : SameUser(x)
    BY <1>5 DEF SameUser
  <2> QED BY <1>1, <2>1, SameNames
<1>11. \A k \in Legs : ~AtRelay(k) => up'[k] = up[k] /\ ends'[k] = ends[k]
  BY <1>2, <1>4
<1> QED BY <1>3, <1>4, <1>7, <1>8, <1>9, <1>10, <1>11, RelayKeeps

\* A connection at another stage.
LEMMA StageIs ==
    ASSUME NEW p \in ConnType, NEW st \in {"none", "open", "doomed", "flushed"}, NEW q,
           q = [p EXCEPT !.st = st]
    PROVE  q \in ConnType /\ q.st = st /\ q.hs = p.hs /\ q.sess = p.sess /\ q.user = p.user
BY DEF ConnType

\* The leg of a connection that changes, as its sessions say.
LEMMA LegOfConn ==
    ASSUME NEW c \in Clients, NEW l, l = Last(c), ends' = ends, clients' = clients,
           proxy' = proxy, "acceptor" \in ends[l],
           DownFits(l, down'[l], TRUE, conns'[c].sess, Runs(l), Dialler(l)),
           UpFits(l, up'[l], ~Altered(l)
               /\ (conns'[c].st \in {"none", "open"} \/ conns'[c].sess.up),
                  conns'[c].sess, Runs(l), Dialler(l), Strange(l)),
           DownVals(l, down'[l]), UpVals(l, up'[l]),
           KeysFit(l, conns'[c].sess, conns'[c].hs, Dialler(l))
    PROVE  LegOK(l)'
<1>1. /\ Held(l)' = TRUE /\ Runs(l)' = Runs(l) /\ Dialler(l)' = Dialler(l)
      /\ Strange(l)' = Strange(l) /\ Altered(l)' = Altered(l)
  BY DEF Held, Runs, Dialler, Strange, Victim, Altered
<1>2. /\ Acceptor(l)' = conns'[c].sess /\ AcceptorStep(l)' = conns'[c].hs
      /\ Hears(l)' = (~Altered(l) /\ (conns'[c].st \in {"none", "open"} \/ conns'[c].sess.up))
  BY <1>1, LegIs DEF Acceptor, AcceptorStep, Hears
<1> QED BY <1>1, <1>2 DEF LegOK, DownOK, UpOK, ValsOK, KeysOK

\* What is known of a connection that the relay has.
LEMMA ConnKnown ==
    ASSUME TypesOK, NEW c \in Clients, NEW l, l = Last(c), LegOK(l), OwnOK(c),
           "acceptor" \in ends[l]
    PROVE  /\ l \in Legs /\ up[l] \in Seq(UpRecord) /\ down[l] \in Seq(DownRecord)
           /\ conns[c] \in ConnType /\ conns[c].sess \in SessionType
           /\ DownFits(l, down[l], TRUE, conns[c].sess, Runs(l), Dialler(l))
           /\ UpFits(l, up[l], ~Altered(l)
              /\ (conns[c].st \in {"none", "open"} \/ conns[c].sess.up),
                     conns[c].sess, Runs(l), Dialler(l), Strange(l))
           /\ DownVals(l, down[l]) /\ UpVals(l, up[l])
           /\ KeysFit(l, conns[c].sess, conns[c].hs, Dialler(l))
           /\ clients[c].st # "off" /\ (c \in Victims => ~Undialled(c) /\ FarOK(c))
           /\ ProcessOK(c) /\ ConnOK(c)
<1>1. /\ l \in Legs /\ up[l] \in Seq(UpRecord) /\ down[l] \in Seq(DownRecord)
  BY LegIs, EndTypes
<1>2. Held(l) = TRUE /\ Acceptor(l) = conns[c].sess /\ AcceptorStep(l) = conns[c].hs
      /\ Hears(l) = (~Altered(l) /\ (conns[c].st \in {"none", "open"} \/ conns[c].sess.up))
  BY EndsAre, LegIs DEF Held, Hears
<1>3. /\ DownFits(l, down[l], Held(l), Acceptor(l), Runs(l), Dialler(l))
      /\ UpFits(l, up[l], Hears(l), Acceptor(l), Runs(l), Dialler(l), Strange(l))
      /\ DownVals(l, down[l]) /\ UpVals(l, up[l])
      /\ KeysFit(l, Acceptor(l), AcceptorStep(l), Dialler(l))
  BY LegOKIs
<1>4. clients[c].st # "off" /\ (c \in Victims => ~Undialled(c) /\ FarOK(c))
  BY HasDialled DEF OwnOK
<1>5. conns[c] \in ConnType /\ conns[c].sess \in SessionType
  BY DEF TypesOK, ConnType
<1> QED BY <1>1, <1>2, <1>3, <1>4, <1>5 DEF OwnOK

\* A connection accepted, given up or flushed.
LEMMA StagesKeep ==
    ASSUME SealedInv, NEW c \in Clients, NEW st \in {"open", "doomed", "flushed"},
           "acceptor" \in ends[Last(c)], conns[c].st \in {"none", "open"},
           conns' = [conns EXCEPT ![c].st = st],
           UNCHANGED <<ends, up, down, clients, byName, proxy, lines, junk>>
    PROVE  SealedInv'
<1>1. PICK l : l = Last(c)
  OBVIOUS
<1>2. TypesOK /\ LegOK(l) /\ OwnOK(c) /\ "acceptor" \in ends[l]
  BY <1>1, SealedInvIs, LegIs
<1>3. /\ l \in Legs /\ up[l] \in Seq(UpRecord) /\ down[l] \in Seq(DownRecord)
      /\ conns[c] \in ConnType /\ conns[c].sess \in SessionType
      /\ DownFits(l, down[l], TRUE, conns[c].sess, Runs(l), Dialler(l))
      /\ UpFits(l, up[l], ~Altered(l)
         /\ (conns[c].st \in {"none", "open"} \/ conns[c].sess.up),
                conns[c].sess, Runs(l), Dialler(l), Strange(l))
      /\ DownVals(l, down[l]) /\ UpVals(l, up[l])
      /\ KeysFit(l, conns[c].sess, conns[c].hs, Dialler(l))
      /\ clients[c].st # "off" /\ (c \in Victims => ~Undialled(c) /\ FarOK(c))
      /\ ProcessOK(c) /\ ConnOK(c)
  BY <1>1, <1>2, ConnKnown
<1>4. PICK p : p = [conns[c] EXCEPT !.st = st]
  OBVIOUS
<1>5. /\ p \in ConnType /\ p.st = st /\ p.hs = conns[c].hs /\ p.sess = conns[c].sess
      /\ p.user = conns[c].user
  BY <1>3, <1>4, StageIs
<1>6. conns' = [conns EXCEPT ![c] = p] /\ down' = [down EXCEPT ![l] = down[l]]
  BY <1>2, <1>4 DEF TypesOK
<1>7. conns'[c] = p
  BY <1>2, <1>6 DEF TypesOK
<1>8. UpFits(l, up[l], ~Altered(l) /\ (p.st \in {"none", "open"} \/ p.sess.up),
             p.sess, Runs(l), Dialler(l), Strange(l))
  <2>1. ~Altered(l) /\ (p.st \in {"none", "open"} \/ p.sess.up) =>
        ~Altered(l) /\ (conns[c].st \in {"none", "open"} \/ conns[c].sess.up)
    OBVIOUS
  <2>2. UpFits(l, up[l], ~Altered(l) /\ (conns[c].st \in {"none", "open"} \/ conns[c].sess.up),
               p.sess, Runs(l), Dialler(l), Strange(l))
    BY <1>3, <1>5
  <2> QED BY <2>1, <2>2 DEF UpFits
<1>9. LegOK(l)'
  BY <1>1, <1>2, <1>3, <1>5, <1>7, <1>8, LegOfConn
<1>10. ProcessOK(c)'
  BY <1>3 DEF ProcessOK
<1>11. ConnOK(c)'
  BY <1>3, <1>5, <1>7 DEF ConnOK
<1>12. c \in Victims => FarOK(c)'
  BY <1>3, <1>5, <1>7 DEF FarOK, Undialled, Victim
<1>13. OwnOK(c)'
  BY <1>10, <1>11, <1>12 DEF OwnOK
<1> QED BY <1>1, <1>3, <1>5, <1>6, <1>9, <1>13, OneKeeps

\* A record that makes the relay give a connection up.
LEMMA DoomsKeeps ==
    ASSUME SealedInv, NEW c \in Clients, conns[c].st = "open",
           up[Last(c)] # <<>>, up' = Take(up, Last(c)), Rejected(c, Head(up[Last(c)])),
               Dooms(c),
           UNCHANGED <<ends, clients, proxy, lines, junk>>
    PROVE  SealedInv'
<1>1. PICK l : l = Last(c)
  OBVIOUS
<1>2. TypesOK /\ LegOK(l) /\ OwnOK(c) /\ "acceptor" \in ends[l]
  BY <1>1, SealedInvIs, LegIs DEF OwnOK, ConnOK
<1>3. /\ l \in Legs /\ up[l] \in Seq(UpRecord) /\ down[l] \in Seq(DownRecord)
      /\ conns[c] \in ConnType /\ conns[c].sess \in SessionType
      /\ DownFits(l, down[l], TRUE, conns[c].sess, Runs(l), Dialler(l))
      /\ UpFits(l, up[l], ~Altered(l)
         /\ (conns[c].st \in {"none", "open"} \/ conns[c].sess.up),
                conns[c].sess, Runs(l), Dialler(l), Strange(l))
      /\ DownVals(l, down[l]) /\ UpVals(l, up[l])
      /\ KeysFit(l, conns[c].sess, conns[c].hs, Dialler(l))
      /\ clients[c].st # "off" /\ (c \in Victims => ~Undialled(c) /\ FarOK(c))
      /\ ProcessOK(c) /\ ConnOK(c)
  BY <1>1, <1>2, ConnKnown
<1>4. PICK p : p = [conns[c] EXCEPT !.st = "doomed"]
  OBVIOUS
<1>5. /\ p \in ConnType /\ p.st = "doomed" /\ p.hs = conns[c].hs /\ p.sess = conns[c].sess
      /\ p.user = conns[c].user
  BY <1>3, <1>4, StageIs
<1>6. conns' = [conns EXCEPT ![c] = p] /\ down' = [down EXCEPT ![l] = down[l]]
  BY <1>2, <1>4 DEF TypesOK, Dooms
<1>7. conns'[c] = p /\ down'[l] = down[l] /\ up'[l] = Tail(up[l]) /\ up[l] # <<>>
  BY <1>1, <1>2, <1>3, <1>6, TakesOne DEF TypesOK
<1>8. ~Opens(conns[c].sess, Head(up[l]))
  BY <1>1 DEF Rejected, Opens
<1>9. UpVals(l, up'[l])
  BY <1>3, <1>7, ValsTaken
<1>10. UpFits(l, up'[l], ~Altered(l) /\ (p.st \in {"none", "open"} \/ p.sess.up),
              p.sess, Runs(l), Dialler(l), Strange(l))
  <2>1. CASE conns[c].sess.up
    <3>1. conns[c].sess.keys = KeysOf(l) /\ conns[c].sess.role = "Server"
      BY <1>3, <2>1, Sessions DEF KeysFit
    <3>2. UpFits(l, Tail(up[l]),
                 ~Altered(l) /\ (conns[c].st \in {"none", "open"} \/ conns[c].sess.up),
                 conns[c].sess, Runs(l), Dialler(l), Strange(l))
      BY <1>3, <1>7, <1>8, <2>1, <3>1, UpGivenUp
    <3> QED BY <1>5, <1>7, <2>1, <3>2, UpLess
  <2>2. CASE ~conns[c].sess.up
    BY <1>5, <2>2 DEF UpFits
  <2> QED BY <2>1, <2>2
<1>11. LegOK(l)'
  BY <1>1, <1>2, <1>3, <1>5, <1>7, <1>9, <1>10, LegOfConn
<1>12. ProcessOK(c)'
  BY <1>3 DEF ProcessOK
<1>13. ConnOK(c)'
  BY <1>1, <1>2, <1>3, <1>5, <1>7 DEF ConnOK
<1>14. ASSUME c \in Victims PROVE FarOK(c)'
  <2>1. l = Far(c) /\ FarOK(c) /\ ~Undialled(c)
    BY <1>1, <1>3, <1>14, LegIs
  <2>2. ~Undialled(c)' /\ Victim' = Victim
    BY <2>1 DEF Undialled, Victim
  <2>3. Rejected(c, Head(up[l])) /\ conns[c].hs.step # "Complete"
        => Head(up[l]).type # "handshake"
    BY <1>3 DEF Rejected, ConnOK, Opens
  <2>4. conns[c].hs.step # "AwaitClientKex"
    BY <1>1, <1>2, <1>7, <2>1, <2>3 DEF FarOK, Kex, Hs
  <2>5. conns[c].hs.step # "AwaitClientHello"
    <3>1. Hello(Far(c)).type = "handshake" /\ Head(<<Hello(Far(c))>>) = Hello(Far(c))
      BY DEF Hello, Hs
    <3> QED BY <1>1, <1>2, <1>7, <2>1, <2>3, <3>1 DEF FarOK
  <2> QED BY <1>5, <1>7, <2>1, <2>2, <2>4, <2>5 DEF FarOK
<1>15. OwnOK(c)'
  BY <1>12, <1>13, <1>14 DEF OwnOK
<1>16. up' = Take(up, l) /\ UNCHANGED <<ends, clients, byName, proxy, lines, junk>>
  BY <1>1 DEF Dooms
<1> QED BY <1>1, <1>3, <1>5, <1>6, <1>7, <1>11, <1>15, <1>16, OneKeeps

\* A record of the exchange that is refused, and the alert it gets.
Fails(c, l, p) ==
    /\ FeedFails(conns[c].hs, Head(up[l])) /\ p = [conns[c] EXCEPT !.want = TRUE]
    /\ down' = [down EXCEPT ![l] = Append(down[l], Alert)]

\* A hello that is answered.
Answers(c, l, p) ==
    /\ FeedAnswers(conns[c].hs, Head(up[l]))
    /\ p = [conns[c] EXCEPT !.hs = Answered(Head(up[l]))]
    /\ down' = [down EXCEPT ![l] = Append(down[l], Hs("ServerKex", Pub(l, "server")))]

\* A public value that completes the exchange.
Completes(c, l, p) ==
    /\ FeedCompletes(conns[c].hs, Head(up[l]))
    /\ p = [conns[c] EXCEPT !.hs.step = "Complete",
                            !.sess = Install(ServerKeys(conns[c].hs, l, Head(up[l])),
                                "Server")]
    /\ down' = [down EXCEPT ![l] = down[l]]

\* The relay does one of them.
LEMMA NegotiatesIs ==
    ASSUME TypesOK, NEW c \in Clients, NEW l, l = Last(c), Negotiates(c, Head(up[l]))
    PROVE  /\ ~conns[c].sess.up /\ byName' = byName
           /\ \E p : /\ Fails(c, l, p) \/ Answers(c, l, p) \/ Completes(c, l, p)
                     /\ conns' = [conns EXCEPT ![c] = p]
<1>1. /\ conns \in [Clients -> ConnType] /\ down \in [Legs -> Seq(DownRecord)] /\ l \in Legs
  BY LegIs DEF TypesOK
<1>2. PICK r : r = Head(up[l])
  OBVIOUS
<1>3. CASE FeedFails(conns[c].hs, r) /\ Becomes(SendAlert(c))
  <2>1. PICK p : p = [conns[c] EXCEPT !.want = TRUE]
    OBVIOUS
  <2>2. conns' = [conns EXCEPT ![c].want = TRUE] /\ down' = Put(down, l, Alert)
    BY <1>3 DEF Becomes, SendAlert, Closing, Now
  <2>3. conns' = [conns EXCEPT ![c] = p]
    BY <1>1, <2>1, <2>2
  <2>4. down' = [down EXCEPT ![l] = Append(down[l], Alert)]
    BY <2>2 DEF Put
  <2>5. Fails(c, l, p)
    BY <1>2, <1>3, <2>1, <2>4 DEF Fails
  <2> QED BY <2>3, <2>5 DEF Negotiates
<1>4. CASE /\ FeedAnswers(conns[c].hs, r)
           /\ conns' = [conns EXCEPT ![c].hs = Answered(r)]
           /\ down' = Put(down, Last(c), Hs("ServerKex", Pub(Last(c), "server")))
  <2>1. PICK p : p = [conns[c] EXCEPT !.hs = Answered(r)]
    OBVIOUS
  <2>2. conns' = [conns EXCEPT ![c] = p]
    BY <1>1, <1>4, <2>1
  <2>3. down' = [down EXCEPT ![l] = Append(down[l], Hs("ServerKex", Pub(l, "server")))]
    BY <1>4 DEF Put
  <2>4. Answers(c, l, p)
    BY <1>2, <1>4, <2>1, <2>3 DEF Answers
  <2> QED BY <2>2, <2>4 DEF Negotiates
<1>5. CASE /\ FeedCompletes(conns[c].hs, r)
           /\ conns' = [conns EXCEPT ![c].hs.step = "Complete",
                          ![c].sess = Install(ServerKeys(conns[c].hs, Last(c), r), "Server")]
           /\ UNCHANGED down
  <2>1. PICK p : p = [conns[c] EXCEPT !.hs.step = "Complete",
                                      !.sess = Install(ServerKeys(conns[c].hs, l, r),
                                          "Server")]
    OBVIOUS
  <2>2. conns' = [conns EXCEPT ![c] = p]
    BY <1>1, <1>5, <2>1
  <2>3. down' = [down EXCEPT ![l] = down[l]]
    BY <1>1, <1>5
  <2>4. Completes(c, l, p)
    BY <1>2, <1>5, <2>1, <2>3 DEF Completes
  <2> QED BY <2>2, <2>4 DEF Negotiates
<1> QED BY <1>2, <1>3, <1>4, <1>5 DEF Negotiates

\* The head of what is on the way to the relay belongs to the exchange of the leg.
LEMMA HeadOfExchange ==
    ASSUME NEW c \in Clients, NEW l, l = Last(c), NEW r, r = Head(up[l]), up[l] # <<>>,
           r.type = "handshake", up[l] \in Seq(UpRecord), UpVals(l, up[l]),
           c \in Victims => FarOK(c), "acceptor" \in ends[l], ConnOK(c)
    PROVE  /\ FeedAnswers(conns[c].hs, r) => r.val = l
           /\ FeedCompletes(conns[c].hs, r) => r.val = Pub(l, "client")
           /\ c \in Victims /\ ~conns[c].sess.up /\ conns[c].hs \in HandshakeType =>
                \/ FeedAnswers(conns[c].hs, r) /\ up[l] = <<Hello(l)>> /\ down[l] = <<>>
                \/ FeedCompletes(conns[c].hs, r) /\ r = Kex(l)
<1>1. l \in Legs
  BY LegIs
<1>2. CASE c \notin Victims
  <2>1. IsNear(l)
    BY <1>2, LegIs
  <2>2. UpVal(l, r)
    BY <1>1, <2>1, ValsTaken
  <2> QED BY <1>2, <2>2 DEF UpVal, FeedAnswers, FeedCompletes
<1>3. CASE c \in Victims
  <2>1. l = Far(c) /\ FarOK(c)
    BY <1>3, LegIs
  <2>2. /\ Hello(l).type = "handshake" /\ Head(<<Hello(l)>>) = Hello(l)
        /\ Hello(l).kind = "ClientHello" /\ Hello(l).val = l
    BY DEF Hello, Hs
  <2>3. /\ Kex(l).type = "handshake" /\ Kex(l).kind = "ClientKex"
        /\ Kex(l).val = Pub(l, "client")
        /\ Kex(l).val # NoPub
    BY <1>1, LegKeys DEF Kex, Hs
  <2>4. conns[c].hs.step = "AwaitClientHello" => up[l] = <<Hello(l)>> /\ down[l] = <<>>
    BY <2>1 DEF FarOK
  <2>5. conns[c].hs.step = "AwaitClientKex" => r = Kex(l)
    BY <2>1 DEF FarOK
  <2>6. FeedAnswers(conns[c].hs, r) => r.val = l
    BY <2>2, <2>4 DEF FeedAnswers
  <2>7. FeedCompletes(conns[c].hs, r) => r.val = Pub(l, "client")
    BY <2>3, <2>5 DEF FeedCompletes
  <2>8. ~conns[c].sess.up /\ conns[c].hs \in HandshakeType =>
          conns[c].hs.step \in {"AwaitClientHello", "AwaitClientKex"}
    BY DEF ConnOK, HandshakeType
  <2>9. conns[c].hs.step = "AwaitClientHello" => FeedAnswers(conns[c].hs, r)
    BY <2>2, <2>4 DEF FeedAnswers
  <2>10. conns[c].hs.step = "AwaitClientKex" => FeedCompletes(conns[c].hs, r)
    BY <2>3, <2>5 DEF FeedCompletes
  <2> QED BY <2>4, <2>5, <2>6, <2>7, <2>8, <2>9, <2>10
<1> QED BY <1>2, <1>3

\* What the relay sends in the exchange.
LEMMA ExchangeRecords ==
    ASSUME NEW l \in Legs, NEW r, r = Hs("ServerKex", Pub(l, "server"))
    PROVE  /\ r \in DownRecord /\ r.type = "handshake" /\ r.val = Pub(l, "server")
           /\ Alert \in DownRecord /\ Alert.type = "alert"
<1>1. Pub(l, "server") \in ServerPubs
  BY LegKeys
<1> QED BY <1>1 DEF DownRecord, Hs, Alert

\* A connection with another handshake.
LEMMA HsIs ==
    ASSUME NEW p \in ConnType, NEW h \in HandshakeType, NEW q, q = [p EXCEPT !.hs = h]
    PROVE  q \in ConnType /\ q.hs = h /\ q.st = p.st /\ q.sess = p.sess /\ q.user = p.user
BY DEF ConnType

\* A record of the exchange.
LEMMA NegotiatesKeeps ==
    ASSUME SealedInv, NEW c \in Clients, conns[c].st = "open", NEW l, l = Last(c),
           up[l] # <<>>, up' = Take(up, l), NEW r, r = Head(up[l]), r.type = "handshake",
           Negotiates(c, r), UNCHANGED <<ends, clients, proxy, lines, junk>>
    PROVE  SealedInv'
<1>2. TypesOK /\ ProxyOK /\ LegOK(l) /\ OwnOK(c) /\ "acceptor" \in ends[l]
  BY SealedInvIs, LegIs DEF OwnOK, ConnOK
<1>3. /\ l \in Legs /\ up[l] \in Seq(UpRecord) /\ down[l] \in Seq(DownRecord)
      /\ conns[c] \in ConnType /\ conns[c].sess \in SessionType
      /\ DownFits(l, down[l], TRUE, conns[c].sess, Runs(l), Dialler(l))
      /\ UpFits(l, up[l], ~Altered(l)
         /\ (conns[c].st \in {"none", "open"} \/ conns[c].sess.up),
                conns[c].sess, Runs(l), Dialler(l), Strange(l))
      /\ DownVals(l, down[l]) /\ UpVals(l, up[l])
      /\ KeysFit(l, conns[c].sess, conns[c].hs, Dialler(l))
      /\ clients[c].st # "off" /\ (c \in Victims => ~Undialled(c) /\ FarOK(c))
      /\ ProcessOK(c) /\ ConnOK(c)
  BY <1>2, ConnKnown
<1>4. ~conns[c].sess.up /\ byName' = byName
  BY <1>2, NegotiatesIs
<1>5. PICK p : /\ Fails(c, l, p) \/ Answers(c, l, p) \/ Completes(c, l, p)
               /\ conns' = [conns EXCEPT ![c] = p]
  BY <1>2, NegotiatesIs
<1>6. conns'[c] = p
  BY <1>2, <1>5 DEF TypesOK
<1>7. up'[l] = Tail(up[l]) /\ UpVals(l, up'[l]) /\ r \in UpRecord
  BY <1>2, <1>3, TakesOne, ValsTaken
<1>8. conns[c].sess = NoSession /\ conns[c].sess.tx = 0 /\ conns[c].sess.rx = 0
      /\ conns[c].sess.skipped = 0 /\ conns[c].user = NoName
  BY <1>3, <1>4, Sessions DEF KeysFit, ConnOK
<1>9. /\ FeedAnswers(conns[c].hs, r) => r.val = l
      /\ FeedCompletes(conns[c].hs, r) => r.val = Pub(l, "client")
      /\ c \in Victims =>
           \/ FeedAnswers(conns[c].hs, r) /\ up[l] = <<Hello(l)>> /\ down[l] = <<>>
           \/ FeedCompletes(conns[c].hs, r) /\ r = Kex(l)
  <2>1. conns[c].hs \in HandshakeType
    BY <1>3 DEF ConnType
  <2> QED BY <1>2, <1>3, <1>4, <2>1, HeadOfExchange
<1>10. \A a2 : a2.rx = 0 => UpFits(l, up'[l], ~Altered(l), a2, Runs(l), Dialler(l), Strange(l))
  <2>1. UpFits(l, up[l], ~Altered(l), conns[c].sess, Runs(l), Dialler(l), Strange(l))
    BY <1>3 DEF UpFits
  <2> QED BY <1>3, <1>7, <2>1, UpHeard
<1>11. ~Undialled(c)' = ~Undialled(c) /\ Victim' = Victim
  BY DEF Undialled, Victim
<1>12. ProcessOK(c)'
  BY <1>3 DEF ProcessOK
<1>13. ASSUME NEW w \in Seq(DownRecord), down' = [down EXCEPT ![l] = w], p \in ConnType,
              p.user = conns[c].user, p.st = "open", p.sess.up <=> p.hs.step = "Complete",
              p.sess.rx = 0, DownFits(l, w, TRUE, p.sess, Runs(l), Dialler(l)), DownVals(l, w),
              KeysFit(l, p.sess, p.hs, Dialler(l)), c \in Victims => FarOK(c)'
       PROVE  SealedInv'
  <2>1. down'[l] = w
    BY <1>2, <1>3, <1>13 DEF TypesOK
  <2>2. UpFits(l, up'[l], ~Altered(l) /\ (p.st \in {"none", "open"} \/ p.sess.up),
               p.sess, Runs(l), Dialler(l), Strange(l))
    BY <1>10, <1>13 DEF UpFits
  <2>3. LegOK(l)'
    BY <1>2, <1>6, <1>7, <1>13, <2>1, <2>2, LegOfConn
  <2>4. ConnOK(c)'
    BY <1>2, <1>6, <1>8, <1>13 DEF ConnOK
  <2>5. OwnOK(c)'
    BY <1>12, <1>13, <2>4 DEF OwnOK
  <2>6. up' = up \/ (up[l] # <<>> /\ up' = Take(up, l))
    OBVIOUS
  <2>7. UNCHANGED <<ends, clients, byName, proxy, lines, junk>>
    BY <1>4
  <2> QED BY <1>5, <1>13, <2>3, <2>5, <2>6, <2>7, OneKeeps
<1>14. CASE Fails(c, l, p)
  <2>1. FeedFails(conns[c].hs, r) /\ p = [conns[c] EXCEPT !.want = TRUE]
        /\ down' = [down EXCEPT ![l] = Append(down[l], Alert)]
    BY <1>14 DEF Fails
  <2>2. /\ p \in ConnType /\ p.user = conns[c].user /\ p.st = conns[c].st
        /\ p.hs = conns[c].hs /\ p.sess = conns[c].sess
    BY <1>3, <2>1 DEF ConnType
  <2>3. Alert \in DownRecord /\ Alert.type = "alert"
    BY <1>3, ExchangeRecords
  <2>4. PICK w : w = Append(down[l], Alert)
    OBVIOUS
  <2>5. w \in Seq(DownRecord) /\ DownVals(l, w)
        /\ DownFits(l, w, TRUE, p.sess, Runs(l), Dialler(l))
    <3>1. w \in Seq(DownRecord)
      BY <1>3, <2>3, <2>4, OneMore
    <3>2. DownVals(l, w)
      BY <1>3, <2>3, <2>4, ValsMore
    <3>3. DownFits(l, w, TRUE, p.sess, Runs(l), Dialler(l))
      BY <1>3, <1>8, <2>2, <2>3, <2>4, DownExchanged
    <3> QED BY <3>1, <3>2, <3>3
  <2>6. ASSUME c \in Victims PROVE FarOK(c)'
    <3>1. FeedAnswers(conns[c].hs, r) /\ up[l] = <<Hello(l)>> /\ down[l] = <<>>
      BY <1>9, <2>1, <2>6 DEF FeedFails, FeedAnswers, FeedCompletes
    <3>2. w = <<Alert>> /\ down'[l] = w /\ up'[l] = <<>>
      BY <1>2, <1>3, <1>7, <2>1, <2>4, <3>1, OnlyOne DEF TypesOK
    <3>3. \A i \in DOMAIN w : w[i].type # "handshake"
      BY <2>3, <3>2
    <3>4. l = Far(c) /\ FarOK(c) /\ ~Undialled(c)
      BY <1>3, <2>6, LegIs
    <3>5. conns'[c].hs.step = "AwaitClientHello"
      BY <1>6, <2>2, <3>1 DEF FeedAnswers
    <3> QED BY <1>2, <1>6, <1>11, <2>2, <3>2, <3>3, <3>4, <3>5 DEF FarOK
  <2>7. p.sess.up <=> p.hs.step = "Complete"
    BY <1>3, <2>2 DEF ConnOK
  <2> QED BY <1>3, <1>8, <1>13, <2>1, <2>2, <2>4, <2>5, <2>6, <2>7
<1>15. CASE Answers(c, l, p)
  <2>1. FeedAnswers(conns[c].hs, r) /\ p = [conns[c] EXCEPT !.hs = Answered(r)]
        /\ down' = [down EXCEPT ![l] = Append(down[l], Hs("ServerKex", Pub(l, "server")))]
    BY <1>15 DEF Answers
  <2>2. PICK h : h = Answered(r)
    OBVIOUS
  <2>3. h \in HandshakeType /\ h.step = "AwaitClientKex" /\ h.random = l
    BY <1>3, <1>9, <2>1, <2>2 DEF Answered, HandshakeType
  <2>4. /\ p \in ConnType /\ p.user = conns[c].user /\ p.st = conns[c].st
        /\ p.hs = h /\ p.sess = conns[c].sess
    BY <1>3, <2>1, <2>2, <2>3, HsIs
  <2>5. PICK k : k = Hs("ServerKex", Pub(l, "server"))
    OBVIOUS
  <2>6. k \in DownRecord /\ k.type = "handshake" /\ k.val = Pub(l, "server")
    BY <1>3, <2>5, ExchangeRecords
  <2>7. PICK w : w = Append(down[l], k)
    OBVIOUS
  <2>8. w \in Seq(DownRecord) /\ DownVals(l, w)
        /\ DownFits(l, w, TRUE, p.sess, Runs(l), Dialler(l))
    <3>1. w \in Seq(DownRecord)
      BY <1>3, <2>6, <2>7, OneMore
    <3>2. DownVals(l, w)
      BY <1>3, <2>6, <2>7, ValsMore
    <3>3. DownFits(l, w, TRUE, p.sess, Runs(l), Dialler(l))
      BY <1>3, <1>8, <2>4, <2>6, <2>7, DownExchanged
    <3> QED BY <3>1, <3>2, <3>3
  <2>9. ASSUME c \in Victims PROVE FarOK(c)'
    <3>1. up[l] = <<Hello(l)>> /\ down[l] = <<>>
      BY <1>9, <2>1, <2>9 DEF FeedAnswers, FeedCompletes
    <3>2. w = <<k>> /\ down'[l] = w /\ up'[l] = <<>>
      BY <1>2, <1>3, <1>7, <2>1, <2>5, <2>7, <3>1, OnlyOne DEF TypesOK
    <3>3. DOMAIN w = {1}
      BY <3>2
    <3>4. l = Far(c) /\ FarOK(c) /\ ~Undialled(c)
      BY <1>3, <2>9, LegIs
    <3>5. conns'[c].hs.step = "AwaitClientKex"
      BY <1>6, <2>3, <2>4
    <3>6. Victim = c => proxy.st = "server"
      <4>1. Victim = c => proxy.st # "pump"
        BY <1>2, <1>9, <2>1, <3>4 DEF FarOK, FeedAnswers
      <4>2. Victim = c => proxy.st \notin {"victim", "dial"}
        BY <3>4 DEF Undialled
      <4>3. Victim = c => proxy.st # "accept"
        BY <1>2, SealedChatAssumption DEF ProxyOK
      <4>4. proxy.st \in {"accept", "victim", "dial", "server", "pump"}
        BY <1>2 DEF TypesOK, ProxyType
      <4> QED BY <4>1, <4>2, <4>3, <4>4
    <3> QED BY <1>2, <1>6, <1>11, <2>4, <3>2, <3>3, <3>4, <3>5, <3>6 DEF FarOK
  <2>10. (p.sess.up <=> p.hs.step = "Complete") /\ KeysFit(l, p.sess, p.hs, Dialler(l))
    BY <1>3, <1>4, <2>3, <2>4 DEF ConnOK, KeysFit
  <2> QED BY <1>8, <1>13, <2>1, <2>4, <2>5, <2>7, <2>8, <2>9, <2>10
<1>16. CASE Completes(c, l, p)
  <2>1. FeedCompletes(conns[c].hs, r)
        /\ p = [conns[c] EXCEPT !.hs.step = "Complete",
                                !.sess = Install(ServerKeys(conns[c].hs, l, r), "Server")]
        /\ down' = [down EXCEPT ![l] = down[l]]
    BY <1>16 DEF Completes
  <2>2. PICK s : s = Install(ServerKeys(conns[c].hs, l, r), "Server")
    OBVIOUS
  <2>3. ServerKeys(conns[c].hs, l, r) = KeysOf(l)
    BY <1>3, <1>9, <2>1 DEF ServerKeys, KeysOf, KeysFit, FeedCompletes
  <2>4. /\ s \in SessionType /\ s.up /\ s.keys = KeysOf(l) /\ s.role = "Server"
        /\ s.tx = 0 /\ s.rx = 0 /\ s.skipped = 0
    BY <1>3, <2>2, <2>3, Installs
  <2>5. /\ p \in ConnType /\ p.user = conns[c].user /\ p.st = conns[c].st
        /\ p.hs.step = "Complete" /\ p.sess = s
    <3>1. p = [conns[c] EXCEPT !.hs.step = "Complete", !.sess = s]
      BY <2>1, <2>2
    <3>2. PICK o : o = conns[c]
      OBVIOUS
    <3>3. o \in ConnType /\ s \in SessionType
          /\ p = [o EXCEPT !.hs.step = "Complete", !.sess = s]
      BY <1>3, <2>4, <3>1, <3>2
    <3>4. /\ p \in ConnType /\ p.hs.step = "Complete" /\ p.st = o.st /\ p.sess = s
          /\ p.user = o.user
      BY ONLY <3>3 DEF ConnType, HandshakeType
    <3> QED BY <3>2, <3>4
  <2>6. DownFits(l, down[l], TRUE, s, Runs(l), Dialler(l))
    BY <1>3, <1>8, <2>4, DownLess, ZenonT(30)
  <2>7. ASSUME c \in Victims PROVE FarOK(c)'
    <3>1. l = Far(c) /\ FarOK(c) /\ ~Undialled(c)
      BY <1>3, <2>7, LegIs
    <3>2. down'[l] = down[l]
      BY <1>2, <1>3, <2>1 DEF TypesOK
    <3>3. ~(Victim = c /\ proxy.st = "server")
      BY <1>2, <2>1, <3>1 DEF FarOK, FeedCompletes
    <3> QED BY <1>6, <1>11, <2>5, <3>1, <3>2, <3>3 DEF FarOK
  <2>8. KeysFit(l, p.sess, p.hs, Dialler(l)) /\ (p.sess.up <=> p.hs.step = "Complete")
    BY <1>3, <2>4, <2>5 DEF KeysFit
  <2> QED BY <1>3, <1>13, <2>1, <2>4, <2>5, <2>6, <2>7, <2>8
<1> QED BY <1>5, <1>14, <1>15, <1>16

\* A record.
LEMMA DrainKeeps ==
    ASSUME SealedInv, NEW c \in Clients, DrainRecord(c)
    PROVE  SealedInv'
<1>1. PICK r : r = Head(up[Last(c)])
  OBVIOUS
<1>2. /\ conns[c].st = "open" /\ up[Last(c)] # <<>> /\ up' = Take(up, Last(c))
      /\ UNCHANGED <<ends, clients, proxy, lines, junk>>
  BY DEF DrainRecord
<1>3. CASE Rejected(c, r) /\ Dooms(c)
  BY <1>1, <1>2, <1>3, DoomsKeeps
<1>4. CASE r.type = "handshake" /\ Negotiates(c, r)
  BY <1>1, <1>2, <1>4, NegotiatesKeeps
<1>5. CASE /\ Opens(conns[c].sess, r)
           /\ HandleLine([Now EXCEPT !.conns[c].sess = Opened(@)], c, r.line)
  BY <1>1, <1>2, <1>5, LineKeeps
<1> QED BY <1>1, <1>3, <1>4, <1>5 DEF DrainRecord

\* A connection accepted, closed by the other side, or flushed.
LEMMA OtherStagesKeep ==
    ASSUME SealedInv, NEW c \in Clients, AcceptNew(c) \/ PeerClosed(c) \/ Quit(c)
    PROVE  SealedInv'
<1>1. ConnOK(c)
  BY DEF SealedInv
<1>2. CASE AcceptNew(c)
  BY <1>2, StagesKeep DEF AcceptNew
<1>3. CASE PeerClosed(c)
  BY <1>1, <1>3, StagesKeep DEF PeerClosed, Dooms, ConnOK
<1>4. CASE Quit(c)
  BY <1>1, <1>4, StagesKeep DEF Quit, ConnOK
<1> QED BY <1>2, <1>3, <1>4

-----------------------------------------------------------------------------
(* Connections dropped. *)

\* A connection is gone, and the others are told so.
Dropped(c) ==
    /\ conns'[c] = NoConn
    /\ \E k \in 0 .. Len(down[Last(c)]) : down'[Last(c)] = SubSeq(down[Last(c)], 1, k)
    /\ \A x \in Clients \ {c} :
        IF Registered(c) /\ Registered(x)
        THEN SameUser(x) /\ Grows(x, conns[x].sess, Line("left", conns[c].user, 0))
        ELSE conns'[x] = conns[x] /\ down'[Last(x)] = down[Last(x)]

\* What is told when a connection is dropped.
LEMMA DropEffect ==
    ASSUME TypesOK, \A x \in Clients : ConnOK(x), NEW c \in Clients, DropConn(c)
    PROVE  Dropped(c) /\ Shape
<1>1. /\ conns \in [Clients -> ConnType] /\ down \in [Legs -> Seq(DownRecord)]
      /\ conns[c].user \in Names \cup {NoName} /\ Last(c) \in Legs
      /\ Len(down[Last(c)]) \in Nat
  BY LegIs DEF TypesOK, ConnType
<1>2. PICK told : told = IF Registered(c)
                         THEN Broadcast(Now, Line("left", conns[c].user, 0), c) ELSE Now
  OBVIOUS
<1>3. PICK k \in 0 .. Len(down[Last(c)]) :
        /\ conns' = [told.conns EXCEPT ![c] = NoConn]
        /\ down' = [told.down EXCEPT ![Last(c)] = SubSeq(told.down[Last(c)], 1, k)]
  <2>1. \A k \in (IF conns[c].st = "flushed" THEN {}
        ELSE 0 .. Len(down[Last(c)])) \cup {Len(down[Last(c)])} :
            k \in 0 .. Len(down[Last(c)])
    BY <1>1
  <2> QED BY <1>2, <2>1 DEF DropConn
<1>4. \A x \in Clients \ {c} : Last(x) \in Legs /\ Last(x) # Last(c)
  BY LegIs
<1>5. \A l \in Legs : ~AtRelay(l) => l # Last(c)
  BY LegIs
<1>6. CASE ~Registered(c)
  <2>1. told.conns = conns /\ told.down = down
    BY <1>2, <1>6 DEF Now
  <2>2. conns'[c] = NoConn /\ down'[Last(c)] = SubSeq(down[Last(c)], 1, k)
        /\ \A x \in Clients \ {c} : conns'[x] = conns[x] /\ down'[Last(x)] = down[Last(x)]
    BY <1>1, <1>3, <1>4, <2>1
  <2>3. Shape
    BY <1>1, <1>3, <1>5, <2>1 DEF Shape
  <2> QED BY <1>6, <2>2, <2>3 DEF Dropped
<1>7. CASE Registered(c)
  <2>1. PICK line : line = Line("left", conns[c].user, 0)
    OBVIOUS
  <2>2. line \in Told
    <3>1. 0 \in 0 .. MaxLines
      BY SealedChatAssumption
    <3> QED BY <1>1, <2>1, <3>1, RelayLines
  <2>3. PICK whom : whom = {x \in Clients \ {c} : Registered(x)}
    OBVIOUS
  <2>4. told = SendLines(Now, whom, line)
    BY <1>2, <1>7, <2>1, <2>3 DEF Broadcast
  <2>5. Now.conns = conns /\ Now.down = down
    BY DEF Now
  <2>6. PICK st : st = Now
    OBVIOUS
  <2>7. /\ told.conns = [x \in Clients |-> told.conns[x]]
        /\ told.down = [l \in Legs |-> told.down[l]]
        /\ \A l \in Legs : ~AtRelay(l) => told.down[l] = st.down[l]
    BY <2>4, <2>6, SendsShape
  <2>8. \A x \in Clients :
          /\ told.conns[x] = IF x \in whom THEN AfterLine(st.conns[x]) ELSE st.conns[x]
          /\ told.down[Last(x)] = IF x \in whom
                                  THEN st.down[Last(x)] \o Queued(st.conns[x], line)
                                  ELSE st.down[Last(x)]
    BY <2>4, <2>6, SendsIs
  <2>9. c \notin whom
    BY <2>3
  <2>10. conns'[c] = NoConn /\ down'[Last(c)] = SubSeq(down[Last(c)], 1, k)
    <3>1. told.down[Last(c)] = down[Last(c)]
      BY <2>5, <2>6, <2>8, <2>9
    <3> QED BY <1>1, <1>3, <2>7, <3>1
  <2>11. \A x \in Clients \ {c} : conns'[x] = told.conns[x]
         /\ down'[Last(x)] = told.down[Last(x)]
    BY <1>3, <1>4, <2>7
  <2>12. ASSUME NEW x \in Clients \ {c}, Registered(x)
         PROVE  SameUser(x) /\ Grows(x, conns[x].sess, line)
    <3>1. x \in whom /\ conns[x].sess.up /\ conns[x] \in ConnType
      BY <1>1, <2>3, <2>12 DEF ConnOK, Registered
    <3>2. /\ conns'[x] = AfterLine(conns[x])
          /\ down'[Last(x)] = down[Last(x)] \o Queued(conns[x], line)
      BY <2>5, <2>6, <2>8, <2>11, <3>1
    <3> QED BY <2>2, <3>1, <3>2, GrowsFrom DEF SameUser
  <2>13. ASSUME NEW x \in Clients \ {c}, ~Registered(x)
         PROVE  conns'[x] = conns[x] /\ down'[Last(x)] = down[Last(x)]
    BY <2>3, <2>5, <2>6, <2>8, <2>11, <2>13
  <2>14. Shape
    <3>1. \A l \in Legs : ~AtRelay(l) => down'[l] = told.down[l] /\ told.down[l] = down[l]
      BY <1>3, <1>5, <2>5, <2>6, <2>7
    <3> QED BY <1>3, <2>7, <3>1 DEF Shape
  <2> QED BY <1>7, <2>1, <2>10, <2>12, <2>13, <2>14 DEF Dropped
<1> QED BY <1>6, <1>7

\* The name of the one who left is free, and no other.
LEMMA DropNames ==
    ASSUME TypesOK, NamesInverse, NEW c \in Clients,
           byName' = [n \in Names |-> IF byName[n] = c THEN NoClient ELSE byName[n]],
           conns'[c].user = NoName, \A x \in Clients \ {c} : SameUser(x)
    PROVE  NamesInverse' /\ byName' \in [Names -> Clients \cup {NoClient}]
<1>1. byName \in [Names -> Clients \cup {NoClient}]
  BY DEF TypesOK
<1>2. byName' \in [Names -> Clients \cup {NoClient}]
  BY <1>1
<1>3. \A n \in Names : byName'[n] = IF byName[n] = c THEN NoClient ELSE byName[n]
  OBVIOUS
<1>4. ASSUME NEW n \in Names, byName'[n] # NoClient
      PROVE  conns'[byName'[n]].user = n
  <2>1. byName'[n] = byName[n] /\ byName[n] \in Clients \ {c}
    BY <1>1, <1>3, <1>4
  <2>2. conns[byName[n]].user = n
    BY <1>4, <2>1 DEF NamesInverse
  <2> QED BY <2>1, <2>2 DEF SameUser
<1>5. ASSUME NEW x \in Clients, conns'[x].user # NoName
      PROVE  conns'[x].user \in Names /\ byName'[conns'[x].user] = x
  <2>1. x # c /\ conns[x].user = conns'[x].user
    BY <1>5 DEF SameUser
  <2>2. conns[x].user \in Names /\ byName[conns[x].user] = x
    BY <1>5, <2>1 DEF NamesInverse, Registered
  <2> QED BY <1>3, <2>1, <2>2
<1>6. PICK names : names = byName'
  OBVIOUS
<1>7. NamesInverse'
  <2>1. \A n \in Names : names[n] # NoClient => conns'[names[n]].user = n
    BY <1>4, <1>6
  <2>2. \A x \in Clients : conns'[x].user # NoName =>
            conns'[x].user \in Names /\ names[conns'[x].user] = x
    BY <1>5, <1>6
  <2> QED BY ONLY <1>6, <2>1, <2>2 DEF NamesInverse, Registered
<1> QED BY <1>2, <1>7

\* A connection whose relay does not hold it any more.
LEMMA LostKeeps ==
    ASSUME TypesOK, NEW x \in Clients, LegOK(Last(x)), OwnOK(x), "acceptor" \in ends[Last(x)],
           clients' = clients, proxy' = proxy, up' = up, conns'[x] = NoConn,
           ends' = [ends EXCEPT ![Last(x)] = @ \ {"acceptor"}],
           NEW k \in 0 .. Len(down[Last(x)]), down'[Last(x)] = SubSeq(down[Last(x)], 1, k)
    PROVE  StaysOK(x)
<1>1. PICK l : l = Last(x)
  OBVIOUS
<1>2. LegOK(l) /\ "acceptor" \in ends[l]
  BY <1>1
<1>3. /\ l \in Legs /\ up[l] \in Seq(UpRecord) /\ down[l] \in Seq(DownRecord)
      /\ DownFits(l, down[l], TRUE, conns[x].sess, Runs(l), Dialler(l))
      /\ DownVals(l, down[l]) /\ UpVals(l, up[l])
      /\ KeysFit(l, conns[x].sess, conns[x].hs, Dialler(l))
      /\ clients[x].st # "off" /\ (x \in Victims => ~Undialled(x) /\ FarOK(x))
      /\ ProcessOK(x) /\ ConnOK(x)
  BY <1>1, <1>2, ConnKnown
<1>4. "acceptor" \notin ends'[l] /\ \A m \in Legs \ {l} : ends'[m] = ends[m]
  BY <1>1, <1>3 DEF TypesOK
<1>5. PICK w : w = down'[l]
  OBVIOUS
<1>6. w \in Seq(DownRecord) /\ (\A i \in DOMAIN w : i \in DOMAIN down[l] /\ w[i] = down[l][i])
  <2>1. /\ w = SubSeq(down[l], 1, k) /\ k \in 0 .. Len(down[l])
    BY <1>1, <1>5
  <2> QED BY <1>3, <2>1, CutShort
<1>7. DownVals(l, w) /\ DownFits(l, w, FALSE, NoSession, Runs(l), Dialler(l))
  BY <1>1, <1>3, <1>5, ValsCut, DownCut
<1>8. /\ Held(l)' = FALSE /\ Hears(l)' = FALSE /\ Runs(l)' = Runs(l)
      /\ Dialler(l)' = Dialler(l) /\ Strange(l)' = Strange(l)
  BY <1>1, <1>4, LegIs DEF Held, Hears, Runs, Dialler, Strange, Victim, AtRelay
<1>9. Acceptor(l)' = NoSession /\ AcceptorStep(l)' = NewHandshake
  BY <1>1, LegIs, ConnTypes DEF Acceptor, AcceptorStep, AtRelay, Owner
<1>10. LegOK(l)'
  <2>1. UpFits(l, up[l], FALSE, NoSession, Runs(l), Dialler(l), Strange(l))
    BY DEF UpFits
  <2>2. KeysFit(l, NoSession, NewHandshake, Dialler(l))
    BY <1>3, ConnTypes DEF KeysFit
  <2> QED BY <1>3, <1>5, <1>7, <1>8, <1>9, <2>1, <2>2 DEF LegOK, DownOK, UpOK, ValsOK, KeysOK
<1>11. ProcessOK(x)'
  BY <1>3 DEF ProcessOK
<1>12. ConnOK(x)' /\ conns'[x] \in ConnType
  BY ConnTypes, Sessions DEF ConnOK
<1>13. ASSUME x \in Victims PROVE FarOK(x)'
  <2>1. l = Far(x) /\ Near(x) \in Legs \ {l}
    BY <1>1, <1>13, LegIs
  <2>2. ~Undialled(x)' /\ Victim' = Victim
    BY <1>3, <1>4, <1>13, <2>1 DEF Undialled, Victim
  <2>3. Victim = x => \A i \in DOMAIN w : w[i].type = "handshake" => i = 1
        /\ proxy.st = "server"
    BY <1>3, <1>6, <1>13, <2>1 DEF FarOK
  <2> QED BY <1>4, <1>5, <2>1, <2>2, <2>3 DEF FarOK
<1>14. OwnOK(x)'
  BY <1>11, <1>12, <1>13 DEF OwnOK
<1> QED BY <1>1, <1>5, <1>6, <1>10, <1>12, <1>14 DEF StaysOK, Last

\* A connection that is dropped.
LEMMA DropKeeps ==
    ASSUME SealedInv, NEW c \in Clients, DropConn(c)
    PROVE  SealedInv'
<1>1. /\ TypesOK /\ ProxyOK /\ NamesInverse /\ (\A l \in Legs : LegOK(l))
      /\ \A x \in Clients : OwnOK(x) /\ ConnOK(x)
  BY SealedInvIs DEF OwnOK
<1>2. Dropped(c) /\ Shape
  BY <1>1, DropEffect
<1>3. /\ conns[c].st # "none" /\ ends' = [ends EXCEPT ![Last(c)] = @ \ {"acceptor"}]
      /\ byName' = [n \in Names |-> IF byName[n] = c THEN NoClient ELSE byName[n]]
      /\ UNCHANGED <<up, clients, proxy, lines, junk>>
  BY DEF DropConn
<1>4. /\ ends \in [Legs -> SUBSET {"dialler", "acceptor"}] /\ up \in [Legs -> Seq(UpRecord)]
      /\ Last(c) \in Legs /\ AtRelay(Last(c)) /\ "acceptor" \in ends[Last(c)]
  BY <1>1, <1>3, LegIs DEF TypesOK, ConnOK
<1>5. /\ ends' \in [Legs -> SUBSET {"dialler", "acceptor"}]
      /\ \A l \in Legs \ {Last(c)} : ends'[l] = ends[l]
  BY <1>3, <1>4
<1>6. StaysOK(c)
  <2>1. PICK k \in 0 .. Len(down[Last(c)]) : down'[Last(c)] = SubSeq(down[Last(c)], 1, k)
    BY <1>2 DEF Dropped
  <2>2. LegOK(Last(c)) /\ OwnOK(c) /\ conns'[c] = NoConn
    BY <1>1, <1>2, <1>4 DEF Dropped
  <2> QED BY <1>1, <1>3, <1>4, <2>1, <2>2, LostKeeps
<1>7. ASSUME NEW x \in Clients \ {c} PROVE StaysOK(x) /\ SameUser(x)
  <2>1. /\ LegOK(Last(x)) /\ OwnOK(x) /\ Last(x) \in Legs \ {Last(c)}
        /\ \A l \in Legs : Owner(l) = x => ends'[l] = ends[l]
    BY <1>1, <1>5, LegIs
  <2>2. CASE Registered(c) /\ Registered(x)
    <3>1. SameUser(x) /\ Grows(x, conns[x].sess, Line("left", conns[c].user, 0))
      BY <1>2, <2>2 DEF Dropped
    <3>2. "acceptor" \in ends[Last(x)]
      BY <1>1, <3>1, ConnTypes, Sessions DEF ConnOK, Grows
    <3>3. StaysOK(x)
      <4>1. ends'[Last(x)] = ends[Last(x)] /\ ends'[Near(x)] = ends[Near(x)]
        BY <2>1, LegIs
      <4> QED BY <1>1, <1>3, <2>1, <3>1, <3>2, <4>1, SentKeeps
    <3> QED BY <3>1, <3>3
  <2>3. CASE ~(Registered(c) /\ Registered(x))
    <3>1. conns'[x] = conns[x] /\ down'[Last(x)] = down[Last(x)] /\ SameUser(x)
      BY <1>2, <2>3 DEF Dropped, SameUser
    <3>2. \A l \in Legs : Owner(l) = x => up'[l] = up[l] /\ down'[l] = down[l]
          /\ ends'[l] = ends[l]
      BY <1>2, <1>3, <2>1, <3>1, LegsAre DEF Shape
    <3> QED BY <1>1, <1>3, <2>1, <3>1, <3>2, RestKeeps
  <2> QED BY <2>2, <2>3
<1>8. conns'[c].user = NoName
  BY <1>2, ConnTypes DEF Dropped
<1>9. NamesInverse' /\ byName' \in [Names -> Clients \cup {NoClient}]
  BY <1>1, <1>3, <1>7, <1>8, DropNames
<1>10. \A l \in Legs : ~AtRelay(l) => up'[l] = up[l] /\ ends'[l] = ends[l]
  BY <1>3, <1>4, <1>5
<1>11. up' \in [Legs -> Seq(UpRecord)]
  BY <1>3, <1>4
<1> QED BY <1>2, <1>3, <1>5, <1>6, <1>7, <1>9, <1>10, <1>11, RelayKeeps

\* The relay.
LEMMA RelayStep ==
    ASSUME SealedInv, Relay
    PROVE  SealedInv'
<1>1. PICK c \in Clients :
        AcceptNew(c) \/ DrainRecord(c) \/ PeerClosed(c) \/ Quit(c) \/ DropConn(c)
  BY DEF Relay
<1> QED BY <1>1, OtherStagesKeep, DrainKeeps, DropKeeps

-----------------------------------------------------------------------------
(* The steps of a client. *)

\* A leg, while the process of another leg takes a step.
LEMMA LegElsewhere ==
    ASSUME NEW l \in Legs, LegOK(l), up'[l] = up[l], down'[l] = down[l], ends'[l] = ends[l],
           IsNear(l) => clients'[Owner(l)] = clients[Owner(l)], conns' = conns, proxy' = proxy
    PROVE  LegOK(l)'
<1>1. /\ Held(l)' = Held(l) /\ Hears(l)' = Hears(l) /\ Acceptor(l)' = Acceptor(l)
      /\ AcceptorStep(l)' = AcceptorStep(l) /\ Runs(l)' = Runs(l) /\ Dialler(l)' = Dialler(l)
      /\ Strange(l)' = Strange(l)
  BY DEF Held, Hears, Altered, Acceptor, AcceptorStep, Runs, Dialler, Strange, Victim, AtRelay,
         IsNear, Owner
<1> QED BY <1>1, LegLess

\* A process that is not yet connected is no more.
Started(p) ==
    /\ p.st # "off"
    /\ p.st \notin {"keyed", "login", "on"} => p.sess = NoSession
    /\ p.st \in {"keyed", "login", "on"} => p.sess.up
    /\ p.st \in Running => p.user \in Names

\* A client changes, with what is on its own leg.
LEMMA ClientKeeps ==
    ASSUME SealedInv, NEW c \in Clients, NEW l, l = Near(c),
           NEW p \in ProcessType, Started(p), clients' = [clients EXCEPT ![c] = p],
           NEW u \in Seq(UpRecord), up' = [up EXCEPT ![l] = u],
           NEW w \in Seq(DownRecord), down' = [down EXCEPT ![l] = w],
           NEW e \in SUBSET {"dialler", "acceptor"}, ends' = [ends EXCEPT ![l] = e],
           "acceptor" \in ends[l] => "acceptor" \in e,
           "acceptor" \in e => "acceptor" \in ends[l] \/ clients[c].st = "off",
           lines' \in 0 .. MaxLines, junk' \in 0 .. MaxJunk, LegOK(l)',
           UNCHANGED <<conns, byName, proxy>>
    PROVE  SealedInv'
<1>1. /\ TypesOK /\ ProxyOK /\ NamesInverse /\ (\A k \in Legs : LegOK(k))
      /\ \A x \in Clients : OwnOK(x)
  BY SealedInvIs
<1>2. l \in Legs /\ Owner(l) = c /\ IsNear(l)
  BY LegIs
<1>3. /\ up \in [Legs -> Seq(UpRecord)] /\ down \in [Legs -> Seq(DownRecord)]
      /\ clients \in [Clients -> ProcessType]
      /\ ends \in [Legs -> SUBSET {"dialler", "acceptor"}]
  BY <1>1 DEF TypesOK
<1>4. /\ \A k \in Legs \ {l} : up'[k] = up[k] /\ down'[k] = down[k] /\ ends'[k] = ends[k]
      /\ up'[l] = u /\ down'[l] = w /\ ends'[l] = e
  BY <1>2, <1>3
<1>5. clients'[c] = p /\ \A x \in Clients \ {c} : clients'[x] = clients[x]
  BY <1>3
<1>6. TypesOK'
  BY <1>1, <1>3 DEF TypesOK
<1>7. ASSUME NEW k \in Legs PROVE LegOK(k)'
  <2>1. CASE k = l
    BY <2>1
  <2>2. CASE k # l
    <3>1. IsNear(k) => Owner(k) \in Clients \ {c}
      BY <2>2, LegsAre
    <3> QED BY <1>1, <1>4, <1>5, <2>2, <3>1, LegElsewhere
  <2> QED BY <2>1, <2>2
<1>8. ASSUME NEW x \in Clients \ {c} PROVE OwnOK(x)'
  <2>1. \A k \in Legs : Owner(k) = x => up'[k] = up[k] /\ down'[k] = down[k]
        /\ ends'[k] = ends[k]
    BY <1>2, <1>4
  <2> QED BY <1>1, <1>5, <2>1, OwnSame
<1>9. OwnOK(c)'
  <2>1. OwnOK(c) /\ ConnOK(c)
    BY <1>1 DEF OwnOK
  <2>2. ProcessOK(c)'
    BY <1>5 DEF ProcessOK, Started
  <2>3. "acceptor" \in ends[Last(c)] => "acceptor" \in ends'[Last(c)]
    BY <1>4, LegIs
  <2>4. ConnOK(c)'
    BY <2>1, <2>3 DEF ConnOK
  <2>5. ASSUME c \in Victims PROVE FarOK(c)'
    <3>1. Far(c) \in Legs \ {l}
      BY <2>5, LegIs
    <3>2. Undialled(c)' => Undialled(c)
      BY <1>4, <1>5 DEF Undialled, Victim, Started
    <3>3. Victim' = Victim
      BY DEF Victim
    <3>4. /\ up'[Far(c)] = up[Far(c)] /\ down'[Far(c)] = down[Far(c)]
          /\ ends'[Far(c)] = ends[Far(c)] /\ FarOK(c)
      BY <1>4, <2>1, <2>5, <3>1 DEF OwnOK
    <3> QED BY <3>2, <3>3, <3>4 DEF FarOK
  <2> QED BY <2>2, <2>4, <2>5 DEF OwnOK
<1>10. \A x \in Clients : OwnOK(x)'
  BY <1>8, <1>9
<1>11. ProxyOK' /\ NamesInverse'
  BY <1>1 DEF ProxyOK, Victim, NamesInverse, Registered
<1>12. Victims \subseteq Clients
  BY SealedChatAssumption
<1> QED BY <1>6, <1>7, <1>10, <1>11, <1>12 DEF SealedInv, OwnOK

\* The leg of a client that changes.
LEMMA LegOfClient ==
    ASSUME NEW c \in Clients, NEW l, l = Near(c), NEW p, clients'[c] = p,
           conns' = conns, proxy' = proxy, NEW h, NEW g, Held(l)' => h, Hears(l)' => g,
           DownFits(l, down'[l], h, Acceptor(l), p.st \in Running, p.sess),
           UpFits(l, up'[l], g, Acceptor(l), p.st \in Running, p.sess, p.st = "strange"),
           DownVals(l, down'[l]), UpVals(l, up'[l]),
           KeysFit(l, Acceptor(l), AcceptorStep(l), p.sess)
    PROVE  LegOK(l)'
<1>1. /\ Runs(l)' = (p.st \in Running) /\ Dialler(l)' = p.sess
      /\ Strange(l)' = (p.st = "strange")
  BY LegIs DEF Runs, Dialler, Strange
<1>2. /\ Acceptor(l)' = Acceptor(l) /\ AcceptorStep(l)' = AcceptorStep(l)
  BY DEF Acceptor, AcceptorStep, Victim
<1>3. DownFits(l, down'[l], Held(l)', Acceptor(l), p.st \in Running, p.sess)
  BY DEF DownFits
<1>4. UpFits(l, up'[l], Hears(l)', Acceptor(l), p.st \in Running, p.sess, p.st = "strange")
  BY DEF UpFits
<1> QED BY <1>1, <1>2, <1>3, <1>4 DEF LegOK, DownOK, UpOK, ValsOK, KeysOK

\* What is known of the leg of a client that runs.
LEMMA ClientKnown ==
    ASSUME SealedInv, NEW c \in Clients, NEW l, l = Near(c)
    PROVE  /\ l \in Legs /\ up[l] \in Seq(UpRecord) /\ down[l] \in Seq(DownRecord)
           /\ up \in [Legs -> Seq(UpRecord)] /\ down \in [Legs -> Seq(DownRecord)]
           /\ ends \in [Legs -> SUBSET {"dialler", "acceptor"}]
           /\ clients \in [Clients -> ProcessType]
           /\ clients[c] \in ProcessType /\ clients[c].sess \in SessionType
           /\ Acceptor(l) \in SessionType
           /\ DownFits(l, down[l], Held(l), Acceptor(l), clients[c].st \in Running,
              clients[c].sess)
           /\ UpFits(l, up[l], Hears(l), Acceptor(l), clients[c].st \in Running,
              clients[c].sess,
                     clients[c].st = "strange")
           /\ DownVals(l, down[l]) /\ UpVals(l, up[l])
           /\ KeysFit(l, Acceptor(l), AcceptorStep(l), clients[c].sess)
           /\ ProcessOK(c) /\ IsNear(l) /\ lines \in 0 .. MaxLines /\ junk \in 0 .. MaxJunk
<1>1. TypesOK /\ LegOK(l) /\ ProcessOK(c) /\ l \in Legs /\ IsNear(l)
  BY LegIs DEF SealedInv
<1>2. /\ Runs(l) = (clients[c].st \in Running) /\ Dialler(l) = clients[c].sess
      /\ Strange(l) = (clients[c].st = "strange")
  BY LegIs DEF Runs, Dialler, Strange
<1>3. /\ DownFits(l, down[l], Held(l), Acceptor(l), Runs(l), Dialler(l))
      /\ UpFits(l, up[l], Hears(l), Acceptor(l), Runs(l), Dialler(l), Strange(l))
      /\ DownVals(l, down[l]) /\ UpVals(l, up[l])
      /\ KeysFit(l, Acceptor(l), AcceptorStep(l), Dialler(l))
  BY <1>1, LegOKIs
<1>4. /\ up[l] \in Seq(UpRecord) /\ down[l] \in Seq(DownRecord) /\ Acceptor(l) \in SessionType
  BY <1>1, EndTypes
<1>5. /\ ends \in [Legs -> SUBSET {"dialler", "acceptor"}]
      /\ clients \in [Clients -> ProcessType] /\ lines \in 0 .. MaxLines
      /\ junk \in 0 .. MaxJunk
      /\ up \in [Legs -> Seq(UpRecord)] /\ down \in [Legs -> Seq(DownRecord)]
  BY <1>1 DEF TypesOK
<1>6. clients[c] \in ProcessType /\ clients[c].sess \in SessionType
  BY <1>5 DEF ProcessType
<1> QED BY <1>1, <1>2, <1>3, <1>4, <1>5, <1>6

\* The ends of a leg that stay at the acceptor's side.
LEMMA HeldStays ==
    ASSUME NEW c \in Clients, NEW l, l = Near(c), conns' = conns, proxy' = proxy,
           "acceptor" \in ends'[l] => "acceptor" \in ends[l]
    PROVE  (Held(l)' => Held(l)) /\ (Hears(l)' => Hears(l))
BY LegIs DEF Held, Hears, Altered, Victim

\* A process that changes, on a leg whose ends are as they were.
LEMMA ProcessKeeps ==
    ASSUME SealedInv, NEW c \in Clients, NEW l, l = Near(c),
           NEW p \in ProcessType, Started(p), clients' = [clients EXCEPT ![c] = p],
           NEW u \in Seq(UpRecord), up' = [up EXCEPT ![l] = u],
           NEW w \in Seq(DownRecord), down' = [down EXCEPT ![l] = w],
           ends' = ends \/ ends' = [ends EXCEPT ![l] = @ \ {"dialler"}],
           lines' \in 0 .. MaxLines, junk' \in 0 .. MaxJunk, UNCHANGED <<conns, byName,
               proxy>>,
           DownFits(l, w, Held(l), Acceptor(l), p.st \in Running, p.sess),
           UpFits(l, u, Hears(l), Acceptor(l), p.st \in Running, p.sess, p.st = "strange"),
           DownVals(l, w), UpVals(l, u), KeysFit(l, Acceptor(l), AcceptorStep(l), p.sess)
    PROVE  SealedInv'
<1>1. /\ l \in Legs /\ up \in [Legs -> Seq(UpRecord)] /\ down \in [Legs -> Seq(DownRecord)]
      /\ ends \in [Legs -> SUBSET {"dialler", "acceptor"}]
      /\ clients \in [Clients -> ProcessType]
  BY ClientKnown
<1>2. PICK e : e = ends'[l]
  OBVIOUS
<1>3. /\ e \in SUBSET {"dialler", "acceptor"} /\ ends' = [ends EXCEPT ![l] = e]
      /\ "acceptor" \in e <=> "acceptor" \in ends[l]
  BY <1>1, <1>2
<1>4. clients'[c] = p /\ up'[l] = u /\ down'[l] = w
  BY <1>1
<1>5. (Held(l)' => Held(l)) /\ (Hears(l)' => Hears(l))
  BY <1>2, <1>3, HeldStays
<1>6. LegOK(l)'
  <2>1. /\ DownFits(l, down'[l], Held(l), Acceptor(l), p.st \in Running, p.sess)
        /\ UpFits(l, up'[l], Hears(l), Acceptor(l), p.st \in Running, p.sess, p.st = "strange")
        /\ DownVals(l, down'[l]) /\ UpVals(l, up'[l])
    BY <1>4
  <2>2. conns' = conns /\ proxy' = proxy
    OBVIOUS
  <2> QED BY <1>4, <1>5, <2>1, <2>2, LegOfClient
<1> QED BY <1>3, <1>6, ClientKeeps

\* A process that ends.
LEMMA EndsKeeps ==
    ASSUME SealedInv, NEW c \in Clients, NEW l, l = Near(c), Ends(c),
           NEW u \in Seq(UpRecord), up' = [up EXCEPT ![l] = u],
           NEW w \in Seq(DownRecord), down' = [down EXCEPT ![l] = w],
           lines' = lines, junk' = junk, UNCHANGED <<conns, byName, proxy>>,
           NEW d, DownFits(l, w, Held(l), Acceptor(l), FALSE, d),
           NEW r, NEW b, NEW t, UpFits(l, u, Hears(l), Acceptor(l), r, b, t),
           DownVals(l, w), UpVals(l, u)
    PROVE  SealedInv'
<1>1. PICK p : p = [NoProcess EXCEPT !.st = "gone"]
  OBVIOUS
<1>2. p \in ProcessType /\ p.st = "gone" /\ p.sess = NoSession
  BY <1>1, ConnTypes DEF ProcessType
<1>3. Started(p) /\ ~(p.st \in Running) /\ p.st # "strange"
  BY <1>2 DEF Started, Running
<1>4. clients' = [clients EXCEPT ![c] = p] /\ ends' = [ends EXCEPT ![l] = @ \ {"dialler"}]
  BY <1>1 DEF Ends
<1>5. DownFits(l, w, Held(l), Acceptor(l), p.st \in Running, p.sess)
  BY <1>3 DEF DownFits
<1>6. UpFits(l, u, Hears(l), Acceptor(l), p.st \in Running, p.sess, p.st = "strange")
  BY <1>3 DEF UpFits
<1>7. KeysFit(l, Acceptor(l), AcceptorStep(l), p.sess)
  BY <1>2, ClientKnown DEF KeysFit
<1>8. lines' \in 0 .. MaxLines /\ junk' \in 0 .. MaxJunk
  BY ClientKnown
<1>9. ends' = ends \/ ends' = [ends EXCEPT ![l] = @ \ {"dialler"}]
  BY <1>4
<1> QED BY <1>2, <1>3, <1>4, <1>5, <1>6, <1>7, <1>8, <1>9, ProcessKeeps

\* What is sent in the exchange.
LEMMA UpRecords ==
    ASSUME NEW l \in Legs
    PROVE  /\ Hello(l) \in UpRecord /\ Hello(l).type = "handshake" /\ UpVal(l, Hello(l))
           /\ Kex(l) \in UpRecord /\ Kex(l).type = "handshake" /\ UpVal(l, Kex(l))
<1>1. Pub(l, "client") \in ClientPubs
  BY LegKeys
<1> QED BY <1>1 DEF UpRecord, Hello, Kex, Hs, UpVal

\* A client that was off, on an empty leg.
LEMMA OffKnown ==
    ASSUME SealedInv, NEW c \in Clients, NEW l, l = Near(c), clients[c].st = "off"
    PROVE  /\ up[l] = <<>> /\ down[l] = <<>> /\ ends[l] = {} /\ clients[c].sess = NoSession
           /\ Acceptor(l) = NoSession /\ AcceptorStep(l) = NewHandshake
<1>1. ProcessOK(c)
  BY DEF SealedInv
<1>2. /\ up[l] = <<>> /\ down[l] = <<>> /\ ends[l] = {} /\ clients[c].sess = NoSession
      /\ conns[c] = NoConn /\ Victim # c
  BY <1>1 DEF ProcessOK
<1> QED BY <1>2, LegIs, ConnTypes DEF Acceptor, AcceptorStep

\* A client connects.
LEMMA ConnectKeeps ==
    ASSUME SealedInv, NEW c \in Clients, NEW n \in Names, Connect(c, n)
    PROVE  SealedInv'
<1>1. PICK l : l = Near(c)
  OBVIOUS
<1>2. /\ l \in Legs /\ up \in [Legs -> Seq(UpRecord)] /\ down \in [Legs -> Seq(DownRecord)]
      /\ clients \in [Clients -> ProcessType] /\ clients[c] \in ProcessType
      /\ ends \in [Legs -> SUBSET {"dialler", "acceptor"}]
      /\ lines \in 0 .. MaxLines /\ junk \in 0 .. MaxJunk
  BY <1>1, ClientKnown
<1>3. /\ up[l] = <<>> /\ down[l] = <<>> /\ ends[l] = {} /\ clients[c].sess = NoSession
      /\ Acceptor(l) = NoSession /\ AcceptorStep(l) = NewHandshake /\ clients[c].st = "off"
  BY <1>1, OffKnown DEF Connect
<1>4. PICK p : p = [clients[c] EXCEPT !.st = "hello", !.user = n]
  OBVIOUS
<1>5. p \in ProcessType /\ p.st = "hello" /\ p.user = n /\ p.sess = NoSession
  BY <1>2, <1>3, <1>4 DEF ProcessType
<1>6. Started(p) /\ p.st \in Running /\ p.st # "strange"
  BY <1>5 DEF Started, Running
<1>7. clients' = [clients EXCEPT ![c] = p]
  BY <1>2, <1>4 DEF Connect
<1>8. PICK u : u = <<Hello(l)>>
  OBVIOUS
<1>9. <<>> \in Seq(UpRecord) /\ <<>> \in Seq(DownRecord) /\ DOMAIN <<>> = {}
  OBVIOUS
<1>10. /\ Hello(l) \in UpRecord /\ Hello(l).type = "handshake" /\ UpVal(l, Hello(l))
  BY <1>2, UpRecords
<1>11. u = Append(<<>>, Hello(l)) /\ u \in Seq(UpRecord)
  BY <1>8, <1>9, <1>10, OneMore
<1>12. up' = [up EXCEPT ![l] = u] /\ down' = [down EXCEPT ![l] = <<>>]
  BY <1>1, <1>2, <1>3, <1>11 DEF Connect, Put
<1>13. PICK e : e = {"dialler", "acceptor"}
  OBVIOUS
<1>14. e \in SUBSET {"dialler", "acceptor"} /\ ends' = [ends EXCEPT ![l] = e]
       /\ "acceptor" \in e
  BY <1>1, <1>13 DEF Connect, Dialled
<1>15. DownFits(l, <<>>, TRUE, NoSession, p.st \in Running, p.sess)
       /\ UpFits(l, <<>>, TRUE, NoSession, p.st \in Running, p.sess, p.st = "strange")
  BY <1>5, <1>6, Sessions, FitsEmpty
<1>16. UpFits(l, u, TRUE, NoSession, p.st \in Running, p.sess, p.st = "strange")
  <2>1. NoSession \in SessionType /\ p.sess.tx = 0 /\ Hello(l).type # "appdata"
    BY <1>5, <1>10, Sessions
  <2>2. UpFits(l, Append(<<>>, Hello(l)), TRUE, NoSession, p.st \in Running, p.sess,
               p.st = "strange")
    BY <1>6, <1>9, <1>10, <1>15, <2>1, UpExchanged
  <2> QED BY <1>11, <2>2
<1>17. DownVals(l, <<>>) /\ UpVals(l, u)
  <2>1. DownVals(l, <<>>) /\ UpVals(l, <<>>)
    BY <1>9 DEF DownVals, UpVals
  <2> QED BY <1>9, <1>10, <1>11, <2>1, ValsMore
<1>18. KeysFit(l, NoSession, NewHandshake, p.sess)
  BY <1>5, ConnTypes DEF KeysFit
<1>19. clients'[c] = p /\ up'[l] = u /\ down'[l] = <<>>
  BY <1>2, <1>7, <1>12
<1>20. UNCHANGED <<conns, byName, proxy, lines, junk>> /\ conns' = conns /\ proxy' = proxy
  BY DEF Connect
<1>21. LegOK(l)'
  BY <1>1, <1>3, <1>15, <1>16, <1>17, <1>18, <1>19, <1>20, LegOfClient
<1>22. lines' \in 0 .. MaxLines /\ junk' \in 0 .. MaxJunk
  BY <1>2, <1>20
<1> QED BY <1>1, <1>3, <1>5, <1>6, <1>7, <1>9, <1>11, <1>12, <1>14, <1>20, <1>21, <1>22,
    ClientKeeps

\* A stranger connects.
LEMMA StrangerKeeps ==
    ASSUME SealedInv, NEW c \in Clients, StrangerConnects(c)
    PROVE  SealedInv'
<1>1. PICK l : l = Near(c)
  OBVIOUS
<1>2. /\ l \in Legs /\ up \in [Legs -> Seq(UpRecord)] /\ down \in [Legs -> Seq(DownRecord)]
      /\ clients \in [Clients -> ProcessType] /\ clients[c] \in ProcessType /\ IsNear(l)
      /\ ends \in [Legs -> SUBSET {"dialler", "acceptor"}]
      /\ lines \in 0 .. MaxLines /\ junk \in 0 .. MaxJunk
  BY <1>1, ClientKnown
<1>3. /\ up[l] = <<>> /\ down[l] = <<>> /\ ends[l] = {} /\ clients[c].sess = NoSession
      /\ Acceptor(l) = NoSession /\ AcceptorStep(l) = NewHandshake /\ clients[c].st = "off"
  BY <1>1, OffKnown DEF StrangerConnects
<1>4. PICK p : p = [clients[c] EXCEPT !.st = "strange"]
  OBVIOUS
<1>5. p \in ProcessType /\ p.st = "strange" /\ p.sess = NoSession
  BY <1>2, <1>3, <1>4 DEF ProcessType
<1>6. Started(p) /\ ~(p.st \in Running)
  BY <1>5 DEF Started, Running
<1>7. clients' = [clients EXCEPT ![c] = p]
  BY <1>2, <1>4 DEF StrangerConnects
<1>8. <<>> \in Seq(UpRecord) /\ <<>> \in Seq(DownRecord) /\ DOMAIN <<>> = {}
  OBVIOUS
<1>9. up' = [up EXCEPT ![l] = <<>>] /\ down' = [down EXCEPT ![l] = <<>>]
  BY <1>1, <1>2, <1>3 DEF StrangerConnects
<1>10. PICK e : e = {"dialler", "acceptor"}
  OBVIOUS
<1>11. e \in SUBSET {"dialler", "acceptor"} /\ ends' = [ends EXCEPT ![l] = e]
       /\ "acceptor" \in e
  BY <1>1, <1>10 DEF StrangerConnects, Dialled
<1>12. DownFits(l, <<>>, TRUE, NoSession, p.st \in Running, p.sess)
       /\ UpFits(l, <<>>, TRUE, NoSession, p.st \in Running, p.sess, p.st = "strange")
  BY <1>2, <1>5, <1>6, Sessions, FitsEmpty
<1>13. DownVals(l, <<>>) /\ UpVals(l, <<>>)
  BY <1>8 DEF DownVals, UpVals
<1>14. KeysFit(l, NoSession, NewHandshake, p.sess)
  BY <1>5, ConnTypes DEF KeysFit
<1>15. clients'[c] = p /\ up'[l] = <<>> /\ down'[l] = <<>>
  BY <1>2, <1>7, <1>9
<1>16. UNCHANGED <<conns, byName, proxy, lines, junk>> /\ conns' = conns /\ proxy' = proxy
  BY DEF StrangerConnects
<1>17. LegOK(l)'
  BY <1>1, <1>3, <1>12, <1>13, <1>14, <1>15, <1>16, LegOfClient
<1>18. lines' \in 0 .. MaxLines /\ junk' \in 0 .. MaxJunk
  BY <1>2, <1>16
<1> QED BY <1>1, <1>3, <1>5, <1>6, <1>7, <1>8, <1>9, <1>11, <1>16, <1>17, <1>18, ClientKeeps

\* A client takes the public value of its server.
LEMMA TakesKexKeeps ==
    ASSUME SealedInv, NEW c \in Clients, TakesKex(c)
    PROVE  SealedInv'
<1>1. PICK l : l = Near(c)
  OBVIOUS
<1>2. /\ l \in Legs /\ up[l] \in Seq(UpRecord) /\ down[l] \in Seq(DownRecord)
      /\ up \in [Legs -> Seq(UpRecord)] /\ down \in [Legs -> Seq(DownRecord)]
      /\ clients \in [Clients -> ProcessType]
      /\ clients[c] \in ProcessType /\ clients[c].sess \in SessionType
      /\ Acceptor(l) \in SessionType
      /\ DownFits(l, down[l], Held(l), Acceptor(l), clients[c].st \in Running, clients[c].sess)
      /\ UpFits(l, up[l], Hears(l), Acceptor(l), clients[c].st \in Running, clients[c].sess,
                clients[c].st = "strange")
      /\ DownVals(l, down[l]) /\ UpVals(l, up[l])
      /\ KeysFit(l, Acceptor(l), AcceptorStep(l), clients[c].sess)
      /\ ProcessOK(c) /\ lines \in 0 .. MaxLines /\ junk \in 0 .. MaxJunk
  BY <1>1, ClientKnown
<1>3. /\ clients[c].st = "hello" /\ down[l] # <<>> /\ down' = Take(down, l)
      /\ UNCHANGED <<conns, byName, proxy, lines, junk>>
  BY <1>1 DEF TakesKex
<1>4. PICK w : w = Tail(down[l])
  OBVIOUS
<1>5. /\ w \in Seq(DownRecord) /\ DownVals(l, w)
      /\ (Head(down[l]).type = "handshake" => Head(down[l]).val = Pub(l, "server"))
  BY <1>2, <1>3, <1>4, FirstTaken, ValsTaken
<1>6. down' = [down EXCEPT ![l] = w]
  BY <1>3, <1>4 DEF Take
<1>7. DownFits(l, w, Held(l), Acceptor(l), FALSE, NoSession)
  BY <1>2, <1>3, <1>4, DownLast
<1>8. clients[c].sess = NoSession /\ clients[c].st \in Running /\ clients[c].user \in Names
      /\ clients[c].st # "strange"
  BY <1>2, <1>3 DEF ProcessOK, Running
<1>9. PICK u : u = Append(up[l], Kex(l))
  OBVIOUS
<1>10. /\ Kex(l) \in UpRecord /\ Kex(l).type = "handshake" /\ UpVal(l, Kex(l))
  BY <1>2, UpRecords
<1>11. u \in Seq(UpRecord) /\ UpVals(l, u)
  BY <1>2, <1>9, <1>10, OneMore, ValsMore
<1>12. UpFits(l, up[l], Hears(l), Acceptor(l), TRUE, NoSession, FALSE)
  BY <1>2, <1>8 DEF UpFits
<1>13. \A d2 : d2.tx = 0 => UpFits(l, u, Hears(l), Acceptor(l), TRUE, d2, FALSE)
  BY <1>2, <1>9, <1>10, <1>12, Sessions, UpExchanged
<1>14. CASE Ends(c) /\ UNCHANGED up
  <2>1. up' = [up EXCEPT ![l] = up[l]]
    BY <1>2, <1>14
  <2> QED BY <1>1, <1>2, <1>3, <1>5, <1>6, <1>7, <1>12, <1>14, <2>1, EndsKeeps
<1>15. CASE Ends(c) /\ up' = Put(up, l, Kex(l))
  <2>1. up' = [up EXCEPT ![l] = u]
    BY <1>9, <1>15 DEF Put
  <2>2. UpFits(l, u, Hears(l), Acceptor(l), TRUE, NoSession, FALSE)
    BY <1>13, Sessions
  <2> QED BY <1>1, <1>3, <1>5, <1>6, <1>7, <1>11, <1>15, <2>1, <2>2, EndsKeeps
<1>16. CASE /\ IsServerKex(Head(down[l]))
            /\ clients' = [clients EXCEPT ![c].st = "keyed",
                    ![c].sess = Install(ClientKeys(l, Head(down[l])), "Client")]
            /\ up' = Put(up, l, Kex(l)) /\ UNCHANGED ends
  <2>1. Head(down[l]).type = "handshake"
    BY <1>16 DEF IsServerKex
  <2>2. PICK s : s = Install(ClientKeys(l, Head(down[l])), "Client")
    OBVIOUS
  <2>3. ClientKeys(l, Head(down[l])) = KeysOf(l)
    BY <1>5, <2>1 DEF ClientKeys, KeysOf
  <2>4. /\ s \in SessionType /\ s.up /\ s.keys = KeysOf(l) /\ s.role = "Client"
        /\ s.tx = 0 /\ s.rx = 0
    BY <1>2, <2>2, <2>3, Installs
  <2>5. PICK p : p = [clients[c] EXCEPT !.st = "keyed", !.sess = s]
    OBVIOUS
  <2>6. p \in ProcessType /\ p.st = "keyed" /\ p.user = clients[c].user /\ p.sess = s
    BY <1>2, <2>4, <2>5 DEF ProcessType
  <2>7. clients' = [clients EXCEPT ![c] = p]
    BY <1>2, <1>16, <2>2, <2>5
  <2>8. Started(p) /\ p.st \in Running /\ p.st # "strange"
    BY <1>8, <2>4, <2>6 DEF Started, Running
  <2>9. up' = [up EXCEPT ![l] = u]
    BY <1>9, <1>16 DEF Put
  <2>10. DownFits(l, w, Held(l), Acceptor(l), p.st \in Running, p.sess)
    <3>1. DownFits(l, down[l], Held(l), Acceptor(l), TRUE, NoSession)
      BY <1>2, <1>8 DEF DownFits
    <3>2. DownFits(l, w, Held(l), Acceptor(l), TRUE, s)
      BY <1>2, <1>3, <1>4, <2>1, <2>4, <3>1, DownHeard
    <3> QED BY <2>6, <3>2 DEF DownFits
  <2>11. UpFits(l, u, Hears(l), Acceptor(l), p.st \in Running, p.sess, p.st = "strange")
    <3>1. UpFits(l, u, Hears(l), Acceptor(l), TRUE, s, FALSE)
      BY <1>13, <2>4
    <3> QED BY <2>6, <2>8, <3>1 DEF UpFits
  <2>12. KeysFit(l, Acceptor(l), AcceptorStep(l), p.sess)
    BY <1>2, <2>4, <2>6 DEF KeysFit
  <2>13. lines' \in 0 .. MaxLines /\ junk' \in 0 .. MaxJunk /\ ends' = ends
         /\ UNCHANGED <<conns, byName, proxy>>
    BY <1>2, <1>3, <1>16
  <2> QED BY <1>1, <1>5, <1>6, <1>11, <2>6, <2>7, <2>8, <2>9, <2>10, <2>11, <2>12, <2>13,
      ProcessKeeps
<1> QED BY <1>1, <1>14, <1>15, <1>16 DEF TakesKex

\* A client seals a line.
LEMMA SealsLine ==
    ASSUME SealedInv, NEW c \in Clients, NEW l, l = Near(c),
           clients[c].st \in {"keyed", "login", "on"}, NEW line \in Asked, NEW u,
           u = Append(up[l], Sealed(clients[c].sess, line)), NEW s,
               s = Counted(clients[c].sess)
    PROVE  /\ u \in Seq(UpRecord) /\ UpVals(l, u) /\ s \in SessionType /\ s.up
           /\ UpFits(l, u, Hears(l), Acceptor(l), TRUE, s, FALSE)
           /\ DownFits(l, down[l], Held(l), Acceptor(l), TRUE, s)
           /\ KeysFit(l, Acceptor(l), AcceptorStep(l), s)
<1>1. /\ l \in Legs /\ up[l] \in Seq(UpRecord)
      /\ clients[c].sess \in SessionType /\ Acceptor(l) \in SessionType
      /\ DownFits(l, down[l], Held(l), Acceptor(l), clients[c].st \in Running, clients[c].sess)
      /\ UpFits(l, up[l], Hears(l), Acceptor(l), clients[c].st \in Running, clients[c].sess,
                clients[c].st = "strange")
      /\ UpVals(l, up[l]) /\ KeysFit(l, Acceptor(l), AcceptorStep(l), clients[c].sess)
      /\ ProcessOK(c)
  BY ClientKnown
<1>2. clients[c].sess.up /\ clients[c].st \in Running /\ clients[c].st # "strange"
  BY <1>1 DEF ProcessOK, Running
<1>3. PICK o : o = clients[c].sess
  OBVIOUS
<1>4. o \in SessionType /\ o.up /\ o.keys = KeysOf(l) /\ o.role = "Client" /\ s = Counted(o)
  BY <1>1, <1>2, <1>3, Sessions DEF KeysFit
<1>5. /\ s \in SessionType /\ s.up /\ s.keys = o.keys /\ s.role = o.role /\ s.rx = o.rx
  BY <1>4, Sessions
<1>6. PICK r : r = Sealed(o, line)
  OBVIOUS
<1>7. r \in UpRecord /\ r.type = "appdata" /\ u = Append(up[l], r)
  BY <1>3, <1>4, <1>6, SealedTyped, SealedIs DEF UpRecord
<1>8. UpFits(l, up[l], Hears(l), Acceptor(l), TRUE, o, FALSE)
  BY <1>1, <1>2, <1>3 DEF UpFits
<1>9. UpFits(l, u, Hears(l), Acceptor(l), TRUE, s, FALSE)
  <2>1. UpFits(l, Append(up[l], Sealed(o, line)), Hears(l), Acceptor(l), TRUE, Counted(o),
        FALSE)
    BY <1>1, <1>4, <1>6, <1>7, <1>8, UpSealed
  <2> QED BY <1>3, <1>4, <2>1
<1>10. DownFits(l, down[l], Held(l), Acceptor(l), TRUE, s)
  BY <1>1, <1>2, <1>3, <1>5 DEF DownFits
<1>11. u \in Seq(UpRecord) /\ UpVals(l, u)
  <2>1. UpVal(l, r)
    BY <1>7 DEF UpVal
  <2> QED BY <1>1, <1>7, <2>1, OneMore, ValsMore
<1>12. KeysFit(l, Acceptor(l), AcceptorStep(l), s)
  BY <1>1, <1>4, <1>5 DEF KeysFit
<1> QED BY <1>5, <1>9, <1>10, <1>11, <1>12

\* A client says a line and goes on.
LEMMA SaysKeeps ==
    ASSUME SealedInv, NEW c \in Clients, clients[c].st \in {"keyed", "login", "on"},
           NEW line \in Asked, Says(c, line), NEW st \in {"login", "on"},
           clients' = [clients EXCEPT ![c] = [clients[c] EXCEPT !.st = st,
                                                 !.sess = Counted(clients[c].sess)]],
           lines' \in 0 .. MaxLines, ends' = ends
    PROVE  SealedInv'
<1>1. PICK l : l = Near(c)
  OBVIOUS
<1>2. /\ l \in Legs /\ down[l] \in Seq(DownRecord) /\ DownVals(l, down[l])
      /\ up \in [Legs -> Seq(UpRecord)] /\ down \in [Legs -> Seq(DownRecord)]
      /\ clients[c] \in ProcessType /\ ProcessOK(c) /\ junk \in 0 .. MaxJunk
  BY <1>1, ClientKnown
<1>3. PICK u : u = Append(up[l], Sealed(clients[c].sess, line))
  OBVIOUS
<1>4. PICK s : s = Counted(clients[c].sess)
  OBVIOUS
<1>5. /\ u \in Seq(UpRecord) /\ UpVals(l, u) /\ s \in SessionType /\ s.up
      /\ UpFits(l, u, Hears(l), Acceptor(l), TRUE, s, FALSE)
      /\ DownFits(l, down[l], Held(l), Acceptor(l), TRUE, s)
      /\ KeysFit(l, Acceptor(l), AcceptorStep(l), s)
  BY <1>1, <1>3, <1>4, SealsLine
<1>6. PICK p : p = [clients[c] EXCEPT !.st = st, !.sess = s]
  OBVIOUS
<1>7. p \in ProcessType /\ p.st = st /\ p.user = clients[c].user /\ p.sess = s
  BY <1>2, <1>5, <1>6 DEF ProcessType
<1>8. Started(p) /\ p.st \in Running /\ p.st # "strange"
  BY <1>2, <1>5, <1>7 DEF Started, Running, ProcessOK
<1>9. clients' = [clients EXCEPT ![c] = p]
  BY <1>4, <1>6
<1>10. up' = [up EXCEPT ![l] = u] /\ down' = [down EXCEPT ![l] = down[l]]
       /\ UNCHANGED <<conns, byName, proxy>> /\ junk' = junk
  BY <1>1, <1>2, <1>3 DEF Says, Put
<1>11. DownFits(l, down[l], Held(l), Acceptor(l), p.st \in Running, p.sess)
  BY <1>5, <1>7 DEF DownFits
<1>12. UpFits(l, u, Hears(l), Acceptor(l), p.st \in Running, p.sess, p.st = "strange")
  BY <1>5, <1>7, <1>8 DEF UpFits
<1>13. junk' \in 0 .. MaxJunk /\ KeysFit(l, Acceptor(l), AcceptorStep(l), p.sess)
  BY <1>2, <1>5, <1>7, <1>10
<1> QED BY <1>1, <1>2, <1>5, <1>7, <1>8, <1>9, <1>10, <1>11, <1>12, <1>13, ProcessKeeps

\* The lines without a name.
LEMMA AskedPlain ==
    Line("WHO", NoName, 0) \in Asked /\ Line("QUIT", NoName, 0) \in Asked /\ Err \in Asked
BY DEF Asked, Line, Err

\* A client logs in.
LEMMA LoginKeeps ==
    ASSUME SealedInv, NEW c \in Clients, Login(c)
    PROVE  SealedInv'
<1>1. clients[c] \in ProcessType /\ clients \in [Clients -> ProcessType] /\ ProcessOK(c)
      /\ lines \in 0 .. MaxLines
  BY ClientKnown
<1>2. clients[c].user \in Names /\ clients[c].st = "keyed"
  BY <1>1 DEF Login, ProcessOK, Running
<1>3. PICK line : line = Line("LOGIN", clients[c].user, 0)
  OBVIOUS
<1>4. line \in Asked
  BY <1>2, <1>3 DEF Asked, Line
<1>5. Says(c, line) /\ lines' \in 0 .. MaxLines /\ ends' = ends
  BY <1>1, <1>3 DEF Login
<1>6. clients' = [clients EXCEPT ![c] = [clients[c] EXCEPT !.st = "login",
                                            !.sess = Counted(clients[c].sess)]]
  BY <1>1 DEF Login
<1> QED BY <1>2, <1>4, <1>5, <1>6, SaysKeeps

\* A client takes a line, or a last record.
LEMMA ReadsKeeps ==
    ASSUME SealedInv, NEW c \in Clients, Reads(c)
    PROVE  SealedInv'
<1>1. PICK l : l = Near(c)
  OBVIOUS
<1>2. /\ l \in Legs /\ up[l] \in Seq(UpRecord) /\ down[l] \in Seq(DownRecord)
      /\ up \in [Legs -> Seq(UpRecord)] /\ down \in [Legs -> Seq(DownRecord)]
      /\ clients \in [Clients -> ProcessType]
      /\ clients[c] \in ProcessType /\ clients[c].sess \in SessionType
      /\ Acceptor(l) \in SessionType
      /\ DownFits(l, down[l], Held(l), Acceptor(l), clients[c].st \in Running, clients[c].sess)
      /\ UpFits(l, up[l], Hears(l), Acceptor(l), clients[c].st \in Running, clients[c].sess,
                clients[c].st = "strange")
      /\ DownVals(l, down[l]) /\ UpVals(l, up[l])
      /\ KeysFit(l, Acceptor(l), AcceptorStep(l), clients[c].sess)
      /\ ProcessOK(c) /\ lines \in 0 .. MaxLines /\ junk \in 0 .. MaxJunk
  BY <1>1, ClientKnown
<1>3. /\ clients[c].st \in {"login", "on"} /\ down[l] # <<>> /\ down' = Take(down, l)
      /\ UNCHANGED <<up, conns, byName, proxy, lines, junk>>
      /\ \/ Ends(c)
         \/ /\ Opens(clients[c].sess, Head(down[l])) /\ ends' = ends
            /\ clients' = [clients EXCEPT ![c].st = "on", ![c].sess = Opened(@)]
  BY <1>1 DEF Reads
<1>4. PICK w : w = Tail(down[l])
  OBVIOUS
<1>5. w \in Seq(DownRecord) /\ DownVals(l, w)
  BY <1>2, <1>3, <1>4, FirstTaken, ValsTaken
<1>6. down' = [down EXCEPT ![l] = w] /\ up' = [up EXCEPT ![l] = up[l]]
  BY <1>2, <1>3, <1>4 DEF Take
<1>7. clients[c].sess.up /\ clients[c].st \in Running /\ clients[c].user \in Names
      /\ clients[c].st # "strange"
  BY <1>2, <1>3 DEF ProcessOK, Running
<1>8. DownFits(l, down[l], Held(l), Acceptor(l), TRUE, clients[c].sess)
      /\ UpFits(l, up[l], Hears(l), Acceptor(l), TRUE, clients[c].sess, FALSE)
  BY <1>2, <1>7 DEF DownFits, UpFits
<1>9. CASE Ends(c)
  <2>1. DownFits(l, w, Held(l), Acceptor(l), FALSE, NoSession)
    BY <1>2, <1>3, <1>4, <1>8, DownLast
  <2> QED BY <1>1, <1>2, <1>3, <1>5, <1>6, <1>8, <1>9, <2>1, EndsKeeps
<1>10. CASE /\ Opens(clients[c].sess, Head(down[l])) /\ ends' = ends
            /\ clients' = [clients EXCEPT ![c].st = "on", ![c].sess = Opened(@)]
  <2>1. PICK s : s = Opened(clients[c].sess)
    OBVIOUS
  <2>2. /\ s \in SessionType /\ s.up /\ s.keys = clients[c].sess.keys
        /\ s.role = clients[c].sess.role /\ s.tx = clients[c].sess.tx
    BY <1>2, <1>7, <2>1, Sessions
  <2>3. Head(down[l]).type = "appdata"
    BY <1>10 DEF Opens
  <2>4. DownFits(l, w, Held(l), Acceptor(l), TRUE, s)
    BY <1>2, <1>3, <1>4, <1>8, <2>1, <2>3, DownOpens
  <2>5. PICK p : p = [clients[c] EXCEPT !.st = "on", !.sess = s]
    OBVIOUS
  <2>6. p \in ProcessType /\ p.st = "on" /\ p.user = clients[c].user /\ p.sess = s
    BY <1>2, <2>2, <2>5 DEF ProcessType
  <2>7. Started(p) /\ p.st \in Running /\ p.st # "strange"
    BY <1>7, <2>2, <2>6 DEF Started, Running
  <2>8. clients' = [clients EXCEPT ![c] = p]
    BY <1>2, <1>10, <2>1, <2>5
  <2>9. DownFits(l, w, Held(l), Acceptor(l), p.st \in Running, p.sess)
    BY <2>4, <2>6 DEF DownFits
  <2>10. UpFits(l, up[l], Hears(l), Acceptor(l), p.st \in Running, p.sess, p.st = "strange")
    BY <1>8, <2>2, <2>6, <2>7 DEF UpFits
  <2>11. KeysFit(l, Acceptor(l), AcceptorStep(l), p.sess)
    BY <1>2, <1>7, <2>2, <2>6, Sessions DEF KeysFit
  <2>12. lines' \in 0 .. MaxLines /\ junk' \in 0 .. MaxJunk
         /\ UNCHANGED <<conns, byName, proxy>>
    BY <1>2, <1>3
  <2> QED BY <1>1, <1>2, <1>5, <1>6, <1>10, <2>6, <2>7, <2>8, <2>9, <2>10, <2>11, <2>12,
             ProcessKeeps
<1> QED BY <1>3, <1>9, <1>10

\* A client ends while nothing is taken or sent.
LEMMA LeavesKeep ==
    ASSUME SealedInv, NEW c \in Clients, Ends(c), clients[c].st # "off",
           UNCHANGED <<up, down, conns, byName, proxy, lines, junk>>
    PROVE  SealedInv'
<1>1. PICK l : l = Near(c)
  OBVIOUS
<1>2. /\ l \in Legs /\ up[l] \in Seq(UpRecord) /\ down[l] \in Seq(DownRecord)
      /\ up \in [Legs -> Seq(UpRecord)] /\ down \in [Legs -> Seq(DownRecord)]
      /\ DownFits(l, down[l], Held(l), Acceptor(l), clients[c].st \in Running, clients[c].sess)
      /\ UpFits(l, up[l], Hears(l), Acceptor(l), clients[c].st \in Running, clients[c].sess,
                clients[c].st = "strange")
      /\ DownVals(l, down[l]) /\ UpVals(l, up[l])
  BY <1>1, ClientKnown
<1>3. up' = [up EXCEPT ![l] = up[l]] /\ down' = [down EXCEPT ![l] = down[l]]
  BY <1>2
<1>4. DownFits(l, down[l], Held(l), Acceptor(l), FALSE, NoSession)
  BY <1>2 DEF DownFits
<1>5. UpFits(l, up[l], Hears(l), Acceptor(l), FALSE, NoSession, FALSE)
  BY <1>2 DEF UpFits
<1>6. lines' = lines /\ junk' = junk /\ UNCHANGED <<conns, byName, proxy>>
  OBVIOUS
<1> QED BY <1>1, <1>2, <1>3, <1>4, <1>5, <1>6, EndsKeeps

\* What a user types.
LEMMA InputKeeps ==
    ASSUME SealedInv, NEW c \in Clients, HandleInput(c)
    PROVE  SealedInv'
<1>1. clients[c] \in ProcessType /\ clients \in [Clients -> ProcessType]
      /\ lines \in 0 .. MaxLines
  BY ClientKnown
<1>2. clients[c].st = "on"
  BY DEF HandleInput
<1>3. CASE /\ lines < MaxLines /\ lines' = lines + 1
           /\ \/ \E to \in Names \cup {NoName} : Says(c, Line("MSG", to, lines + 1))
              \/ Says(c, Line("WHO", NoName, 0))
           /\ clients' = [clients EXCEPT ![c].sess = Counted(@)]
           /\ UNCHANGED ends
  <2>1. lines + 1 \in 1 .. MaxLines /\ lines' \in 0 .. MaxLines
    BY <1>1, <1>3, SealedChatAssumption
  <2>2. PICK line \in Asked : Says(c, line)
    <3>1. CASE \E to \in Names \cup {NoName} : Says(c, Line("MSG", to, lines + 1))
      BY <2>1, <3>1 DEF Asked, Line
    <3>2. CASE Says(c, Line("WHO", NoName, 0))
      BY <3>2, AskedPlain
    <3> QED BY <1>3, <3>1, <3>2
  <2>3. [clients[c] EXCEPT !.sess = Counted(clients[c].sess)]
          = [clients[c] EXCEPT !.st = "on", !.sess = Counted(clients[c].sess)]
    BY <1>1, <1>2 DEF ProcessType
  <2>4. clients' = [clients EXCEPT ![c] = [clients[c] EXCEPT !.st = "on",
                                              !.sess = Counted(clients[c].sess)]]
    BY <1>1, <1>3, <2>3
  <2> QED BY <1>2, <1>3, <2>1, <2>2, <2>4, SaysKeeps
<1>4. CASE Says(c, Line("QUIT", NoName, 0)) /\ Ends(c) /\ UNCHANGED lines
  <2>1. PICK l : l = Near(c)
    OBVIOUS
  <2>2. /\ l \in Legs /\ down[l] \in Seq(DownRecord) /\ down \in [Legs -> Seq(DownRecord)]
        /\ DownVals(l, down[l])
    BY <2>1, ClientKnown
  <2>3. PICK line \in Asked : line = Line("QUIT", NoName, 0)
    BY AskedPlain
  <2>4. PICK u : u = Append(up[l], Sealed(clients[c].sess, line))
    OBVIOUS
  <2>5. PICK s : s = Counted(clients[c].sess)
    OBVIOUS
  <2>6. /\ u \in Seq(UpRecord) /\ UpVals(l, u)
        /\ UpFits(l, u, Hears(l), Acceptor(l), TRUE, s, FALSE)
        /\ DownFits(l, down[l], Held(l), Acceptor(l), TRUE, s)
    BY <1>2, <2>1, <2>4, <2>5, SealsLine
  <2>7. DownFits(l, down[l], Held(l), Acceptor(l), FALSE, NoSession)
    BY <2>6 DEF DownFits
  <2>8. up' = [up EXCEPT ![l] = u] /\ down' = [down EXCEPT ![l] = down[l]]
        /\ lines' = lines /\ junk' = junk /\ UNCHANGED <<conns, byName, proxy>>
    BY <1>4, <2>1, <2>2, <2>3, <2>4 DEF Says, Put
  <2> QED BY <1>4, <2>1, <2>2, <2>6, <2>7, <2>8, EndsKeeps
<1> QED BY <1>3, <1>4 DEF HandleInput

\* What a stranger sends: nobody has sealed it.
LEMMA StrangeRecords ==
    ASSUME NEW l \in Legs,
           NEW r \in {Hello(l), Kex(l), Hs("ClientKex", NoPub), Hs("malformed", NoPub),
               Alert, Junk}
    PROVE  r \in UpRecord /\ ~IsSealed(r) /\ UpVal(l, r)
<1>1. CASE r \in {Hello(l), Kex(l)}
  BY <1>1, UpRecords DEF IsSealed
<1>2. CASE r \in {Hs("ClientKex", NoPub), Hs("malformed", NoPub), Alert}
  BY <1>2 DEF UpRecord, Hs, Alert, IsSealed, UpVal
<1>3. CASE r = Junk
  <2>1. r \in Data(Asked)
    BY <1>3, AskedPlain, Sessions, SealedTyped DEF Junk
  <2>2. r.keys = NoKeys /\ r.type = "appdata"
    BY <1>3, SealedIs DEF Junk, NoSession
  <2> QED BY <2>1, <2>2 DEF UpRecord, IsSealed, UpVal
<1> QED BY <1>1, <1>2, <1>3

\* A stranger sends.
LEMMA StrangerSendsKeeps ==
    ASSUME SealedInv, NEW c \in Clients, StrangerSends(c)
    PROVE  SealedInv'
<1>1. PICK l : l = Near(c)
  OBVIOUS
<1>2. /\ l \in Legs /\ up[l] \in Seq(UpRecord) /\ down[l] \in Seq(DownRecord)
      /\ up \in [Legs -> Seq(UpRecord)] /\ down \in [Legs -> Seq(DownRecord)]
      /\ clients \in [Clients -> ProcessType]
      /\ clients[c] \in ProcessType /\ clients[c].sess \in SessionType
      /\ Acceptor(l) \in SessionType
      /\ DownFits(l, down[l], Held(l), Acceptor(l), clients[c].st \in Running, clients[c].sess)
      /\ UpFits(l, up[l], Hears(l), Acceptor(l), clients[c].st \in Running, clients[c].sess,
                clients[c].st = "strange")
      /\ DownVals(l, down[l]) /\ UpVals(l, up[l])
      /\ KeysFit(l, Acceptor(l), AcceptorStep(l), clients[c].sess)
      /\ ProcessOK(c) /\ lines \in 0 .. MaxLines /\ junk \in 0 .. MaxJunk
  BY <1>1, ClientKnown
<1>3. PICK r \in {Hello(l), Kex(l), Hs("ClientKex", NoPub), Hs("malformed", NoPub), Alert,
      Junk} :
        up' = Put(up, l, r)
  BY <1>1 DEF StrangerSends
<1>4. clients[c].st = "strange" /\ junk' \in 0 .. MaxJunk
      /\ UNCHANGED <<ends, down, clients, conns, byName, proxy, lines>>
  BY <1>2, SealedChatAssumption DEF StrangerSends
<1>5. r \in UpRecord /\ ~IsSealed(r) /\ UpVal(l, r)
  BY <1>2, <1>3, StrangeRecords
<1>6. PICK u : u = Append(up[l], r)
  OBVIOUS
<1>7. u \in Seq(UpRecord) /\ UpVals(l, u)
  BY <1>2, <1>5, <1>6, OneMore, ValsMore
<1>8. UpFits(l, u, Hears(l), Acceptor(l), clients[c].st \in Running, clients[c].sess, TRUE)
  <2>1. UpFits(l, up[l], Hears(l), Acceptor(l), clients[c].st \in Running, clients[c].sess,
        TRUE)
    BY <1>2, <1>4 DEF UpFits
  <2> QED BY <1>2, <1>5, <1>6, <2>1, UpStrange
<1>9. UpFits(l, u, Hears(l), Acceptor(l), clients[c].st \in Running, clients[c].sess,
             clients[c].st = "strange")
  BY <1>4, <1>8 DEF UpFits
<1>10. PICK p : p = clients[c]
  OBVIOUS
<1>11. p \in ProcessType /\ Started(p) /\ clients' = [clients EXCEPT ![c] = p]
  BY <1>2, <1>4, <1>10 DEF Started, ProcessOK, Running
<1>12. up' = [up EXCEPT ![l] = u] /\ down' = [down EXCEPT ![l] = down[l]]
  BY <1>2, <1>3, <1>4, <1>6 DEF Put
<1>13. /\ DownFits(l, down[l], Held(l), Acceptor(l), p.st \in Running, p.sess)
       /\ UpFits(l, u, Hears(l), Acceptor(l), p.st \in Running, p.sess, p.st = "strange")
       /\ KeysFit(l, Acceptor(l), AcceptorStep(l), p.sess)
  BY <1>2, <1>9, <1>10
<1>14. lines' \in 0 .. MaxLines /\ ends' = ends /\ UNCHANGED <<conns, byName, proxy>>
  BY <1>2, <1>4
<1> QED BY <1>1, <1>2, <1>4, <1>7, <1>11, <1>12, <1>13, <1>14, ProcessKeeps

\* The clients.
LEMMA ClientStep ==
    ASSUME SealedInv, (\E c \in Clients : ClientThread(c)) \/ Users
    PROVE  SealedInv'
<1>1. PICK c \in Clients :
        \/ TakesKex(c) \/ Login(c) \/ Reads(c) \/ SeesClose(c)
        \/ \E n \in Names : Connect(c, n)
        \/ HandleInput(c) \/ Dies(c) \/ StrangerConnects(c) \/ StrangerSends(c)
  BY DEF ClientThread, Users
<1>2. CASE SeesClose(c)
  BY <1>2, LeavesKeep DEF SeesClose
<1>3. CASE Dies(c)
  BY <1>3, LeavesKeep DEF Dies
<1> QED BY <1>1, <1>2, <1>3, TakesKexKeeps, LoginKeeps, ReadsKeeps, ConnectKeeps, InputKeeps,
           StrangerKeeps, StrangerSendsKeeps

-----------------------------------------------------------------------------
(* The steps of the proxy. *)

\* The proxy changes, with the legs of the one it has, takes or had.
LEMMA ProxyKeeps ==
    ASSUME SealedInv, NEW v \in Victims, Victim \in {v, NoClient}, clients[v].st # "off",
           proxy' \in ProxyType, ProxyOK', proxy'.victim \in {v, NoClient},
           proxy'.hit = proxy.hit \/ proxy.hit = NoClient,
           up' \in [Legs -> Seq(UpRecord)], down' \in [Legs -> Seq(DownRecord)],
           ends' \in [Legs -> SUBSET {"dialler", "acceptor"}],
           \A l \in Legs \ {Near(v), Far(v)} :
              up'[l] = up[l] /\ down'[l] = down[l] /\ ends'[l] = ends[l],
           "acceptor" \in ends[Far(v)] => "acceptor" \in ends'[Far(v)],
           LegOK(Near(v))', LegOK(Far(v))', FarOK(v)',
           UNCHANGED <<clients, conns, byName, lines, junk>>
    PROVE  SealedInv'
<1>1. /\ TypesOK /\ NamesInverse /\ (\A k \in Legs : LegOK(k))
      /\ \A x \in Clients : OwnOK(x)
  BY SealedInvIs
<1>2. v \in Clients /\ NoClient \notin Clients /\ Victims \subseteq Clients
  BY SealedChatAssumption
<1>3. TypesOK'
  BY <1>1 DEF TypesOK
<1>4. Victim' \in {v, NoClient}
  BY DEF Victim
<1>5. ASSUME NEW l \in Legs PROVE LegOK(l)'
  <2>1. CASE l \in {Near(v), Far(v)}
    BY <2>1 DEF Near, Far
  <2>2. CASE l \notin {Near(v), Far(v)}
    <3>1. Owner(l) \in Clients /\ Owner(l) # v
      BY <2>2, LegsAre
    <3>2. Victim # Owner(l) /\ Victim' # Owner(l)
      BY <1>2, <1>4, <3>1
    <3>3. Altered(l) => Altered(l)'
      BY <1>2, <3>1 DEF Altered
    <3>4. /\ Held(l)' = Held(l) /\ Acceptor(l)' = Acceptor(l)
          /\ AcceptorStep(l)' = AcceptorStep(l) /\ Runs(l)' = Runs(l)
          /\ Dialler(l)' = Dialler(l)
          /\ Strange(l)' = Strange(l)
      BY <2>2, <3>2 DEF Held, Acceptor, AcceptorStep, Runs, Dialler, Strange, AtRelay,
          IsNear, Owner
    <3>5. Hears(l)' => Hears(l)
      BY <3>3, <3>4 DEF Hears, AtRelay, Owner
    <3>6. up'[l] = up[l] /\ down'[l] = down[l] /\ LegOK(l)
      BY <1>1, <2>2
    <3> QED BY <3>4, <3>5, <3>6, LegLess
  <2> QED BY <2>1, <2>2
<1>6. ASSUME NEW x \in Clients \ {v} PROVE OwnOK(x)'
  <2>1. Victim # x /\ Victim' # x
    BY <1>2, <1>4
  <2>2. Near(x) \in Legs \ {Near(v), Far(v)} /\ Last(x) \in Legs \ {Near(v), Far(v)}
        /\ (x \in Victims => Far(x) \in Legs \ {Near(v), Far(v)})
    BY <1>2, LegIs
  <2>3. ProcessOK(x)' /\ ConnOK(x)'
    BY <1>1, <2>1, <2>2, ZenonT(30) DEF OwnOK, ProcessOK, ConnOK
  <2>4. ASSUME x \in Victims PROVE FarOK(x)'
    <3>1. Undialled(x)' = Undialled(x)
      BY <2>1, <2>2 DEF Undialled
    <3>2. /\ up'[Far(x)] = up[Far(x)] /\ down'[Far(x)] = down[Far(x)]
          /\ ends'[Far(x)] = ends[Far(x)] /\ FarOK(x)
      BY <1>1, <2>2, <2>4 DEF OwnOK
    <3> QED BY <2>1, <3>1, <3>2 DEF FarOK
  <2> QED BY <2>3, <2>4 DEF OwnOK
<1>7. OwnOK(v)'
  <2>1. ProcessOK(v) /\ ConnOK(v) /\ Last(v) = Far(v)
    BY <1>1, <1>2, LegIs DEF OwnOK
  <2>2. ProcessOK(v)'
    BY <2>1 DEF ProcessOK
  <2>3. ConnOK(v)'
    BY <2>1 DEF ConnOK, Last
  <2> QED BY <2>2, <2>3 DEF OwnOK
<1>8. \A x \in Clients : OwnOK(x)'
  BY <1>6, <1>7
<1>9. NamesInverse'
  BY <1>1 DEF NamesInverse, Registered
<1> QED BY <1>2, <1>3, <1>5, <1>8, <1>9 DEF SealedInv, OwnOK

\* The leg between a victim and the proxy.
LEMMA NearOfProxy ==
    ASSUME NEW v \in Victims, NEW l, l = Near(v), UNCHANGED <<clients, conns>>,
           NEW a, NEW step,
           \/ Victim' = v /\ a = proxy'.vsess /\ step = proxy'.hs
           \/ Victim' # v /\ a = NoSession /\ step = NewHandshake,
           NEW h, "acceptor" \in ends'[l] \/ Victim' = v => h,
           DownFits(l, down'[l], h, a, clients[v].st \in Running, clients[v].sess),
           UpFits(l, up'[l], h, a, clients[v].st \in Running, clients[v].sess,
                  clients[v].st = "strange"),
           DownVals(l, down'[l]), UpVals(l, up'[l]), KeysFit(l, a, step, clients[v].sess)
    PROVE  LegOK(l)'
<1>1. v \in Clients /\ ~AtRelay(l) /\ IsNear(l) /\ Owner(l) = v
  BY SealedChatAssumption, LegIs
<1>2. /\ Acceptor(l)' = a /\ AcceptorStep(l)' = step
  BY <1>1 DEF Acceptor, AcceptorStep, AtRelay, Owner
<1>3. /\ Runs(l)' = (clients[v].st \in Running) /\ Dialler(l)' = clients[v].sess
      /\ Strange(l)' = (clients[v].st = "strange")
  BY <1>1 DEF Runs, Dialler, Strange, IsNear, Owner
<1>4. (Held(l)' => h) /\ (Hears(l)' => h)
  BY <1>1 DEF Held, Hears, AtRelay, Owner
<1>5. DownFits(l, down'[l], Held(l)', a, clients[v].st \in Running, clients[v].sess)
  BY <1>4 DEF DownFits
<1>6. UpFits(l, up'[l], Hears(l)', a, clients[v].st \in Running, clients[v].sess,
             clients[v].st = "strange")
  BY <1>4 DEF UpFits
<1> QED BY <1>2, <1>3, <1>5, <1>6 DEF LegOK, DownOK, UpOK, ValsOK, KeysOK

\* The leg between the proxy and the relay.
LEMMA FarOfProxy ==
    ASSUME NEW v \in Victims, NEW l, l = Far(v), UNCHANGED <<clients, conns>>,
           NEW d, NEW r \in BOOLEAN,
           \/ Victim' = v /\ d = proxy'.ssess /\ r = (proxy'.st \in {"server", "pump"})
           \/ Victim' # v /\ d = NoSession /\ r = FALSE,
           NEW h, Held(l)' => h, NEW g, Hears(l)' => g,
           DownFits(l, down'[l], h, conns[v].sess, r, d),
           UpFits(l, up'[l], g, conns[v].sess, r, d, FALSE),
           DownVals(l, down'[l]), KeysFit(l, conns[v].sess, conns[v].hs, d)
    PROVE  LegOK(l)'
<1>1. v \in Clients /\ AtRelay(l) /\ ~IsNear(l) /\ Owner(l) = v
  BY SealedChatAssumption, LegIs
<1>2. /\ Acceptor(l)' = conns[v].sess /\ AcceptorStep(l)' = conns[v].hs
  BY <1>1 DEF Acceptor, AcceptorStep, AtRelay, Owner
<1>3. /\ Runs(l)' = r /\ Dialler(l)' = d /\ Strange(l)' = FALSE
  BY <1>1 DEF Runs, Dialler, Strange, IsNear, Owner
<1>4. DownFits(l, down'[l], Held(l)', conns[v].sess, r, d)
  BY DEF DownFits
<1>5. UpFits(l, up'[l], Hears(l)', conns[v].sess, r, d, FALSE)
  BY DEF UpFits
<1>6. UpVals(l, up'[l])
  BY <1>1 DEF UpVals
<1> QED BY <1>2, <1>3, <1>4, <1>5, <1>6 DEF LegOK, DownOK, UpOK, ValsOK, KeysOK


\* What is known while the proxy has a victim, and of its two legs.

ProxyHas(v, n, f) ==
    /\ v \in Victims /\ clients[v].st # "off"
    /\ n \in Legs /\ f \in Legs /\ n # f /\ IsNear(n) /\ ~IsNear(f)
    /\ up \in [Legs -> Seq(UpRecord)] /\ down \in [Legs -> Seq(DownRecord)]
    /\ ends \in [Legs -> SUBSET {"dialler", "acceptor"}]
    /\ up[n] \in Seq(UpRecord) /\ up[f] \in Seq(UpRecord)
    /\ down[n] \in Seq(DownRecord) /\ down[f] \in Seq(DownRecord)
    /\ proxy \in ProxyType /\ proxy.vsess \in SessionType /\ proxy.ssess \in SessionType
    /\ clients[v].sess \in SessionType /\ conns[v].sess \in SessionType
    /\ ProxyOK /\ FarOK(v) /\ ConnOK(v)

NearFits(v, n) ==
    /\ DownFits(n, down[n], TRUE, proxy.vsess, clients[v].st \in Running, clients[v].sess)
    /\ UpFits(n, up[n], TRUE, proxy.vsess, clients[v].st \in Running, clients[v].sess,
              clients[v].st = "strange")
    /\ DownVals(n, down[n]) /\ UpVals(n, up[n])
    /\ KeysFit(n, proxy.vsess, proxy.hs, clients[v].sess)

FarFits(v, f) ==
    /\ DownFits(f, down[f], Held(f), conns[v].sess, proxy.st \in {"server", "pump"},
                proxy.ssess)
    /\ UpFits(f, up[f], Hears(f), conns[v].sess, proxy.st \in {"server", "pump"},
              proxy.ssess, FALSE)
    /\ DownVals(f, down[f]) /\ KeysFit(f, conns[v].sess, conns[v].hs, proxy.ssess)

\* All of it holds.

LEMMA ProxyKnown ==
    ASSUME SealedInv, NEW v \in Clients, proxy.st # "accept", v = Victim,
           NEW n, n = Near(v), NEW f, f = Far(v)
    PROVE  ProxyHas(v, n, f)
<1>1. TypesOK /\ ProxyOK /\ OwnOK(v) /\ ConnOK(v) /\ ProcessOK(v)
  BY SealedInvIs DEF OwnOK
<1>2. v \in Victims
  BY <1>1 DEF ProxyOK, TypesOK, ProxyType, Victim
<1>3. clients[v].st # "off"
  BY <1>1 DEF ProcessOK
<1>4. FarOK(v) /\ n \in Legs /\ f \in Legs /\ n # f /\ IsNear(n) /\ ~IsNear(f)
  BY <1>1, <1>2, LegIs DEF OwnOK
<1>5. /\ up \in [Legs -> Seq(UpRecord)] /\ down \in [Legs -> Seq(DownRecord)]
      /\ ends \in [Legs -> SUBSET {"dialler", "acceptor"}]
      /\ proxy \in ProxyType /\ clients[v] \in ProcessType /\ conns[v] \in ConnType
  BY <1>1 DEF TypesOK
<1>6. /\ proxy.vsess \in SessionType /\ proxy.ssess \in SessionType
      /\ clients[v].sess \in SessionType /\ conns[v].sess \in SessionType
  BY <1>5 DEF ProxyType, ProcessType, ConnType
<1> QED BY <1>1, <1>2, <1>3, <1>4, <1>5, <1>6 DEF ProxyHas

\* What is known of its two legs.
LEMMA ProxyLegs ==
    ASSUME SealedInv, NEW v \in Clients, proxy.st # "accept", v = Victim,
           NEW n, n = Near(v), NEW f, f = Far(v)
    PROVE  NearFits(v, n) /\ FarFits(v, f)
<1>1. v \in Victims /\ n \in Legs /\ f \in Legs
  BY ProxyKnown DEF ProxyHas
<1>2. LegOK(n) /\ LegOK(f)
  BY <1>1 DEF SealedInv
<1>3. /\ DownFits(n, down[n], Held(n), Acceptor(n), Runs(n), Dialler(n))
      /\ UpFits(n, up[n], Hears(n), Acceptor(n), Runs(n), Dialler(n), Strange(n))
      /\ DownVals(n, down[n]) /\ UpVals(n, up[n])
      /\ KeysFit(n, Acceptor(n), AcceptorStep(n), Dialler(n))
  BY <1>2, LegOKIs
<1>4. /\ DownFits(f, down[f], Held(f), Acceptor(f), Runs(f), Dialler(f))
      /\ UpFits(f, up[f], Hears(f), Acceptor(f), Runs(f), Dialler(f), Strange(f))
      /\ DownVals(f, down[f]) /\ KeysFit(f, Acceptor(f), AcceptorStep(f), Dialler(f))
  BY <1>2, LegOKIs
<1>5. /\ Acceptor(n) = proxy.vsess /\ AcceptorStep(n) = proxy.hs
      /\ Dialler(n) = clients[v].sess
      /\ Runs(n) = (clients[v].st \in Running) /\ Strange(n) = (clients[v].st = "strange")
      /\ Held(n) = TRUE /\ Hears(n) = TRUE
  BY <1>1, LegIs DEF Acceptor, AcceptorStep, Dialler, Runs, Strange, Held, Hears, Altered
<1>6. /\ Acceptor(f) = conns[v].sess /\ AcceptorStep(f) = conns[v].hs
      /\ Dialler(f) = proxy.ssess /\ Runs(f) = (proxy.st \in {"server", "pump"})
      /\ Strange(f) = FALSE
  BY <1>1, LegIs DEF Acceptor, AcceptorStep, Dialler, Runs, Strange
<1> QED BY <1>3, <1>4, <1>5, <1>6 DEF NearFits, FarFits

\* Towards the relay, nothing is heard again.
LEMMA FarHeard ==
    ASSUME NEW v \in Victims, NEW f, f = Far(v), conns' = conns,
           "acceptor" \in ends'[f] => "acceptor" \in ends[f], proxy.hit = v => proxy'.hit = v
    PROVE  (Held(f)' => Held(f)) /\ (Hears(f)' => Hears(f))
<1>1. v \in Clients /\ AtRelay(f) /\ ~IsNear(f) /\ Owner(f) = v
  BY SealedChatAssumption, LegIs
<1>2. Held(f)' => Held(f)
  BY <1>1 DEF Held, AtRelay, Owner
<1>3. Altered(f) => Altered(f)'
  BY <1>1 DEF Altered, IsNear, Owner
<1> QED BY <1>1, <1>2, <1>3 DEF Hears, AtRelay, Owner

\* One leg is read by the side that accepted, or not.
LEMMA UpAfter ==
    ASSUME up \in [Legs -> Seq(UpRecord)], NEW l \in Legs,
           up' = up \/ (up[l] # <<>> /\ up' = Take(up, l))
    PROVE  /\ up' \in [Legs -> Seq(UpRecord)] /\ \A k \in Legs \ {l} : up'[k] = up[k]
           /\ up'[l] = up[l] \/ (up[l] # <<>> /\ up'[l] = Tail(up[l]))
<1>1. CASE up' = up
  BY <1>1
<1>2. CASE up[l] # <<>> /\ up' = Take(up, l)
  <2>1. up[l] \in Seq(UpRecord)
    OBVIOUS
  <2>2. Tail(up[l]) \in Seq(UpRecord)
    BY <1>2, <2>1, FirstTaken
  <2>3. up' = [up EXCEPT ![l] = Tail(up[l])]
    BY <1>2 DEF Take
  <2> QED BY <1>2, <2>2, <2>3
<1> QED BY <1>1, <1>2

\* One leg is read by the side that dialled, or not.
LEMMA DownAfter ==
    ASSUME down \in [Legs -> Seq(DownRecord)], NEW l \in Legs,
           down' = down \/ (down[l] # <<>> /\ down' = Take(down, l))
    PROVE  /\ down' \in [Legs -> Seq(DownRecord)] /\ \A k \in Legs \ {l} : down'[k] = down[k]
           /\ down'[l] = down[l] \/ (down[l] # <<>> /\ down'[l] = Tail(down[l]))
<1>1. CASE down' = down
  BY <1>1
<1>2. CASE down[l] # <<>> /\ down' = Take(down, l)
  <2>1. down[l] \in Seq(DownRecord)
    OBVIOUS
  <2>2. Tail(down[l]) \in Seq(DownRecord)
    BY <1>2, <2>1, FirstTaken
  <2>3. down' = [down EXCEPT ![l] = Tail(down[l])]
    BY <1>2 DEF Take
  <2> QED BY <1>2, <2>2, <2>3
<1> QED BY <1>1, <1>2

\* The proxy gives up its victim.
LEMMA ForgetsKeeps ==
    ASSUME SealedInv, NEW v \in Clients, proxy.st # "accept", v = Victim,
           NEW n, n = Near(v), NEW f, f = Far(v), NEW fds, fds \in {{n}, {n, f}}, Forgets(fds),
           up' = up \/ (up[n] # <<>> /\ up' = Take(up, n)),
           down' = down \/ (down[f] # <<>> /\ down' = Take(down, f)),
           UNCHANGED <<clients, conns, byName, lines, junk>>
    PROVE  SealedInv'
<1>1. ProxyHas(v, n, f)
  BY ProxyKnown
<1> USE DEF ProxyHas
<1>2. NearFits(v, n) /\ FarFits(v, f)
  BY ProxyLegs
<1> USE DEF NearFits, FarFits
<1>3. /\ up' \in [Legs -> Seq(UpRecord)] /\ \A k \in Legs \ {n} : up'[k] = up[k]
      /\ up'[n] = up[n] \/ (up[n] # <<>> /\ up'[n] = Tail(up[n]))
  BY <1>1, UpAfter
<1>4. /\ down' \in [Legs -> Seq(DownRecord)] /\ \A k \in Legs \ {f} : down'[k] = down[k]
      /\ down'[f] = down[f] \/ (down[f] # <<>> /\ down'[f] = Tail(down[f]))
  BY <1>1, DownAfter
<1>5. proxy' = Idle(proxy) /\ NoClient \notin Clients
  BY SealedChatAssumption DEF Forgets
<1>6. /\ proxy' \in ProxyType /\ proxy'.st = "accept" /\ proxy'.victim = NoClient
      /\ proxy'.hs = NewHandshake /\ proxy'.vsess = NoSession /\ proxy'.ssess = NoSession
      /\ proxy'.pumps = {} /\ proxy'.armed = proxy.armed /\ proxy'.hit = proxy.hit
  BY <1>1, <1>5, Sessions, ConnTypes DEF Idle, ProxyType
<1>7. Victim' = NoClient
  BY <1>6 DEF Victim
<1>8. ProxyOK'
  BY <1>1, <1>6, <1>7, Sessions DEF ProxyOK
<1>9. /\ ends' \in [Legs -> SUBSET {"dialler", "acceptor"}]
      /\ \A k \in Legs \ {n, f} : ends'[k] = ends[k]
      /\ "acceptor" \notin ends'[n] /\ ("acceptor" \in ends'[f] <=> "acceptor" \in ends[f])
  BY <1>1 DEF Forgets
<1>10. LegOK(n)'
  <2>1. DownFits(n, down'[n], FALSE, NoSession, clients[v].st \in Running, clients[v].sess)
    BY <1>1, <1>2, <1>4 DEF DownFits
  <2>2. UpFits(n, up'[n], FALSE, NoSession, clients[v].st \in Running, clients[v].sess,
               clients[v].st = "strange")
    BY DEF UpFits
  <2>3. DownVals(n, down'[n])
    BY <1>1, <1>2, <1>4
  <2>4. UpVals(n, up'[n])
    <3>1. CASE up'[n] = up[n]
      BY <1>2, <3>1
    <3>2. CASE up[n] # <<>> /\ up'[n] = Tail(up[n])
      BY <1>1, <1>2, <3>2, ValsTaken
    <3> QED BY <1>3, <3>1, <3>2
  <2>5. KeysFit(n, NoSession, NewHandshake, clients[v].sess)
    BY <1>2, ConnTypes DEF KeysFit
  <2>6. Victim' # v /\ UNCHANGED <<clients, conns>>
    BY <1>5, <1>7
  <2> QED BY <1>1, <1>9, <2>1, <2>2, <2>3, <2>4, <2>5, <2>6, NearOfProxy
<1>11. LegOK(f)'
  <2>1. (Held(f)' => Held(f)) /\ (Hears(f)' => Hears(f))
    BY <1>1, <1>6, <1>9, FarHeard
  <2>2. DownFits(f, down'[f], Held(f), conns[v].sess, FALSE, NoSession)
    <3>1. CASE down'[f] = down[f]
      BY <1>2, <3>1 DEF DownFits
    <3>2. CASE down[f] # <<>> /\ down'[f] = Tail(down[f])
      <4>1. DownFits(f, down[f], Held(f), conns[v].sess, FALSE, NoSession)
        BY <1>2 DEF DownFits
      <4>2. PICK x : x = Tail(down[f])
        OBVIOUS
      <4>3. DownFits(f, x, Held(f), conns[v].sess, FALSE, NoSession)
        BY <1>1, <3>2, <4>1, <4>2, DownLast
      <4> QED BY <3>2, <4>2, <4>3
    <3> QED BY <1>4, <3>1, <3>2
  <2>3. UpFits(f, up'[f], Hears(f), conns[v].sess, FALSE, NoSession, FALSE)
    <3>1. up'[f] = up[f]
      BY <1>1, <1>3
    <3> QED BY <1>2, <3>1 DEF UpFits
  <2>4. DownVals(f, down'[f])
    <3>1. CASE down'[f] = down[f]
      BY <1>2, <3>1
    <3>2. CASE down[f] # <<>> /\ down'[f] = Tail(down[f])
      BY <1>1, <1>2, <3>2, ValsTaken
    <3> QED BY <1>4, <3>1, <3>2
  <2>5. KeysFit(f, conns[v].sess, conns[v].hs, NoSession)
    BY <1>2 DEF KeysFit
  <2>6. Victim' # v /\ UNCHANGED <<clients, conns>>
    BY <1>5, <1>7
  <2> QED BY <1>1, <2>1, <2>2, <2>3, <2>4, <2>5, <2>6, FarOfProxy
<1>12. FarOK(v)'
  <2>1. ~Undialled(v)' /\ Victim' # v
    BY <1>1, <1>5, <1>7, <1>9 DEF Undialled
  <2>2. up'[f] = up[f] /\ conns' = conns
    BY <1>1, <1>3
  <2>3. \A i \in DOMAIN down'[f] : \E j \in DOMAIN down[f] : down'[f][i] = down[f][j]
    <3>1. CASE down'[f] = down[f]
      BY <3>1
    <3>2. CASE down[f] # <<>> /\ down'[f] = Tail(down[f])
      <4>1. PICK x : x = Tail(down[f])
        OBVIOUS
      <4>2. /\ DOMAIN x = 1 .. Len(down[f]) - 1 /\ DOMAIN down[f] = 1 .. Len(down[f])
            /\ Len(down[f]) \in Nat /\ \A i \in 1 .. Len(down[f]) - 1 : x[i] = down[f][i + 1]
        BY <1>1, <3>2, <4>1, FirstTaken
      <4> QED BY <3>2, <4>1, <4>2
    <3> QED BY <1>4, <3>1, <3>2
  <2>4. down[f] = <<>> => down'[f] = <<>>
    BY <1>4
  <2> QED BY <1>1, <1>9, <2>1, <2>2, <2>3, <2>4 DEF FarOK
<1>13. proxy'.victim \in {v, NoClient} /\ Victim \in {v, NoClient}
       /\ (proxy'.hit = proxy.hit \/ proxy.hit = NoClient)
  BY <1>6
<1>14. \A l \in Legs \ {n, f} : up'[l] = up[l] /\ down'[l] = down[l] /\ ends'[l] = ends[l]
  BY <1>3, <1>4, <1>9
<1> QED BY <1>1, <1>3, <1>4, <1>6, <1>8, <1>9, <1>10, <1>11, <1>12, <1>13, <1>14, ProxyKeeps

\* The proxy takes a victim.
LEMMA AcceptsKeeps ==
    ASSUME SealedInv, NEW v \in Victims, ProxyAccepts(v),
           UNCHANGED <<clients, conns, byName, lines, junk>>
    PROVE  SealedInv'
<1>1. TypesOK /\ ProxyOK /\ v \in Clients /\ NoClient \notin Clients
  BY SealedChatAssumption DEF SealedInv
<1>2. PICK n : n = Near(v)
  OBVIOUS
<1>3. PICK f : f = Far(v)
  OBVIOUS
<1>4. /\ n \in Legs /\ f \in Legs /\ LegOK(n) /\ LegOK(f) /\ FarOK(v) /\ OwnOK(v)
      /\ Owner(n) = v /\ Owner(f) = v /\ ~AtRelay(n) /\ AtRelay(f) /\ IsNear(n) /\ ~IsNear(f)
  BY <1>1, <1>2, <1>3, LegIs, SealedInvIs DEF OwnOK
<1>5. /\ proxy.st = "accept" /\ "acceptor" \in ends[n] /\ UNCHANGED <<ends, up, down>>
      /\ proxy' = [proxy EXCEPT !.st = "victim", !.victim = v]
  BY <1>2 DEF ProxyAccepts
<1>6. /\ proxy' \in ProxyType /\ proxy'.st = "victim" /\ proxy'.victim = v
      /\ proxy'.hs = proxy.hs /\ proxy'.vsess = proxy.vsess /\ proxy'.ssess = proxy.ssess
      /\ proxy'.pumps = proxy.pumps /\ proxy'.armed = proxy.armed /\ proxy'.hit = proxy.hit
  BY <1>1, <1>5 DEF TypesOK, ProxyType
<1>7. /\ proxy.hs = NewHandshake /\ proxy.vsess = NoSession /\ proxy.ssess = NoSession
      /\ Victim = NoClient /\ Victim' = v
  BY <1>1, <1>5, <1>6 DEF ProxyOK, Victim
<1>8. ProxyOK'
  BY <1>1, <1>5, <1>6, <1>7 DEF ProxyOK
<1>9. LegOK(n)'
  <2>1. Held(n) /\ Hears(n)
    BY <1>4, <1>5 DEF Held, Hears, Altered
  <2>2. Acceptor(n) = NoSession /\ Acceptor(n)' = NoSession
    BY <1>1, <1>4, <1>6, <1>7 DEF Acceptor, AtRelay, Owner
  <2>3. AcceptorStep(n) = NewHandshake /\ AcceptorStep(n)' = NewHandshake
    BY <1>1, <1>4, <1>6, <1>7 DEF AcceptorStep, AtRelay, Owner
  <2>4. /\ Dialler(n)' = Dialler(n) /\ Runs(n)' = Runs(n) /\ Strange(n)' = Strange(n)
    BY <1>4 DEF Dialler, Runs, Strange, IsNear, Owner
  <2> QED BY <1>4, <1>5, <2>1, <2>2, <2>3, <2>4, LegLess
<1>10. LegOK(f)'
  <2>1. (Held(f)' => Held(f)) /\ (Hears(f)' => Hears(f))
    BY <1>3, <1>5, <1>6, FarHeard
  <2>2. Acceptor(f)' = Acceptor(f) /\ AcceptorStep(f)' = AcceptorStep(f)
    BY <1>4 DEF Acceptor, AcceptorStep, AtRelay, Owner
  <2>3. Dialler(f) = NoSession /\ Dialler(f)' = NoSession
    BY <1>1, <1>4, <1>6, <1>7 DEF Dialler, IsNear, Owner
  <2>4. ~Runs(f)' /\ ~Strange(f)'
    BY <1>4, <1>6 DEF Runs, Strange, IsNear, Owner
  <2> QED BY <1>4, <1>5, <2>1, <2>2, <2>3, <2>4, LegLess
<1>11. FarOK(v)'
  <2>1. Undialled(v)
    BY <1>1, <1>2, <1>5, <1>7 DEF Undialled
  <2>2. ends[f] = {} /\ up[f] = <<>> /\ down[f] = <<>> /\ conns[v] = NoConn
    BY <1>3, <1>4, <2>1 DEF FarOK
  <2>3. \A i \in DOMAIN down'[f] : down'[f][i].type # "handshake"
    BY <1>5, <2>2
  <2> QED BY <1>3, <1>5, <2>2, <2>3 DEF FarOK
<1>12. clients[v].st # "off"
  BY <1>2, <1>4, <1>5 DEF OwnOK, ProcessOK
<1> QED BY <1>1, <1>2, <1>3, <1>5, <1>6, <1>7, <1>8, <1>9, <1>10, <1>11, <1>12, ProxyKeeps
           DEF TypesOK

\* The proxy goes on with its victim, while nothing moves towards the relay.
LEMMA FarStays ==
    ASSUME SealedInv, NEW v \in Clients, proxy.st # "accept", v = Victim, Victim' = v,
           NEW f, f = Far(v), up'[f] = up[f], down'[f] = down[f],
           "acceptor" \in ends'[f] => "acceptor" \in ends[f],
           proxy'.ssess = proxy.ssess,
           proxy'.st \in {"server", "pump"} => proxy.st \in {"server", "pump"},
           proxy.hit = v => proxy'.hit = v, UNCHANGED <<clients, conns>>
    PROVE  LegOK(f)'
<1>1. v \in Victims /\ f \in Legs
  BY ProxyKnown DEF ProxyHas
<1>2. AtRelay(f) /\ ~IsNear(f) /\ Owner(f) = v /\ LegOK(f)
  BY <1>1, LegIs DEF SealedInv
<1>3. (Held(f)' => Held(f)) /\ (Hears(f)' => Hears(f))
  BY <1>1, FarHeard
<1>4. Acceptor(f)' = Acceptor(f) /\ AcceptorStep(f)' = AcceptorStep(f)
  BY <1>2 DEF Acceptor, AcceptorStep, AtRelay, Owner
<1>5. Dialler(f)' = Dialler(f)
  BY <1>2 DEF Dialler, IsNear, Owner
<1>6. (Runs(f)' => Runs(f)) /\ ~Strange(f)'
  BY <1>2 DEF Runs, Strange, IsNear, Owner
<1> QED BY <1>2, <1>3, <1>4, <1>5, <1>6, LegLess

\* The same, while nothing moves towards the victim.
LEMMA NearStays ==
    ASSUME SealedInv, NEW v \in Clients, proxy.st # "accept", v = Victim, Victim' = v,
           NEW n, n = Near(v), up'[n] = up[n], down'[n] = down[n],
           proxy'.vsess = proxy.vsess, proxy'.hs = proxy.hs, UNCHANGED <<clients, conns>>
    PROVE  LegOK(n)'
<1>1. v \in Victims /\ n \in Legs
  BY ProxyKnown DEF ProxyHas
<1>2. ~AtRelay(n) /\ IsNear(n) /\ Owner(n) = v /\ LegOK(n)
  BY <1>1, LegIs DEF SealedInv
<1>3. Held(n) /\ Hears(n)
  BY <1>2 DEF Held, Hears, Altered
<1>4. Acceptor(n)' = Acceptor(n) /\ AcceptorStep(n)' = AcceptorStep(n)
  BY <1>2 DEF Acceptor, AcceptorStep, AtRelay, Owner
<1>5. Dialler(n)' = Dialler(n) /\ Runs(n)' = Runs(n) /\ Strange(n)' = Strange(n)
  BY <1>2 DEF Dialler, Runs, Strange, IsNear, Owner
<1> QED BY <1>2, <1>3, <1>4, <1>5, LegLess

\* Before it has dialled there is nothing towards the relay.
LEMMA UndialledStays ==
    ASSUME SealedInv, NEW v \in Clients, proxy.st \in {"victim", "dial"}, v = Victim,
           Victim' = v, proxy'.st \in {"victim", "dial"},
           NEW f, f = Far(v), up'[f] = up[f], down'[f] = down[f], ends'[f] = ends[f],
           conns' = conns
    PROVE  FarOK(v)'
<1>1. FarOK(v) /\ Undialled(v)
  BY ProxyKnown DEF Undialled, ProxyHas
<1>2. ends[f] = {} /\ up[f] = <<>> /\ down[f] = <<>> /\ conns[v] = NoConn
  BY <1>1 DEF FarOK
<1>3. \A i \in DOMAIN down'[f] : down'[f][i].type # "handshake"
  BY <1>2
<1> QED BY <1>2, <1>3 DEF FarOK

\* The proxy answers a hello.
LEMMA ProxyAnswers ==
    ASSUME SealedInv, NEW v \in Clients, proxy.st = "victim", v = Victim,
           NEW n, n = Near(v), up[n] # <<>>, up' = Take(up, n),
           NEW r, r = Head(up[n]), r.type = "handshake", FeedAnswers(proxy.hs, r),
           proxy' = [proxy EXCEPT !.hs = Answered(r)],
           down' = Put(down, n, Hs("ServerKex", Pub(n, "server"))),
           UNCHANGED <<ends, clients, conns, byName, lines, junk>>
    PROVE  SealedInv'
<1>1. PICK f : f = Far(v)
  OBVIOUS
<1>2. ProxyHas(v, n, f)
  BY <1>1, ProxyKnown
<1> USE DEF ProxyHas
<1>3. NearFits(v, n)
  BY <1>1, ProxyLegs
<1> USE DEF NearFits
<1>4. proxy.vsess = NoSession /\ proxy.vsess.rx = 0 /\ proxy.vsess.tx = 0
  BY <1>2, Sessions DEF ProxyOK
<1>5. /\ up' \in [Legs -> Seq(UpRecord)] /\ \A k \in Legs \ {n} : up'[k] = up[k]
  BY <1>2, UpAfter
<1>6. up'[n] = Tail(up[n])
  BY <1>2 DEF Take
<1>7. UpVals(n, up'[n]) /\ r.val = n
  <2>1. UpVals(n, Tail(up[n])) /\ UpVal(n, r)
    BY <1>2, <1>3, ValsTaken
  <2> QED BY <1>6, <2>1 DEF UpVal, FeedAnswers
<1>8. PICK h : h = Answered(r)
  OBVIOUS
<1>9. h \in HandshakeType /\ h.step = "AwaitClientKex" /\ h.random = n
  BY <1>2, <1>7, <1>8 DEF Answered, HandshakeType
<1>10. /\ proxy' \in ProxyType /\ proxy'.st = "victim" /\ proxy'.victim = proxy.victim
       /\ proxy'.hs = h /\ proxy'.vsess = proxy.vsess /\ proxy'.ssess = proxy.ssess
       /\ proxy'.pumps = proxy.pumps /\ proxy'.armed = proxy.armed /\ proxy'.hit = proxy.hit
  BY <1>2, <1>8, <1>9 DEF ProxyType
<1>11. Victim' = v /\ ProxyOK'
  BY <1>2, <1>10 DEF Victim, ProxyOK
<1>12. PICK k : k = Hs("ServerKex", Pub(n, "server"))
  OBVIOUS
<1>13. k \in DownRecord /\ k.type = "handshake" /\ k.val = Pub(n, "server")
  BY <1>2, <1>12, ExchangeRecords
<1>14. PICK w : w = Append(down[n], k)
  OBVIOUS
<1>15. w \in Seq(DownRecord)
  BY <1>2, <1>13, <1>14, OneMore
<1>16. DownVals(n, w)
  BY <1>2, <1>3, <1>13, <1>14, ValsMore
<1>17. DownFits(n, w, TRUE, proxy.vsess, clients[v].st \in Running, clients[v].sess)
  BY <1>2, <1>3, <1>4, <1>13, <1>14, DownExchanged
<1>18. down' = [down EXCEPT ![n] = w]
  BY <1>12, <1>14 DEF Put
<1>19. /\ down' \in [Legs -> Seq(DownRecord)] /\ \A l \in Legs \ {n} : down'[l] = down[l]
       /\ down'[n] = w
  BY <1>2, <1>15, <1>18
<1>20. UpFits(n, up'[n], TRUE, proxy.vsess, clients[v].st \in Running, clients[v].sess,
              clients[v].st = "strange")
  <2>1. Head(up[n]).type # "appdata"
    OBVIOUS
  <2>2. \A a2 : a2.rx = 0 =>
          UpFits(n, Tail(up[n]), TRUE, a2, clients[v].st \in Running, clients[v].sess,
                 clients[v].st = "strange")
    BY <1>2, <1>3, <2>1, UpHeard
  <2> QED BY <1>4, <1>6, <2>2
<1>21. KeysFit(n, proxy.vsess, h, clients[v].sess)
  BY <1>3, <1>9 DEF KeysFit
<1>22. LegOK(n)'
  <2>1. UNCHANGED <<clients, conns>> /\ proxy.vsess = proxy'.vsess /\ h = proxy'.hs
    BY <1>10
  <2>2. DownFits(n, down'[n], TRUE, proxy.vsess, clients[v].st \in Running, clients[v].sess)
        /\ DownVals(n, down'[n])
    BY <1>16, <1>17, <1>19
  <2> QED BY <1>2, <1>7, <1>11, <1>20, <1>21, <2>1, <2>2, NearOfProxy
<1>23. LegOK(f)'
  BY <1>1, <1>2, <1>5, <1>10, <1>11, <1>19, FarStays
<1>24. FarOK(v)'
  BY <1>1, <1>2, <1>5, <1>10, <1>11, <1>19, UndialledStays
<1>25. proxy'.victim \in {v, NoClient} /\ Victim \in {v, NoClient}
       /\ (proxy'.hit = proxy.hit \/ proxy.hit = NoClient)
  BY <1>10, <1>11 DEF Victim
<1>26. \A l \in Legs \ {n, f} : up'[l] = up[l] /\ down'[l] = down[l] /\ ends'[l] = ends[l]
  BY <1>5, <1>19
<1> QED BY <1>1, <1>2, <1>5, <1>10, <1>11, <1>19, <1>22, <1>23, <1>24, <1>25, <1>26, ProxyKeeps

\* The exchange with the victim is complete.
LEMMA ProxyCompletes ==
    ASSUME SealedInv, NEW v \in Clients, proxy.st = "victim", v = Victim,
           NEW n, n = Near(v), up[n] # <<>>, up' = Take(up, n),
           NEW r, r = Head(up[n]), r.type = "handshake", FeedCompletes(proxy.hs, r),
           proxy' = [proxy EXCEPT !.st = "dial",
                       !.vsess = Install(ServerKeys(proxy.hs, n, r), "Server")],
           UNCHANGED <<ends, down, clients, conns, byName, lines, junk>>
    PROVE  SealedInv'
<1>1. PICK f : f = Far(v)
  OBVIOUS
<1>2. ProxyHas(v, n, f)
  BY <1>1, ProxyKnown
<1> USE DEF ProxyHas
<1>3. NearFits(v, n)
  BY <1>1, ProxyLegs
<1> USE DEF NearFits
<1>4. proxy.vsess = NoSession /\ proxy.vsess.rx = 0 /\ proxy.vsess.tx = 0
      /\ proxy.vsess.skipped = 0 /\ proxy.ssess = NoSession
      /\ proxy.ssess.tx = 0 /\ proxy.ssess.rx = 0
  BY <1>2, Sessions DEF ProxyOK
<1>5. /\ up' \in [Legs -> Seq(UpRecord)] /\ \A k \in Legs \ {n} : up'[k] = up[k]
  BY <1>2, UpAfter
<1>6. up'[n] = Tail(up[n])
  BY <1>2 DEF Take
<1>7. UpVals(n, up'[n]) /\ r.val = Pub(n, "client")
  <2>1. UpVals(n, Tail(up[n])) /\ UpVal(n, r)
    BY <1>2, <1>3, ValsTaken
  <2> QED BY <1>6, <2>1 DEF UpVal, FeedCompletes
<1>8. PICK s : s = Install(ServerKeys(proxy.hs, n, r), "Server")
  OBVIOUS
<1>9. ServerKeys(proxy.hs, n, r) = KeysOf(n)
  BY <1>3, <1>7 DEF ServerKeys, KeysOf, KeysFit, FeedCompletes
<1>10. s \in SessionType /\ s.up /\ s.keys = KeysOf(n) /\ s.role = "Server" /\ s.tx = 0
       /\ s.rx = 0 /\ s.skipped = 0
  BY <1>2, <1>8, <1>9, Installs
<1>11. /\ proxy' \in ProxyType /\ proxy'.st = "dial" /\ proxy'.victim = proxy.victim
       /\ proxy'.hs = proxy.hs /\ proxy'.vsess = s /\ proxy'.ssess = proxy.ssess
       /\ proxy'.pumps = proxy.pumps /\ proxy'.armed = proxy.armed /\ proxy'.hit = proxy.hit
  BY <1>2, <1>8, <1>10 DEF ProxyType
<1>12. Victim' = v /\ ProxyOK'
  BY <1>2, <1>4, <1>10, <1>11 DEF Victim, ProxyOK
<1>13. DownFits(n, down[n], TRUE, s, clients[v].st \in Running, clients[v].sess)
  BY <1>3, <1>4, <1>10 DEF DownFits
<1>14. UpFits(n, up'[n], TRUE, s, clients[v].st \in Running, clients[v].sess,
              clients[v].st = "strange")
  <2>1. Head(up[n]).type # "appdata"
    OBVIOUS
  <2>2. \A a2 : a2.rx = 0 =>
          UpFits(n, Tail(up[n]), TRUE, a2, clients[v].st \in Running, clients[v].sess,
                 clients[v].st = "strange")
    BY <1>2, <1>3, <2>1, UpHeard
  <2> QED BY <1>10, <1>6, <2>2
<1>15. KeysFit(n, s, proxy.hs, clients[v].sess)
  BY <1>3, <1>10 DEF KeysFit
<1>16. LegOK(n)'
  <2>1. UNCHANGED <<clients, conns>> /\ s = proxy'.vsess /\ proxy.hs = proxy'.hs
    BY <1>11
  <2>2. DownFits(n, down'[n], TRUE, s, clients[v].st \in Running, clients[v].sess)
        /\ DownVals(n, down'[n])
    BY <1>3, <1>13
  <2> QED BY <1>2, <1>7, <1>12, <1>14, <1>15, <2>1, <2>2, NearOfProxy
<1>17. LegOK(f)'
  BY <1>1, <1>2, <1>5, <1>11, <1>12, FarStays
<1>18. FarOK(v)'
  BY <1>1, <1>2, <1>5, <1>11, <1>12, UndialledStays
<1>19. proxy'.victim \in {v, NoClient} /\ Victim \in {v, NoClient}
       /\ (proxy'.hit = proxy.hit \/ proxy.hit = NoClient)
  BY <1>11, <1>12 DEF Victim
<1>20. \A l \in Legs \ {n, f} : up'[l] = up[l] /\ down'[l] = down[l] /\ ends'[l] = ends[l]
  BY <1>5
<1>21. down' \in [Legs -> Seq(DownRecord)]
       /\ ends' \in [Legs -> SUBSET {"dialler", "acceptor"}]
  BY <1>2
<1> QED BY <1>1, <1>2, <1>5, <1>11, <1>12, <1>16, <1>17, <1>18, <1>19, <1>20, <1>21, ProxyKeeps

\* The proxy dials the relay.
LEMMA ProxyDials ==
    ASSUME SealedInv, NEW v \in Clients, proxy.st = "dial", v = Victim, NEW f, f = Far(v),
           proxy' = [proxy EXCEPT !.st = "server"], ends' = Dialled(f),
           up' = Put(up, f, Hello(f)), UNCHANGED <<down, clients, conns, byName, lines, junk>>
    PROVE  SealedInv'
<1>1. PICK n : n = Near(v)
  OBVIOUS
<1>2. ProxyHas(v, n, f)
  BY <1>1, ProxyKnown
<1> USE DEF ProxyHas
<1>3. DownVals(f, down[f]) /\ KeysFit(f, conns[v].sess, conns[v].hs, proxy.ssess)
  BY <1>1, ProxyLegs DEF FarFits
<1>4. Undialled(v)
  BY DEF Undialled
<1>5. up[f] = <<>> /\ down[f] = <<>> /\ conns[v] = NoConn
  BY <1>2, <1>4 DEF FarOK
<1>6. /\ proxy.ssess = NoSession /\ conns[v].sess = NoSession /\ conns[v].hs = NewHandshake
      /\ NoSession \in SessionType /\ NoSession.tx = 0 /\ NoSession.rx = 0
      /\ NoSession.skipped = 0
  BY <1>2, <1>5, Sessions, ConnTypes DEF ProxyOK
<1>7. PICK u : u = <<Hello(f)>>
  OBVIOUS
<1>8. Hello(f) \in UpRecord /\ Hello(f).type # "appdata"
  BY <1>2, UpRecords
<1>9. u \in Seq(UpRecord) /\ u = Append(up[f], Hello(f)) /\ u # <<>>
  BY <1>2, <1>5, <1>7, <1>8, OneMore, OnlyOne
<1>10. up' = [up EXCEPT ![f] = u]
  BY <1>9 DEF Put
<1>11. up' \in [Legs -> Seq(UpRecord)] /\ up'[f] = u /\ \A k \in Legs \ {f} : up'[k] = up[k]
  BY <1>2, <1>9, <1>10
<1>12. /\ ends' \in [Legs -> SUBSET {"dialler", "acceptor"}] /\ "acceptor" \in ends'[f]
       /\ \A k \in Legs \ {f} : ends'[k] = ends[k]
  BY <1>2 DEF Dialled
<1>13. /\ proxy' \in ProxyType /\ proxy'.st = "server" /\ proxy'.victim = proxy.victim
       /\ proxy'.hs = proxy.hs /\ proxy'.vsess = proxy.vsess /\ proxy'.ssess = proxy.ssess
       /\ proxy'.pumps = proxy.pumps /\ proxy'.armed = proxy.armed /\ proxy'.hit = proxy.hit
  BY <1>2 DEF ProxyType
<1>14. Victim' = v /\ ProxyOK'
  BY <1>2, <1>13 DEF Victim, ProxyOK
<1>15. LegOK(n)'
  BY <1>1, <1>2, <1>11, <1>13, <1>14, NearStays
<1>16. LegOK(f)'
  <2>1. DownFits(f, <<>>, TRUE, NoSession, TRUE, NoSession)
        /\ UpFits(f, <<>>, TRUE, NoSession, TRUE, NoSession, FALSE)
    BY <1>6, FitsEmpty
  <2>2. UpFits(f, Append(up[f], Hello(f)), TRUE, NoSession, TRUE, NoSession, FALSE)
    <3>1. PICK w : w = up[f]
      OBVIOUS
    <3>2. PICK h : h = Hello(f)
      OBVIOUS
    <3>3. w \in Seq(UpRecord) /\ h \in UpRecord /\ h.type # "appdata"
      BY <1>2, <1>8, <3>1, <3>2
    <3>4. NoSession \in SessionType /\ NoSession.tx = 0
      BY <1>6
    <3>5. UpFits(f, w, TRUE, NoSession, TRUE, NoSession, FALSE)
      BY <1>5, <2>1, <3>1
    <3>6. UpFits(f, Append(w, h), TRUE, NoSession, TRUE, NoSession, FALSE)
      BY <3>3, <3>4, <3>5, UpExchanged
    <3> QED BY <3>1, <3>2, <3>6
  <2>3. DownFits(f, down'[f], TRUE, conns[v].sess, TRUE, NoSession)
    BY <1>5, <1>6, <2>1
  <2>4. UpFits(f, up'[f], TRUE, conns[v].sess, TRUE, NoSession, FALSE)
    BY <1>6, <1>9, <1>11, <2>2
  <2>5. DownVals(f, down'[f]) /\ KeysFit(f, conns[v].sess, conns[v].hs, NoSession)
    BY <1>3, <1>6
  <2>6. TRUE = (proxy'.st \in {"server", "pump"}) /\ NoSession = proxy'.ssess
        /\ UNCHANGED <<clients, conns>> /\ TRUE \in BOOLEAN
    BY <1>6, <1>13
  <2> QED BY <1>2, <1>14, <2>3, <2>4, <2>5, <2>6, FarOfProxy
<1>17. FarOK(v)'
  <2>1. ~Undialled(v)'
    BY <1>2, <1>13, <1>14 DEF Undialled
  <2>2. conns'[v].hs.step = "AwaitClientHello" /\ down'[f] = <<>> /\ up'[f] = <<Hello(f)>>
    BY <1>5, <1>6, <1>7, <1>11, ConnTypes
  <2>3. \A i \in DOMAIN down'[f] : down'[f][i].type # "handshake"
    BY <2>2
  <2> QED BY <1>2, <1>13, <2>1, <2>2, <2>3 DEF FarOK
<1>18. proxy'.victim \in {v, NoClient} /\ Victim \in {v, NoClient}
       /\ (proxy'.hit = proxy.hit \/ proxy.hit = NoClient)
  BY <1>13, <1>14 DEF Victim
<1>19. \A l \in Legs \ {n, f} : up'[l] = up[l] /\ down'[l] = down[l] /\ ends'[l] = ends[l]
  BY <1>11, <1>12
<1>20. down' \in [Legs -> Seq(DownRecord)]
  BY <1>2
<1> QED BY <1>1, <1>2, <1>11, <1>12, <1>13, <1>14, <1>15, <1>16, <1>17, <1>18, <1>19, <1>20,
           ProxyKeeps

\* The exchange with the relay is complete on this side.
LEMMA ProxyKeyed ==
    ASSUME SealedInv, NEW v \in Clients, proxy.st = "server", v = Victim, NEW f, f = Far(v),
           down[f] # <<>>, down' = Take(down, f), NEW r, r = Head(down[f]), IsServerKex(r),
           proxy' = [proxy EXCEPT !.st = "pump", !.pumps = {"up", "down"},
                       !.ssess = Install(ClientKeys(f, r), "Client")],
           up' = Put(up, f, Kex(f)), UNCHANGED <<ends, clients, conns, byName, lines, junk>>
    PROVE  SealedInv'
<1>1. PICK n : n = Near(v)
  OBVIOUS
<1>2. ProxyHas(v, n, f)
  BY <1>1, ProxyKnown
<1> USE DEF ProxyHas
<1>3. FarFits(v, f)
  BY <1>1, ProxyLegs
<1> USE DEF FarFits
<1>4. DownFits(f, down[f], Held(f), conns[v].sess, TRUE, NoSession)
      /\ UpFits(f, up[f], Hears(f), conns[v].sess, TRUE, NoSession, FALSE)
  BY <1>2, <1>3 DEF DownFits, UpFits, ProxyOK
<1>5. proxy.ssess = NoSession /\ NoSession.tx = 0 /\ NoSession.rx = 0
      /\ proxy.vsess.tx = 0 /\ proxy.vsess.rx = 0 /\ proxy.vsess.up
  BY <1>2, Sessions DEF ProxyOK
<1>6. PICK w : w = Tail(down[f])
  OBVIOUS
<1>7. w \in Seq(DownRecord) /\ DownVals(f, w) /\ r.val = Pub(f, "server")
      /\ r.type = "handshake"
  <2>1. w \in Seq(DownRecord)
    BY <1>2, <1>6, FirstTaken
  <2>2. r.type = "handshake"
    BY DEF IsServerKex
  <2>3. DownVals(f, w) /\ r.val = Pub(f, "server")
    BY <1>2, <1>3, <1>6, <2>2, ValsTaken
  <2> QED BY <2>1, <2>2, <2>3
<1>8. down' = [down EXCEPT ![f] = w]
  BY <1>6 DEF Take
<1>9. /\ down' \in [Legs -> Seq(DownRecord)] /\ down'[f] = w
      /\ \A k \in Legs \ {f} : down'[k] = down[k]
  BY <1>2, <1>7, <1>8
<1>10. Kex(f) \in UpRecord /\ Kex(f).type # "appdata"
  BY <1>2, UpRecords
<1>11. PICK u : u = Append(up[f], Kex(f))
  OBVIOUS
<1>12. u \in Seq(UpRecord) /\ u # <<>> /\ (up[f] = <<>> => Head(u) = Kex(f))
  BY <1>2, <1>10, <1>11, OneMore
<1>13. up' = [up EXCEPT ![f] = u]
  BY <1>11 DEF Put
<1>14. up' \in [Legs -> Seq(UpRecord)] /\ up'[f] = u /\ \A k \in Legs \ {f} : up'[k] = up[k]
  BY <1>2, <1>12, <1>13
<1>15. PICK s : s = Install(ClientKeys(f, r), "Client")
  OBVIOUS
<1>16. ClientKeys(f, r) = KeysOf(f)
  BY <1>7 DEF ClientKeys, KeysOf
<1>17. s \in SessionType /\ s.up /\ s.keys = KeysOf(f) /\ s.role = "Client" /\ s.tx = 0
       /\ s.rx = 0
  BY <1>2, <1>15, <1>16, Installs
<1>18. /\ proxy' \in ProxyType /\ proxy'.st = "pump" /\ proxy'.victim = proxy.victim
       /\ proxy'.hs = proxy.hs /\ proxy'.vsess = proxy.vsess /\ proxy'.ssess = s
       /\ proxy'.armed = proxy.armed /\ proxy'.hit = proxy.hit
  BY <1>2, <1>15, <1>17 DEF ProxyType
<1>19. Victim' = v /\ ProxyOK'
  BY <1>2, <1>5, <1>17, <1>18 DEF Victim, ProxyOK
<1>20. LegOK(n)'
  BY <1>1, <1>2, <1>9, <1>14, <1>18, <1>19, NearStays
<1>21. LegOK(f)'
  <2>1. DownFits(f, w, Held(f), conns[v].sess, TRUE, s)
    BY <1>2, <1>4, <1>6, <1>7, <1>17, DownHeard
  <2>2. UpFits(f, u, Hears(f), conns[v].sess, TRUE, s, FALSE)
    BY <1>2, <1>4, <1>5, <1>10, <1>11, <1>17, UpExchanged, ZenonT(30)
  <2>3. (Held(f)' => Held(f)) /\ (Hears(f)' => Hears(f))
    BY <1>2, <1>18, FarHeard
  <2>4. DownFits(f, down'[f], Held(f), conns[v].sess, TRUE, s) /\ DownVals(f, down'[f])
    BY <1>7, <1>9, <2>1
  <2>5. UpFits(f, up'[f], Hears(f), conns[v].sess, TRUE, s, FALSE)
    BY <1>14, <2>2
  <2>6. KeysFit(f, conns[v].sess, conns[v].hs, s)
    BY <1>3, <1>17 DEF KeysFit
  <2>7. TRUE = (proxy'.st \in {"server", "pump"}) /\ s = proxy'.ssess
        /\ UNCHANGED <<clients, conns>> /\ TRUE \in BOOLEAN
    BY <1>18
  <2> QED BY <1>2, <1>19, <2>3, <2>4, <2>5, <2>6, <2>7, FarOfProxy
<1>22. FarOK(v)'
  <2>1. ~Undialled(v)'
    BY <1>2, <1>18, <1>19 DEF Undialled
  <2>2. /\ DOMAIN w = 1 .. Len(down[f]) - 1 /\ DOMAIN down[f] = 1 .. Len(down[f])
        /\ Len(down[f]) \in Nat /\ Len(down[f]) > 0
        /\ (\A i \in 1 .. Len(down[f]) - 1 : w[i] = down[f][i + 1]) /\ r = down[f][1]
    BY <1>2, <1>6, FirstTaken
  <2>3. \A i \in DOMAIN down[f] : down[f][i].type = "handshake" => i = 1
    BY <1>2 DEF FarOK
  <2>4. \A i \in DOMAIN down'[f] : down'[f][i].type # "handshake"
    <3>1. ASSUME NEW i \in 1 .. Len(down[f]) - 1 PROVE w[i].type # "handshake"
      <4>1. w[i] = down[f][i + 1] /\ i + 1 \in DOMAIN down[f] /\ i + 1 # 1
        BY <2>2
      <4> QED BY <2>3, <4>1
    <3> QED BY <1>9, <2>2, <3>1
  <2>5. "acceptor" \in ends[f] => conns[v].hs.step # "AwaitClientHello"
    <3>1. 1 \in DOMAIN down[f] /\ down[f][1].type = "handshake"
      BY <1>7, <2>2
    <3> QED BY <1>2, <3>1 DEF FarOK
  <2>6. "acceptor" \in ends[f] /\ conns[v].hs.step = "AwaitClientKex" => Head(up'[f]) = Kex(f)
    BY <1>2, <1>12, <1>14 DEF FarOK
  <2>7. up'[f] # <<>> /\ UNCHANGED <<ends, conns>> /\ proxy'.st # "server"
    BY <1>12, <1>14, <1>18
  <2> QED BY <1>2, <2>1, <2>4, <2>5, <2>6, <2>7 DEF FarOK
<1>23. proxy'.victim \in {v, NoClient} /\ Victim \in {v, NoClient}
       /\ (proxy'.hit = proxy.hit \/ proxy.hit = NoClient)
  BY <1>18, <1>19 DEF Victim
<1>24. \A l \in Legs \ {n, f} : up'[l] = up[l] /\ down'[l] = down[l] /\ ends'[l] = ends[l]
  BY <1>9, <1>14
<1>25. ends' \in [Legs -> SUBSET {"dialler", "acceptor"}]
  BY <1>2
<1> QED BY <1>1, <1>2, <1>9, <1>14, <1>18, <1>19, <1>20, <1>21, <1>22, <1>23, <1>24, <1>25,
           ProxyKeeps

\* A record is taken from one leg and another one sent on the next.
LEMMA MovesUp ==
    ASSUME up \in [Legs -> Seq(UpRecord)], NEW n \in Legs, NEW f \in Legs, n # f, up[n] # <<>>,
           NEW x \in UpRecord, up' = Put(Take(up, n), f, x)
    PROVE  /\ up' \in [Legs -> Seq(UpRecord)] /\ up'[n] = Tail(up[n])
           /\ up'[f] = Append(up[f], x) /\ \A k \in Legs \ {n, f} : up'[k] = up[k]
<1>1. up[n] \in Seq(UpRecord) /\ up[f] \in Seq(UpRecord)
  OBVIOUS
<1>2. Tail(up[n]) \in Seq(UpRecord) /\ Append(up[f], x) \in Seq(UpRecord)
  BY <1>1, FirstTaken, OneMore
<1>3. PICK t : t = [up EXCEPT ![n] = Tail(up[n])]
  OBVIOUS
<1>4. t \in [Legs -> Seq(UpRecord)] /\ t[n] = Tail(up[n]) /\ t[f] = up[f]
      /\ \A k \in Legs \ {n} : t[k] = up[k]
  BY <1>2, <1>3
<1>5. up' = [t EXCEPT ![f] = Append(t[f], x)]
  BY <1>3 DEF Put, Take
<1> QED BY <1>2, <1>4, <1>5

\* The same, the other way.
LEMMA MovesDown ==
    ASSUME down \in [Legs -> Seq(DownRecord)], NEW n \in Legs, NEW f \in Legs, n # f,
           down[f] # <<>>, NEW x \in DownRecord, down' = Put(Take(down, f), n, x)
    PROVE  /\ down' \in [Legs -> Seq(DownRecord)] /\ down'[f] = Tail(down[f])
           /\ down'[n] = Append(down[n], x) /\ \A k \in Legs \ {n, f} : down'[k] = down[k]
<1>1. down[n] \in Seq(DownRecord) /\ down[f] \in Seq(DownRecord)
  OBVIOUS
<1>2. Tail(down[f]) \in Seq(DownRecord) /\ Append(down[n], x) \in Seq(DownRecord)
  BY <1>1, FirstTaken, OneMore
<1>3. PICK t : t = [down EXCEPT ![f] = Tail(down[f])]
  OBVIOUS
<1>4. t \in [Legs -> Seq(DownRecord)] /\ t[f] = Tail(down[f]) /\ t[n] = down[n]
      /\ \A k \in Legs \ {f} : t[k] = down[k]
  BY <1>2, <1>3
<1>5. down' = [t EXCEPT ![n] = Append(t[n], x)]
  BY <1>3 DEF Put, Take
<1> QED BY <1>2, <1>4, <1>5

\* What passes through the pumps towards the relay comes after the exchange there.
LEMMA FarPumpedUp ==
    ASSUME SealedInv, NEW v \in Clients, proxy.st = "pump", v = Victim, NEW f, f = Far(v),
           Victim' = v, proxy'.st = "pump", NEW x \in UpRecord, up'[f] = Append(up[f], x),
           down'[f] = down[f], ends' = ends, conns' = conns, clients' = clients
    PROVE  FarOK(v)'
<1>1. /\ v \in Victims /\ clients[v].st # "off" /\ FarOK(v) /\ up[f] \in Seq(UpRecord)
  BY ProxyKnown DEF ProxyHas
<1>2. ~Undialled(v)'
  BY <1>1 DEF Undialled
<1>3. "acceptor" \in ends[f] => conns[v].hs.step # "AwaitClientHello"
  BY <1>1 DEF FarOK
<1>4. "acceptor" \in ends[f] /\ conns[v].hs.step = "AwaitClientKex" =>
        up[f] # <<>> /\ Head(up[f]) = Kex(f)
  BY <1>1 DEF FarOK
<1>5. up'[f] # <<>> /\ (up[f] # <<>> => Head(up'[f]) = Head(up[f]))
  BY <1>1, OneMore
<1>6. \A i \in DOMAIN down[f] : down[f][i].type # "handshake"
  BY <1>1 DEF FarOK
<1> QED BY <1>2, <1>3, <1>4, <1>5, <1>6 DEF FarOK

\* A record of the exchange, or an alert, passes towards the relay.
LEMMA PumpsUpPlain ==
    ASSUME SealedInv, NEW v \in Clients, proxy.st = "pump", v = Victim,
           NEW n, n = Near(v), NEW f, f = Far(v), up[n] # <<>>,
           NEW r, r = Head(up[n]), r.type # "appdata", up' = Put(Take(up, n), f, r),
           UNCHANGED <<ends, down, clients, conns, byName, proxy, lines, junk>>
    PROVE  SealedInv'
<1>1. ProxyHas(v, n, f)
  BY ProxyKnown
<1> USE DEF ProxyHas
<1>2. NearFits(v, n) /\ FarFits(v, f)
  BY ProxyLegs
<1> USE DEF NearFits, FarFits
<1>3. r \in UpRecord
  BY <1>1, FirstTaken
<1>4. /\ up' \in [Legs -> Seq(UpRecord)] /\ up'[n] = Tail(up[n])
      /\ up'[f] = Append(up[f], r) /\ \A k \in Legs \ {n, f} : up'[k] = up[k]
  BY <1>1, <1>3, MovesUp
<1>5. /\ proxy.vsess.rx = 0
      /\ \A a2 : a2.rx = 0 =>
          UpFits(n, Tail(up[n]), TRUE, a2, clients[v].st \in Running, clients[v].sess,
                 clients[v].st = "strange")
  <2>1. \A a2 : a2.rx = 0 =>
          UpFits(n, Tail(up[n]), TRUE, a2, clients[v].st \in Running, clients[v].sess,
                 clients[v].st = "strange")
    BY <1>1, <1>2, UpHeard
  <2>2. PICK rx \in Nat : rx = proxy.vsess.rx
    BY <1>1, Sessions
  <2>3. rx = 0 \/ \E tx \in Nat : Stream(up[n], KeysOf(n), "Client", rx, tx, 0)
    BY <1>2, <2>2 DEF UpFits
  <2>4. PICK tx \in Nat : rx = 0 \/ Stream(up[n], KeysOf(n), "Client", rx, tx, 0)
    BY <2>3
  <2>5. up[n] \in Seq(UpRecord)
    BY <1>1
  <2>6. rx = 0
    BY <2>4, <2>5, StreamTaken
  <2> QED BY <2>1, <2>2, <2>6
<1>6. UpFits(n, up'[n], TRUE, proxy.vsess, clients[v].st \in Running, clients[v].sess,
             clients[v].st = "strange")
  BY <1>4, <1>5
<1>7. UpVals(n, up'[n])
  <2>1. UpVals(n, Tail(up[n]))
    BY <1>1, <1>2, ValsTaken
  <2> QED BY <1>4, <2>1
<1>8. UpFits(f, up[f], Hears(f), conns[v].sess, TRUE, proxy.ssess, FALSE)
      /\ DownFits(f, down[f], Held(f), conns[v].sess, TRUE, proxy.ssess)
  BY <1>2 DEF UpFits, DownFits
<1>9. proxy.ssess.tx = 0
  BY <1>1, <1>5 DEF ProxyOK
<1>10. UpFits(f, Append(up[f], r), Hears(f), conns[v].sess, TRUE, proxy.ssess, FALSE)
  BY <1>1, <1>3, <1>8, <1>9, UpExchanged
<1>11. Victim' = v
  BY DEF Victim
<1>12. LegOK(n)'
  <2>1. UNCHANGED <<clients, conns>> /\ proxy.vsess = proxy'.vsess /\ proxy.hs = proxy'.hs
        /\ DownFits(n, down'[n], TRUE, proxy.vsess, clients[v].st \in Running, clients[v].sess)
        /\ DownVals(n, down'[n])
    BY <1>2
  <2> QED BY <1>1, <1>2, <1>6, <1>7, <1>11, <2>1, NearOfProxy
<1>13. LegOK(f)'
  <2>1. (Held(f)' => Held(f)) /\ (Hears(f)' => Hears(f))
    BY <1>1, FarHeard
  <2>2. UpFits(f, up'[f], Hears(f), conns[v].sess, TRUE, proxy.ssess, FALSE)
    BY <1>4, <1>10
  <2>3. DownFits(f, down'[f], Held(f), conns[v].sess, TRUE, proxy.ssess)
        /\ DownVals(f, down'[f])
    BY <1>2, <1>8
  <2>4. TRUE = (proxy'.st \in {"server", "pump"}) /\ proxy.ssess = proxy'.ssess
        /\ UNCHANGED <<clients, conns>> /\ TRUE \in BOOLEAN
    OBVIOUS
  <2> QED BY <1>1, <1>2, <1>11, <2>1, <2>2, <2>3, <2>4, FarOfProxy
<1>14. FarOK(v)'
  <2>1. proxy'.st = "pump" /\ down'[f] = down[f] /\ ends' = ends /\ conns' = conns
        /\ clients' = clients
    OBVIOUS
  <2> QED BY <1>3, <1>4, <1>11, <2>1, FarPumpedUp
<1>15. /\ proxy' \in ProxyType /\ down' \in [Legs -> Seq(DownRecord)]
       /\ ends' \in [Legs -> SUBSET {"dialler", "acceptor"}]
       /\ proxy'.victim \in {v, NoClient} /\ Victim \in {v, NoClient} /\ proxy'.hit = proxy.hit
  BY <1>1 DEF Victim
<1>16. ProxyOK'
  BY <1>1 DEF ProxyOK, Victim
<1>17. \A l \in Legs \ {n, f} : up'[l] = up[l] /\ down'[l] = down[l] /\ ends'[l] = ends[l]
  BY <1>4
<1> QED BY <1>1, <1>4, <1>12, <1>13, <1>14, <1>15, <1>16, <1>17, ProxyKeeps

\* A line passes towards the relay, which is as it was, or altered.
LEMMA PumpsUpLine ==
    ASSUME SealedInv, NEW v \in Clients, proxy.st = "pump", v = Victim,
           NEW n, n = Near(v), NEW f, f = Far(v), up[n] # <<>>,
           NEW r, r = Head(up[n]), Opens(proxy.vsess, r),
           NEW x, up' = Put(Take(up, n), f, x),
           \/ /\ x = Sealed(proxy.ssess, r.line)
              /\ proxy' = [proxy EXCEPT !.vsess = Opened(@), !.ssess = Counted(@)]
           \/ /\ x = [Sealed(proxy.ssess, r.line) EXCEPT !.keys = NoKeys]
              /\ proxy.armed
              /\ proxy' = [proxy EXCEPT !.vsess = Opened(@), !.ssess = Counted(@),
                                        !.armed = FALSE, !.hit = v],
           UNCHANGED <<ends, down, clients, conns, byName, lines, junk>>
    PROVE  SealedInv'
<1>1. ProxyHas(v, n, f)
  BY ProxyKnown
<1> USE DEF ProxyHas
<1>2. NearFits(v, n) /\ FarFits(v, f)
  BY ProxyLegs
<1> USE DEF NearFits, FarFits
<1>3. r \in UpRecord /\ r.type = "appdata"
  BY <1>1, FirstTaken DEF Opens
<1>4. r.line \in Asked
  BY <1>3 DEF UpRecord, Data, Hs, Alert
<1>5. /\ proxy.vsess.up /\ proxy.ssess.up /\ ~NoSession.up
      /\ proxy.vsess.keys = KeysOf(n) /\ proxy.vsess.role = "Server"
      /\ proxy.ssess.keys = KeysOf(f) /\ proxy.ssess.role = "Client"
  BY <1>1, <1>2, Sessions DEF ProxyOK, KeysFit
<1>6. PICK a : a = Opened(proxy.vsess)
  OBVIOUS
<1>7. PICK d : d = Counted(proxy.ssess)
  OBVIOUS
<1>8. /\ a \in SessionType /\ a.up /\ a.keys = KeysOf(n) /\ a.role = "Server"
      /\ a.rx = proxy.vsess.rx + 1 /\ a.tx = proxy.vsess.tx
      /\ a.skipped = proxy.vsess.skipped
  BY <1>1, <1>5, <1>6, Sessions
<1>9. /\ d \in SessionType /\ d.up /\ d.keys = KeysOf(f) /\ d.role = "Client"
      /\ d.tx = proxy.ssess.tx + 1 /\ d.rx = proxy.ssess.rx
  BY <1>1, <1>5, <1>7, Sessions
<1>10. PICK s : s = Sealed(proxy.ssess, r.line)
  OBVIOUS
<1>11. s \in Data(Asked)
  BY <1>1, <1>4, <1>10, SealedTyped
<1>12. [s EXCEPT !.keys = NoKeys] \in Data(Asked)
  BY <1>11 DEF Data
<1>13. s \in UpRecord /\ x \in UpRecord
  BY <1>10, <1>11, <1>12 DEF UpRecord
<1>14. /\ up' \in [Legs -> Seq(UpRecord)] /\ up'[n] = Tail(up[n])
       /\ up'[f] = Append(up[f], x) /\ \A k \in Legs \ {n, f} : up'[k] = up[k]
  BY <1>1, <1>13, MovesUp
<1>15. PICK armed \in BOOLEAN, hit \in Victims \cup {NoClient} :
         /\ \/ x = Sealed(proxy.ssess, r.line) /\ armed = proxy.armed /\ hit = proxy.hit
            \/ proxy.armed /\ armed = FALSE /\ hit = v
         /\ proxy' = [proxy EXCEPT !.vsess = Opened(proxy.vsess),
            !.ssess = Counted(proxy.ssess),
                                   !.armed = armed, !.hit = hit]
  <2>1. proxy.armed \in BOOLEAN /\ proxy.hit \in Victims \cup {NoClient}
    BY <1>1 DEF ProxyType
  <2>2. CASE /\ x = Sealed(proxy.ssess, r.line)
             /\ proxy' = [proxy EXCEPT !.vsess = Opened(@), !.ssess = Counted(@)]
    <3>1. proxy' = [proxy EXCEPT !.vsess = Opened(proxy.vsess), !.ssess = Counted(proxy.ssess),
                                 !.armed = proxy.armed, !.hit = proxy.hit]
      BY <1>1, <2>2 DEF ProxyType
    <3> QED BY <2>1, <2>2, <3>1
  <2>3. CASE /\ proxy.armed
             /\ proxy' = [proxy EXCEPT !.vsess = Opened(@), !.ssess = Counted(@),
                                       !.armed = FALSE, !.hit = v]
    BY <1>1, <2>3
  <2> QED BY <2>2, <2>3
<1>16. /\ proxy' \in ProxyType /\ proxy'.st = "pump" /\ proxy'.victim = proxy.victim
       /\ proxy'.hs = proxy.hs /\ proxy'.vsess = a /\ proxy'.ssess = d
       /\ proxy'.pumps = proxy.pumps /\ proxy'.armed = armed /\ proxy'.hit = hit
  <2>1. proxy' = [proxy EXCEPT !.vsess = a, !.ssess = d, !.armed = armed, !.hit = hit]
    BY <1>6, <1>7, <1>15
  <2>2. PICK p : p = proxy'
    OBVIOUS
  <2>3. PICK o : o = proxy
    OBVIOUS
  <2>4. o \in ProxyType /\ p = [o EXCEPT !.vsess = a, !.ssess = d, !.armed = armed,
        !.hit = hit]
    BY <1>1, <2>1, <2>2, <2>3
  <2>5. /\ p \in ProxyType /\ p.st = o.st /\ p.victim = o.victim
        /\ p.hs = o.hs /\ p.vsess = a /\ p.ssess = d
        /\ p.pumps = o.pumps /\ p.armed = armed /\ p.hit = hit
    BY ONLY <1>8, <1>9, <1>15, <2>4 DEF ProxyType
  <2> QED BY <2>2, <2>3, <2>5
<1>17. Victim' = v
  BY <1>16 DEF Victim
<1>18. ProxyOK'
  <2>1. d.tx = a.rx /\ a.tx = d.rx
    BY <1>1, <1>8, <1>9 DEF ProxyOK
  <2>2. armed => hit = NoClient
    BY <1>1, <1>15 DEF ProxyOK
  <2>3. Victim' = Victim
    BY <1>17
  <2> QED BY <1>1, <1>8, <1>9, <1>16, <2>1, <2>2, <2>3 DEF ProxyOK
<1>19. UpFits(n, up'[n], TRUE, a, clients[v].st \in Running, clients[v].sess,
              clients[v].st = "strange")
  <2>1. UpFits(n, Tail(up[n]), TRUE, Opened(proxy.vsess), clients[v].st \in Running,
               clients[v].sess, clients[v].st = "strange")
    BY <1>1, <1>2, <1>5, UpOpens
  <2> QED BY <1>6, <1>14, <2>1
<1>20. UpVals(n, up'[n])
  BY <1>1, <1>2, <1>14, ValsTaken
<1>21. DownFits(n, down'[n], TRUE, a, clients[v].st \in Running, clients[v].sess)
       /\ DownVals(n, down'[n])
  BY <1>2, <1>8 DEF DownFits
<1>22. KeysFit(n, a, proxy.hs, clients[v].sess)
  BY <1>2, <1>8 DEF KeysFit
<1>23. LegOK(n)'
  <2>1. UNCHANGED <<clients, conns>> /\ a = proxy'.vsess /\ proxy.hs = proxy'.hs
    BY <1>16
  <2> QED BY <1>1, <1>17, <1>19, <1>20, <1>21, <1>22, <2>1, NearOfProxy
<1>24. DownFits(f, down'[f], Held(f), conns[v].sess, TRUE, d) /\ DownVals(f, down'[f])
  BY <1>2, <1>9 DEF DownFits
<1>25. KeysFit(f, conns[v].sess, conns[v].hs, d)
  BY <1>2, <1>9 DEF KeysFit
<1>26. Held(f)' => Held(f)
  <2>1. f = Last(v) /\ AtRelay(f)
    BY <1>1, LegIs
  <2> QED BY <2>1 DEF Held, AtRelay, Owner
<1>27. TRUE = (proxy'.st \in {"server", "pump"}) /\ d = proxy'.ssess
       /\ UNCHANGED <<clients, conns>> /\ TRUE \in BOOLEAN
  BY <1>16
<1>28. LegOK(f)'
  <2>1. CASE x = s /\ hit = proxy.hit
    <3>1. UpFits(f, up[f], Hears(f), conns[v].sess, TRUE, proxy.ssess, FALSE)
      BY <1>2 DEF UpFits
    <3>2. Sealed(proxy.ssess, r.line) \in UpRecord
      BY <1>10, <1>13
    <3>3. UpFits(f, Append(up[f], Sealed(proxy.ssess, r.line)), Hears(f), conns[v].sess, TRUE,
                 Counted(proxy.ssess), FALSE)
      BY <1>1, <1>5, <3>1, <3>2, UpSealed, ZenonT(30)
    <3>4. UpFits(f, up'[f], Hears(f), conns[v].sess, TRUE, d, FALSE)
      BY <1>7, <1>10, <1>14, <2>1, <3>3
    <3>5. Hears(f)' => Hears(f)
      BY <1>1, <1>16, <2>1, FarHeard
    <3> QED BY <1>1, <1>17, <1>24, <1>25, <1>26, <1>27, <3>4, <3>5, FarOfProxy
  <2>2. CASE hit = v
    <3>1. ~Hears(f)'
      BY <1>1, <1>16, <2>2, LegIs DEF Hears, Altered, IsNear, Owner
    <3>2. UpFits(f, up'[f], FALSE, conns[v].sess, TRUE, d, FALSE)
      BY DEF UpFits
    <3> QED BY <1>1, <1>17, <1>24, <1>25, <1>26, <1>27, <3>1, <3>2, FarOfProxy
  <2> QED BY <1>10, <1>15, <2>1, <2>2
<1>29. FarOK(v)'
  <2>1. proxy'.st = "pump" /\ down'[f] = down[f] /\ ends' = ends /\ conns' = conns
        /\ clients' = clients
    BY <1>16
  <2> QED BY <1>13, <1>14, <1>17, <2>1, FarPumpedUp
<1>30. /\ down' \in [Legs -> Seq(DownRecord)]
       /\ ends' \in [Legs -> SUBSET {"dialler", "acceptor"}]
       /\ proxy'.victim \in {v, NoClient} /\ Victim \in {v, NoClient}
  BY <1>1, <1>16 DEF Victim
<1>31. proxy'.hit = proxy.hit \/ proxy.hit = NoClient
  BY <1>1, <1>15, <1>16 DEF ProxyOK
<1>32. \A l \in Legs \ {n, f} : up'[l] = up[l] /\ down'[l] = down[l] /\ ends'[l] = ends[l]
  BY <1>14
<1> QED BY <1>1, <1>14, <1>16, <1>18, <1>23, <1>28, <1>29, <1>30, <1>31, <1>32, ProxyKeeps

\* What passes through the pumps towards the victim is not of the exchange.
LEMMA FarPumpedDown ==
    ASSUME SealedInv, NEW v \in Clients, proxy.st = "pump", v = Victim, NEW f, f = Far(v),
           down[f] # <<>>, Victim' = v, proxy'.st = "pump", down'[f] = Tail(down[f]),
           up'[f] = up[f], ends' = ends, conns' = conns, clients' = clients
    PROVE  FarOK(v)' /\ Head(down[f]).type # "handshake"
<1>1. /\ v \in Victims /\ clients[v].st # "off" /\ FarOK(v) /\ down[f] \in Seq(DownRecord)
  BY ProxyKnown DEF ProxyHas
<1>2. ~Undialled(v)'
  BY <1>1 DEF Undialled
<1>3. "acceptor" \in ends[f] => conns[v].hs.step # "AwaitClientHello"
  BY <1>1 DEF FarOK
<1>4. "acceptor" \in ends[f] /\ conns[v].hs.step = "AwaitClientKex" =>
        up[f] # <<>> /\ Head(up[f]) = Kex(f)
  BY <1>1 DEF FarOK
<1>5. \A i \in DOMAIN down[f] : down[f][i].type # "handshake"
  BY <1>1 DEF FarOK
<1>6. PICK w : w = Tail(down[f])
  OBVIOUS
<1>7. /\ DOMAIN w = 1 .. Len(down[f]) - 1 /\ DOMAIN down[f] = 1 .. Len(down[f])
      /\ Len(down[f]) \in Nat /\ Len(down[f]) > 0
      /\ (\A i \in 1 .. Len(down[f]) - 1 : w[i] = down[f][i + 1]) /\ Head(down[f]) = down[f][1]
  BY <1>1, <1>6, FirstTaken
<1>8. \A i \in DOMAIN w : w[i].type # "handshake"
  BY <1>5, <1>7
<1>9. Head(down[f]).type # "handshake"
  BY <1>5, <1>7
<1>10. FarOK(v)'
  BY <1>2, <1>3, <1>4, <1>6, <1>8 DEF FarOK
<1> QED BY <1>9, <1>10

\* An alert passes towards the victim.
LEMMA PumpsDownPlain ==
    ASSUME SealedInv, NEW v \in Clients, proxy.st = "pump", v = Victim,
           NEW n, n = Near(v), NEW f, f = Far(v), down[f] # <<>>,
           NEW r, r = Head(down[f]), r.type # "appdata", down' = Put(Take(down, f), n, r),
           UNCHANGED <<ends, up, clients, conns, byName, proxy, lines, junk>>
    PROVE  SealedInv'
<1>1. ProxyHas(v, n, f)
  BY ProxyKnown
<1> USE DEF ProxyHas
<1>2. NearFits(v, n) /\ FarFits(v, f)
  BY ProxyLegs
<1> USE DEF NearFits, FarFits
<1>3. r \in DownRecord
  BY <1>1, FirstTaken
<1>4. /\ down' \in [Legs -> Seq(DownRecord)] /\ down'[f] = Tail(down[f])
      /\ down'[n] = Append(down[n], r) /\ \A k \in Legs \ {n, f} : down'[k] = down[k]
  BY <1>1, <1>3, MovesDown
<1>5. Victim' = v
  BY DEF Victim
<1>6. FarOK(v)' /\ r.type # "handshake"
  <2>1. proxy'.st = "pump" /\ up'[f] = up[f] /\ ends' = ends /\ conns' = conns
        /\ clients' = clients
    OBVIOUS
  <2> QED BY <1>4, <1>5, <2>1, FarPumpedDown
<1>7. DownFits(f, down[f], Held(f), conns[v].sess, TRUE, proxy.ssess)
      /\ UpFits(f, up[f], Hears(f), conns[v].sess, TRUE, proxy.ssess, FALSE)
  BY <1>2 DEF UpFits, DownFits
<1>8. proxy.ssess.rx = 0
      /\ DownFits(f, Tail(down[f]), Held(f), conns[v].sess, TRUE, proxy.ssess)
  <2>1. PICK d : d = proxy.ssess
    OBVIOUS
  <2>2. PICK w : w = down[f]
    OBVIOUS
  <2>3. w \in Seq(DownRecord) /\ w # <<>> /\ Head(w).type # "appdata"
        /\ DownFits(f, w, Held(f), conns[v].sess, TRUE, d)
    BY <1>1, <1>7, <2>1, <2>2
  <2>4. d.rx = 0
    <3>1. PICK rx, tx, k \in Nat : rx = d.rx /\ Stream(w, KeysOf(f), "Server", rx, tx, k)
      BY <2>3 DEF DownFits
    <3> QED BY <2>3, <3>1, StreamTaken
  <2>5. DownFits(f, Tail(w), Held(f), conns[v].sess, TRUE, d)
    BY <2>3, <2>4, DownHeard
  <2> QED BY <2>1, <2>2, <2>4, <2>5
<1>9. proxy.vsess.tx = 0
  BY <1>1, <1>8 DEF ProxyOK
<1>10. DownFits(n, Append(down[n], r), TRUE, proxy.vsess, clients[v].st \in Running,
                clients[v].sess)
  BY <1>1, <1>2, <1>3, <1>9, DownExchanged, ZenonT(30)
<1>11. DownVals(n, Append(down[n], r))
  BY <1>1, <1>2, <1>3, <1>6, ValsMore
<1>12. DownVals(f, Tail(down[f]))
  BY <1>1, <1>2, ValsTaken
<1>13. LegOK(n)'
  <2>1. UNCHANGED <<clients, conns>> /\ proxy.vsess = proxy'.vsess /\ proxy.hs = proxy'.hs
    OBVIOUS
  <2>2. DownFits(n, down'[n], TRUE, proxy.vsess, clients[v].st \in Running, clients[v].sess)
        /\ DownVals(n, down'[n])
    BY <1>4, <1>10, <1>11
  <2>3. UpFits(n, up'[n], TRUE, proxy.vsess, clients[v].st \in Running, clients[v].sess,
               clients[v].st = "strange") /\ UpVals(n, up'[n])
    BY <1>2
  <2> QED BY <1>1, <1>2, <1>5, <2>1, <2>2, <2>3, NearOfProxy
<1>14. LegOK(f)'
  <2>1. (Held(f)' => Held(f)) /\ (Hears(f)' => Hears(f))
    BY <1>1, FarHeard
  <2>2. UpFits(f, up'[f], Hears(f), conns[v].sess, TRUE, proxy.ssess, FALSE)
    BY <1>7
  <2>3. DownFits(f, down'[f], Held(f), conns[v].sess, TRUE, proxy.ssess)
        /\ DownVals(f, down'[f])
    BY <1>4, <1>8, <1>12
  <2>4. TRUE = (proxy'.st \in {"server", "pump"}) /\ proxy.ssess = proxy'.ssess
        /\ UNCHANGED <<clients, conns>> /\ TRUE \in BOOLEAN
    OBVIOUS
  <2> QED BY <1>1, <1>2, <1>5, <2>1, <2>2, <2>3, <2>4, FarOfProxy
<1>15. /\ proxy' \in ProxyType /\ up' \in [Legs -> Seq(UpRecord)]
       /\ ends' \in [Legs -> SUBSET {"dialler", "acceptor"}]
       /\ proxy'.victim \in {v, NoClient} /\ Victim \in {v, NoClient} /\ proxy'.hit = proxy.hit
  BY <1>1 DEF Victim
<1>16. ProxyOK'
  BY <1>1 DEF ProxyOK, Victim
<1>17. \A l \in Legs \ {n, f} : up'[l] = up[l] /\ down'[l] = down[l] /\ ends'[l] = ends[l]
  BY <1>4
<1> QED BY <1>1, <1>4, <1>6, <1>13, <1>14, <1>15, <1>16, <1>17, ProxyKeeps

\* A line passes towards the victim.
LEMMA PumpsDownLine ==
    ASSUME SealedInv, NEW v \in Clients, proxy.st = "pump", v = Victim,
           NEW n, n = Near(v), NEW f, f = Far(v), down[f] # <<>>,
           NEW r, r = Head(down[f]), Opens(proxy.ssess, r),
           down' = Put(Take(down, f), n, Sealed(proxy.vsess, r.line)),
           proxy' = [proxy EXCEPT !.ssess = Opened(proxy.ssess),
               !.vsess = Counted(proxy.vsess)],
           UNCHANGED <<ends, up, clients, conns, byName, lines, junk>>
    PROVE  SealedInv'
<1>1. ProxyHas(v, n, f)
  BY ProxyKnown
<1> USE DEF ProxyHas
<1>2. NearFits(v, n) /\ FarFits(v, f)
  BY ProxyLegs
<1> USE DEF NearFits, FarFits
<1>3. r \in DownRecord /\ r.type = "appdata"
  BY <1>1, FirstTaken DEF Opens
<1>4. r.line \in Told
  BY <1>3 DEF DownRecord, Data, Hs, Alert
<1>5. /\ proxy.vsess.up /\ proxy.ssess.up /\ ~NoSession.up
      /\ proxy.vsess.keys = KeysOf(n) /\ proxy.vsess.role = "Server"
      /\ proxy.ssess.keys = KeysOf(f) /\ proxy.ssess.role = "Client"
  BY <1>1, <1>2, Sessions DEF ProxyOK, KeysFit
<1>6. PICK a : a = Counted(proxy.vsess)
  OBVIOUS
<1>7. PICK d : d = Opened(proxy.ssess)
  OBVIOUS
<1>8. /\ a \in SessionType /\ a.up /\ a.keys = KeysOf(n) /\ a.role = "Server"
      /\ a.tx = proxy.vsess.tx + 1 /\ a.rx = proxy.vsess.rx
  BY <1>1, <1>5, <1>6, Sessions
<1>9. /\ d \in SessionType /\ d.up /\ d.keys = KeysOf(f) /\ d.role = "Client"
      /\ d.rx = proxy.ssess.rx + 1 /\ d.tx = proxy.ssess.tx
  BY <1>1, <1>5, <1>7, Sessions
<1>10. PICK s : s = Sealed(proxy.vsess, r.line)
  OBVIOUS
<1>11. s \in DownRecord /\ s.type = "appdata"
  <2>1. s \in Data(Told)
    BY <1>1, <1>4, <1>10, SealedTyped
  <2> QED BY <2>1 DEF DownRecord, Data
<1>12. /\ down' \in [Legs -> Seq(DownRecord)] /\ down'[f] = Tail(down[f])
       /\ down'[n] = Append(down[n], s) /\ \A k \in Legs \ {n, f} : down'[k] = down[k]
  <2>1. down' = Put(Take(down, f), n, s)
    BY <1>10
  <2> QED BY <1>1, <1>11, <2>1, MovesDown
<1>13. /\ proxy' \in ProxyType /\ proxy'.st = "pump" /\ proxy'.victim = proxy.victim
       /\ proxy'.hs = proxy.hs /\ proxy'.vsess = a /\ proxy'.ssess = d
       /\ proxy'.pumps = proxy.pumps /\ proxy'.armed = proxy.armed /\ proxy'.hit = proxy.hit
  <2>1. proxy' = [proxy EXCEPT !.ssess = d, !.vsess = a]
    BY <1>6, <1>7
  <2>2. PICK p : p = proxy'
    OBVIOUS
  <2>3. PICK o : o = proxy
    OBVIOUS
  <2>4. o \in ProxyType /\ p = [o EXCEPT !.ssess = d, !.vsess = a]
    BY <1>1, <2>1, <2>2, <2>3
  <2>5. /\ p \in ProxyType /\ p.st = o.st /\ p.victim = o.victim
        /\ p.hs = o.hs /\ p.vsess = a /\ p.ssess = d
        /\ p.pumps = o.pumps /\ p.armed = o.armed /\ p.hit = o.hit
    BY ONLY <1>8, <1>9, <2>4 DEF ProxyType
  <2> QED BY <2>2, <2>3, <2>5
<1>14. Victim' = v
  BY <1>13 DEF Victim
<1>15. ProxyOK'
  <2>1. d.tx = a.rx /\ a.tx = d.rx
    BY <1>1, <1>8, <1>9 DEF ProxyOK
  <2>2. Victim' = Victim
    BY <1>14
  <2> QED BY <1>1, <1>8, <1>9, <1>13, <2>1, <2>2 DEF ProxyOK
<1>16. FarOK(v)'
  <2>1. proxy'.st = "pump" /\ up'[f] = up[f] /\ ends' = ends /\ conns' = conns
        /\ clients' = clients
    BY <1>13
  <2> QED BY <1>12, <1>14, <2>1, FarPumpedDown
<1>17. DownFits(f, Tail(down[f]), Held(f), conns[v].sess, TRUE, d)
  <2>1. DownFits(f, down[f], Held(f), conns[v].sess, TRUE, proxy.ssess)
    BY <1>2 DEF DownFits
  <2>2. DownFits(f, Tail(down[f]), Held(f), conns[v].sess, TRUE, Opened(proxy.ssess))
    BY <1>1, <1>3, <2>1, DownOpens
  <2> QED BY <1>7, <2>2
<1>18. UpFits(f, up[f], Hears(f), conns[v].sess, TRUE, d, FALSE)
  BY <1>2, <1>9 DEF UpFits
<1>19. DownFits(n, Append(down[n], s), TRUE, a, clients[v].st \in Running, clients[v].sess)
  <2>1. Sealed(proxy.vsess, r.line) \in DownRecord
    BY <1>10, <1>11
  <2>2. DownFits(n, Append(down[n], Sealed(proxy.vsess, r.line)), TRUE, Counted(proxy.vsess),
                 clients[v].st \in Running, clients[v].sess)
    BY <1>1, <1>2, <1>5, <2>1, DownSealed, ZenonT(30)
  <2> QED BY <1>6, <1>10, <2>2
<1>20. DownVals(n, Append(down[n], s))
  BY <1>1, <1>2, <1>11, ValsMore
<1>21. DownVals(f, Tail(down[f]))
  BY <1>1, <1>2, ValsTaken
<1>22. KeysFit(n, a, proxy.hs, clients[v].sess) /\ KeysFit(f, conns[v].sess, conns[v].hs, d)
  BY <1>2, <1>8, <1>9 DEF KeysFit
<1>23. LegOK(n)'
  <2>1. UNCHANGED <<clients, conns>> /\ a = proxy'.vsess /\ proxy.hs = proxy'.hs
    BY <1>13
  <2>2. DownFits(n, down'[n], TRUE, a, clients[v].st \in Running, clients[v].sess)
        /\ DownVals(n, down'[n])
    BY <1>12, <1>19, <1>20
  <2>3. UpFits(n, up'[n], TRUE, a, clients[v].st \in Running, clients[v].sess,
               clients[v].st = "strange") /\ UpVals(n, up'[n])
    BY <1>2, <1>8 DEF UpFits
  <2> QED BY <1>1, <1>14, <1>22, <2>1, <2>2, <2>3, NearOfProxy
<1>24. LegOK(f)'
  <2>1. (Held(f)' => Held(f)) /\ (Hears(f)' => Hears(f))
    BY <1>1, <1>13, FarHeard
  <2>2. UpFits(f, up'[f], Hears(f), conns[v].sess, TRUE, d, FALSE)
    BY <1>18
  <2>3. DownFits(f, down'[f], Held(f), conns[v].sess, TRUE, d) /\ DownVals(f, down'[f])
    BY <1>12, <1>17, <1>21
  <2>4. TRUE = (proxy'.st \in {"server", "pump"}) /\ d = proxy'.ssess
        /\ UNCHANGED <<clients, conns>> /\ TRUE \in BOOLEAN
    BY <1>13
  <2> QED BY <1>1, <1>14, <1>22, <2>1, <2>2, <2>3, <2>4, FarOfProxy
<1>25. /\ up' \in [Legs -> Seq(UpRecord)] /\ ends' \in [Legs -> SUBSET {"dialler", "acceptor"}]
       /\ proxy'.victim \in {v, NoClient} /\ Victim \in {v, NoClient} /\ proxy'.hit = proxy.hit
  BY <1>1, <1>13 DEF Victim
<1>26. \A l \in Legs \ {n, f} : up'[l] = up[l] /\ down'[l] = down[l] /\ ends'[l] = ends[l]
  BY <1>12
<1> QED BY <1>1, <1>12, <1>13, <1>15, <1>16, <1>23, <1>24, <1>25, <1>26, ProxyKeeps

\* A pump ends.
LEMMA PumpEnds ==
    ASSUME SealedInv, NEW v \in Clients, proxy.st = "pump", v = Victim,
           NEW n, n = Near(v), NEW f, f = Far(v), NEW pumps \in SUBSET {"up", "down"},
           proxy' = [proxy EXCEPT !.pumps = pumps],
           ends' \in [Legs -> SUBSET {"dialler", "acceptor"}],
           \A l \in Legs \ {n, f} : ends'[l] = ends[l],
           "acceptor" \in ends'[f] <=> "acceptor" \in ends[f],
           UNCHANGED <<up, down, clients, conns, byName, lines, junk>>
    PROVE  SealedInv'
<1>1. ProxyHas(v, n, f)
  BY ProxyKnown
<1> USE DEF ProxyHas
<1>2. /\ proxy' \in ProxyType /\ proxy'.st = "pump" /\ proxy'.victim = proxy.victim
      /\ proxy'.hs = proxy.hs /\ proxy'.vsess = proxy.vsess /\ proxy'.ssess = proxy.ssess
      /\ proxy'.armed = proxy.armed /\ proxy'.hit = proxy.hit
  BY <1>1 DEF ProxyType
<1>3. Victim' = v
  BY <1>2 DEF Victim
<1>4. ProxyOK'
  <2>1. Victim' = Victim
    BY <1>3
  <2> QED BY <1>1, <1>2, <2>1 DEF ProxyOK
<1>5. up'[n] = up[n] /\ down'[n] = down[n] /\ up'[f] = up[f] /\ down'[f] = down[f]
      /\ UNCHANGED <<clients, conns>>
  OBVIOUS
<1>6. LegOK(n)'
  BY <1>2, <1>3, <1>5, NearStays
<1>7. LegOK(f)'
  BY <1>2, <1>3, <1>5, FarStays
<1>8. FarOK(v)'
  <2>1. ~Undialled(v)'
    BY <1>1, <1>2, <1>3 DEF Undialled
  <2> QED BY <1>1, <1>2, <1>3, <2>1 DEF FarOK
<1>9. /\ up' \in [Legs -> Seq(UpRecord)] /\ down' \in [Legs -> Seq(DownRecord)]
      /\ proxy'.victim \in {v, NoClient} /\ Victim \in {v, NoClient} /\ proxy'.hit = proxy.hit
  BY <1>1, <1>2 DEF Victim
<1>10. \A l \in Legs \ {n, f} : up'[l] = up[l] /\ down'[l] = down[l] /\ ends'[l] = ends[l]
  OBVIOUS
<1> QED BY <1>1, <1>2, <1>4, <1>6, <1>7, <1>8, <1>9, <1>10, ProxyKeeps

\* The pumps.
LEMMA PumpStep ==
    ASSUME SealedInv, Pumps
    PROVE  SealedInv'
<1>1. PICK v : v = Victim
  OBVIOUS
<1>2. proxy.st = "pump" /\ UNCHANGED <<clients, conns, byName, lines, junk>>
  BY DEF Pumps, PumpUp, PumpDown, PumpUpEnds, PumpDownEnds, Pumping
<1>3. v \in Clients
  <2>1. ProxyOK /\ proxy \in ProxyType
    BY DEF SealedInv, TypesOK
  <2> QED BY <1>1, <1>2, <2>1, SealedChatAssumption DEF ProxyOK, ProxyType, Victim
<1>4. PICK n : n = Near(v)
  OBVIOUS
<1>5. PICK f : f = Far(v)
  OBVIOUS
<1>6. /\ n \in Legs /\ f \in Legs /\ n # f /\ proxy \in ProxyType
      /\ ends \in [Legs -> SUBSET {"dialler", "acceptor"}]
  BY <1>1, <1>2, <1>3, <1>4, <1>5, ProxyKnown DEF ProxyHas
<1>7. CASE PumpUp
  <2>1. PICK r : r = Head(up[n])
    OBVIOUS
  <2>2. up[n] # <<>> /\ UNCHANGED <<ends, down>>
    BY <1>1, <1>4, <1>7 DEF PumpUp
  <2>3. CASE r.type # "appdata" /\ up' = Put(Take(up, n), f, r) /\ UNCHANGED proxy
    BY <1>1, <1>2, <1>3, <1>4, <1>5, <2>1, <2>2, <2>3, PumpsUpPlain
  <2>4. ASSUME NEW x, Opens(proxy.vsess, r), up' = Put(Take(up, n), f, x),
               \/ /\ x = Sealed(proxy.ssess, r.line)
                  /\ proxy' = [proxy EXCEPT !.vsess = Opened(@), !.ssess = Counted(@)]
               \/ /\ x = [Sealed(proxy.ssess, r.line) EXCEPT !.keys = NoKeys]
                  /\ proxy.armed
                  /\ proxy' = [proxy EXCEPT !.vsess = Opened(@), !.ssess = Counted(@),
                                            !.armed = FALSE, !.hit = v]
        PROVE  SealedInv'
    BY <1>1, <1>2, <1>3, <1>4, <1>5, <2>1, <2>2, <2>4, PumpsUpLine
  <2>5. CASE /\ Opens(proxy.vsess, r)
             /\ up' = Put(Take(up, n), f, Sealed(proxy.ssess, r.line))
             /\ proxy' = [proxy EXCEPT !.vsess = Opened(@), !.ssess = Counted(@)]
    BY <2>4, <2>5
  <2>6. CASE /\ Opens(proxy.vsess, r) /\ Alters(r.line)
             /\ up' = Put(Take(up, n), f, [Sealed(proxy.ssess, r.line) EXCEPT !.keys = NoKeys])
             /\ proxy' = [proxy EXCEPT !.vsess = Opened(@), !.ssess = Counted(@),
                                       !.armed = FALSE, !.hit = Victim]
    BY <1>1, <2>4, <2>6 DEF Alters
  <2> QED BY <1>1, <1>4, <1>5, <1>7, <2>1, <2>3, <2>5, <2>6 DEF PumpUp
<1>8. CASE PumpDown
  <2>1. PICK r : r = Head(down[f])
    OBVIOUS
  <2>2. down[f] # <<>> /\ UNCHANGED <<ends, up>>
    BY <1>1, <1>5, <1>8 DEF PumpDown
  <2>3. CASE r.type # "appdata" /\ down' = Put(Take(down, f), n, r) /\ UNCHANGED proxy
    BY <1>1, <1>2, <1>3, <1>4, <1>5, <2>1, <2>2, <2>3, PumpsDownPlain
  <2>4. CASE /\ Opens(proxy.ssess, r)
             /\ down' = Put(Take(down, f), n, Sealed(proxy.vsess, r.line))
             /\ proxy' = [proxy EXCEPT !.ssess = Opened(@), !.vsess = Counted(@)]
    BY <1>1, <1>2, <1>3, <1>4, <1>5, <2>1, <2>2, <2>4, PumpsDownLine
  <2> QED BY <1>1, <1>4, <1>5, <1>8, <2>1, <2>3, <2>4 DEF PumpDown
<1>9. CASE PumpUpEnds
  <2>1. PICK pumps \in SUBSET {"up", "down"} : pumps = proxy.pumps \ {"up"}
    BY <1>6 DEF ProxyType
  <2>2. proxy' = [proxy EXCEPT !.pumps = pumps] /\ UNCHANGED <<up, down>>
    BY <1>9, <2>1 DEF PumpUpEnds
  <2>3. /\ ends' \in [Legs -> SUBSET {"dialler", "acceptor"}]
        /\ \A l \in Legs \ {n, f} : ends'[l] = ends[l]
        /\ "acceptor" \in ends'[f] <=> "acceptor" \in ends[f]
    BY <1>1, <1>5, <1>6, <1>9 DEF PumpUpEnds
  <2> QED BY <1>1, <1>2, <1>3, <1>4, <1>5, <2>2, <2>3, PumpEnds
<1>10. CASE PumpDownEnds
  <2>1. PICK pumps \in SUBSET {"up", "down"} : pumps = proxy.pumps \ {"down"}
    BY <1>6 DEF ProxyType
  <2>2. proxy' = [proxy EXCEPT !.pumps = pumps] /\ UNCHANGED <<up, down>>
    BY <1>10, <2>1 DEF PumpDownEnds
  <2>3. /\ ends' \in [Legs -> SUBSET {"dialler", "acceptor"}]
        /\ \A l \in Legs \ {n, f} : ends'[l] = ends[l]
        /\ "acceptor" \in ends'[f] <=> "acceptor" \in ends[f]
    BY <1>1, <1>4, <1>6, <1>10 DEF PumpDownEnds
  <2> QED BY <1>1, <1>2, <1>3, <1>4, <1>5, <2>2, <2>3, PumpEnds
<1> QED BY <1>7, <1>8, <1>9, <1>10 DEF Pumps

\* The main of the proxy.
LEMMA ProxyMainStep ==
    ASSUME SealedInv, ProxyMain
    PROVE  SealedInv'
<1>1. UNCHANGED <<clients, conns, byName, lines, junk>>
  BY DEF ProxyMain
<1>2. PICK v : v = Victim
  OBVIOUS
<1>3. PICK n : n = Near(v)
  OBVIOUS
<1>4. PICK f : f = Far(v)
  OBVIOUS
<1>5. proxy.st # "accept" => v \in Clients
  <2>1. ProxyOK /\ proxy \in ProxyType
    BY DEF SealedInv, TypesOK
  <2> QED BY <1>2, <2>1, SealedChatAssumption DEF ProxyOK, ProxyType, Victim
<1>6. ASSUME proxy.st # "accept", NEW fds, fds \in {{n}, {n, f}}, Forgets(fds),
             up' = up \/ (up[n] # <<>> /\ up' = Take(up, n)),
             down' = down \/ (down[f] # <<>> /\ down' = Take(down, f))
      PROVE  SealedInv'
  BY <1>1, <1>2, <1>3, <1>4, <1>5, <1>6, ForgetsKeeps
<1>7. CASE \E x \in Victims : ProxyAccepts(x)
  BY <1>1, <1>7, AcceptsKeeps
<1>8. CASE HandshakeAsServer
  <2>1. PICK r : r = Head(up[n])
    OBVIOUS
  <2>2. proxy.st = "victim" /\ up[n] # <<>> /\ up' = Take(up, n)
    BY <1>2, <1>3, <1>8 DEF HandshakeAsServer
  <2>3. \/ Forgets({n}) /\ UNCHANGED down
        \/ /\ r.type = "handshake" /\ FeedAnswers(proxy.hs, r)
           /\ proxy' = [proxy EXCEPT !.hs = Answered(r)]
           /\ down' = Put(down, n, Hs("ServerKex", Pub(n, "server")))
           /\ UNCHANGED ends
        \/ /\ r.type = "handshake" /\ FeedCompletes(proxy.hs, r)
           /\ proxy' = [proxy EXCEPT !.st = "dial",
                          !.vsess = Install(ServerKeys(proxy.hs, n, r), "Server")]
           /\ UNCHANGED <<ends, down>>
    BY <1>2, <1>3, <1>8, <2>1 DEF HandshakeAsServer
  <2>4. CASE Forgets({n}) /\ UNCHANGED down
    BY <1>6, <2>2, <2>4
  <2>5. CASE /\ r.type = "handshake" /\ FeedAnswers(proxy.hs, r)
             /\ proxy' = [proxy EXCEPT !.hs = Answered(r)]
             /\ down' = Put(down, n, Hs("ServerKex", Pub(n, "server")))
             /\ UNCHANGED ends
    BY <1>1, <1>2, <1>3, <1>5, <2>1, <2>2, <2>5, ProxyAnswers
  <2>6. CASE /\ r.type = "handshake" /\ FeedCompletes(proxy.hs, r)
             /\ proxy' = [proxy EXCEPT !.st = "dial",
                            !.vsess = Install(ServerKeys(proxy.hs, n, r), "Server")]
             /\ UNCHANGED <<ends, down>>
    BY <1>1, <1>2, <1>3, <1>5, <2>1, <2>2, <2>6, ProxyCompletes
  <2> QED BY <2>3, <2>4, <2>5, <2>6
<1>9. CASE VictimLeaves
  BY <1>2, <1>3, <1>6, <1>9 DEF VictimLeaves
<1>10. CASE Dials
  <2>1. CASE Forgets({n}) /\ UNCHANGED <<up, down>>
    BY <1>6, <1>10, <2>1 DEF Dials
  <2>2. CASE /\ proxy' = [proxy EXCEPT !.st = "server"]
             /\ ends' = Dialled(f)
             /\ up' = Put(up, f, Hello(f))
             /\ UNCHANGED down
    <3>1. proxy.st = "dial"
      BY <1>10 DEF Dials
    <3> QED BY <1>1, <1>2, <1>4, <1>5, <2>2, <3>1, ProxyDials
  <2> QED BY <1>2, <1>3, <1>4, <1>10, <2>1, <2>2 DEF Dials
<1>11. CASE HandshakeAsClient
  <2>1. PICK r : r = Head(down[f])
    OBVIOUS
  <2>2. proxy.st = "server" /\ down[f] # <<>> /\ down' = Take(down, f)
    BY <1>2, <1>4, <1>11 DEF HandshakeAsClient
  <2>3. CASE Forgets({n, f}) /\ UNCHANGED up
    BY <1>6, <2>2, <2>3
  <2>4. CASE /\ IsServerKex(r)
             /\ proxy' = [proxy EXCEPT !.st = "pump", !.pumps = {"up", "down"},
                            !.ssess = Install(ClientKeys(f, r), "Client")]
             /\ up' = Put(up, f, Kex(f))
             /\ UNCHANGED ends
    BY <1>1, <1>2, <1>4, <1>5, <2>1, <2>2, <2>4, ProxyKeyed
  <2> QED BY <1>2, <1>3, <1>4, <1>11, <2>1, <2>3, <2>4 DEF HandshakeAsClient
<1>12. CASE ServerLeaves
  BY <1>2, <1>3, <1>4, <1>6, <1>12 DEF ServerLeaves
<1>13. CASE Joins
  BY <1>2, <1>3, <1>4, <1>6, <1>13 DEF Joins
<1> QED BY <1>7, <1>8, <1>9, <1>10, <1>11, <1>12, <1>13 DEF ProxyMain

\* The first state.
LEMMA SealedInit == Init => SealedInv
<1> SUFFICES ASSUME Init PROVE SealedInv
  OBVIOUS
<1>1. /\ NoSession \in SessionType /\ ~NoSession.up /\ NoSession.tx = 0 /\ NoSession.rx = 0
      /\ NoSession.skipped = 0 /\ NewHandshake \in HandshakeType
      /\ NoConn \in ConnType /\ NoProcess \in ProcessType
      /\ NoConn.sess = NoSession /\ NoConn.user = NoName /\ NoConn.st = "none"
      /\ NoConn.hs = NewHandshake /\ NewHandshake.step = "AwaitClientHello"
      /\ NoProcess.sess = NoSession /\ NoProcess.st = "off"
  BY Sessions, ConnTypes
<1>2. /\ \A l \in Legs : ends[l] = {} /\ up[l] = <<>> /\ down[l] = <<>>
      /\ \A c \in Clients : clients[c] = NoProcess /\ conns[c] = NoConn
      /\ \A n \in Names : byName[n] = NoClient
  BY DEF Init
<1>3. /\ proxy.st = "accept" /\ proxy.victim = NoClient /\ proxy.hs = NewHandshake
      /\ proxy.vsess = NoSession /\ proxy.ssess = NoSession /\ proxy.pumps = {}
      /\ proxy.armed = Tamper /\ proxy.hit = NoClient
  BY DEF Init
<1>4. TypesOK
  <2>1. proxy \in ProxyType
    BY <1>1, SealedChatAssumption DEF Init, ProxyType
  <2>2. up \in [Legs -> Seq(UpRecord)] /\ down \in [Legs -> Seq(DownRecord)]
    BY DEF Init
  <2>3. clients \in [Clients -> ProcessType] /\ conns \in [Clients -> ConnType]
    BY <1>1 DEF Init
  <2>4. /\ ends \in [Legs -> SUBSET {"dialler", "acceptor"}]
        /\ byName \in [Names -> Clients \cup {NoClient}]
        /\ lines \in 0 .. MaxLines /\ junk \in 0 .. MaxJunk
    BY SealedChatAssumption DEF Init
  <2> QED BY <2>1, <2>2, <2>3, <2>4 DEF TypesOK
<1>5. ProxyOK
  BY <1>1, <1>3 DEF ProxyOK, Victim
<1>6. NamesInverse
  BY <1>1, <1>2 DEF NamesInverse, Registered
<1>7. ASSUME NEW l \in Legs PROVE LegOK(l)
  <2>1. Owner(l) \in Clients /\ Victim # Owner(l)
    BY <1>3, LegsAre, SealedChatAssumption DEF Victim
  <2>2. clients[Owner(l)] = NoProcess /\ conns[Owner(l)] = NoConn
        /\ up[l] = <<>> /\ down[l] = <<>>
    BY <1>2, <2>1
  <2>3. Acceptor(l) = NoSession /\ AcceptorStep(l) = NewHandshake
    BY <1>1, <2>1, <2>2 DEF Acceptor, AcceptorStep
  <2>4. Dialler(l) = NoSession
    BY <1>1, <2>1, <2>2 DEF Dialler
  <2>5. ~Strange(l)
    BY <1>1, <2>2 DEF Strange
  <2>6. DownFits(l, <<>>, Held(l), NoSession, Runs(l), NoSession)
        /\ UpFits(l, <<>>, Hears(l), NoSession, Runs(l), NoSession, Strange(l))
    BY <1>1, <2>5, FitsEmpty
  <2>7. DownVals(l, <<>>) /\ UpVals(l, <<>>)
    BY DEF DownVals, UpVals
  <2>8. KeysFit(l, NoSession, NewHandshake, NoSession)
    BY <1>1 DEF KeysFit
  <2> QED BY <2>2, <2>3, <2>4, <2>6, <2>7, <2>8, LegOKIs
<1>8. ASSUME NEW c \in Clients PROVE ProcessOK(c) /\ ConnOK(c)
  <2>1. ends[Near(c)] = {} /\ up[Near(c)] = <<>> /\ down[Near(c)] = <<>>
    BY <1>2, LegIs
  <2>2. clients[c] = NoProcess /\ conns[c] = NoConn /\ Victim # c
    BY <1>2, <1>3, SealedChatAssumption DEF Victim
  <2>3. ProcessOK(c)
    BY <1>1, <2>1, <2>2 DEF ProcessOK, Running
  <2>4. ConnOK(c)
    BY <1>1, <2>2 DEF ConnOK
  <2> QED BY <2>3, <2>4
<1>9. ASSUME NEW v \in Victims PROVE FarOK(v)
  <2>1. v \in Clients
    BY SealedChatAssumption
  <2>2. ends[Far(v)] = {} /\ up[Far(v)] = <<>> /\ down[Far(v)] = <<>> /\ conns[v] = NoConn
    BY <1>2, <1>9, <2>1, LegIs
  <2> QED BY <2>2 DEF FarOK
<1> QED BY <1>4, <1>5, <1>6, <1>7, <1>8, <1>9 DEF SealedInv

\* Every step.
LEMMA SealedStep == SealedInv /\ [Next]_vars => SealedInv'
<1> SUFFICES ASSUME SealedInv, [Next]_vars PROVE SealedInv'
  OBVIOUS
<1>1. CASE UNCHANGED vars
  <2>1. /\ ends' = ends /\ up' = up /\ down' = down /\ clients' = clients /\ conns' = conns
        /\ byName' = byName /\ proxy' = proxy /\ lines' = lines /\ junk' = junk
    BY <1>1 DEF vars
  <2>2. /\ TypesOK /\ ProxyOK /\ NamesInverse /\ (\A l \in Legs : LegOK(l))
        /\ \A c \in Clients : OwnOK(c)
    BY SealedInvIs
  <2>3. ASSUME NEW l \in Legs PROVE LegOK(l)'
    BY <2>1, <2>2, LegSame
  <2>4. ASSUME NEW c \in Clients PROVE OwnOK(c)'
    BY <2>1, <2>2, OwnSame
  <2>5. TypesOK' /\ ProxyOK' /\ NamesInverse'
    BY <2>1, <2>2 DEF TypesOK, ProxyOK, NamesInverse, Registered, Victim
  <2>6. Victims \subseteq Clients
    BY SealedChatAssumption
  <2> QED BY <2>3, <2>4, <2>5, <2>6 DEF SealedInv, OwnOK
<1>2. CASE Relay
  BY <1>2, RelayStep
<1>3. CASE (\E c \in Clients : ClientThread(c)) \/ Users
  BY <1>3, ClientStep
<1>4. CASE ProxyMain
  BY <1>4, ProxyMainStep
<1>5. CASE Pumps
  BY <1>5, PumpStep
<1> QED BY <1>1, <1>2, <1>3, <1>4, <1>5 DEF Next

\* The invariant of SealedLegs holds in every behaviour: of any clients, victims
\* and strangers, with the proxy that tampers or not, and of any bounds.
THEOREM SealedInvariance == Spec => []SealedInv
BY SealedInit, SealedStep, PTL DEF Spec

\* The variables keep their types, and a connection of the relay has the keys
\* of its own pair.
THEOREM SealedTypes == Spec => []TypeOK
BY SealedInvariance, InvTypes, PTL

\* The fingerprints that two users compare are the same exactly when no proxy
\* is in between.
THEOREM FingerprintsAlwaysTell == Spec => []FingerprintsTell
BY SealedInvariance, InvFingerprints, PTL

\* No line is ever out of step with its reader, whatever the clients, their names and
\* the size of a record: what the relay, the proxy or a client sealed has the keys of
\* the reader, and a counter ahead of it by no more than the rosters that the relay
\* counted on this very connection and did not send; where it counted none, it opens.
THEOREM LinesAlwaysInStep == Spec => []LinesInStep
BY SealedInvariance, InvLines, PTL

-----------------------------------------------------------------------------
(* LOGIN comes first: what is on the way.                                  *)

\* A leg goes on without another LOGIN.
Speaks(w, x) ==
    /\ LoginFirst(w) => LoginFirst(x)
    /\ HasLogin(x) => HasLogin(w)

\* And without a line, where there was none.
Calm(w, x) == Speaks(w, x) /\ (NoData(w) => NoData(x))

\* Where there are no lines there is no LOGIN.
LEMMA NoDataIs ==
    ASSUME NEW w, NoData(w)
    PROVE  ~HasLogin(w) /\ LoginFirst(w)
BY DEF NoData, HasLogin, LoginFirst, IsLogin

\* Nothing has happened.
LEMMA CalmSame ==
    ASSUME NEW w
    PROVE  Calm(w, w)
BY DEF Calm, Speaks

\* Nothing is on the way.
LEMMA NoneOnTheWay == NoData(<<>>)
<1>1. DOMAIN <<>> = {}
  OBVIOUS
<1> QED BY <1>1 DEF NoData

\* A record is taken: behind a line there is no LOGIN.
LEMMA CalmTaken ==
    ASSUME NEW T, NEW w \in Seq(T), w # <<>>
    PROVE  /\ Calm(w, Tail(w))
           /\ LoginFirst(w) /\ Head(w).type = "appdata" => ~HasLogin(Tail(w))
           /\ IsLogin(Head(w)) => HasLogin(w)
           /\ NoData(w) => Head(w).type # "appdata"
<1>1. PICK x : x = Tail(w)
  OBVIOUS
<1>2. /\ Len(w) \in Nat /\ Len(w) > 0 /\ DOMAIN x = 1 .. Len(w) - 1 /\ DOMAIN w = 1 .. Len(w)
      /\ \A i \in 1 .. Len(w) - 1 : x[i] = w[i + 1]
      /\ Head(w) = w[1]
  BY <1>1, FirstTaken
<1>3. \A i \in DOMAIN x : i + 1 \in DOMAIN w /\ x[i] = w[i + 1] /\ i \in Nat
  BY <1>2
<1>4. 1 \in DOMAIN w
  BY <1>2
<1>5. ASSUME LoginFirst(w) PROVE LoginFirst(x)
  <2> SUFFICES ASSUME NEW i \in DOMAIN x, NEW j \in DOMAIN x, IsLogin(x[i]), j < i
               PROVE  x[j].type # "appdata"
    BY DEF LoginFirst
  <2>1. i + 1 \in DOMAIN w /\ j + 1 \in DOMAIN w /\ x[i] = w[i + 1] /\ x[j] = w[j + 1]
        /\ j + 1 < i + 1
    BY <1>3
  <2> QED BY <1>5, <2>1 DEF LoginFirst
<1>6. HasLogin(x) => HasLogin(w)
  BY <1>3 DEF HasLogin
<1>7. NoData(w) => NoData(x)
  BY <1>3 DEF NoData
<1>8. ASSUME LoginFirst(w), Head(w).type = "appdata", HasLogin(x) PROVE FALSE
  <2>1. PICK i \in DOMAIN x : IsLogin(x[i])
    BY <1>8 DEF HasLogin
  <2>2. i + 1 \in DOMAIN w /\ IsLogin(w[i + 1]) /\ 1 < i + 1
    BY <1>2, <1>3, <2>1
  <2> QED BY <1>2, <1>4, <1>8, <2>2 DEF LoginFirst
<1>9. IsLogin(Head(w)) => HasLogin(w)
  BY <1>2, <1>4 DEF HasLogin
<1>10. NoData(w) => Head(w).type # "appdata"
  BY <1>2, <1>4 DEF NoData
<1> QED BY <1>1, <1>5, <1>6, <1>7, <1>8, <1>9, <1>10 DEF Calm, Speaks

\* A record is sent: anything but a LOGIN, or a LOGIN before any other line.
LEMMA CalmSent ==
    ASSUME NEW T, NEW w \in Seq(T), NEW r \in T
    PROVE  /\ ~IsLogin(r) => Speaks(w, Append(w, r))
           /\ r.type # "appdata" => Calm(w, Append(w, r))
           /\ NoData(w) => LoginFirst(Append(w, r))
<1>1. PICK x : x = Append(w, r)
  OBVIOUS
<1>2. /\ Len(w) \in Nat /\ DOMAIN x = 1 .. Len(w) + 1 /\ DOMAIN w = 1 .. Len(w)
      /\ (\A i \in 1 .. Len(w) : x[i] = w[i]) /\ x[Len(w) + 1] = r
  BY <1>1, OneMore
<1>3. \A i \in DOMAIN x : (i \in DOMAIN w /\ x[i] = w[i]) \/ x[i] = r
  BY <1>2
<1>4. ASSUME NEW i \in DOMAIN x, NEW j \in DOMAIN x, j < i
      PROVE  j \in DOMAIN w /\ x[j] = w[j]
  <2>1. i \in 1 .. Len(w) + 1 /\ j \in 1 .. Len(w) + 1
    BY <1>2
  <2>2. j \in 1 .. Len(w)
    BY <1>2, <1>4, <2>1
  <2> QED BY <1>2, <2>2
<1>5. ASSUME ~IsLogin(r), LoginFirst(w) PROVE LoginFirst(x)
  <2> SUFFICES ASSUME NEW i \in DOMAIN x, NEW j \in DOMAIN x, IsLogin(x[i]), j < i
               PROVE  x[j].type # "appdata"
    BY DEF LoginFirst
  <2>1. i \in DOMAIN w /\ x[i] = w[i]
    BY <1>3, <1>5
  <2>2. j \in DOMAIN w /\ x[j] = w[j]
    BY <1>4
  <2> QED BY <1>5, <2>1, <2>2 DEF LoginFirst
<1>6. ASSUME ~IsLogin(r), HasLogin(x) PROVE HasLogin(w)
  BY <1>3, <1>6 DEF HasLogin
<1>7. ASSUME NoData(w) PROVE LoginFirst(x)
  <2> SUFFICES ASSUME NEW i \in DOMAIN x, NEW j \in DOMAIN x, j < i
               PROVE  x[j].type # "appdata"
    BY DEF LoginFirst
  <2> QED BY <1>4, <1>7 DEF NoData
<1>8. ASSUME r.type # "appdata", NoData(w) PROVE NoData(x)
  BY <1>3, <1>8 DEF NoData
<1>9. r.type # "appdata" => ~IsLogin(r)
  BY DEF IsLogin
<1> QED BY <1>1, <1>5, <1>6, <1>7, <1>8, <1>9 DEF Calm, Speaks

\* What is left of a leg without lines.
LEMMA NoDataCut ==
    ASSUME NEW T, NEW w \in Seq(T), NoData(w), NEW k \in 0 .. Len(w)
    PROVE  NoData(SubSeq(w, 1, k))
<1>1. PICK x : x = SubSeq(w, 1, k)
  OBVIOUS
<1>2. /\ DOMAIN x = 1 .. k /\ DOMAIN w = 1 .. Len(w) /\ k \in Nat
      /\ \A i \in 1 .. k : x[i] = w[i]
  BY <1>1, CutShort
<1>3. \A i \in DOMAIN x : i \in DOMAIN w
  BY <1>2
<1> QED BY <1>1, <1>2, <1>3 DEF NoData

\* One who has sealed nothing has sent no line.
LEMMA QuietStream ==
    ASSUME NEW T, NEW w \in Seq(T), NEW keys, NEW role, NEW rx \in Nat,
           NEW k \in Nat, Stream(w, keys, role, rx, 0, k)
    PROVE  NoData(w)
<1>1. PICK m \in 0 .. Len(w) :
        /\ 0 >= rx + (Len(w) - m)
        /\ \A i \in DOMAIN w : w[i].type = "appdata" <=> i > m
  BY DEF Stream
<1>2. DOMAIN w = 1 .. Len(w) /\ Len(w) \in Nat /\ m \in Nat /\ m <= Len(w)
  OBVIOUS
<1>3. m = Len(w)
  <2>1. PICK n : n = Len(w)
    OBVIOUS
  <2>2. n \in Nat /\ m \in Nat /\ m <= n /\ 0 = rx + (n - m)
    BY <1>1, <1>2, <2>1
  <2> QED BY <2>1, <2>2
<1> QED BY <1>1, <1>2, <1>3 DEF NoData

-----------------------------------------------------------------------------
(* LOGIN comes first: one client.                                          *)

\* The legs of a client.
LEMMA LegsOfIs ==
    ASSUME NEW c \in Clients
    PROVE  /\ LegsOf(c) \subseteq Legs /\ Near(c) \in LegsOf(c) /\ Last(c) \in LegsOf(c)
           /\ c \in Victims => Far(c) \in LegsOf(c)
           /\ \A l \in LegsOf(c) : l = Near(c) \/ (l = Far(c) /\ c \in Victims)
           /\ \A l \in Legs : l \in LegsOf(c) <=> Owner(l) = c
<1>1. /\ Near(c) \in Legs /\ Last(c) \in Legs /\ Owner(Near(c)) = c /\ Owner(Last(c)) = c
      /\ c \in Victims => Last(c) = Far(c)
      /\ c \notin Victims => Last(c) = Near(c)
  BY LegIs
<1>2. ASSUME NEW l \in Legs, Owner(l) = c PROVE l \in LegsOf(c)
  <2>1. l = Near(c) \/ (l = Far(c) /\ c \in Victims)
    BY <1>2, LegsAre
  <2> QED BY <1>1, <2>1 DEF LegsOf
<1> QED BY <1>1, <1>2 DEF LegsOf

\* A client that is not let in anew, and whose legs go on without another LOGIN.
LEMMA AsksKept ==
    ASSUME NEW c \in Clients, AsksInOrder(c),
           \A l \in LegsOf(c) : Calm(up[l], up'[l]),
           clients'[c].st \in BeforeLogin => clients[c].st \in BeforeLogin
    PROVE  AsksInOrder(c)' /\ (StillToLogIn(c)' => StillToLogIn(c))
<1>1. /\ Near(c) \in LegsOf(c) /\ (c \in Victims => Far(c) \in LegsOf(c))
  BY LegsOfIs
<1>2. StillToLogIn(c)' => StillToLogIn(c)
  BY DEF StillToLogIn, Calm, Speaks
<1>3. AsksInOrder(c)'
  BY <1>1 DEF AsksInOrder, Calm, Speaks
<1> QED BY <1>2, <1>3

\* One that is past its LOGIN may say anything else.
LEMMA AsksSpoken ==
    ASSUME NEW c \in Clients, AsksInOrder(c),
           \A l \in LegsOf(c) : Speaks(up[l], up'[l]),
           c \in Victims => up'[Far(c)] = up[Far(c)],
           clients'[c].st \notin BeforeLogin
    PROVE  AsksInOrder(c)' /\ (StillToLogIn(c)' => StillToLogIn(c))
<1>1. /\ Near(c) \in LegsOf(c) /\ (c \in Victims => Far(c) \in LegsOf(c))
  BY LegsOfIs
<1>2. StillToLogIn(c)' => StillToLogIn(c)
  BY DEF StillToLogIn, Speaks
<1>3. AsksInOrder(c)'
  BY <1>1 DEF AsksInOrder, Speaks
<1> QED BY <1>2, <1>3

\* One that is told nothing, or nothing before its time.
LEMMA ToldKept ==
    ASSUME NEW c \in Clients, ToldNothing(c), StillToLogIn(c)' => StillToLogIn(c),
           \/ (\A l \in LegsOf(c) : NoData(down[l])) => \A l \in LegsOf(c) : NoData(down'[l])
           \/ Registered(c)',
           "acceptor" \in ends'[Last(c)] => "acceptor" \in ends[Last(c)],
           Registered(c) => Registered(c)' \/ "acceptor" \notin ends'[Last(c)],
           Victim' = c /\ proxy'.st = "server" => NoData(down'[Far(c)])
    PROVE  ToldNothing(c)'
<1>1. Last(c)' = Last(c) /\ LegsOf(c)' = LegsOf(c) /\ Far(c)' = Far(c)
  BY DEF Last, LegsOf, Near, Far
<1>2. ASSUME ~Registered(c)', StillToLogIn(c)', "acceptor" \in ends'[Last(c)]
      PROVE  \A l \in LegsOf(c) : NoData(down'[l])
  <2>1. ~Registered(c) /\ StillToLogIn(c) /\ "acceptor" \in ends[Last(c)]
    BY <1>2
  <2> QED BY <1>2, <2>1 DEF ToldNothing
<1> QED BY <1>1, <1>2 DEF ToldNothing

\* What the invariant says of one client.
LoginOK(c) == AsksInOrder(c) /\ ToldNothing(c)

\* A client whose legs carry less, and whose ends are as they were or gone.
LEMMA LoginSame ==
    ASSUME NEW c \in Clients, LoginOK(c),
           \A l \in LegsOf(c) : up'[l] = up[l] /\ down'[l] = down[l],
           clients'[c].st \in BeforeLogin => clients[c].st \in BeforeLogin,
           "acceptor" \in ends'[Last(c)] => "acceptor" \in ends[Last(c)],
           conns'[c].user = conns[c].user,
           Victim' = c /\ proxy'.st = "server"
              => c \in Victims /\ Victim = c /\ proxy.st = "server"
    PROVE  LoginOK(c)'
<1>1. AsksInOrder(c) /\ ToldNothing(c)
  BY DEF LoginOK
<1>2. \A l \in LegsOf(c) : Calm(up[l], up'[l])
  BY CalmSame
<1>3. AsksInOrder(c)' /\ (StillToLogIn(c)' => StillToLogIn(c))
  BY <1>1, <1>2, AsksKept
<1>4. Victim' = c /\ proxy'.st = "server" => NoData(down'[Far(c)])
  BY <1>1, LegsOfIs DEF ToldNothing
<1>5. Registered(c)' = Registered(c)
  BY DEF Registered
<1>6. ToldNothing(c)'
  BY <1>1, <1>3, <1>4, <1>5, ToldKept
<1> QED BY <1>3, <1>6 DEF LoginOK

-----------------------------------------------------------------------------
(* LOGIN comes first: the relay.                                           *)

\* One record is taken off one leg.
LEMMA TakeCalms ==
    ASSUME TypesOK, NEW k \in Legs, up[k] # <<>>, up' = Take(up, k)
    PROVE  \A l \in Legs : Calm(up[l], up'[l])
<1>1. /\ up'[k] = Tail(up[k]) /\ (\A l \in Legs \ {k} : up'[l] = up[l])
      /\ up[k] \in Seq(UpRecord)
  BY TakesOne DEF TypesOK
<1>2. Calm(up[k], up'[k])
  BY <1>1, CalmTaken
<1> QED BY <1>1, <1>2, CalmSame

\* A client while the relay takes a step: it is told nothing, or it is registered, or has
\* nothing more to log in with.
LEMMA RelayTells ==
    ASSUME SealedInv, NEW x \in Clients, LoginOK(x), UNCHANGED <<clients, proxy>>,
           \A l \in LegsOf(x) : Calm(up[l], up'[l]),
           x \in Victims => down'[Near(x)] = down[Near(x)],
           "acceptor" \in ends'[Last(x)] => "acceptor" \in ends[Last(x)],
           \/ /\ NoData(down[Last(x)]) => NoData(down'[Last(x)])
              /\ Registered(x) => Registered(x)' \/ "acceptor" \notin ends'[Last(x)]
           \/ /\ conns[x].sess.up
              /\ Registered(x)' \/ ~StillToLogIn(x)'
    PROVE  LoginOK(x)'
<1>1. AsksInOrder(x) /\ ToldNothing(x)
  BY DEF LoginOK
<1>2. AsksInOrder(x)' /\ (StillToLogIn(x)' => StillToLogIn(x))
  BY <1>1, AsksKept
<1>3. /\ Near(x) \in LegsOf(x) /\ Last(x) \in LegsOf(x)
      /\ (\A l \in LegsOf(x) : l = Near(x) \/ l = Last(x))
      /\ x \notin Victims => Near(x) = Last(x)
      /\ x \in Victims => Far(x) = Last(x)
  BY LegsOfIs, LegIs
<1>4. TypesOK /\ OwnOK(x)
  BY SealedInvIs
<1>5. Victim' = Victim /\ (Victim = x => x \in Victims)
  BY <1>4, SealedChatAssumption DEF TypesOK, ProxyType, Victim
<1>6. CASE /\ NoData(down[Last(x)]) => NoData(down'[Last(x)])
           /\ Registered(x) => Registered(x)' \/ "acceptor" \notin ends'[Last(x)]
  <2>1. (\A l \in LegsOf(x) : NoData(down[l])) => \A l \in LegsOf(x) : NoData(down'[l])
    BY <1>3, <1>6
  <2>2. Victim' = x /\ proxy'.st = "server" => NoData(down'[Far(x)])
    BY <1>1, <1>3, <1>5, <1>6 DEF ToldNothing
  <2>3. ToldNothing(x)'
    BY <1>1, <1>2, <1>6, <2>1, <2>2, ToldKept
  <2> QED BY <1>2, <2>3 DEF LoginOK
<1>7. CASE conns[x].sess.up /\ (Registered(x)' \/ ~StillToLogIn(x)')
  <2>1. conns[x].st # "none"
    BY <1>4, <1>7, ConnTypes, Sessions DEF OwnOK, ConnOK
  <2>2. "acceptor" \in ends[Last(x)] /\ conns[x].hs.step = "Complete"
    BY <1>4, <1>7, <2>1 DEF OwnOK, ConnOK
  <2>3. ~(Victim = x /\ proxy.st = "server")
    BY <1>3, <1>4, <1>5, <2>2 DEF OwnOK, FarOK
  <2>4. ToldNothing(x)'
    BY <1>5, <1>7, <2>3 DEF ToldNothing
  <2> QED BY <1>2, <2>4 DEF LoginOK
<1> QED BY <1>6, <1>7

\* A connection goes on to another stage.
LEMMA StagesLogin ==
    ASSUME SealedInv, LoginInv, NEW c \in Clients, AcceptNew(c) \/ PeerClosed(c) \/ Quit(c)
    PROVE  LoginInv'
<1>1. conns \in [Clients -> ConnType]
  BY DEF SealedInv, TypesOK
<1>2. /\ UNCHANGED <<up, down, clients, proxy, ends>>
      /\ \E st : conns' = [conns EXCEPT ![c].st = st]
  BY DEF AcceptNew, PeerClosed, Quit, Dooms
<1>3. \A x \in Clients : conns'[x].user = conns[x].user
  BY <1>1, <1>2 DEF ConnType
<1>4. TypesOK /\ NoClient \notin Clients
  BY SealedInvIs, SealedChatAssumption
<1>5. ASSUME NEW x \in Clients PROVE LoginOK(x)'
  <2>1. LoginOK(x)
    BY DEF LoginInv, LoginOK
  <2>2. Victim = x => x \in Victims
    BY <1>4 DEF TypesOK, ProxyType, Victim
  <2>3. Victim' = Victim
    BY <1>2 DEF Victim
  <2> QED BY <1>2, <1>3, <2>1, <2>2, <2>3, LoginSame
<1> QED BY <1>5 DEF LoginInv, LoginOK

\* After a line from the relay's end of its legs, a client has no LOGIN on the way.
LEMMA LineEndsLogin ==
    ASSUME SealedInv, NEW c \in Clients, LoginOK(c), up[Last(c)] # <<>>,
           up' = Take(up, Last(c)), Head(up[Last(c)]).type = "appdata", clients' = clients
    PROVE  ~StillToLogIn(c)'
<1>1. TypesOK /\ AsksInOrder(c)
  BY SealedInvIs DEF LoginOK
<1>2. /\ Near(c) \in LegsOf(c) /\ Last(c) \in LegsOf(c)
      /\ (\A l \in LegsOf(c) : l = Near(c) \/ l = Last(c))
      /\ c \notin Victims => Near(c) = Last(c)
      /\ c \in Victims => Far(c) = Last(c) /\ Near(c) # Last(c)
      /\ Last(c) \in Legs /\ Near(c) \in Legs
  BY LegsOfIs, LegIs
<1>3. /\ up'[Last(c)] = Tail(up[Last(c)]) /\ up[Last(c)] \in Seq(UpRecord)
      /\ \A l \in Legs \ {Last(c)} : up'[l] = up[l]
  BY <1>1, <1>2, TakesOne DEF TypesOK
<1>4. ~NoData(up[Last(c)]) /\ (LoginFirst(up[Last(c)]) => ~HasLogin(up'[Last(c)]))
  BY <1>3, CalmTaken
<1>5. ~HasLogin(up'[Last(c)])
  BY <1>1, <1>2, <1>4 DEF AsksInOrder
<1>6. clients[c].st \notin BeforeLogin
  BY <1>1, <1>2, <1>4 DEF AsksInOrder
<1>7. c \in Victims => ~HasLogin(up'[Near(c)])
  BY <1>1, <1>2, <1>3, <1>4 DEF AsksInOrder
<1>8. \A l \in LegsOf(c) : ~HasLogin(up'[l])
  BY <1>2, <1>5, <1>7
<1>9. LegsOf(c)' = LegsOf(c)
  BY DEF LegsOf, Near, Far, Last
<1> QED BY <1>6, <1>8, <1>9 DEF StillToLogIn

\* Who hears of a line: its sender, or somebody who is registered.
LEMMA WhoHears ==
    ASSUME TypesOK, NamesInverse, NEW c \in Clients, NEW line, LineEffect(c, line),
           NEW x \in Clients
    PROVE  \/ \E s : Kept(x, s)
           \/ \E s, said : Grows(x, s, said) /\ (x = c \/ Registered(x)')
<1>1. CASE Reply(c)
  BY <1>1 DEF Reply
<1>2. CASE Wants(c)
  BY <1>2 DEF Wants
<1>3. CASE line.name \in Names /\ Post(c, line.name, line.msg)
  <2>1. conns[byName[line.name]].user = line.name /\ line.name # NoName
    BY <1>3, SealedChatAssumption DEF Post, NamesInverse
  <2>2. CASE x = byName[line.name]
    <3>1. Registered(x)'
      BY <1>3, <2>1, <2>2 DEF Post, SameUser, Registered
    <3>2. \E s, said : Grows(x, s, said)
      BY <1>3, <2>2 DEF Post
    <3> QED BY <3>1, <3>2
  <2>3. CASE x # byName[line.name]
    BY <1>3, <2>3 DEF Post
  <2> QED BY <2>2, <2>3
<1>4. CASE Join(c, line.name)
  <2>1. CASE x = c
    BY <1>4, <2>1 DEF Join
  <2>2. CASE x # c /\ Registered(x)
    <3>1. SameUser(x) /\ Grows(x, conns[x].sess, Line("joined", line.name, 0))
      BY <1>4, <2>2 DEF Join
    <3>2. Registered(x)'
      BY <2>2, <3>1 DEF SameUser, Registered
    <3> QED BY <3>1, <3>2
  <2>3. CASE x # c /\ ~Registered(x)
    BY <1>4, <2>3 DEF Join
  <2> QED BY <2>1, <2>2, <2>3
<1> QED BY <1>1, <1>2, <1>3, <1>4 DEF LineEffect

\* A line.
LEMMA LineLogin ==
    ASSUME SealedInv, LoginInv, NEW c \in Clients, conns[c].st = "open",
           up[Last(c)] # <<>>, up' = Take(up, Last(c)),
           NEW r, r = Head(up[Last(c)]), Opens(conns[c].sess, r),
           HandleLine([Now EXCEPT !.conns[c].sess = Opened(@)], c, r.line),
           UNCHANGED <<ends, clients, proxy>>
    PROVE  LoginInv'
<1>1. /\ TypesOK /\ NamesInverse /\ (\A x \in Clients : ConnOK(x) /\ LoginOK(x))
      /\ Last(c) \in Legs
  BY SealedInvIs, LegIs DEF OwnOK, LoginInv, LoginOK
<1>2. conns[c].sess.up /\ r.type = "appdata" /\ conns[c].st # "none"
  BY DEF Opens
<1>3. r \in UpRecord
  BY <1>1, TakesOne
<1>4. r.line \in Asked
  BY <1>2, <1>3 DEF UpRecord, Data, Hs, Alert
<1>5. \A x \in Clients : Registered(x) => conns[x].sess.up
  BY <1>1 DEF ConnOK, Registered
<1>6. LineEffect(c, r.line) /\ Shape
  BY <1>1, <1>2, <1>4, <1>5, HandleLineEffect
<1>7. ~StillToLogIn(c)'
  BY <1>1, <1>2, LineEndsLogin
<1>8. \A l \in Legs : Calm(up[l], up'[l])
  BY <1>1, TakeCalms
<1>9. ASSUME NEW x \in Clients PROVE LoginOK(x)'
  <2>1. \A l \in LegsOf(x) : Calm(up[l], up'[l])
    BY <1>8, LegsOfIs
  <2>2. x \in Victims => down'[Near(x)] = down[Near(x)]
    BY <1>6, LegIs DEF Shape
  <2>3. CASE \E s : Kept(x, s)
    <3>1. down'[Last(x)] = down[Last(x)] /\ Registered(x)' = Registered(x)
      BY <2>3 DEF Kept, SameUser, Registered
    <3> QED BY <1>1, <2>1, <2>2, <3>1, RelayTells
  <2>4. CASE \E s, said : Grows(x, s, said) /\ (x = c \/ Registered(x)')
    <3>1. conns[x].sess.up /\ (Registered(x)' \/ ~StillToLogIn(x)')
      BY <1>7, <2>4 DEF Grows
    <3> QED BY <1>1, <2>1, <2>2, <3>1, RelayTells
  <2> QED BY <1>1, <1>6, <2>3, <2>4, WhoHears
<1> QED BY <1>9 DEF LoginInv, LoginOK

\* A record of the exchange, or one for which the connection is given up.
LEMMA OtherRecordsLogin ==
    ASSUME SealedInv, LoginInv, NEW c \in Clients,
           up[Last(c)] # <<>>, up' = Take(up, Last(c)),
           NEW r, r = Head(up[Last(c)]), Negotiates(c, r) \/ Dooms(c),
           UNCHANGED <<ends, clients, proxy>>
    PROVE  LoginInv'
<1>1. /\ TypesOK /\ (\A x \in Clients : LoginOK(x)) /\ Last(c) \in Legs
      /\ conns \in [Clients -> ConnType] /\ down \in [Legs -> Seq(DownRecord)]
  BY SealedInvIs, LegIs DEF LoginInv, LoginOK, TypesOK
<1>2. PICK l : l = Last(c)
  OBVIOUS
<1>3. \A k \in Legs : Calm(up[k], up'[k])
  BY <1>1, TakeCalms
<1>4. /\ \A x \in Clients : conns'[x].user = conns[x].user
      /\ \A k \in Legs \ {l} : down'[k] = down[k]
      /\ NoData(down[l]) => NoData(down'[l])
  <2>1. CASE Dooms(c)
    BY <1>1, <2>1 DEF Dooms, ConnType
  <2>2. CASE Negotiates(c, r)
    <3>1. PICK p : /\ Fails(c, l, p) \/ Answers(c, l, p) \/ Completes(c, l, p)
                   /\ conns' = [conns EXCEPT ![c] = p]
      BY <1>1, <1>2, <2>2, NegotiatesIs
    <3>2. PICK q : q = conns[c]
      OBVIOUS
    <3>3. q \in ConnType
      BY <1>1, <3>2
    <3>4. p.user = q.user
      BY <3>1, <3>2, <3>3 DEF Fails, Answers, Completes, ConnType
    <3>5. \A x \in Clients : conns'[x].user = conns[x].user
      BY <1>1, <3>1, <3>2, <3>4
    <3>6. PICK hello : hello = Hs("ServerKex", Pub(l, "server"))
      OBVIOUS
    <3>7. /\ hello \in DownRecord /\ hello.type = "handshake"
          /\ Alert \in DownRecord /\ Alert.type = "alert"
      BY <1>1, <1>2, <3>6, ExchangeRecords
    <3>8. /\ \A k \in Legs \ {l} : down'[k] = down[k]
          /\ down'[l] \in {down[l], Append(down[l], Alert), Append(down[l], hello)}
      BY <1>1, <1>2, <3>1, <3>6 DEF Fails, Answers, Completes
    <3>9. Calm(down[l], Append(down[l], Alert)) /\ Calm(down[l], Append(down[l], hello))
      BY <1>1, <1>2, <3>7, CalmSent
    <3> QED BY <3>5, <3>8, <3>9 DEF Calm
  <2> QED BY <2>1, <2>2
<1>5. ASSUME NEW x \in Clients PROVE LoginOK(x)'
  <2>1. \A k \in LegsOf(x) : Calm(up[k], up'[k])
    BY <1>3, LegsOfIs
  <2>2. x \in Victims => down'[Near(x)] = down[Near(x)]
    <3>1. x \in Victims => Near(x) # l /\ Near(x) \in Legs
      BY <1>2, LegIs
    <3> QED BY <1>4, <3>1
  <2>3. NoData(down[Last(x)]) => NoData(down'[Last(x)])
    BY <1>4, LegIs
  <2>4. Registered(x)' = Registered(x)
    BY <1>4 DEF Registered
  <2> QED BY <1>1, <2>1, <2>2, <2>3, <2>4, RelayTells
<1> QED BY <1>5 DEF LoginInv, LoginOK

\* A connection dropped.
LEMMA DropLogin ==
    ASSUME SealedInv, LoginInv, NEW c \in Clients, DropConn(c)
    PROVE  LoginInv'
<1>1. /\ TypesOK /\ (\A x \in Clients : LoginOK(x) /\ ConnOK(x))
      /\ down \in [Legs -> Seq(DownRecord)]
      /\ ends \in [Legs -> SUBSET {"dialler", "acceptor"}]
  BY SealedInvIs DEF LoginInv, LoginOK, TypesOK, OwnOK
<1>2. Dropped(c) /\ Shape
  BY <1>1, DropEffect
<1>3. /\ UNCHANGED <<up, clients, proxy>> /\ Last(c) \in Legs
      /\ ends' = [ends EXCEPT ![Last(c)] = @ \ {"acceptor"}]
  BY LegIs DEF DropConn
<1>4. ASSUME NEW x \in Clients PROVE LoginOK(x)'
  <2>1. \A k \in LegsOf(x) : Calm(up[k], up'[k])
    BY <1>3, CalmSame
  <2>2. x \in Victims => down'[Near(x)] = down[Near(x)]
    BY <1>2, LegIs DEF Shape
  <2>3. /\ "acceptor" \in ends'[Last(x)] => "acceptor" \in ends[Last(x)]
        /\ x = c => "acceptor" \notin ends'[Last(x)]
    BY <1>1, <1>3, LegIs
  <2>4. CASE x = c
    <3>1. PICK k \in 0 .. Len(down[Last(c)]) : down'[Last(c)] = SubSeq(down[Last(c)], 1, k)
      BY <1>2 DEF Dropped
    <3>2. NoData(down[Last(c)]) => NoData(down'[Last(c)])
      BY <1>1, <1>3, <3>1, NoDataCut
    <3> QED BY <1>1, <1>3, <2>1, <2>2, <2>3, <2>4, <3>2, RelayTells
  <2>5. CASE x # c /\ Registered(c) /\ Registered(x)
    <3>1. SameUser(x) /\ \E said : Grows(x, conns[x].sess, said)
      BY <1>2, <2>5 DEF Dropped
    <3>2. conns[x].sess.up /\ Registered(x)'
      BY <2>5, <3>1 DEF Grows, SameUser, Registered
    <3> QED BY <1>1, <1>3, <2>1, <2>2, <2>3, <3>2, RelayTells
  <2>6. CASE x # c /\ ~(Registered(c) /\ Registered(x))
    <3>1. conns'[x] = conns[x] /\ down'[Last(x)] = down[Last(x)]
      BY <1>2, <2>6 DEF Dropped
    <3>2. Registered(x)' = Registered(x)
      BY <3>1 DEF Registered
    <3> QED BY <1>1, <1>3, <2>1, <2>2, <2>3, <3>1, <3>2, RelayTells
  <2> QED BY <2>4, <2>5, <2>6
<1> QED BY <1>4 DEF LoginInv, LoginOK

\* Every step of the relay.
LEMMA RelayLogin ==
    ASSUME SealedInv, LoginInv, NEW c \in Clients,
           AcceptNew(c) \/ DrainRecord(c) \/ PeerClosed(c) \/ Quit(c) \/ DropConn(c)
    PROVE  LoginInv'
<1>1. CASE DrainRecord(c)
  <2>1. PICK r : r = Head(up[Last(c)])
    OBVIOUS
  <2>2. /\ conns[c].st = "open" /\ up[Last(c)] # <<>> /\ up' = Take(up, Last(c))
        /\ UNCHANGED <<ends, clients, proxy>>
    BY <1>1 DEF DrainRecord
  <2>3. CASE Negotiates(c, r) \/ Dooms(c)
    BY <2>1, <2>2, <2>3, OtherRecordsLogin
  <2>4. CASE /\ Opens(conns[c].sess, r)
             /\ HandleLine([Now EXCEPT !.conns[c].sess = Opened(@)], c, r.line)
    BY <2>1, <2>2, <2>4, LineLogin
  <2> QED BY <1>1, <2>1, <2>3, <2>4 DEF DrainRecord
<1> QED BY <1>1, StagesLogin, DropLogin

-----------------------------------------------------------------------------
(* LOGIN comes first: the clients.                                         *)

\* The clients that take no part in a step of c.
LEMMA OtherClientsLogin ==
    ASSUME SealedInv, LoginInv, NEW c \in Clients, UNCHANGED <<conns, proxy>>,
           \A x \in Clients \ {c} : clients'[x] = clients[x],
           \A l \in Legs \ {Near(c)} :
              up'[l] = up[l] /\ down'[l] = down[l] /\ ends'[l] = ends[l],
           LoginOK(c)'
    PROVE  LoginInv'
<1>1. TypesOK /\ NoClient \notin Clients /\ Victims \subseteq Clients
  BY SealedInvIs, SealedChatAssumption
<1>2. ASSUME NEW x \in Clients \ {c} PROVE LoginOK(x)'
  <2>1. LoginOK(x)
    BY DEF LoginInv, LoginOK
  <2>2. \A l \in LegsOf(x) : l \in Legs \ {Near(c)}
    BY LegsOfIs, LegIs
  <2>3. Last(x) \in LegsOf(x)
    BY LegsOfIs
  <2>4. (Victim = x => x \in Victims) /\ Victim' = Victim
    BY <1>1 DEF TypesOK, ProxyType, Victim
  <2> QED BY <2>1, <2>2, <2>3, <2>4, LoginSame
<1> QED BY <1>2 DEF LoginInv, LoginOK

\* A client that sends what it may, or takes a record.
LEMMA StepLogin ==
    ASSUME SealedInv, LoginInv, NEW c \in Clients, UNCHANGED <<conns, proxy>>,
           \A x \in Clients \ {c} : clients'[x] = clients[x],
           \A l \in Legs \ {Near(c)} :
              up'[l] = up[l] /\ down'[l] = down[l] /\ ends'[l] = ends[l],
           "acceptor" \in ends'[Near(c)] => "acceptor" \in ends[Near(c)],
           \/ down'[Near(c)] = down[Near(c)]
           \/ down[Near(c)] # <<>> /\ down'[Near(c)] = Tail(down[Near(c)]),
           AsksInOrder(c)', StillToLogIn(c)' => StillToLogIn(c)
    PROVE  LoginInv'
<1>1. TypesOK /\ ToldNothing(c) /\ down \in [Legs -> Seq(DownRecord)]
  BY SealedInvIs DEF LoginInv, TypesOK
<1>2. /\ Near(c) \in Legs /\ Last(c) \in Legs /\ Last(c) \in LegsOf(c)
      /\ (\A l \in LegsOf(c) : l \in Legs)
      /\ c \in Victims => Far(c) \in Legs \ {Near(c)}
  BY LegsOfIs, LegIs
<1>3. Calm(down[Near(c)], down'[Near(c)])
  BY <1>1, <1>2, CalmTaken, CalmSame
<1>4. \A l \in LegsOf(c) : NoData(down[l]) => NoData(down'[l])
  BY <1>2, <1>3 DEF Calm
<1>5. "acceptor" \in ends'[Last(c)] => "acceptor" \in ends[Last(c)]
  BY <1>2
<1>6. (Victim = c => c \in Victims) /\ Victim' = Victim /\ proxy' = proxy
  BY <1>1, SealedChatAssumption DEF TypesOK, ProxyType, Victim
<1>7. Victim' = c /\ proxy'.st = "server" => NoData(down'[Far(c)])
  BY <1>1, <1>2, <1>6 DEF ToldNothing
<1>8. Registered(c)' = Registered(c)
  BY DEF Registered
<1>9. ToldNothing(c)'
  BY <1>1, <1>4, <1>5, <1>7, <1>8, ToldKept
<1>10. LoginOK(c)'
  BY <1>9 DEF LoginOK
<1> QED BY <1>10, OtherClientsLogin

\* A client dials: nothing was on its legs before.
LEMMA DialsLogin ==
    ASSUME SealedInv, LoginInv, NEW c \in Clients, clients[c].st = "off",
           UNCHANGED <<down, conns, proxy>>,
           \A x \in Clients \ {c} : clients'[x] = clients[x],
           \A l \in Legs \ {Near(c)} : up'[l] = up[l] /\ ends'[l] = ends[l],
           up'[Near(c)] \in {<<>>, Append(<<>>, Hello(Near(c)))}
    PROVE  LoginInv'
<1>1. /\ TypesOK /\ OwnOK(c) /\ Near(c) \in Legs /\ c \in Clients
      /\ Near(c) # Far(c)
      /\ c \in Victims => Last(c) = Far(c) /\ Far(c) \in Legs
      /\ c \notin Victims => Last(c) = Near(c)
  BY SealedInvIs, LegIs
<1>2. /\ up[Near(c)] = <<>> /\ down[Near(c)] = <<>> /\ Victim # c
  BY <1>1 DEF OwnOK, ProcessOK
<1>3. c \in Victims => up[Far(c)] = <<>> /\ down[Far(c)] = <<>>
  BY <1>1 DEF OwnOK, FarOK, Undialled
<1>4. Hello(Near(c)) \in UpRecord /\ Hello(Near(c)).type = "handshake"
      /\ <<>> \in Seq(UpRecord)
  BY <1>1, UpRecords
<1>5. NoData(<<>>) /\ NoData(Append(<<>>, Hello(Near(c))))
  BY <1>4, NoneOnTheWay, CalmSent DEF Calm
<1>6. \A l \in LegsOf(c) : NoData(up'[l]) /\ NoData(down'[l])
  BY <1>1, <1>2, <1>3, <1>5, LegsOfIs
<1>7. \A l \in LegsOf(c) : LoginFirst(up'[l]) /\ ~HasLogin(up'[l])
  BY <1>6, NoDataIs
<1>8. LegsOf(c)' = LegsOf(c) /\ Near(c)' = Near(c) /\ Near(c) \in LegsOf(c)
  BY LegsOfIs DEF LegsOf, Near, Far, Last
<1>9. AsksInOrder(c)'
  BY <1>6, <1>7, <1>8 DEF AsksInOrder
<1>10. ToldNothing(c)'
  BY <1>2, <1>6, <1>8 DEF ToldNothing, Victim
<1>11. LoginOK(c)'
  BY <1>9, <1>10 DEF LoginOK
<1> QED BY <1>11, OtherClientsLogin

\* What a client sends goes to one leg.
LEMMA PutIs ==
    ASSUME TypesOK, NEW l \in Legs, NEW r, up' = Put(up, l, r)
    PROVE  up'[l] = Append(up[l], r) /\ (\A k \in Legs \ {l} : up'[k] = up[k])
           /\ up[l] \in Seq(UpRecord)
<1>1. up \in [Legs -> Seq(UpRecord)]
  BY DEF TypesOK
<1>2. PICK w : w = Append(up[l], r)
  OBVIOUS
<1>3. up' = [up EXCEPT ![l] = w]
  BY <1>2 DEF Put
<1> QED BY <1>1, <1>2, <1>3

\* What a client reads comes from one leg.
LEMMA TakeIs ==
    ASSUME TypesOK, NEW l \in Legs, down[l] # <<>>, down' = Take(down, l)
    PROVE  down'[l] = Tail(down[l]) /\ (\A k \in Legs \ {l} : down'[k] = down[k])
           /\ down[l] \in Seq(DownRecord) /\ Head(down[l]) \in DownRecord
<1>1. down \in [Legs -> Seq(DownRecord)]
  BY DEF TypesOK
<1>2. PICK w : w = Tail(down[l])
  OBVIOUS
<1>3. down' = [down EXCEPT ![l] = w]
  BY <1>2 DEF Take
<1>4. down[l] \in Seq(DownRecord) /\ Head(down[l]) \in DownRecord
  BY <1>1, FirstTaken
<1> QED BY <1>1, <1>2, <1>3, <1>4

\* What a client that is gone leaves.
LEMMA EndsIs ==
    ASSUME TypesOK, NEW c \in Clients, Ends(c)
    PROVE  /\ clients'[c].st = "gone" /\ clients'[c].sess = NoSession
           /\ (\A x \in Clients \ {c} : clients'[x] = clients[x])
           /\ (\A l \in Legs \ {Near(c)} : ends'[l] = ends[l])
           /\ "acceptor" \in ends'[Near(c)] => "acceptor" \in ends[Near(c)]
<1>1. clients \in [Clients -> ProcessType] /\ Near(c) \in Legs
      /\ ends \in [Legs -> SUBSET {"dialler", "acceptor"}]
  BY LegIs DEF TypesOK
<1> QED BY <1>1 DEF Ends, NoProcess

\* One that goes on.
LEMMA GoesOnIs ==
    ASSUME TypesOK, NEW c \in Clients, NEW st, NEW s,
           clients' = [clients EXCEPT ![c].st = st, ![c].sess = s]
    PROVE  clients'[c].st = st /\ \A x \in Clients \ {c} : clients'[x] = clients[x]
<1>1. clients \in [Clients -> ProcessType]
  BY DEF TypesOK
<1>2. PICK o : o = clients[c]
  OBVIOUS
<1>3. o \in ProcessType
  BY <1>1, <1>2
<1>4. PICK p : p = [o EXCEPT !.st = st, !.sess = s]
  OBVIOUS
<1>5. p.st = st /\ clients' = [clients EXCEPT ![c] = p]
  BY <1>1, <1>2, <1>3, <1>4 DEF ProcessType
<1> QED BY <1>1, <1>5

\* A step of a client that sends no line.
LEMMA QuietLogin ==
    ASSUME SealedInv, LoginInv, NEW c \in Clients,
           TakesKex(c) \/ Reads(c) \/ SeesClose(c) \/ Dies(c)
    PROVE  LoginInv'
<1>1. TypesOK /\ Near(c) \in Legs /\ AsksInOrder(c)
  BY SealedInvIs, LegIs DEF LoginInv
<1>2. UNCHANGED <<conns, proxy>>
  BY DEF TakesKex, Reads, SeesClose, Dies
<1>3. /\ \A l \in Legs \ {Near(c)} : down'[l] = down[l]
      /\ \/ down'[Near(c)] = down[Near(c)]
         \/ down[Near(c)] # <<>> /\ down'[Near(c)] = Tail(down[Near(c)])
  <2>1. down' = down \/ (down[Near(c)] # <<>> /\ down' = Take(down, Near(c)))
    BY DEF TakesKex, Reads, SeesClose, Dies
  <2> QED BY <1>1, <2>1, TakeIs
<1>4. /\ \A l \in Legs \ {Near(c)} : up'[l] = up[l]
      /\ Calm(up[Near(c)], up'[Near(c)])
  <2>1. PICK r : r = Kex(Near(c))
    OBVIOUS
  <2>2. r \in UpRecord /\ r.type = "handshake"
    BY <1>1, <2>1, UpRecords
  <2>3. up' = up \/ up' = Put(up, Near(c), r)
    BY <2>1 DEF TakesKex, Reads, SeesClose, Dies
  <2>4. CASE up' = up
    BY <2>4, CalmSame
  <2>5. CASE up' = Put(up, Near(c), r)
    <3>1. /\ up'[Near(c)] = Append(up[Near(c)], r) /\ up[Near(c)] \in Seq(UpRecord)
          /\ \A k \in Legs \ {Near(c)} : up'[k] = up[k]
      BY <1>1, <2>5, PutIs
    <3> QED BY <2>2, <3>1, CalmSent
  <2> QED BY <2>3, <2>4, <2>5
<1>5. /\ clients'[c].st \in BeforeLogin => clients[c].st \in BeforeLogin
      /\ (\A x \in Clients \ {c} : clients'[x] = clients[x])
      /\ (\A l \in Legs \ {Near(c)} : ends'[l] = ends[l])
      /\ "acceptor" \in ends'[Near(c)] => "acceptor" \in ends[Near(c)]
  <2>1. CASE Ends(c)
    BY <1>1, <2>1, EndsIs DEF BeforeLogin
  <2>2. CASE /\ clients[c].st = "hello" /\ ends' = ends
             /\ \E s : clients' = [clients EXCEPT ![c].st = "keyed", ![c].sess = s]
    BY <1>1, <2>2, GoesOnIs DEF BeforeLogin
  <2>3. CASE ends' = ends /\ \E s : clients' = [clients EXCEPT ![c].st = "on", ![c].sess = s]
    <3>1. clients'[c].st = "on" /\ \A x \in Clients \ {c} : clients'[x] = clients[x]
      BY <1>1, <2>3, GoesOnIs
    <3> QED BY <2>3, <3>1 DEF BeforeLogin
  <2>4. TakesKex(c) => Ends(c) \/ /\ clients[c].st = "hello" /\ ends' = ends
                                  /\ \E s : clients' = [clients EXCEPT ![c].st = "keyed",
                                                                       ![c].sess = s]
    BY DEF TakesKex
  <2>5. Reads(c) => Ends(c) \/ /\ ends' = ends
                               /\ \E s : clients' = [clients EXCEPT ![c].st = "on",
                                                                    ![c].sess = s]
    BY DEF Reads
  <2>6. SeesClose(c) \/ Dies(c) => Ends(c)
    BY DEF SeesClose, Dies
  <2> QED BY <2>1, <2>2, <2>3, <2>4, <2>5, <2>6
<1>6. \A l \in LegsOf(c) : Calm(up[l], up'[l])
  BY <1>4, CalmSame, LegsOfIs
<1>7. AsksInOrder(c)' /\ (StillToLogIn(c)' => StillToLogIn(c))
  BY <1>1, <1>5, <1>6, AsksKept
<1> QED BY <1>2, <1>3, <1>4, <1>5, <1>7, StepLogin

\* A line that a client seals is on its leg, and none else.
LEMMA SaidIs ==
    ASSUME SealedInv, NEW c \in Clients, clients[c].st \in {"keyed", "on"},
           NEW line \in Asked, Says(c, line)
    PROVE  \E r \in UpRecord :
             /\ r.type = "appdata" /\ r.line = line
             /\ up'[Near(c)] = Append(up[Near(c)], r) /\ up[Near(c)] \in Seq(UpRecord)
             /\ (\A k \in Legs \ {Near(c)} : up'[k] = up[k])
             /\ UNCHANGED <<down, conns, proxy>>
<1>1. TypesOK /\ Near(c) \in Legs /\ clients \in [Clients -> ProcessType]
  BY SealedInvIs, LegIs DEF TypesOK
<1>2. clients[c].sess \in SessionType
  BY <1>1 DEF ProcessType
<1>3. PICK r : r = Sealed(clients[c].sess, line)
  OBVIOUS
<1>4. r \in Data(Asked) /\ r.type = "appdata" /\ r.line = line
  BY <1>2, <1>3, SealedTyped, SealedIs
<1>5. up' = Put(up, Near(c), r) /\ UNCHANGED <<down, conns, proxy>>
  BY <1>3 DEF Says
<1>6. /\ up'[Near(c)] = Append(up[Near(c)], r) /\ up[Near(c)] \in Seq(UpRecord)
      /\ \A k \in Legs \ {Near(c)} : up'[k] = up[k]
  BY <1>1, <1>5, PutIs
<1>7. r \in UpRecord
  BY <1>4 DEF UpRecord
<1> QED BY <1>4, <1>5, <1>6, <1>7

\* The LOGIN itself.
LEMMA LoginLogin ==
    ASSUME SealedInv, LoginInv, NEW c \in Clients, Login(c)
    PROVE  LoginInv'
<1>1. /\ TypesOK /\ AsksInOrder(c) /\ clients[c].st = "keyed" /\ ends' = ends
      /\ clients' = [clients EXCEPT ![c].st = "login", ![c].sess = Counted(@)]
      /\ ProcessOK(c)
  BY SealedInvIs DEF LoginInv, Login, OwnOK
<1>2. PICK line : line = Line("LOGIN", clients[c].user, 0)
  OBVIOUS
<1>3. line \in Asked
  BY <1>1, <1>2 DEF ProcessOK, Running, Line, Asked
<1>4. Says(c, line)
  BY <1>2 DEF Login
<1>5. PICK r \in UpRecord :
        /\ r.type = "appdata" /\ r.line = line
        /\ up'[Near(c)] = Append(up[Near(c)], r) /\ up[Near(c)] \in Seq(UpRecord)
        /\ (\A k \in Legs \ {Near(c)} : up'[k] = up[k])
        /\ UNCHANGED <<down, conns, proxy>>
  BY <1>1, <1>3, <1>4, SaidIs
<1>6. clients'[c].st = "login" /\ \A x \in Clients \ {c} : clients'[x] = clients[x]
  <2>1. \E s : clients' = [clients EXCEPT ![c].st = "login", ![c].sess = s]
    BY <1>1
  <2> QED BY <1>1, <2>1, GoesOnIs
<1>7. /\ Near(c) \in LegsOf(c) /\ (c \in Victims => Far(c) \in LegsOf(c))
      /\ (\A l \in LegsOf(c) : l \in Legs) /\ (c \in Victims => Far(c) # Near(c))
  BY LegsOfIs, LegIs
<1>8. \A l \in LegsOf(c) : NoData(up[l])
  BY <1>1 DEF AsksInOrder, BeforeLogin
<1>9. \A l \in LegsOf(c) : LoginFirst(up'[l])
  <2>1. LoginFirst(up'[Near(c)])
    BY <1>5, <1>7, <1>8, CalmSent
  <2>2. \A l \in LegsOf(c) \ {Near(c)} : up'[l] = up[l]
    BY <1>5, <1>7
  <2> QED BY <1>8, <2>1, <2>2, NoDataIs
<1>10. c \in Victims => NoData(up'[Far(c)])
  BY <1>5, <1>7, <1>8
<1>11. LegsOf(c)' = LegsOf(c) /\ Near(c)' = Near(c) /\ Far(c)' = Far(c)
  BY DEF LegsOf, Near, Far, Last
<1>12. AsksInOrder(c)'
  BY <1>6, <1>9, <1>10, <1>11 DEF AsksInOrder, BeforeLogin
<1>13. StillToLogIn(c)
  BY <1>1 DEF StillToLogIn, BeforeLogin
<1> QED BY <1>1, <1>5, <1>6, <1>12, <1>13, StepLogin

\* Anything else that is said after it, or by a stranger.
LEMMA SaysLogin ==
    ASSUME SealedInv, LoginInv, NEW c \in Clients, HandleInput(c) \/ StrangerSends(c)
    PROVE  LoginInv'
<1>1. TypesOK /\ Near(c) \in Legs /\ AsksInOrder(c) /\ clients \in [Clients -> ProcessType]
  BY SealedInvIs, LegIs DEF LoginInv, TypesOK
<1>2. /\ UNCHANGED <<down, conns, proxy>>
      /\ \A l \in Legs \ {Near(c)} : up'[l] = up[l]
      /\ Speaks(up[Near(c)], up'[Near(c)])
  <2>1. CASE HandleInput(c)
    <3>1. PICK line \in Asked : Says(c, line) /\ line.verb # "LOGIN"
      <4>1. \A to \in Names \cup {NoName} : lines < MaxLines =>
              Line("MSG", to, lines + 1) \in Asked /\ Line("MSG", to, lines + 1).verb # "LOGIN"
        BY <1>1, SealedChatAssumption DEF TypesOK, Line, Asked
      <4>2. /\ Line("WHO", NoName, 0) \in Asked /\ Line("WHO", NoName, 0).verb # "LOGIN"
            /\ Line("QUIT", NoName, 0) \in Asked /\ Line("QUIT", NoName, 0).verb # "LOGIN"
        BY DEF Line, Asked
      <4>3. \/ \E to \in Names \cup {NoName} :
                  lines < MaxLines /\ Says(c, Line("MSG", to, lines + 1))
            \/ Says(c, Line("WHO", NoName, 0)) \/ Says(c, Line("QUIT", NoName, 0))
        BY <2>1 DEF HandleInput
      <4> QED BY <4>1, <4>2, <4>3
    <3>2. clients[c].st \in {"keyed", "on"}
      BY <2>1 DEF HandleInput
    <3>3. PICK r \in UpRecord :
            /\ r.type = "appdata" /\ r.line = line
            /\ up'[Near(c)] = Append(up[Near(c)], r) /\ up[Near(c)] \in Seq(UpRecord)
            /\ (\A k \in Legs \ {Near(c)} : up'[k] = up[k])
            /\ UNCHANGED <<down, conns, proxy>>
      BY <3>1, <3>2, SaidIs
    <3>4. ~IsLogin(r)
      BY <3>1, <3>3 DEF IsLogin
    <3> QED BY <3>3, <3>4, CalmSent
  <2>2. CASE StrangerSends(c)
    <3>1. PICK r \in {Hello(Near(c)), Kex(Near(c)), Hs("ClientKex", NoPub),
                      Hs("malformed", NoPub), Alert, Junk} : up' = Put(up, Near(c), r)
      BY <2>2 DEF StrangerSends
    <3>2. r \in UpRecord /\ ~IsLogin(r)
      <4>1. r.type # "appdata" \/ r.line.verb = "ERR"
        BY <3>1 DEF Hello, Kex, Hs, Alert, Junk, Sealed, Err, Line
      <4>2. r \in UpRecord
        BY <1>1, <3>1, StrangeRecords
      <4> QED BY <4>1, <4>2 DEF IsLogin
    <3>3. /\ up'[Near(c)] = Append(up[Near(c)], r) /\ up[Near(c)] \in Seq(UpRecord)
          /\ \A k \in Legs \ {Near(c)} : up'[k] = up[k]
      BY <1>1, <3>1, PutIs
    <3> QED BY <2>2, <3>2, <3>3, CalmSent DEF StrangerSends
  <2> QED BY <2>1, <2>2
<1>3. /\ clients'[c].st \notin BeforeLogin
      /\ (\A x \in Clients \ {c} : clients'[x] = clients[x])
      /\ (\A l \in Legs \ {Near(c)} : ends'[l] = ends[l])
      /\ "acceptor" \in ends'[Near(c)] => "acceptor" \in ends[Near(c)]
  <2>1. CASE Ends(c)
    BY <1>1, <2>1, EndsIs DEF BeforeLogin
  <2>2. CASE /\ clients[c].st = "on" /\ ends' = ends
             /\ clients' = [clients EXCEPT ![c].sess = Counted(@)]
    <3>1. PICK o : o = clients[c]
      OBVIOUS
    <3>2. o \in ProcessType
      BY <1>1, <3>1
    <3>3. PICK p : p = [o EXCEPT !.sess = Counted(o.sess)]
      OBVIOUS
    <3>4. p.st = "on" /\ clients' = [clients EXCEPT ![c] = p]
      BY <1>1, <2>2, <3>1, <3>2, <3>3 DEF ProcessType
    <3> QED BY <1>1, <2>2, <3>4 DEF BeforeLogin
  <2>3. CASE clients' = clients /\ ends' = ends /\ clients[c].st = "strange"
    BY <2>3 DEF BeforeLogin
  <2> QED BY <2>1, <2>2, <2>3 DEF HandleInput, StrangerSends
<1>4. \A l \in LegsOf(c) : Speaks(up[l], up'[l])
  <2>1. \A l \in LegsOf(c) \ {Near(c)} : up'[l] = up[l]
    BY <1>2, LegsOfIs
  <2> QED BY <1>2, <2>1, CalmSame DEF Calm
<1>5. c \in Victims => up'[Far(c)] = up[Far(c)]
  BY <1>2, LegIs
<1>6. AsksInOrder(c)' /\ (StillToLogIn(c)' => StillToLogIn(c))
  BY <1>1, <1>3, <1>4, <1>5, AsksSpoken
<1> QED BY <1>2, <1>3, <1>6, StepLogin

\* Every step of a client.
LEMMA ClientLogin ==
    ASSUME SealedInv, LoginInv, NEW c \in Clients,
           \/ ClientThread(c) \/ \E name \in Names : Connect(c, name)
           \/ HandleInput(c) \/ Dies(c) \/ StrangerConnects(c) \/ StrangerSends(c)
    PROVE  LoginInv'
<1>1. CASE StrangerConnects(c) \/ \E name \in Names : Connect(c, name)
  <2>1. /\ TypesOK /\ Near(c) \in Legs /\ clients[c].st = "off"
        /\ UNCHANGED <<down, conns, proxy>> /\ ends' = Dialled(Near(c))
        /\ up' = up \/ up' = Put(up, Near(c), Hello(Near(c)))
    BY <1>1, SealedInvIs, LegIs DEF StrangerConnects, Connect
  <2>2. \A x \in Clients \ {c} : clients'[x] = clients[x]
    BY <1>1, <2>1 DEF StrangerConnects, Connect, TypesOK
  <2>3. \A l \in Legs \ {Near(c)} : ends'[l] = ends[l]
    BY <2>1 DEF Dialled, TypesOK
  <2>4. up[Near(c)] = <<>>
    BY <2>1, OffKnown
  <2>5. /\ \A l \in Legs \ {Near(c)} : up'[l] = up[l]
        /\ up'[Near(c)] \in {<<>>, Append(<<>>, Hello(Near(c)))}
    BY <2>1, <2>4, PutIs
  <2> QED BY <2>1, <2>2, <2>3, <2>5, DialsLogin
<1> QED BY <1>1, QuietLogin, LoginLogin, SaysLogin DEF ClientThread

-----------------------------------------------------------------------------
(* LOGIN comes first: the proxy.                                           *)

\* The clients the proxy has nothing to do with.
LEMMA OtherVictimsLogin ==
    ASSUME SealedInv, LoginInv, NEW v \in Victims, Victim \in {v, NoClient},
           Victim' \in {v, NoClient}, UNCHANGED <<clients, conns>>,
           \A l \in Legs \ {Near(v), Far(v)} :
              up'[l] = up[l] /\ down'[l] = down[l] /\ ends'[l] = ends[l],
           LoginOK(v)'
    PROVE  LoginInv'
<1>1. v \in Clients /\ NoClient \notin Clients
  BY SealedChatAssumption
<1>2. ASSUME NEW x \in Clients \ {v} PROVE LoginOK(x)'
  <2>1. LoginOK(x)
    BY DEF LoginInv, LoginOK
  <2>2. \A l \in LegsOf(x) : l \in Legs \ {Near(v), Far(v)}
    BY <1>1, LegsOfIs, LegIs
  <2>3. Last(x) \in LegsOf(x) /\ Victim' # x
    BY <1>1, LegsOfIs
  <2> QED BY <2>1, <2>2, <2>3, LoginSame
<1> QED BY <1>2 DEF LoginInv, LoginOK

\* The victim: its legs go on, it is not told anything before its time.
LEMMA VictimLogin ==
    ASSUME SealedInv, LoginInv, NEW v \in Victims, Victim \in {v, NoClient},
           Victim' \in {v, NoClient}, UNCHANGED <<clients, conns>>,
           \A l \in Legs \ {Near(v), Far(v)} :
              up'[l] = up[l] /\ down'[l] = down[l] /\ ends'[l] = ends[l],
           AsksInOrder(v)', StillToLogIn(v)' => StillToLogIn(v),
           "acceptor" \in ends'[Far(v)] => "acceptor" \in ends[Far(v)],
           NoData(down[Near(v)]) /\ NoData(down[Far(v)])
              => NoData(down'[Near(v)]) /\ NoData(down'[Far(v)]),
           Victim' = v /\ proxy'.st = "server" => NoData(down'[Far(v)])
    PROVE  LoginInv'
<1>1. v \in Clients /\ ToldNothing(v) /\ Last(v) = Far(v)
  BY SealedChatAssumption, LegIs DEF LoginInv
<1>2. /\ Near(v) \in LegsOf(v) /\ Far(v) \in LegsOf(v)
      /\ \A l \in LegsOf(v) : l = Near(v) \/ l = Far(v)
  BY <1>1, LegsOfIs
<1>3. (\A l \in LegsOf(v) : NoData(down[l])) => \A l \in LegsOf(v) : NoData(down'[l])
  BY <1>2
<1>4. Registered(v)' = Registered(v)
  BY DEF Registered
<1>5. ToldNothing(v)'
  BY <1>1, <1>3, <1>4, ToldKept
<1>6. LoginOK(v)'
  BY <1>5 DEF LoginOK
<1> QED BY <1>6, OtherVictimsLogin

\* The same when both ways up go on without another LOGIN.
LEMMA CalmVictimLogin ==
    ASSUME SealedInv, LoginInv, NEW v \in Victims, Victim \in {v, NoClient},
           Victim' \in {v, NoClient}, UNCHANGED <<clients, conns>>,
           \A l \in Legs \ {Near(v), Far(v)} :
              up'[l] = up[l] /\ down'[l] = down[l] /\ ends'[l] = ends[l],
           Calm(up[Near(v)], up'[Near(v)]), Calm(up[Far(v)], up'[Far(v)]),
           "acceptor" \in ends'[Far(v)] => "acceptor" \in ends[Far(v)],
           NoData(down[Near(v)]) /\ NoData(down[Far(v)])
              => NoData(down'[Near(v)]) /\ NoData(down'[Far(v)]),
           Victim' = v /\ proxy'.st = "server" => NoData(down'[Far(v)])
    PROVE  LoginInv'
<1>1. v \in Clients /\ AsksInOrder(v)
  BY SealedChatAssumption DEF LoginInv
<1>2. \A l \in LegsOf(v) : Calm(up[l], up'[l])
  BY <1>1, LegsOfIs
<1>3. AsksInOrder(v)' /\ (StillToLogIn(v)' => StillToLogIn(v))
  BY <1>1, <1>2, AsksKept
<1> QED BY <1>3, VictimLogin

\* The sockets that the proxy closes, and what is left of it.
LEMMA ForgetsIs ==
    ASSUME TypesOK, NEW v \in Victims, Victim = v,
           Forgets({Near(v)}) \/ Forgets({Near(v), Far(v)})
    PROVE  /\ Victim' = NoClient /\ proxy'.pumps = {} /\ proxy'.st = "accept"
           /\ \A l \in Legs \ {Near(v), Far(v)} : ends'[l] = ends[l]
           /\ "acceptor" \in ends'[Far(v)] => "acceptor" \in ends[Far(v)]
<1>1. proxy \in ProxyType /\ v \in Clients
  BY SealedChatAssumption DEF TypesOK
<1>2. proxy' = Idle(proxy)
  BY DEF Forgets
<1>3. Victim' = NoClient /\ proxy'.pumps = {} /\ proxy'.st = "accept"
  BY <1>1, <1>2 DEF Idle, ProxyType, Victim
<1>4. Far(v) \in Legs /\ Near(v) # Far(v) /\ Far(v) # Near(Victim)
  BY <1>1, LegIs
<1>5. PICK fds : Forgets(fds) /\ fds \subseteq {Near(v), Far(v)}
  OBVIOUS
<1>6. ends' = [l \in Legs |->
                 IF l \notin fds THEN ends[l]
                 ELSE ends[l] \ {IF l = Near(Victim) THEN "acceptor" ELSE "dialler"}]
  BY <1>5 DEF Forgets
<1> QED BY <1>3, <1>4, <1>5, <1>6

\* The victim of the proxy, when it has one.
LEMMA HasVictim ==
    ASSUME SealedInv, proxy.st # "accept"
    PROVE  /\ Victim \in Victims /\ Victim \in Clients /\ TypesOK /\ proxy \in ProxyType
           /\ ProxyOK /\ OwnOK(Victim) /\ FarOK(Victim)
           /\ Near(Victim) \in Legs /\ Far(Victim) \in Legs /\ Near(Victim) # Far(Victim)
           /\ down \in [Legs -> Seq(DownRecord)] /\ up \in [Legs -> Seq(UpRecord)]
           /\ ends \in [Legs -> SUBSET {"dialler", "acceptor"}]
<1>1. TypesOK /\ ProxyOK
  BY SealedInvIs
<1>2. Victim \in Victims /\ Victim \in Clients /\ proxy \in ProxyType
  BY <1>1, SealedChatAssumption DEF ProxyOK, TypesOK, ProxyType, Victim
<1>3. OwnOK(Victim) /\ FarOK(Victim)
  BY <1>2, SealedInvIs DEF OwnOK
<1>4. Near(Victim) \in Legs /\ Far(Victim) \in Legs /\ Near(Victim) # Far(Victim)
  BY <1>2, LegIs
<1> QED BY <1>1, <1>2, <1>3, <1>4 DEF TypesOK

\* The proxy changes only its own state.
LEMMA ProxyField ==
    ASSUME NEW p \in ProxyType, NEW st, NEW pumps, NEW h, NEW s, NEW t, NEW a, NEW x
    PROVE  /\ [p EXCEPT !.hs = h].victim = p.victim /\ [p EXCEPT !.hs = h].st = p.st
           /\ [p EXCEPT !.hs = h].pumps = p.pumps
           /\ [p EXCEPT !.st = st].victim = p.victim /\ [p EXCEPT !.st = st].st = st
           /\ [p EXCEPT !.st = st].pumps = p.pumps
           /\ [p EXCEPT !.st = st, !.vsess = s].victim = p.victim
           /\ [p EXCEPT !.st = st, !.vsess = s].st = st
           /\ [p EXCEPT !.st = st, !.vsess = s].pumps = p.pumps
           /\ [p EXCEPT !.st = st, !.victim = x].victim = x
           /\ [p EXCEPT !.st = st, !.victim = x].st = st
           /\ [p EXCEPT !.st = st, !.victim = x].pumps = p.pumps
           /\ [p EXCEPT !.st = st, !.pumps = pumps, !.ssess = s].victim = p.victim
           /\ [p EXCEPT !.st = st, !.pumps = pumps, !.ssess = s].st = st
           /\ [p EXCEPT !.st = st, !.pumps = pumps, !.ssess = s].pumps = pumps
           /\ [p EXCEPT !.pumps = pumps].victim = p.victim
           /\ [p EXCEPT !.pumps = pumps].st = p.st /\ [p EXCEPT !.pumps = pumps].pumps = pumps
           /\ [p EXCEPT !.vsess = s, !.ssess = t].victim = p.victim
           /\ [p EXCEPT !.vsess = s, !.ssess = t].st = p.st
           /\ [p EXCEPT !.vsess = s, !.ssess = t].pumps = p.pumps
           /\ [p EXCEPT !.vsess = s, !.ssess = t, !.armed = a, !.hit = x].victim = p.victim
           /\ [p EXCEPT !.vsess = s, !.ssess = t, !.armed = a, !.hit = x].st = p.st
           /\ [p EXCEPT !.vsess = s, !.ssess = t, !.armed = a, !.hit = x].pumps = p.pumps
BY DEF ProxyType

-----------------------------------------------------------------------------
(* What main of the proxy does, seen from outside.                         *)

\* What is written to the victim and to the relay belongs to the exchange, and what is
\* known about the two of them stays.
Exchanges(v) ==
    /\ UNCHANGED <<clients, conns, byName>>
    /\ \A l \in Legs \ {Near(v), Far(v)} :
        up'[l] = up[l] /\ down'[l] = down[l] /\ ends'[l] = ends[l]
    /\ Calm(up[Near(v)], up'[Near(v)]) /\ Calm(up[Far(v)], up'[Far(v)])
    /\ \/ down'[Near(v)] = down[Near(v)]
       \/ \E r \in DownRecord :
            r.type # "appdata" /\ down'[Near(v)] = Append(down[Near(v)], r)
    /\ down'[Far(v)] = down[Far(v)]
    /\ Victim \in {v, NoClient} /\ proxy.pumps = {}
    /\ Victim' \in {v, NoClient} /\ proxy'.pumps = {}

\* The steps that do so.
LEMMA ExchangesIs ==
    ASSUME SealedInv, HandshakeAsServer \/ VictimLeaves \/ ServerLeaves \/ Joins \/ Dials,
           UNCHANGED <<clients, conns, byName>>,
           NEW v, v = Victim
    PROVE  /\ v \in Victims /\ Exchanges(v)
           /\ proxy'.st = "server" => Dials
           /\ "acceptor" \in ends'[Far(v)] => "acceptor" \in ends[Far(v)] \/ Dials
<1>1. proxy.st # "accept"
  BY DEF HandshakeAsServer, VictimLeaves, ServerLeaves, Joins, Dials
<1>2. /\ v \in Victims /\ v \in Clients /\ TypesOK /\ proxy \in ProxyType /\ ProxyOK
      /\ Near(v) \in Legs /\ Far(v) \in Legs /\ Near(v) # Far(v)
      /\ down \in [Legs -> Seq(DownRecord)] /\ up \in [Legs -> Seq(UpRecord)]
      /\ ends \in [Legs -> SUBSET {"dialler", "acceptor"}]
  BY <1>1, HasVictim
<1>3. proxy.pumps = {}
  BY <1>2 DEF ProxyOK, HandshakeAsServer, VictimLeaves, ServerLeaves, Joins, Dials
<1>4. PICK hello : hello = Hs("ServerKex", Pub(Near(v), "server"))
  OBVIOUS
<1>5. hello \in DownRecord /\ hello.type # "appdata"
  BY <1>2, <1>4, ExchangeRecords
<1>6. CASE (VictimLeaves \/ ServerLeaves \/ Joins)
  <2>1. UNCHANGED <<up, down>> /\ (Forgets({Near(v)}) \/ Forgets({Near(v), Far(v)}))
    BY <1>6 DEF VictimLeaves, ServerLeaves, Joins
  <2>2. /\ Victim' = NoClient /\ proxy'.pumps = {} /\ proxy'.st = "accept"
        /\ \A l \in Legs \ {Near(v), Far(v)} : ends'[l] = ends[l]
        /\ "acceptor" \in ends'[Far(v)] => "acceptor" \in ends[Far(v)]
    BY <1>2, <2>1, ForgetsIs
  <2> QED BY <1>2, <1>3, <2>1, <2>2, CalmSame DEF Exchanges
<1>7. CASE HandshakeAsServer
  <2>1. PICK r : r = Head(up[Near(v)])
    OBVIOUS
  <2>2. up[Near(v)] # <<>> /\ up' = Take(up, Near(v)) /\ proxy.st = "victim"
    BY <1>7 DEF HandshakeAsServer
  <2>3. Calm(up[Near(v)], up'[Near(v)]) /\ \A l \in Legs \ {Near(v)} : up'[l] = up[l]
    BY <1>2, <2>2, TakesOne, TakeCalms
  <2>4. CASE Forgets({Near(v)}) /\ down' = down
    <3>1. /\ Victim' = NoClient /\ proxy'.pumps = {} /\ proxy'.st = "accept"
          /\ \A l \in Legs \ {Near(v), Far(v)} : ends'[l] = ends[l]
          /\ "acceptor" \in ends'[Far(v)] => "acceptor" \in ends[Far(v)]
      BY <1>2, <2>4, ForgetsIs
    <3> QED BY <1>2, <1>3, <2>3, <2>4, <3>1, CalmSame DEF Exchanges
  <2>5. CASE /\ \E h : proxy' = [proxy EXCEPT !.hs = h]
             /\ down' = Put(down, Near(v), hello) /\ ends' = ends
    <3>1. Victim' = v /\ proxy'.pumps = {} /\ proxy'.st = "victim"
      BY <1>2, <1>3, <2>2, <2>5, ProxyField DEF Victim
    <3>2. PICK w : w = Append(down[Near(v)], hello)
      OBVIOUS
    <3>3. down' = [down EXCEPT ![Near(v)] = w]
      BY <2>5, <3>2 DEF Put
    <3>4. down'[Near(v)] = w /\ \A l \in Legs \ {Near(v)} : down'[l] = down[l]
      BY <1>2, <3>3
    <3> QED BY <1>2, <1>3, <1>5, <2>3, <2>5, <3>1, <3>2, <3>4, CalmSame DEF Exchanges
  <2>6. CASE /\ \E s : proxy' = [proxy EXCEPT !.st = "dial", !.vsess = s]
             /\ UNCHANGED <<ends, down>>
    <3>1. Victim' = v /\ proxy'.pumps = {} /\ proxy'.st = "dial"
      BY <1>2, <1>3, <2>6, ProxyField DEF Victim
    <3> QED BY <1>2, <1>3, <2>3, <2>6, <3>1, CalmSame DEF Exchanges
  <2> QED BY <1>4, <1>7, <2>4, <2>5, <2>6 DEF HandshakeAsServer
<1>8. CASE Dials
  <2>1. CASE Forgets({Near(v)}) /\ UNCHANGED <<up, down>>
    <3>1. /\ Victim' = NoClient /\ proxy'.pumps = {} /\ proxy'.st = "accept"
          /\ \A l \in Legs \ {Near(v), Far(v)} : ends'[l] = ends[l]
          /\ "acceptor" \in ends'[Far(v)] => "acceptor" \in ends[Far(v)]
      BY <1>2, <2>1, ForgetsIs
    <3> QED BY <1>2, <1>3, <2>1, <3>1, CalmSame DEF Exchanges
  <2>2. CASE /\ proxy' = [proxy EXCEPT !.st = "server"] /\ ends' = Dialled(Far(v))
             /\ up' = Put(up, Far(v), Hello(Far(v))) /\ down' = down
    <3>1. Victim' = v /\ proxy'.pumps = {}
      BY <1>2, <1>3, <2>2, ProxyField DEF Victim
    <3>2. \A l \in Legs \ {Far(v)} : ends'[l] = ends[l]
      BY <1>2, <2>2 DEF Dialled
    <3>3. PICK r : r = Hello(Far(v))
      OBVIOUS
    <3>4. r \in UpRecord /\ r.type = "handshake"
      BY <1>2, <3>3, UpRecords
    <3>5. /\ up'[Far(v)] = Append(up[Far(v)], r) /\ up[Far(v)] \in Seq(UpRecord)
          /\ \A k \in Legs \ {Far(v)} : up'[k] = up[k]
      BY <1>2, <2>2, <3>3, PutIs
    <3>6. Calm(up[Far(v)], up'[Far(v)])
      BY <3>4, <3>5, CalmSent
    <3> QED BY <1>2, <1>3, <1>8, <2>2, <3>1, <3>2, <3>5, <3>6, CalmSame DEF Exchanges
  <2> QED BY <1>8, <2>1, <2>2 DEF Dials
<1> QED BY <1>6, <1>7, <1>8

\* A victim that has been told nothing is told nothing by an exchange.
LEMMA ExchangeQuiet ==
    ASSUME NEW v, Exchanges(v), down[Near(v)] \in Seq(DownRecord), NoData(down[Near(v)])
    PROVE  NoData(down'[Near(v)])
<1>1. ASSUME NEW r \in DownRecord, r.type # "appdata",
             down'[Near(v)] = Append(down[Near(v)], r)
      PROVE  NoData(down'[Near(v)])
  <2>1. Calm(down[Near(v)], Append(down[Near(v)], r))
    BY <1>1, CalmSent
  <2> QED BY <1>1, <2>1 DEF Calm
<1> QED BY <1>1 DEF Exchanges

\* The exchanges of the proxy, up to the one with the relay.
LEMMA ExchangeLogin ==
    ASSUME SealedInv, LoginInv, NEW v \in Victims, Exchanges(v),
           "acceptor" \in ends'[Far(v)] => "acceptor" \in ends[Far(v)],
           proxy'.st # "server"
    PROVE  LoginInv'
<1>1. v \in Clients /\ Near(v) \in Legs /\ Far(v) \in Legs
      /\ down \in [Legs -> Seq(DownRecord)]
  BY SealedInvIs, SealedChatAssumption, LegIs DEF TypesOK
<1>2. NoData(down[Near(v)]) => NoData(down'[Near(v)])
  BY <1>1, ExchangeQuiet
<1> QED BY <1>2, CalmVictimLogin DEF Exchanges

\* The proxy dials the relay: nothing has been told on either leg.
LEMMA DialLogin ==
    ASSUME SealedInv, LoginInv, NEW v \in Victims, Victim = v, Dials, Exchanges(v)
    PROVE  LoginInv'
<1>1. proxy.st = "dial"
  BY DEF Dials
<1>2. /\ v \in Clients /\ TypesOK /\ ProxyOK /\ FarOK(v) /\ AsksInOrder(v) /\ Last(v) = Far(v)
      /\ down \in [Legs -> Seq(DownRecord)] /\ Near(v) \in Legs
  BY <1>1, HasVictim, LegIs DEF LoginInv
<1>3. down[Far(v)] = <<>>
  BY <1>1, <1>2 DEF FarOK, Undialled
<1>4. NoData(down[Near(v)])
  <2>1. DownFits(Near(v), down[Near(v)], TRUE, proxy.vsess, clients[v].st \in Running,
                 clients[v].sess)
    BY <1>1, <1>2, ProxyLegs DEF NearFits
  <2>2. proxy.vsess.tx = 0
    BY <1>1, <1>2, Sessions DEF ProxyOK
  <2>3. \E rx, k \in Nat : Stream(down[Near(v)], KeysOf(Near(v)), "Server", rx, 0, k)
    BY <2>1, <2>2 DEF DownFits
  <2>4. down[Near(v)] \in Seq(DownRecord)
    BY <1>2
  <2> QED BY <2>3, <2>4, QuietStream
<1>5. NoData(down'[Near(v)]) /\ NoData(down'[Far(v)])
  <2>1. NoData(down'[Near(v)])
    BY <1>2, <1>4, ExchangeQuiet
  <2> QED BY <1>3, <2>1, NoneOnTheWay DEF Exchanges
<1>6. \A l \in LegsOf(v) : Calm(up[l], up'[l])
  BY <1>2, LegsOfIs DEF Exchanges
<1>7. clients' = clients
  BY DEF Exchanges
<1>8. AsksInOrder(v)'
  BY <1>2, <1>6, <1>7, AsksKept
<1>9. ToldNothing(v)'
  <2>1. \A l \in LegsOf(v) : NoData(down'[l])
    BY <1>2, <1>5, LegsOfIs
  <2>2. LegsOf(v)' = LegsOf(v) /\ Far(v)' = Far(v)
    BY DEF LegsOf, Near, Far, Last
  <2> QED BY <1>5, <2>1, <2>2 DEF ToldNothing
<1>10. LoginOK(v)'
  BY <1>8, <1>9 DEF LoginOK
<1> QED BY <1>10, OtherVictimsLogin DEF Exchanges

\* What the proxy does when the relay answers.
LEMMA AnswerIs ==
    ASSUME SealedInv, HandshakeAsClient, NEW v, v = Victim
    PROVE  /\ v \in Victims /\ proxy.st = "server" /\ proxy.pumps = {} /\ down[Far(v)] # <<>>
           /\ down'[Far(v)] = Tail(down[Far(v)])
           /\ \A l \in Legs \ {Far(v)} : down'[l] = down[l]
           /\ \A l \in Legs \ {Far(v)} : up'[l] = up[l]
           /\ Calm(up[Far(v)], up'[Far(v)])
           /\ \A l \in Legs \ {Near(v), Far(v)} : ends'[l] = ends[l]
           /\ "acceptor" \in ends'[Far(v)] => "acceptor" \in ends[Far(v)]
           /\ \/ Victim' = NoClient /\ proxy'.pumps = {} /\ proxy'.st = "accept"
              \/ Victim' = v /\ proxy'.pumps = {"up", "down"} /\ proxy'.st = "pump"
<1>1. proxy.st = "server" /\ down[Far(v)] # <<>> /\ down' = Take(down, Far(v))
  BY DEF HandshakeAsClient
<1>2. /\ v \in Victims /\ v \in Clients /\ TypesOK /\ proxy \in ProxyType /\ ProxyOK
      /\ Near(v) \in Legs /\ Far(v) \in Legs /\ Near(v) # Far(v)
      /\ down \in [Legs -> Seq(DownRecord)] /\ up \in [Legs -> Seq(UpRecord)]
  BY <1>1, HasVictim
<1>3. proxy.pumps = {}
  BY <1>1, <1>2 DEF ProxyOK
<1>4. /\ down'[Far(v)] = Tail(down[Far(v)]) /\ \A l \in Legs \ {Far(v)} : down'[l] = down[l]
  BY <1>1, <1>2, TakeIs
<1>5. PICK r : r = Head(down[Far(v)])
  OBVIOUS
<1>6. CASE Forgets({Near(v), Far(v)}) /\ up' = up
  <2>1. /\ Victim' = NoClient /\ proxy'.pumps = {} /\ proxy'.st = "accept"
        /\ \A l \in Legs \ {Near(v), Far(v)} : ends'[l] = ends[l]
        /\ "acceptor" \in ends'[Far(v)] => "acceptor" \in ends[Far(v)]
    BY <1>2, <1>6, ForgetsIs
  <2> QED BY <1>1, <1>2, <1>3, <1>4, <1>6, <2>1, CalmSame
<1>7. CASE /\ \E s : proxy' = [proxy EXCEPT !.st = "pump", !.pumps = {"up", "down"},
                                            !.ssess = s]
           /\ up' = Put(up, Far(v), Kex(Far(v))) /\ ends' = ends
  <2>1. Victim' = v /\ proxy'.pumps = {"up", "down"} /\ proxy'.st = "pump"
    BY <1>2, <1>7, ProxyField DEF Victim
  <2>2. PICK k : k = Kex(Far(v))
    OBVIOUS
  <2>3. k \in UpRecord /\ k.type = "handshake"
    BY <1>2, <2>2, UpRecords
  <2>4. /\ up'[Far(v)] = Append(up[Far(v)], k) /\ up[Far(v)] \in Seq(UpRecord)
        /\ \A l \in Legs \ {Far(v)} : up'[l] = up[l]
    BY <1>2, <1>7, <2>2, PutIs
  <2>5. Calm(up[Far(v)], up'[Far(v)])
    BY <2>3, <2>4, CalmSent
  <2> QED BY <1>1, <1>2, <1>3, <1>4, <1>7, <2>1, <2>4, <2>5
<1> QED BY <1>5, <1>6, <1>7 DEF HandshakeAsClient

\* The relay's answer is taken.
LEMMA AnswerLogin ==
    ASSUME SealedInv, LoginInv, HandshakeAsClient, UNCHANGED <<clients, conns>>
    PROVE  LoginInv'
<1>1. PICK v : v = Victim
  OBVIOUS
<1>2. /\ v \in Victims /\ down[Far(v)] # <<>>
      /\ down'[Far(v)] = Tail(down[Far(v)])
      /\ (\A l \in Legs \ {Far(v)} : down'[l] = down[l])
      /\ (\A l \in Legs \ {Far(v)} : up'[l] = up[l])
      /\ Calm(up[Far(v)], up'[Far(v)])
      /\ (\A l \in Legs \ {Near(v), Far(v)} : ends'[l] = ends[l])
      /\ "acceptor" \in ends'[Far(v)] => "acceptor" \in ends[Far(v)]
      /\ proxy'.st # "server" /\ Victim' \in {v, NoClient}
  BY <1>1, AnswerIs
<1>3. v \in Clients /\ Near(v) \in Legs /\ Far(v) \in Legs /\ Near(v) # Far(v)
      /\ down \in [Legs -> Seq(DownRecord)]
  BY <1>2, SealedInvIs, SealedChatAssumption, LegIs DEF TypesOK
<1>4. Calm(up[Near(v)], up'[Near(v)])
  BY <1>2, <1>3, CalmSame
<1>5. NoData(down[Far(v)]) => NoData(down'[Far(v)])
  BY <1>2, <1>3, CalmTaken DEF Calm
<1>6. down'[Near(v)] = down[Near(v)]
  BY <1>2, <1>3
<1> QED BY <1>1, <1>2, <1>4, <1>5, <1>6, CalmVictimLogin

\* The next victim.
LEMMA AcceptsLogin ==
    ASSUME SealedInv, LoginInv, NEW v \in Victims, ProxyAccepts(v),
           UNCHANGED <<clients, conns>>
    PROVE  LoginInv'
<1>1. /\ proxy.st = "accept" /\ proxy' = [proxy EXCEPT !.st = "victim", !.victim = v]
      /\ UNCHANGED <<ends, up, down>>
  BY DEF ProxyAccepts
<1>2. TypesOK /\ ProxyOK /\ proxy \in ProxyType
  BY SealedInvIs DEF TypesOK
<1>3. Victim = NoClient /\ Victim' = v /\ proxy'.st = "victim"
  BY <1>1, <1>2, ProxyField DEF ProxyOK, Victim
<1> QED BY <1>1, <1>3, CalmSame, CalmVictimLogin

\* Every step of main of the proxy.
LEMMA ProxyMainLogin ==
    ASSUME SealedInv, LoginInv, ProxyMain
    PROVE  LoginInv'
<1>1. UNCHANGED <<clients, conns, byName>>
  BY DEF ProxyMain
<1>2. ASSUME HandshakeAsServer \/ VictimLeaves \/ ServerLeaves \/ Joins \/ Dials
      PROVE  LoginInv'
  <2>1. PICK v : v = Victim
    OBVIOUS
  <2>2. /\ v \in Victims /\ Exchanges(v)
        /\ proxy'.st = "server" => Dials
        /\ "acceptor" \in ends'[Far(v)] => "acceptor" \in ends[Far(v)] \/ Dials
    BY <1>1, <1>2, <2>1, ExchangesIs
  <2>3. CASE Dials
    BY <2>1, <2>2, <2>3, DialLogin
  <2>4. CASE ~Dials
    BY <2>2, <2>4, ExchangeLogin
  <2> QED BY <2>3, <2>4
<1> QED BY <1>1, <1>2, AnswerLogin, AcceptsLogin DEF ProxyMain

-----------------------------------------------------------------------------
(* What the pumps do, seen from outside.                                   *)

\* A record and the one that is passed on for it.
SameSaid(r, q) ==
    /\ q.type = r.type
    /\ r.type = "appdata" => q.line = r.line
    /\ r.type # "appdata" => q = r

\* A record goes from one leg to the other, and nothing else is seen.
PumpedUp(v) ==
    /\ up[Near(v)] # <<>> /\ up'[Near(v)] = Tail(up[Near(v)])
    /\ \E q \in UpRecord :
        /\ up'[Far(v)] = Append(up[Far(v)], q)
        /\ SameSaid(Head(up[Near(v)]), q)
    /\ \A l \in Legs \ {Near(v), Far(v)} : up'[l] = up[l]
    /\ UNCHANGED <<ends, down>>
    /\ Victim' = v /\ proxy'.st = "pump" /\ proxy'.pumps = proxy.pumps

PumpedDown(v) ==
    /\ down[Far(v)] # <<>> /\ down'[Far(v)] = Tail(down[Far(v)])
    /\ \E q \in DownRecord :
        /\ down'[Near(v)] = Append(down[Near(v)], q)
        /\ SameSaid(Head(down[Far(v)]), q)
    /\ \A l \in Legs \ {Near(v), Far(v)} : down'[l] = down[l]
    /\ UNCHANGED <<ends, up>>
    /\ Victim' = v /\ proxy'.st = "pump" /\ proxy'.pumps = proxy.pumps

\* A pump that ends.
PumpEnded(v) ==
    /\ UNCHANGED <<up, down>>
    /\ \A l \in Legs \ {Near(v), Far(v)} : ends'[l] = ends[l]
    /\ "acceptor" \in ends'[Far(v)] => "acceptor" \in ends[Far(v)]
    /\ Victim' = v /\ proxy'.st = "pump"

\* The record that is passed on says the same.
LEMMA PassedOn ==
    ASSUME NEW s \in SessionType, NEW L, NEW line \in L,
           NEW r, r.type = "appdata", r.line = line,
           NEW q, q = Sealed(s, line) \/ q = [Sealed(s, line) EXCEPT !.keys = NoKeys]
    PROVE  q \in Data(L) /\ SameSaid(r, q)
<1>1. PICK p : p = Sealed(s, line)
  OBVIOUS
<1>2. p \in Data(L) /\ p.type = "appdata" /\ p.line = line
  BY <1>1, SealedTyped, SealedIs
<1>3. q = p \/ q = [p EXCEPT !.keys = NoKeys]
  BY <1>1
<1>4. q \in Data(L) /\ q.type = "appdata" /\ q.line = line
  BY <1>2, <1>3 DEF Data
<1> QED BY <1>4 DEF SameSaid

\* The pump towards the relay.
LEMMA PumpUpIs ==
    ASSUME SealedInv, PumpUp, NEW v, v = Victim
    PROVE  v \in Victims /\ PumpedUp(v) /\ proxy.st = "pump"
<1>1. proxy.st = "pump" /\ up[Near(v)] # <<>> /\ UNCHANGED <<ends, down>>
  BY DEF PumpUp, Pumping
<1>2. /\ v \in Victims /\ proxy \in ProxyType /\ TypesOK
      /\ Near(v) \in Legs /\ Far(v) \in Legs /\ Near(v) # Far(v)
      /\ up \in [Legs -> Seq(UpRecord)]
  BY <1>1, HasVictim
<1>3. PICK r : r = Head(up[Near(v)])
  OBVIOUS
<1>4. r \in UpRecord
  BY <1>1, <1>2, <1>3, FirstTaken
<1>5. proxy.ssess \in SessionType
  BY <1>2 DEF ProxyType
<1>6. \E q \in UpRecord : up' = Put(Take(up, Near(v)), Far(v), q) /\ SameSaid(r, q)
  <2>1. CASE r.type # "appdata" /\ up' = Put(Take(up, Near(v)), Far(v), r)
    BY <1>4, <2>1 DEF SameSaid
  <2>2. ASSUME NEW q, r.type = "appdata", up' = Put(Take(up, Near(v)), Far(v), q),
               \/ q = Sealed(proxy.ssess, r.line)
               \/ q = [Sealed(proxy.ssess, r.line) EXCEPT !.keys = NoKeys]
        PROVE  q \in UpRecord /\ SameSaid(r, q)
    <3>1. r.line \in Asked
      BY <1>4, <2>2 DEF UpRecord, Data, Hs, Alert
    <3>2. PICK line : line = r.line
      OBVIOUS
    <3>3. q \in Data(Asked) /\ SameSaid(r, q)
      BY <1>5, <2>2, <3>1, <3>2, PassedOn
    <3> QED BY <3>3 DEF UpRecord
  <2>3. Opens(proxy.vsess, r) => r.type = "appdata"
    BY DEF Opens
  <2> QED BY <1>3, <2>1, <2>2, <2>3 DEF PumpUp
<1>7. PICK q \in UpRecord : up' = Put(Take(up, Near(v)), Far(v), q) /\ SameSaid(r, q)
  BY <1>6
<1>8. /\ up'[Near(v)] = Tail(up[Near(v)]) /\ up'[Far(v)] = Append(up[Far(v)], q)
      /\ \A k \in Legs \ {Near(v), Far(v)} : up'[k] = up[k]
  BY <1>1, <1>2, <1>7, MovesUp
<1>9. Victim' = v /\ proxy'.st = "pump" /\ proxy'.pumps = proxy.pumps
  <2>1. PICK s, t : s = Opened(proxy.vsess) /\ t = Counted(proxy.ssess)
    OBVIOUS
  <2>2. \/ proxy' = proxy
        \/ proxy' = [proxy EXCEPT !.vsess = s, !.ssess = t]
        \/ proxy' = [proxy EXCEPT !.vsess = s, !.ssess = t, !.armed = FALSE, !.hit = Victim]
    BY <2>1 DEF PumpUp
  <2>3. CASE proxy' = proxy
    BY <1>1, <2>3 DEF Victim
  <2>4. CASE proxy' = [proxy EXCEPT !.vsess = s, !.ssess = t]
    BY <1>1, <1>2, <2>4, ProxyField DEF Victim
  <2>5. CASE proxy' = [proxy EXCEPT !.vsess = s, !.ssess = t, !.armed = FALSE, !.hit = Victim]
    BY <1>1, <1>2, <2>5, ProxyField DEF Victim
  <2> QED BY <2>2, <2>3, <2>4, <2>5
<1> QED BY <1>1, <1>2, <1>3, <1>7, <1>8, <1>9 DEF PumpedUp

\* The pump towards the victim.
LEMMA PumpDownIs ==
    ASSUME SealedInv, PumpDown, NEW v, v = Victim
    PROVE  v \in Victims /\ PumpedDown(v) /\ proxy.st = "pump" /\ "down" \in proxy.pumps
<1>1. /\ proxy.st = "pump" /\ "down" \in proxy.pumps /\ down[Far(v)] # <<>>
      /\ UNCHANGED <<ends, up>>
  BY DEF PumpDown, Pumping
<1>2. /\ v \in Victims /\ proxy \in ProxyType /\ TypesOK
      /\ Near(v) \in Legs /\ Far(v) \in Legs /\ Near(v) # Far(v)
      /\ down \in [Legs -> Seq(DownRecord)]
  BY <1>1, HasVictim
<1>3. PICK r : r = Head(down[Far(v)])
  OBVIOUS
<1>4. r \in DownRecord
  BY <1>1, <1>2, <1>3, FirstTaken
<1>5. proxy.vsess \in SessionType
  BY <1>2 DEF ProxyType
<1>6. \E q \in DownRecord : down' = Put(Take(down, Far(v)), Near(v), q) /\ SameSaid(r, q)
  <2>1. CASE r.type # "appdata" /\ down' = Put(Take(down, Far(v)), Near(v), r)
    BY <1>4, <2>1 DEF SameSaid
  <2>2. ASSUME NEW q, r.type = "appdata", down' = Put(Take(down, Far(v)), Near(v), q),
               q = Sealed(proxy.vsess, r.line)
        PROVE  q \in DownRecord /\ SameSaid(r, q)
    <3>1. r.line \in Told
      BY <1>4, <2>2 DEF DownRecord, Data, Alert
    <3>2. PICK line : line = r.line
      OBVIOUS
    <3>3. q \in Data(Told) /\ SameSaid(r, q)
      BY <1>5, <2>2, <3>1, <3>2, PassedOn
    <3> QED BY <3>3 DEF DownRecord
  <2>3. Opens(proxy.ssess, r) => r.type = "appdata"
    BY DEF Opens
  <2> QED BY <1>3, <2>1, <2>2, <2>3 DEF PumpDown
<1>7. PICK q \in DownRecord : down' = Put(Take(down, Far(v)), Near(v), q) /\ SameSaid(r, q)
  BY <1>6
<1>8. /\ down'[Far(v)] = Tail(down[Far(v)]) /\ down'[Near(v)] = Append(down[Near(v)], q)
      /\ \A k \in Legs \ {Near(v), Far(v)} : down'[k] = down[k]
  BY <1>1, <1>2, <1>7, MovesDown
<1>9. Victim' = v /\ proxy'.st = "pump" /\ proxy'.pumps = proxy.pumps
  <2>1. proxy' = proxy \/ \E s, t : proxy' = [proxy EXCEPT !.ssess = s, !.vsess = t]
    BY DEF PumpDown
  <2>2. CASE \E s, t : proxy' = [proxy EXCEPT !.ssess = s, !.vsess = t]
    <3>1. PICK s, t : proxy' = [proxy EXCEPT !.ssess = s, !.vsess = t]
      BY <2>2
    <3>2. proxy' = [proxy EXCEPT !.vsess = t, !.ssess = s]
      BY <1>2, <3>1 DEF ProxyType
    <3> QED BY <1>1, <1>2, <3>2, ProxyField DEF Victim
  <2> QED BY <1>1, <2>1, <2>2 DEF Victim
<1> QED BY <1>1, <1>2, <1>3, <1>7, <1>8, <1>9 DEF PumpedDown

\* A pump that ends, either of them.
LEMMA PumpEndsIs ==
    ASSUME SealedInv, PumpUpEnds \/ PumpDownEnds, NEW v, v = Victim
    PROVE  /\ v \in Victims /\ PumpEnded(v) /\ proxy.st = "pump"
           /\ PumpUpEnds => ("down" \in proxy'.pumps <=> "down" \in proxy.pumps)
           /\ PumpDownEnds => "down" \in proxy.pumps /\ "down" \notin proxy'.pumps
<1>1. proxy.st = "pump" /\ UNCHANGED <<up, down>>
  BY DEF PumpUpEnds, PumpDownEnds, Pumping
<1>2. /\ v \in Victims /\ proxy \in ProxyType
      /\ Near(v) \in Legs /\ Far(v) \in Legs /\ Near(v) # Far(v)
      /\ ends \in [Legs -> SUBSET {"dialler", "acceptor"}]
  BY <1>1, HasVictim
<1>3. CASE PumpUpEnds
  <2>1. /\ proxy' = [proxy EXCEPT !.pumps = proxy.pumps \ {"up"}]
        /\ ends' = [ends EXCEPT ![Far(v)] = @ \ {"dialler"}]
    BY <1>3 DEF PumpUpEnds
  <2>2. /\ \A l \in Legs \ {Near(v), Far(v)} : ends'[l] = ends[l]
        /\ "acceptor" \in ends'[Far(v)] => "acceptor" \in ends[Far(v)]
    BY <1>2, <2>1
  <2>3. Victim' = v /\ proxy'.st = "pump" /\ proxy'.pumps = proxy.pumps \ {"up"}
    BY <1>1, <1>2, <2>1, ProxyField DEF Victim
  <2>4. ~PumpDownEnds \/ ("down" \in proxy.pumps /\ "down" \notin proxy'.pumps)
    BY <1>2, <2>3 DEF PumpDownEnds, Pumping, ProxyType
  <2> QED BY <1>1, <1>2, <2>2, <2>3, <2>4 DEF PumpEnded
<1>4. CASE PumpDownEnds
  <2>1. /\ proxy' = [proxy EXCEPT !.pumps = proxy.pumps \ {"down"}] /\ "down" \in proxy.pumps
        /\ ends' = [ends EXCEPT ![Near(v)] = @ \ {"acceptor"}]
    BY <1>4 DEF PumpDownEnds, Pumping
  <2>2. /\ \A l \in Legs \ {Near(v), Far(v)} : ends'[l] = ends[l]
        /\ "acceptor" \in ends'[Far(v)] => "acceptor" \in ends[Far(v)]
    BY <1>2, <2>1
  <2>3. Victim' = v /\ proxy'.st = "pump" /\ proxy'.pumps = proxy.pumps \ {"down"}
    BY <1>1, <1>2, <2>1, ProxyField DEF Victim
  <2> QED BY <1>1, <1>2, <1>3, <2>1, <2>2, <2>3 DEF PumpEnded
<1> QED BY <1>3, <1>4

-----------------------------------------------------------------------------
(* LOGIN comes first: the pumps.                                           *)

\* A record is passed on: a LOGIN when there is no line beyond.
LEMMA PumpUpLogin ==
    ASSUME SealedInv, LoginInv, NEW v \in Victims, Victim = v, PumpedUp(v),
           UNCHANGED <<clients, conns>>
    PROVE  LoginInv'
<1>1. /\ v \in Clients /\ TypesOK /\ AsksInOrder(v) /\ Near(v) \in Legs /\ Far(v) \in Legs
      /\ Near(v) # Far(v) /\ Last(v) = Far(v)
      /\ up \in [Legs -> Seq(UpRecord)]
  BY SealedInvIs, SealedChatAssumption, LegIs DEF LoginInv, TypesOK
<1>2. PICK n : n = Near(v)
  OBVIOUS
<1>3. PICK f : f = Far(v)
  OBVIOUS
<1>4. /\ LoginFirst(up[n]) /\ LoginFirst(up[f])
      /\ (clients[v].st \in BeforeLogin => NoData(up[n]) /\ NoData(up[f]))
      /\ HasLogin(up[n]) => NoData(up[f])
  BY <1>1, <1>2, <1>3, LegsOfIs DEF AsksInOrder
<1>5. PICK r : r = Head(up[n])
  OBVIOUS
<1>6. PICK q \in UpRecord : up'[f] = Append(up[f], q) /\ SameSaid(r, q)
  BY <1>2, <1>3, <1>5 DEF PumpedUp
<1>7. /\ up[n] # <<>> /\ up'[n] = Tail(up[n]) /\ up[n] \in Seq(UpRecord)
      /\ up[f] \in Seq(UpRecord)
  BY <1>1, <1>2, <1>3 DEF PumpedUp
<1>8. /\ Calm(up[n], up'[n])
      /\ r.type = "appdata" => ~HasLogin(up'[n])
      /\ IsLogin(r) => HasLogin(up[n])
      /\ NoData(up[n]) => r.type # "appdata"
  BY <1>4, <1>5, <1>7, CalmTaken
<1>9. /\ ~IsLogin(q) => Speaks(up[f], up'[f])
      /\ q.type # "appdata" => Calm(up[f], up'[f])
      /\ NoData(up[f]) => LoginFirst(up'[f])
  BY <1>6, <1>7, CalmSent
<1>10. q.type = r.type /\ (IsLogin(q) <=> IsLogin(r))
  BY <1>6 DEF SameSaid, IsLogin
<1>11. LoginFirst(up'[n]) /\ LoginFirst(up'[f])
  BY <1>4, <1>8, <1>9, <1>10 DEF Calm, Speaks
<1>12. clients'[v].st \in BeforeLogin => NoData(up'[n]) /\ NoData(up'[f])
  BY <1>4, <1>8, <1>9, <1>10 DEF Calm
<1>13. HasLogin(up'[n]) => NoData(up'[f])
  BY <1>4, <1>8, <1>9, <1>10 DEF Calm, Speaks
<1>14. HasLogin(up'[n]) \/ HasLogin(up'[f]) => HasLogin(up[n]) \/ HasLogin(up[f])
  BY <1>8, <1>9, <1>10 DEF Calm, Speaks
<1>15. /\ n \in LegsOf(v) /\ f \in LegsOf(v) /\ (\A l \in LegsOf(v) : l = n \/ l = f)
       /\ LegsOf(v)' = LegsOf(v) /\ Near(v)' = n /\ Far(v)' = f
  BY <1>1, <1>2, <1>3, LegsOfIs DEF LegsOf, Near, Far, Last
<1>16. AsksInOrder(v)'
  BY <1>11, <1>12, <1>13, <1>15 DEF AsksInOrder
<1>17. StillToLogIn(v)' => StillToLogIn(v)
  BY <1>14, <1>15 DEF StillToLogIn
<1>18. /\ \A l \in Legs \ {n, f} : up'[l] = up[l] /\ down'[l] = down[l] /\ ends'[l] = ends[l]
       /\ UNCHANGED <<ends, down>> /\ Victim' = v /\ proxy'.st = "pump"
  BY <1>2, <1>3 DEF PumpedUp
<1> QED BY <1>2, <1>3, <1>16, <1>17, <1>18, VictimLogin

\* The other way: what the relay tells comes after the LOGIN.
LEMMA PumpDownLogin ==
    ASSUME SealedInv, LoginInv, NEW v \in Victims, Victim = v, PumpedDown(v),
           UNCHANGED <<clients, conns>>
    PROVE  LoginInv'
<1>1. /\ v \in Clients /\ Near(v) \in Legs /\ Far(v) \in Legs
      /\ down \in [Legs -> Seq(DownRecord)]
  BY SealedInvIs, SealedChatAssumption, LegIs DEF TypesOK
<1>2. ASSUME NoData(down[Near(v)]), NoData(down[Far(v)])
      PROVE  NoData(down'[Near(v)]) /\ NoData(down'[Far(v)])
  <2>1. PICK q \in DownRecord :
          down'[Near(v)] = Append(down[Near(v)], q) /\ SameSaid(Head(down[Far(v)]), q)
    BY DEF PumpedDown
  <2>2. Calm(down[Far(v)], down'[Far(v)]) /\ Head(down[Far(v)]).type # "appdata"
    BY <1>1, <1>2, CalmTaken DEF PumpedDown
  <2>3. q.type # "appdata"
    BY <2>1, <2>2 DEF SameSaid
  <2>4. Calm(down[Near(v)], down'[Near(v)])
    BY <1>1, <2>1, <2>3, CalmSent
  <2> QED BY <1>2, <2>2, <2>4 DEF Calm
<1>3. /\ up' = up /\ ends' = ends /\ Victim' = v /\ proxy'.st = "pump"
      /\ \A l \in Legs \ {Near(v), Far(v)} : down'[l] = down[l]
  BY DEF PumpedDown
<1> QED BY <1>2, <1>3, CalmSame, CalmVictimLogin

\* Every step of the pumps.
LEMMA PumpsLogin ==
    ASSUME SealedInv, LoginInv, Pumps
    PROVE  LoginInv'
<1>1. PICK v : v = Victim
  OBVIOUS
<1>2. UNCHANGED <<clients, conns>>
  BY DEF Pumps
<1>3. CASE PumpUp
  BY <1>1, <1>2, <1>3, PumpUpIs, PumpUpLogin
<1>4. CASE PumpDown
  BY <1>1, <1>2, <1>4, PumpDownIs, PumpDownLogin
<1>5. CASE PumpUpEnds \/ PumpDownEnds
  <2>1. v \in Victims /\ PumpEnded(v)
    BY <1>1, <1>5, PumpEndsIs
  <2> QED BY <1>1, <1>2, <2>1, CalmSame, CalmVictimLogin DEF PumpEnded
<1> QED BY <1>3, <1>4, <1>5 DEF Pumps

\* Before the first step nobody has asked or was told anything.
LEMMA LoginInit == Init => LoginInv
<1> SUFFICES ASSUME Init, NEW c \in Clients PROVE LoginOK(c)
  BY DEF LoginInv, LoginOK
<1>1. /\ \A l \in Legs : up[l] = <<>> /\ down[l] = <<>>
      /\ proxy.st = "accept"
  BY DEF Init
<1>2. \A l \in LegsOf(c) : NoData(up[l]) /\ NoData(down[l])
  BY <1>1, LegsOfIs, NoneOnTheWay
<1>3. \A l \in LegsOf(c) : LoginFirst(up[l])
  BY <1>2, NoDataIs
<1>4. c \in Victims => NoData(up[Far(c)])
  BY <1>2, LegsOfIs
<1> QED BY <1>1, <1>2, <1>3, <1>4 DEF LoginOK, AsksInOrder, ToldNothing

\* Every step keeps it.
LEMMA LoginStep == SealedInv /\ LoginInv /\ [Next]_vars => LoginInv'
<1> SUFFICES ASSUME SealedInv, LoginInv, [Next]_vars PROVE LoginInv'
  OBVIOUS
<1>1. CASE Relay
  BY <1>1, RelayLogin DEF Relay
<1>2. CASE Users \/ \E c \in Clients : ClientThread(c)
  BY <1>2, ClientLogin DEF Users
<1>3. CASE UNCHANGED vars
  <2>1. LoginInv' <=> LoginInv
    BY <1>3 DEF vars, LoginInv, AsksInOrder, ToldNothing, StillToLogIn, LegsOf, Near, Far,
                Last, Registered, Victim
  <2> QED BY <2>1
<1> QED BY <1>1, <1>2, <1>3, ProxyMainLogin, PumpsLogin DEF Next

\* A client asks to be let in before it says anything else, and is told nothing before the
\* relay has let it in, with the proxy in between or not.
THEOREM LoginInvariance == Spec => []LoginInv
BY LoginInit, SealedInvariance, LoginStep, PTL DEF Spec

-----------------------------------------------------------------------------
(* The lines on a leg.                                                     *)

\* The lines come after the exchange.
DataLast(wire) ==
    \E m \in 0 .. Len(wire) : \A i \in DOMAIN wire : wire[i].type = "appdata" <=> i > m

\* How much belongs to the exchange is what there is no line in.
LEMMA ExchangeIs ==
    ASSUME NEW w \in Seq(DownRecord), NEW m \in 0 .. Len(w),
           \A i \in DOMAIN w : w[i].type = "appdata" <=> i > m
    PROVE  Exchange(w) = m
<1>1. Len(w) \in Nat /\ DOMAIN w = 1 .. Len(w)
  OBVIOUS
<1>2. ASSUME NEW n \in 0 .. Len(w), \A i \in DOMAIN w : w[i].type = "appdata" <=> i > n
      PROVE  n = m
  <2>1. CASE n < m
    <3>1. m \in DOMAIN w /\ m > n /\ ~(m > m)
      BY <1>1, <2>1
    <3> QED BY <1>2, <3>1
  <2>2. CASE m < n
    <3>1. n \in DOMAIN w /\ n > m /\ ~(n > n)
      BY <1>1, <2>2
    <3> QED BY <1>2, <3>1
  <2> QED BY <1>1, <2>1, <2>2
<1>3. PICK x : x = Exchange(w)
  OBVIOUS
<1>4. x \in 0 .. Len(w) /\ \A i \in DOMAIN w : w[i].type = "appdata" <=> i > x
  BY <1>3 DEF Exchange
<1> QED BY <1>2, <1>3, <1>4

\* The lines of a queue are in it, behind the exchange.
LEMMA LinesAre ==
    ASSUME NEW w \in Seq(DownRecord), DataLast(w)
    PROVE  \E m \in 0 .. Len(w) :
             /\ Exchange(w) = m /\ \A i \in DOMAIN w : w[i].type = "appdata" <=> i > m
             /\ Lines(w) \in Seq(Told) /\ Len(Lines(w)) = Len(w) - m
             /\ Lines(w) = [i \in 1 .. Len(w) - m |-> w[m + i].line]
<1>1. PICK m \in 0 .. Len(w) : \A i \in DOMAIN w : w[i].type = "appdata" <=> i > m
  BY DEF DataLast
<1>2. Exchange(w) = m
  BY <1>1, ExchangeIs
<1>3. Lines(w) = [i \in 1 .. Len(w) - m |-> w[m + i].line]
  BY <1>2 DEF Lines
<1>4. Len(w) \in Nat /\ Len(w) - m \in Nat
  OBVIOUS
<1>5. ASSUME NEW i \in 1 .. Len(w) - m PROVE w[m + i].line \in Told
  <2>1. m + i \in DOMAIN w /\ m + i > m
    BY <1>4
  <2>2. w[m + i].type = "appdata" /\ w[m + i] \in DownRecord
    BY <1>1, <2>1
  <2> QED BY <2>2 DEF DownRecord, Data, Alert
<1>6. Lines(w) \in Seq(Told) /\ Len(Lines(w)) = Len(w) - m
  BY <1>3, <1>4, <1>5
<1> QED BY <1>1, <1>2, <1>3, <1>6

\* Before the first line there is none.
LEMMA NoLines ==
    ASSUME NEW w \in Seq(DownRecord), NoData(w)
    PROVE  DataLast(w) /\ Lines(w) = <<>>
<1>1. Len(w) \in Nat /\ Len(w) \in 0 .. Len(w) /\ DOMAIN w = 1 .. Len(w)
  OBVIOUS
<1>2. \A i \in DOMAIN w : w[i].type = "appdata" <=> i > Len(w)
  BY <1>1 DEF NoData
<1>3. DataLast(w) /\ Exchange(w) = Len(w)
  BY <1>1, <1>2, ExchangeIs DEF DataLast
<1>4. PICK s : s = Lines(w)
  OBVIOUS
<1>5. s \in Seq(Told) /\ Len(s) = 0
  BY <1>1, <1>3, <1>4, LinesAre
<1>6. s = <<>>
  BY <1>5
<1> QED BY <1>3, <1>4, <1>6

\* A line sent is the last of the lines.
LEMMA LineSent ==
    ASSUME NEW w \in Seq(DownRecord), DataLast(w), NEW r \in Data(Told)
    PROVE  /\ Append(w, r) \in Seq(DownRecord) /\ DataLast(Append(w, r))
           /\ Lines(Append(w, r)) = Append(Lines(w), r.line)
           /\ Lines(Append(w, r)) # Lines(w)
<1>1. r \in DownRecord /\ r.type = "appdata" /\ r.line \in Told
  BY DEF DownRecord, Data
<1>2. PICK x : x = Append(w, r)
  OBVIOUS
<1>3. /\ x \in Seq(DownRecord) /\ Len(x) = Len(w) + 1 /\ Len(w) \in Nat
      /\ DOMAIN x = 1 .. Len(w) + 1 /\ DOMAIN w = 1 .. Len(w)
      /\ (\A i \in 1 .. Len(w) : x[i] = w[i]) /\ x[Len(w) + 1] = r
  BY <1>1, <1>2, OneMore
<1>4. PICK m \in 0 .. Len(w) :
        /\ Exchange(w) = m /\ \A i \in DOMAIN w : w[i].type = "appdata" <=> i > m
        /\ Lines(w) \in Seq(Told) /\ Len(Lines(w)) = Len(w) - m
        /\ Lines(w) = [i \in 1 .. Len(w) - m |-> w[m + i].line]
  BY LinesAre
<1>5. m \in 0 .. Len(x) /\ \A i \in DOMAIN x : x[i].type = "appdata" <=> i > m
  <2>1. ASSUME NEW i \in DOMAIN x PROVE x[i].type = "appdata" <=> i > m
    <3>1. CASE i \in DOMAIN w
      BY <1>3, <1>4, <3>1
    <3>2. CASE i = Len(w) + 1
      BY <1>1, <1>3, <3>2
    <3> QED BY <1>3, <3>1, <3>2
  <2> QED BY <1>3, <2>1
<1>6. DataLast(x) /\ Exchange(x) = m
  BY <1>3, <1>5, ExchangeIs DEF DataLast
<1>7. Lines(x) = [i \in 1 .. Len(w) - m + 1 |-> x[m + i].line]
  <2>1. Len(x) - m = Len(w) - m + 1
    BY <1>3
  <2> QED BY <1>6, <2>1 DEF Lines
<1>8. Lines(x) = Append(Lines(w), r.line)
  <2>1. PICK n : n = Len(w) - m
    OBVIOUS
  <2>2. n \in Nat
    BY <1>3, <2>1
  <2>3. Append(Lines(w), r.line) = [i \in 1 .. n + 1 |-> IF i = n + 1 THEN r.line
        ELSE Lines(w)[i]]
    BY <1>1, <1>4, <2>1, <2>2
  <2>4. ASSUME NEW i \in 1 .. n + 1
        PROVE  x[m + i].line = IF i = n + 1 THEN r.line ELSE Lines(w)[i]
    <3>1. CASE i = n + 1
      <4>1. m + i = Len(w) + 1
        BY <1>3, <2>1, <3>1
      <4> QED BY <1>3, <3>1, <4>1
    <3>2. CASE i # n + 1
      <4>1. i \in 1 .. n /\ m + i \in 1 .. Len(w)
        BY <1>3, <2>1, <2>2, <3>2
      <4>2. x[m + i] = w[m + i] /\ Lines(w)[i] = w[m + i].line
        BY <1>3, <1>4, <2>1, <4>1
      <4> QED BY <3>2, <4>2
    <3> QED BY <3>1, <3>2
  <2> QED BY <1>7, <2>1, <2>3, <2>4
<1>9. Lines(x) # Lines(w)
  <2>1. Len(Append(Lines(w), r.line)) = Len(Lines(w)) + 1 /\ Len(Lines(w)) \in Nat
    BY <1>1, <1>4
  <2>2. Len(Lines(w)) + 1 # Len(Lines(w))
    BY <2>1
  <2> QED BY <1>8, <2>1, <2>2
<1> QED BY <1>2, <1>3, <1>6, <1>8, <1>9

\* A client takes the next record: of the exchange, or the first of the lines.
LEMMA LineTaken ==
    ASSUME NEW w \in Seq(DownRecord), DataLast(w), w # <<>>
    PROVE  /\ Tail(w) \in Seq(DownRecord) /\ DataLast(Tail(w))
           /\ Head(w).type # "appdata" => Lines(Tail(w)) = Lines(w)
           /\ Head(w).type = "appdata" => /\ Lines(w) # <<>> /\ Lines(Tail(w)) = Tail(Lines(w))
                                          /\ Lines(Tail(w)) # Lines(w)
                                          /\ Head(Lines(w)) = Head(w).line
<1>1. PICK x : x = Tail(w)
  OBVIOUS
<1>2. /\ x \in Seq(DownRecord) /\ Len(x) = Len(w) - 1 /\ Len(w) \in Nat /\ Len(w) > 0
      /\ DOMAIN x = 1 .. Len(w) - 1 /\ DOMAIN w = 1 .. Len(w)
      /\ \A i \in 1 .. Len(w) - 1 : x[i] = w[i + 1]
      /\ Head(w) = w[1]
  BY <1>1, FirstTaken
<1>3. PICK m \in 0 .. Len(w) :
        /\ Exchange(w) = m /\ \A i \in DOMAIN w : w[i].type = "appdata" <=> i > m
        /\ Lines(w) \in Seq(Told) /\ Len(Lines(w)) = Len(w) - m
        /\ Lines(w) = [i \in 1 .. Len(w) - m |-> w[m + i].line]
  BY LinesAre
<1>4. Head(w).type = "appdata" <=> m = 0
  BY <1>2, <1>3
<1>5. CASE m = 0
  <2>1. 0 \in 0 .. Len(x) /\ \A i \in DOMAIN x : x[i].type = "appdata" <=> i > 0
    BY <1>2, <1>3, <1>5, SMTT(30)
  <2>2. DataLast(x) /\ Exchange(x) = 0
    BY <1>2, <2>1, ExchangeIs DEF DataLast
  <2>3. Lines(x) = [i \in 1 .. Len(w) - 1 |-> w[i + 1].line]
    <3>1. Lines(x) = [i \in 1 .. Len(w) - 1 |-> x[i].line]
      BY <1>2, <2>2 DEF Lines
    <3> QED BY <1>2, <3>1
  <2>4. PICK s : s = Lines(w)
    OBVIOUS
  <2>5. s \in Seq(Told) /\ Len(s) = Len(w) /\ s = [i \in 1 .. Len(w) |-> w[i].line]
    BY <1>2, <1>3, <1>5, <2>4
  <2>6. /\ s # <<>> /\ Len(Tail(s)) = Len(w) - 1 /\ Tail(s) \in Seq(Told)
        /\ \A i \in 1 .. Len(w) - 1 : Tail(s)[i] = s[i + 1]
    BY <1>2, <2>5
  <2>7. Tail(s) = [i \in 1 .. Len(w) - 1 |-> w[i + 1].line]
    <3>1. \A i \in 1 .. Len(w) - 1 : s[i + 1] = w[i + 1].line
      BY <1>2, <2>5
    <3>2. PICK y : y = Tail(s)
      OBVIOUS
    <3>3. y \in Seq(Told) /\ Len(y) = Len(w) - 1
          /\ \A i \in 1 .. Len(w) - 1 : y[i] = w[i + 1].line
      BY <2>6, <3>1, <3>2
    <3>4. y = [i \in 1 .. Len(y) |-> y[i]]
      BY <3>3
    <3> QED BY <3>2, <3>3, <3>4
  <2>8. Tail(s) # s /\ Head(s) = w[1].line
    BY <1>2, <2>5, <2>6
  <2> QED BY <1>1, <1>2, <1>4, <1>5, <2>2, <2>3, <2>4, <2>6, <2>7, <2>8
<1>6. CASE m # 0
  <2>0. m - 1 \in 0 .. Len(x) /\ Len(w) \in Nat
    BY <1>2, <1>3, <1>6
  <2>1. ASSUME NEW i \in DOMAIN x PROVE x[i].type = "appdata" <=> i > m - 1
    <3>1. x[i] = w[i + 1] /\ i + 1 \in DOMAIN w /\ i \in Int
      BY <1>2
    <3>2. x[i].type = "appdata" <=> i + 1 > m
      BY <1>3, <3>1
    <3> QED BY <2>0, <3>1, <3>2
  <2>2. DataLast(x) /\ Exchange(x) = m - 1
    BY <1>2, <2>0, <2>1, ExchangeIs DEF DataLast
  <2>3. Lines(x) = [i \in 1 .. Len(x) - (m - 1) |-> x[m - 1 + i].line]
    BY <2>2 DEF Lines
  <2>4. Len(x) - (m - 1) = Len(w) - m /\ \A i \in 1 .. Len(w) - m : x[m - 1 + i] = w[m + i]
    BY <1>2, <1>3, <1>6
  <2>5. Lines(x) = Lines(w)
    BY <1>3, <2>3, <2>4
  <2> QED BY <1>1, <1>2, <1>4, <1>6, <2>2, <2>5
<1> QED BY <1>5, <1>6

\* Of a queue that is cut, the first lines are left.
LEMMA LinesCut ==
    ASSUME NEW w \in Seq(DownRecord), DataLast(w), NEW k \in 0 .. Len(w)
    PROVE  /\ SubSeq(w, 1, k) \in Seq(DownRecord) /\ DataLast(SubSeq(w, 1, k))
           /\ \E j \in 0 .. Len(Lines(w)) : Lines(SubSeq(w, 1, k)) = SubSeq(Lines(w), 1, j)
<1>1. PICK x : x = SubSeq(w, 1, k)
  OBVIOUS
<1>2. /\ x \in Seq(DownRecord) /\ Len(x) = k /\ k \in Nat /\ DOMAIN x = 1 .. k
      /\ DOMAIN w = 1 .. Len(w) /\ \A i \in 1 .. k : x[i] = w[i]
  BY <1>1, CutShort
<1>3. PICK m \in 0 .. Len(w) :
        /\ Exchange(w) = m /\ \A i \in DOMAIN w : w[i].type = "appdata" <=> i > m
        /\ Lines(w) \in Seq(Told) /\ Len(Lines(w)) = Len(w) - m
        /\ Lines(w) = [i \in 1 .. Len(w) - m |-> w[m + i].line]
  BY LinesAre
<1>4. Len(w) \in Nat /\ k <= Len(w) /\ k \in Nat
  BY <1>2
<1>5. CASE k <= m
  <2>1. NoData(x)
    BY <1>2, <1>3, <1>4, <1>5 DEF NoData
  <2>2. DataLast(x) /\ Lines(x) = <<>>
    BY <1>2, <2>1, NoLines
  <2>3. SubSeq(Lines(w), 1, 0) = <<>>
    BY <1>3, SubSeqEmpty
  <2>4. 0 \in 0 .. Len(Lines(w))
    BY <1>3, <1>4
  <2> QED BY <1>1, <1>2, <2>2, <2>3, <2>4
<1>6. CASE ~(k <= m)
  <2>1. m \in 0 .. Len(x) /\ \A i \in DOMAIN x : x[i].type = "appdata" <=> i > m
    BY <1>2, <1>3, <1>4, <1>6
  <2>2. DataLast(x) /\ Exchange(x) = m
    BY <1>2, <2>1, ExchangeIs DEF DataLast
  <2>3. Lines(x) = [i \in 1 .. k - m |-> w[m + i].line]
    <3>1. Lines(x) = [i \in 1 .. k - m |-> x[m + i].line]
      BY <1>2, <2>2 DEF Lines
    <3>2. \A i \in 1 .. k - m : x[m + i] = w[m + i]
      BY <1>2, <1>3, <1>4, <1>6
    <3> QED BY <3>1, <3>2
  <2>4. k - m \in 0 .. Len(w) - m /\ k - m \in Nat
    BY <1>3, <1>4, <1>6
  <2>5. PICK s, j : s = Lines(w) /\ j = k - m
    OBVIOUS
  <2>6. /\ SubSeq(s, 1, j) \in Seq(Told) /\ Len(SubSeq(s, 1, j)) = j
        /\ DOMAIN SubSeq(s, 1, j) = 1 .. j
        /\ \A i \in 1 .. j : SubSeq(s, 1, j)[i] = s[i]
    <3>1. s \in Seq(Told) /\ j \in 0 .. Len(s)
      BY <1>3, <2>4, <2>5
    <3> QED BY <3>1, CutShort
  <2>7. \A i \in 1 .. j : s[i] = w[m + i].line
    BY <1>3, <1>4, <2>4, <2>5
  <2>8. PICK y : y = SubSeq(s, 1, j)
    OBVIOUS
  <2>9. y \in Seq(Told) /\ Len(y) = j /\ \A i \in 1 .. j : y[i] = w[m + i].line
    BY <2>6, <2>7, <2>8
  <2>10. Lines(x) \in Seq(Told) /\ Len(Lines(x)) = j
         /\ \A i \in 1 .. j : Lines(x)[i] = w[m + i].line
    <3>1. \A i \in 1 .. j : w[m + i].line \in Told
      BY <2>6, <2>7, <2>9
    <3>2. j \in Nat
      BY <2>4, <2>5
    <3> QED BY <2>3, <2>5, <3>1, <3>2
  <2>11. Lines(x) = y
    BY <2>9, <2>10, SeqEqual
  <2>12. j \in 0 .. Len(Lines(w))
    BY <1>3, <2>4, <2>5
  <2> QED BY <1>1, <1>2, <2>2, <2>5, <2>8, <2>11, <2>12
<1> QED BY <1>5, <1>6

\* A record of the exchange is sent before the first line.
LEMMA NoLineSent ==
    ASSUME NEW w \in Seq(DownRecord), NEW r \in DownRecord, r.type # "appdata",
           DataLast(Append(w, r))
    PROVE  Lines(Append(w, r)) = Lines(w)
<1>1. PICK x : x = Append(w, r)
  OBVIOUS
<1>2. /\ x \in Seq(DownRecord) /\ Len(x) = Len(w) + 1 /\ Len(w) \in Nat
      /\ DOMAIN x = 1 .. Len(w) + 1 /\ DOMAIN w = 1 .. Len(w)
      /\ (\A i \in 1 .. Len(w) : x[i] = w[i]) /\ x[Len(w) + 1] = r
  BY <1>1, OneMore
<1>3. PICK m \in 0 .. Len(x) : \A i \in DOMAIN x : x[i].type = "appdata" <=> i > m
  BY <1>1 DEF DataLast
<1>4. ~(Len(w) + 1 > m)
  BY <1>2, <1>3
<1>5. NoData(x) /\ NoData(w)
  BY <1>2, <1>3, <1>4 DEF NoData
<1>6. Lines(x) = <<>> /\ Lines(w) = <<>>
  BY <1>2, <1>5, NoLines
<1> QED BY <1>1, <1>6

\* What fits on a leg has its lines last.
LEMMA StreamLines ==
    ASSUME NEW w, NEW keys, NEW role, NEW rx, NEW tx, NEW n,
           Stream(w, keys, role, rx, tx, n)
    PROVE  DataLast(w)
BY DEF Stream, DataLast

\* The lines of one leg, and those of another behind them.
LEMMA TwoLegs ==
    ASSUME NEW T, NEW a \in Seq(T), NEW b \in Seq(T)
    PROVE  /\ a \o b \in Seq(T) /\ a \o <<>> = a /\ <<>> \o b = b
           /\ Len(a \o b) = Len(a) + Len(b) /\ Len(a) \in Nat /\ Len(b) \in Nat
           /\ \A i \in 1 .. Len(a) : (a \o b)[i] = a[i]
           /\ \A i \in 1 .. Len(b) : (a \o b)[Len(a) + i] = b[i]
OBVIOUS

\* One more line behind them.
LEMMA LastOfTwo ==
    ASSUME NEW T, NEW a \in Seq(T), NEW b \in Seq(T), NEW e \in T
    PROVE  a \o Append(b, e) = Append(a \o b, e)
<1>1. PICK x : x = a \o b
  OBVIOUS
<1>2. PICK y : y = Append(b, e)
  OBVIOUS
<1>3. /\ x \in Seq(T) /\ Len(x) = Len(a) + Len(b) /\ Len(a) \in Nat /\ Len(b) \in Nat
      /\ \A i \in 1 .. Len(a) : x[i] = a[i]
      /\ \A i \in 1 .. Len(b) : x[Len(a) + i] = b[i]
  BY <1>1, TwoLegs
<1>4. /\ y \in Seq(T) /\ Len(y) = Len(b) + 1
      /\ (\A i \in 1 .. Len(b) : y[i] = b[i]) /\ y[Len(b) + 1] = e
  BY <1>2, OneMore
<1>5. PICK p : p = a \o y
  OBVIOUS
<1>6. PICK q : q = Append(x, e)
  OBVIOUS
<1>7. /\ p \in Seq(T) /\ Len(p) = Len(a) + Len(y)
      /\ \A i \in 1 .. Len(a) : p[i] = a[i]
      /\ \A i \in 1 .. Len(y) : p[Len(a) + i] = y[i]
  <2>1. y \in Seq(T)
    BY <1>4
  <2> QED BY <1>5, <2>1, TwoLegs
<1>8. /\ q \in Seq(T) /\ Len(q) = Len(x) + 1
      /\ (\A i \in 1 .. Len(x) : q[i] = x[i]) /\ q[Len(x) + 1] = e
  BY <1>3, <1>6, OneMore
<1>9. ASSUME NEW i \in 1 .. Len(p) PROVE p[i] = q[i]
  <2>1. CASE i \in 1 .. Len(a)
    BY <1>3, <1>7, <1>8, <2>1
  <2>2. CASE i \notin 1 .. Len(a)
    <3>1. PICK j \in 1 .. Len(b) + 1 : i = Len(a) + j
      <4>1. i - Len(a) \in 1 .. Len(b) + 1 /\ i = Len(a) + (i - Len(a))
        BY <1>3, <1>4, <1>7, <2>2
      <4> QED BY <4>1
    <3>2. p[i] = y[j]
      BY <1>4, <1>7, <3>1
    <3>3. CASE j \in 1 .. Len(b)
      BY <1>3, <1>4, <1>8, <3>1, <3>2, <3>3
    <3>4. CASE j = Len(b) + 1
      BY <1>3, <1>4, <1>8, <3>1, <3>2, <3>4
    <3> QED BY <1>3, <3>1, <3>3, <3>4
  <2> QED BY <2>1, <2>2
<1>10. Len(p) = Len(q)
  BY <1>3, <1>4, <1>7, <1>8
<1>11. p = q
  BY <1>7, <1>8, <1>9, <1>10, SeqEqual
<1> QED BY <1>1, <1>2, <1>5, <1>6, <1>11

\* The first line of them is taken.
LEMMA FirstOfTwo ==
    ASSUME NEW T, NEW a \in Seq(T), NEW b \in Seq(T), a # <<>>
    PROVE  a \o b # <<>> /\ Tail(a \o b) = Tail(a) \o b
<1>1. PICK x : x = a \o b
  OBVIOUS
<1>2. PICK y : y = Tail(a)
  OBVIOUS
<1>3. /\ x \in Seq(T) /\ Len(x) = Len(a) + Len(b) /\ Len(a) \in Nat /\ Len(b) \in Nat
      /\ \A i \in 1 .. Len(a) : x[i] = a[i]
      /\ \A i \in 1 .. Len(b) : x[Len(a) + i] = b[i]
  BY <1>1, TwoLegs
<1>4. /\ y \in Seq(T) /\ Len(y) = Len(a) - 1 /\ Len(a) > 0
      /\ \A i \in 1 .. Len(a) - 1 : y[i] = a[i + 1]
  BY <1>2, FirstTaken
<1>5. x # <<>>
  BY <1>3, <1>4
<1>6. PICK p : p = Tail(x)
  OBVIOUS
<1>7. PICK q : q = y \o b
  OBVIOUS
<1>8. /\ p \in Seq(T) /\ Len(p) = Len(x) - 1
      /\ \A i \in 1 .. Len(x) - 1 : p[i] = x[i + 1]
  BY <1>3, <1>5, <1>6, FirstTaken
<1>9. /\ q \in Seq(T) /\ Len(q) = Len(y) + Len(b)
      /\ \A i \in 1 .. Len(y) : q[i] = y[i]
      /\ \A i \in 1 .. Len(b) : q[Len(y) + i] = b[i]
  <2>1. y \in Seq(T)
    BY <1>4
  <2> QED BY <1>7, <2>1, TwoLegs
<1>10. Len(p) = Len(q)
  BY <1>3, <1>4, <1>8, <1>9
<1>11. ASSUME NEW i \in 1 .. Len(p) PROVE p[i] = q[i]
  <2>1. p[i] = x[i + 1]
    BY <1>8
  <2>2. CASE i \in 1 .. Len(a) - 1
    <3>1. i + 1 \in 1 .. Len(a)
      BY <1>3, <2>2
    <3> QED BY <1>3, <1>4, <1>9, <2>1, <2>2, <3>1
  <2>3. CASE i \notin 1 .. Len(a) - 1
    <3>1. i - (Len(a) - 1) \in 1 .. Len(b)
      BY <1>3, <1>4, <1>8, <2>3
    <3>2. PICK j \in 1 .. Len(b) : i = Len(a) - 1 + j
      <4>1. i = Len(a) - 1 + (i - (Len(a) - 1))
        BY <1>3
      <4> QED BY <3>1, <4>1
    <3>3. i + 1 = Len(a) + j /\ i = Len(y) + j
      BY <1>3, <1>4, <3>2
    <3> QED BY <1>3, <1>9, <2>1, <3>3
  <2> QED BY <2>2, <2>3
<1>12. p = q
  BY <1>8, <1>9, <1>10, <1>11, SeqEqual
<1> QED BY <1>1, <1>2, <1>5, <1>6, <1>7, <1>12

\* A line goes from the second leg to the first: they are the same together.
LEMMA MovesOver ==
    ASSUME NEW T, NEW a \in Seq(T), NEW b \in Seq(T), b # <<>>
    PROVE  Append(a, Head(b)) \o Tail(b) = a \o b
<1>1. PICK e : e = Head(b)
  OBVIOUS
<1>2. PICK t : t = Tail(b)
  OBVIOUS
<1>3. /\ t \in Seq(T) /\ Len(t) = Len(b) - 1 /\ Len(b) \in Nat /\ Len(b) > 0
      /\ (\A i \in 1 .. Len(b) - 1 : t[i] = b[i + 1]) /\ e = b[1] /\ e \in T
  BY <1>1, <1>2, FirstTaken
<1>4. PICK y : y = Append(a, e)
  OBVIOUS
<1>5. /\ y \in Seq(T) /\ Len(y) = Len(a) + 1 /\ Len(a) \in Nat
      /\ (\A i \in 1 .. Len(a) : y[i] = a[i]) /\ y[Len(a) + 1] = e
  BY <1>3, <1>4, OneMore
<1>6. PICK p : p = y \o t
  OBVIOUS
<1>7. PICK q : q = a \o b
  OBVIOUS
<1>8. /\ p \in Seq(T) /\ Len(p) = Len(y) + Len(t)
      /\ \A i \in 1 .. Len(y) : p[i] = y[i]
      /\ \A i \in 1 .. Len(t) : p[Len(y) + i] = t[i]
  <2>1. y \in Seq(T) /\ t \in Seq(T)
    BY <1>3, <1>5
  <2> QED BY <1>6, <2>1, TwoLegs
<1>9. /\ q \in Seq(T) /\ Len(q) = Len(a) + Len(b)
      /\ \A i \in 1 .. Len(a) : q[i] = a[i]
      /\ \A i \in 1 .. Len(b) : q[Len(a) + i] = b[i]
  BY <1>7, TwoLegs
<1>10. Len(p) = Len(q)
  BY <1>3, <1>5, <1>8, <1>9
<1>11. ASSUME NEW i \in 1 .. Len(p) PROVE p[i] = q[i]
  <2>1. CASE i \in 1 .. Len(a)
    BY <1>5, <1>8, <1>9, <2>1
  <2>2. CASE i = Len(a) + 1
    <3>1. i \in 1 .. Len(y) /\ 1 \in 1 .. Len(b)
      BY <1>3, <1>5, <2>2
    <3> QED BY <1>3, <1>5, <1>8, <1>9, <2>2, <3>1
  <2>3. CASE i \notin 1 .. Len(a) + 1
    <3>1. i - (Len(a) + 1) \in 1 .. Len(t)
      BY <1>3, <1>5, <1>8, <2>3
    <3>2. PICK j \in 1 .. Len(t) : i = Len(a) + 1 + j
      <4>1. i = Len(a) + 1 + (i - (Len(a) + 1))
        BY <1>5
      <4> QED BY <3>1, <4>1
    <3>3. i = Len(y) + j /\ i = Len(a) + (j + 1) /\ j + 1 \in 1 .. Len(b)
      BY <1>3, <1>5, <3>2
    <3>4. j \in 1 .. Len(b) - 1
      BY <1>3, <3>2
    <3>5. p[i] = t[j] /\ t[j] = b[j + 1]
      BY <1>3, <1>8, <3>2, <3>3, <3>4
    <3>6. q[i] = b[j + 1]
      BY <1>9, <3>3
    <3> QED BY <3>5, <3>6
  <2> QED BY <1>5, <2>1, <2>2, <2>3
<1>12. p = q
  BY <1>8, <1>9, <1>10, <1>11, SeqEqual
<1> QED BY <1>1, <1>2, <1>4, <1>6, <1>7, <1>12

\* What is left when the second leg is cut.
LEMMA CutOfTwo ==
    ASSUME NEW T, NEW a \in Seq(T), NEW b \in Seq(T), NEW k \in 0 .. Len(b)
    PROVE  \E j \in 0 .. Len(a \o b) : a \o SubSeq(b, 1, k) = SubSeq(a \o b, 1, j)
<1>1. PICK t : t = SubSeq(b, 1, k)
  OBVIOUS
<1>2. /\ t \in Seq(T) /\ Len(t) = k /\ k \in Nat /\ \A i \in 1 .. k : t[i] = b[i]
  BY <1>1, CutShort
<1>3. PICK q : q = a \o b
  OBVIOUS
<1>4. /\ q \in Seq(T) /\ Len(q) = Len(a) + Len(b) /\ Len(a) \in Nat /\ Len(b) \in Nat
      /\ \A i \in 1 .. Len(a) : q[i] = a[i]
      /\ \A i \in 1 .. Len(b) : q[Len(a) + i] = b[i]
  BY <1>3, TwoLegs
<1>5. PICK p : p = a \o t
  OBVIOUS
<1>6. /\ p \in Seq(T) /\ Len(p) = Len(a) + Len(t)
      /\ \A i \in 1 .. Len(a) : p[i] = a[i]
      /\ \A i \in 1 .. Len(t) : p[Len(a) + i] = t[i]
  <2>1. t \in Seq(T)
    BY <1>2
  <2> QED BY <1>5, <2>1, TwoLegs
<1>7. PICK j : j = Len(a) + k
  OBVIOUS
<1>8. j \in 0 .. Len(q)
  BY <1>2, <1>4, <1>7
<1>9. PICK s : s = SubSeq(q, 1, j)
  OBVIOUS
<1>10. s \in Seq(T) /\ Len(s) = j /\ \A i \in 1 .. j : s[i] = q[i]
  BY <1>4, <1>8, <1>9, CutShort
<1>11. ASSUME NEW i \in 1 .. Len(p) PROVE p[i] = s[i]
  <2>1. i \in 1 .. j
    BY <1>2, <1>6, <1>7
  <2>2. CASE i \in 1 .. Len(a)
    BY <1>4, <1>6, <1>10, <2>1, <2>2
  <2>3. CASE i \notin 1 .. Len(a)
    <3>1. i - Len(a) \in 1 .. k /\ i = Len(a) + (i - Len(a))
      BY <1>2, <1>4, <1>7, <2>1, <2>3
    <3>2. PICK n \in 1 .. k : i = Len(a) + n
      BY <3>1
    <3>3. n \in 1 .. Len(b)
      BY <1>2, <1>4, <3>2
    <3> QED BY <1>2, <1>4, <1>6, <1>10, <2>1, <3>2, <3>3
  <2> QED BY <2>2, <2>3
<1>12. p = s
  BY <1>2, <1>6, <1>7, <1>10, <1>11, SeqEqual
<1> QED BY <1>1, <1>3, <1>5, <1>8, <1>9, <1>12

\* What is left without the second leg.
LEMMA FirstAlone ==
    ASSUME NEW T, NEW a \in Seq(T), NEW b \in Seq(T)
    PROVE  \E j \in 0 .. Len(a \o b) : a = SubSeq(a \o b, 1, j)
<1>1. SubSeq(b, 1, 0) = <<>> /\ 0 \in 0 .. Len(b) /\ a \o <<>> = a
  BY SubSeqEmpty
<1> QED BY <1>1, CutOfTwo, SMTT(30)

\* What is left when nothing is.
LEMMA NothingLeft ==
    ASSUME NEW T, NEW a \in Seq(T)
    PROVE  \E j \in 0 .. Len(a) : <<>> = SubSeq(a, 1, j)
<1>1. SubSeq(a, 1, 0) = <<>> /\ 0 \in 0 .. Len(a)
  BY SubSeqEmpty
<1> QED BY <1>1

-----------------------------------------------------------------------------
(* The service that the users see: their inboxes.                          *)

\* The inboxes of the abstract service.
Boxes == [c \in Clients |-> Inbox(c)]

\* A process that dials nobody.
Away == {"off", "strange", "gone"}

\* Nobody looks into the inbox, and nothing comes.
Unseen(c) == clients[c].st \in Away /\ ~Registered(c)

\* What the relay has sent will go through the proxy, or the relay knows the client.
Through(c) == c \in Victims /\ (Registered(c) \/ Carried(c))

\* The lines that are to go through it.
Behind(c) == IF Through(c) THEN Lines(down[Far(c)]) ELSE <<>>

\* What the relay sends is in the inbox.
Reached(c) == ~Unseen(c) /\ (c \in Victims => Through(c))

\* A step of the service, or none.
ServiceStep == Service!Next \/ (byName' = byName /\ Boxes' = Boxes)

\* What is on the way on a leg, as lines.
LEMMA LinesTyped ==
    ASSUME SealedInv, NEW l \in Legs
    PROVE  down[l] \in Seq(DownRecord) /\ DataLast(down[l]) /\ Lines(down[l]) \in Seq(Told)
<1>1. down[l] \in Seq(DownRecord) /\ DownOK(l)
  BY DEF SealedInv, TypesOK, LegOK
<1>2. DataLast(down[l])
  BY <1>1, StreamLines DEF DownOK, DownFits
<1> QED BY <1>1, <1>2, LinesAre

\* The same after a step.
LEMMA NextLinesTyped ==
    SealedInv' => (\A l \in Legs :
        /\ down[l] \in Seq(DownRecord) /\ DataLast(down[l])
        /\ Lines(down[l]) \in Seq(Told))'
<1>1. SealedInv => \A l \in Legs :
        /\ down[l] \in Seq(DownRecord) /\ DataLast(down[l])
        /\ Lines(down[l]) \in Seq(Told)
  BY LinesTyped
<1> QED BY <1>1, PTL

\* Who is online is registered at the relay.
LEMMA OnlineIs ==
    ASSUME SealedInv, NEW c \in Clients
    PROVE  /\ Online(c) <=> Registered(c)
           /\ c \in Service!Online <=> Registered(c)
<1>1. NamesInverse /\ c # NoClient /\ \A n \in Names : n # NoName
  BY SealedChatAssumption DEF SealedInv
<1>2. Online(c) <=> Registered(c)
  BY <1>1 DEF Online, NamesInverse, Registered
<1>3. c \in Service!Online <=> Online(c)
  BY <1>1 DEF Service!Online, Online
<1> QED BY <1>2, <1>3

\* Each inbox.
LEMMA BoxIs ==
    SealedInv => \A c \in Clients :
        Boxes[c] = IF Unseen(c) THEN <<>> ELSE Lines(down[Near(c)]) \o Behind(c)
<1> SUFFICES ASSUME SealedInv, NEW c \in Clients
             PROVE  Boxes[c] = IF Unseen(c) THEN <<>> ELSE Lines(down[Near(c)]) \o Behind(c)
  OBVIOUS
<1>1. Online(c) <=> Registered(c)
  BY OnlineIs
<1>2. Boxes[c] = Inbox(c)
  BY DEF Boxes
<1> QED BY <1>1, <1>2 DEF Inbox, Unseen, Behind, Through, Away

\* The same after a step.
LEMMA NextBoxIs ==
    SealedInv' => (\A c \in Clients :
        Boxes[c] = IF Unseen(c) THEN <<>> ELSE Lines(down[Near(c)]) \o Behind(c))'
BY BoxIs, PTL

\* The two parts of an inbox are lines.
LEMMA PartsTyped ==
    ASSUME SealedInv, NEW c \in Clients
    PROVE  /\ Near(c) \in Legs /\ Lines(down[Near(c)]) \in Seq(Told)
           /\ Behind(c) \in Seq(Told)
           /\ Lines(down[Near(c)]) \o Behind(c) \in Seq(Told)
<1>1. Near(c) \in Legs /\ (c \in Victims => Far(c) \in Legs)
  BY LegIs
<1>2. Lines(down[Near(c)]) \in Seq(Told)
  BY <1>1, LinesTyped
<1>3. Behind(c) \in Seq(Told)
  <2>1. CASE Through(c)
    BY <1>1, <2>1, LinesTyped DEF Through, Behind
  <2>2. CASE ~Through(c)
    BY <2>2 DEF Behind
  <2> QED BY <2>1, <2>2
<1> QED BY <1>1, <1>2, <1>3

\* An inbox holds lines of the service.
LEMMA BoxTyped ==
    ASSUME SealedInv
    PROVE  Boxes \in [Clients -> Seq(Told)]
<1>1. ASSUME NEW c \in Clients PROVE Boxes[c] \in Seq(Told)
  <2>1. <<>> \in Seq(Told)
    OBVIOUS
  <2> QED BY <2>1, PartsTyped, BoxIs
<1>2. Boxes = [c \in Clients |-> Boxes[c]]
  BY DEF Boxes
<1> QED BY <1>1, <1>2

\* Inboxes are the same when each is.
LEMMA NothingServed ==
    ASSUME \A x \in Clients : Boxes'[x] = Boxes[x], byName' = byName
    PROVE  ServiceStep
<1>1. Boxes = [x \in Clients |-> Boxes[x]] /\ Boxes' = [x \in Clients |-> Boxes'[x]]
  BY DEF Boxes
<1> QED BY <1>1 DEF ServiceStep

\* An inbox whose two parts are as they were.
LEMMA BoxKept ==
    ASSUME SealedInv, SealedInv', NEW x \in Clients, Unseen(x)' <=> Unseen(x),
           Lines(down'[Near(x)]) = Lines(down[Near(x)]), Behind(x)' = Behind(x)
    PROVE  Boxes'[x] = Boxes[x]
<1>1. Near(x)' = Near(x)
  BY DEF Near
<1> QED BY <1>1, BoxIs, NextBoxIs

\* What stays when neither the client nor its user nor the proxy is concerned.
LEMMA SeenKept ==
    ASSUME NEW x \in Clients, clients'[x] = clients[x], SameUser(x),
           Carried(x)' <=> Carried(x)
    PROVE  /\ Unseen(x)' <=> Unseen(x)
           /\ Through(x)' <=> Through(x)
           /\ Reached(x)' <=> Reached(x)
           /\ Registered(x)' <=> Registered(x)
BY DEF Unseen, Through, Reached, SameUser, Registered

\* An inbox of which nothing is touched.
LEMMA BoxSame ==
    ASSUME SealedInv, SealedInv', NEW x \in Clients, clients'[x] = clients[x], SameUser(x),
           Carried(x)' <=> Carried(x),
           down'[Near(x)] = down[Near(x)], x \in Victims => down'[Far(x)] = down[Far(x)]
    PROVE  Boxes'[x] = Boxes[x]
<1>1. (Unseen(x)' <=> Unseen(x)) /\ (Through(x)' <=> Through(x))
  BY SeenKept
<1>2. Through(x) => down'[Far(x)] = down[Far(x)]
  BY DEF Through
<1>3. Behind(x)' = Behind(x)
  BY <1>1, <1>2 DEF Behind, Far
<1> QED BY <1>1, <1>3, BoxKept

\* The same with the legs of the client as the relay knows them.
LEMMA BoxUntold ==
    ASSUME SealedInv, SealedInv', NEW x \in Clients, UNCHANGED <<clients, proxy>>, SameUser(x),
           x \in Victims => down'[Near(x)] = down[Near(x)],
           down'[Last(x)] = down[Last(x)]
    PROVE  Boxes'[x] = Boxes[x]
<1>1. down'[Near(x)] = down[Near(x)] /\ (x \in Victims => down'[Far(x)] = down[Far(x)])
  BY LegIs
<1>2. Carried(x)' <=> Carried(x)
  BY DEF Carried, Victim
<1> QED BY <1>1, <1>2, BoxSame

\* One more line in an inbox.
LEMMA BoxGrows ==
    ASSUME SealedInv, SealedInv', NEW x \in Clients, NEW s \in SessionType, NEW line,
           Grows(x, s, line),
           x \in Victims => down'[Near(x)] = down[Near(x)], Reached(x)',
           Reached(x) \/ \A l \in LegsOf(x) : NoData(down[l])
    PROVE  Boxes'[x] = Append(Boxes[x], line) /\ Boxes'[x] # Boxes[x]
<1>1. PICK r : r = Sealed(s, line)
  OBVIOUS
<1>2. line \in Told /\ down'[Last(x)] = Append(down[Last(x)], r)
  BY <1>1 DEF Grows
<1>3. r \in Data(Told) /\ r.line = line
  BY <1>1, <1>2, SealedTyped, SealedIs
<1>4. /\ Last(x) \in Legs /\ Near(x) \in Legs
      /\ x \in Victims => Last(x) = Far(x)
      /\ x \notin Victims => Last(x) = Near(x)
  BY LegIs
<1>5. PICK a : a = Lines(down[Near(x)])
  OBVIOUS
<1>6. PICK b : b = IF x \in Victims THEN Lines(down[Far(x)]) ELSE <<>>
  OBVIOUS
<1>7. a \in Seq(Told) /\ b \in Seq(Told)
  BY <1>4, <1>5, <1>6, LinesTyped
<1>8. down[Last(x)] \in Seq(DownRecord) /\ DataLast(down[Last(x)])
  BY <1>4, LinesTyped
<1>9. Lines(down'[Last(x)]) = Append(Lines(down[Last(x)]), line)
  BY <1>2, <1>3, <1>8, LineSent
<1>10. Boxes[x] = a \o b
  <2>1. CASE Reached(x)
    <3>1. Behind(x) = b /\ ~Unseen(x)
      BY <1>6, <2>1 DEF Reached, Behind, Through
    <3> QED BY <1>5, <3>1, BoxIs
  <2>2. CASE \A l \in LegsOf(x) : NoData(down[l])
    <3>1. NoData(down[Near(x)]) /\ (x \in Victims => NoData(down[Far(x)]))
      BY <2>2, LegsOfIs
    <3>2. /\ down[Near(x)] \in Seq(DownRecord)
          /\ x \in Victims => down[Far(x)] \in Seq(DownRecord)
      BY <1>4, LinesTyped
    <3>3. a = <<>>
      BY <1>5, <3>1, <3>2, NoLines
    <3>4. b = <<>>
      BY <1>6, <3>1, <3>2, NoLines
    <3>5. Lines(down[Near(x)]) = <<>> /\ Behind(x) = <<>>
      BY <1>5, <1>6, <3>3, <3>4 DEF Behind, Through
    <3>6. <<>> \o <<>> = <<>>
      OBVIOUS
    <3> QED BY <3>3, <3>4, <3>5, <3>6, BoxIs
  <2> QED BY <2>1, <2>2
<1>11. Boxes'[x] = Lines(down'[Near(x)]) \o Behind(x)'
  <2>1. ~Unseen(x)' /\ Near(x)' = Near(x)
    BY DEF Reached, Near
  <2> QED BY <2>1, NextBoxIs
<1>12. Boxes'[x] = Append(a \o b, line)
  <2>1. CASE x \in Victims
    <3>1. Through(x)' /\ Far(x)' = Far(x)
      BY <2>1 DEF Reached, Far
    <3>2. Behind(x)' = Append(b, line)
      BY <1>4, <1>6, <1>9, <2>1, <3>1 DEF Behind
    <3>3. Lines(down'[Near(x)]) = a
      BY <1>5, <2>1
    <3> QED BY <1>2, <1>7, <1>11, <3>2, <3>3, LastOfTwo
  <2>2. CASE x \notin Victims
    <3>1. Behind(x)' = <<>> /\ b = <<>>
      BY <1>6, <2>2 DEF Behind, Through
    <3>2. Lines(down'[Near(x)]) = Append(a, line)
      BY <1>4, <1>5, <1>9, <2>2
    <3>3. Append(a, line) \in Seq(Told)
      BY <1>2, <1>7
    <3>4. Append(a, line) \o <<>> = Append(a, line) /\ a \o <<>> = a
      BY <1>7, <3>3, TwoLegs
    <3> QED BY <1>11, <3>1, <3>2, <3>4
  <2> QED BY <2>1, <2>2
<1>13. Append(a \o b, line) # a \o b
  <2>1. PICK w : w = a \o b
    OBVIOUS
  <2>2. w \in Seq(Told)
    BY <1>7, <2>1
  <2>3. Len(Append(w, line)) = Len(w) + 1 /\ Len(w) \in Nat
    BY <1>2, <2>2
  <2>4. Len(w) + 1 # Len(w)
    BY <2>3
  <2> QED BY <2>1, <2>3, <2>4
<1> QED BY <1>10, <1>12, <1>13

-----------------------------------------------------------------------------
(* The service that the users see: the relay.                              *)

\* The relay does what it does on the legs that end at it.
RelayOnly ==
    /\ UNCHANGED <<clients, proxy>>
    /\ \A x \in Victims : down'[Near(x)] = down[Near(x)]

\* So it does when the queues keep their shape.
LEMMA ShapeIsRelayOnly ==
    ASSUME Shape, UNCHANGED <<clients, proxy>>
    PROVE  RelayOnly
<1>1. ASSUME NEW x \in Victims PROVE down'[Near(x)] = down[Near(x)]
  <2>1. x \in Clients
    BY SealedChatAssumption
  <2>2. Near(x) \in Legs /\ ~AtRelay(Near(x))
    BY <2>1, LegIs
  <2> QED BY <2>2 DEF Shape
<1> QED BY <1>1 DEF RelayOnly

\* The sessions of the relay.
LEMMA BaseTyped ==
    ASSUME TypesOK, NEW x \in Clients, NEW c \in Clients
    PROVE  conns[x].sess \in SessionType /\ Base(x, c) \in SessionType
<1>1. conns[x].sess \in SessionType /\ conns[c].sess \in SessionType
  BY DEF TypesOK, ConnType
<1> QED BY <1>1, Sessions DEF Base

\* A function on the clients is what it is at each of them.
LEMMA TellIs ==
    ASSUME NEW boxes, NEW whom, NEW line,
           \A x \in Clients :
               Boxes'[x] = IF x \in whom THEN Append(boxes[x], line) ELSE boxes[x]
    PROVE  Boxes' = Service!Tell(boxes, whom, line)
<1>1. Boxes' = [x \in Clients |-> Boxes'[x]]
  BY DEF Boxes
<1>2. Service!Tell(boxes, whom, line)
         = [x \in Clients |-> IF x \in whom THEN Append(boxes[x], line) ELSE boxes[x]]
  BY DEF Service!Tell
<1> QED BY <1>1, <1>2

\* Service and relay have the same lines.
LEMMA SameLine ==
    ASSUME NEW verb, NEW name, NEW msg
    PROVE  Service!Line(verb, name, msg) = Line(verb, name, msg)
BY DEF Service!Line, Line

\* A connection that is told nothing.
LEMMA KeptBox ==
    ASSUME SealedInv, SealedInv', NEW x \in Clients, NEW s, Kept(x, s), RelayOnly
    PROVE  Boxes'[x] = Boxes[x]
BY BoxUntold DEF Kept, RelayOnly

\* One that is told a line which is in its inbox at once, and was registered before.
LEMMA UserGrows ==
    ASSUME SealedInv, SealedInv', NEW x \in Clients, NEW s \in SessionType, NEW line,
           Grows(x, s, line), RelayOnly, Registered(x), SameUser(x)
    PROVE  Boxes'[x] = Append(Boxes[x], line) /\ Boxes'[x] # Boxes[x]
<1>1. Reached(x) /\ Reached(x)'
  BY DEF Reached, Unseen, Through, SameUser, Registered
<1> QED BY <1>1, BoxGrows DEF RelayOnly

\* An answer of the relay is an answer of the service.
LEMMA ReplyServes ==
    ASSUME SealedInv, SealedInv', NEW c \in Clients, Reply(c), RelayOnly
    PROVE  ServiceStep
<1>1. PICK verb \in {"ERR", "USERS"} : Grows(c, Base(c, c), Line(verb, NoName, 0))
  BY DEF Reply
<1>2. /\ byName' = byName /\ SameUser(c)
      /\ \A x \in Clients \ {c} : Boxes'[x] = Boxes[x]
  BY KeptBox DEF Reply
<1>3. /\ Reached(c)' <=> Reached(c)
      /\ Unseen(c)' <=> Unseen(c)
      /\ Through(c)' <=> Through(c)
  BY <1>2, SeenKept DEF RelayOnly, Carried, Victim
<1>4. Base(c, c) \in SessionType
  BY BaseTyped DEF SealedInv
<1>5. CASE Reached(c)
  <2>1. Boxes'[c] = Append(Boxes[c], Line(verb, NoName, 0)) /\ Boxes'[c] # Boxes[c]
    BY <1>1, <1>3, <1>4, <1>5, BoxGrows DEF RelayOnly
  <2>2. Boxes' = Service!Tell(Boxes, {c}, Line(verb, NoName, 0))
    BY <1>2, <2>1, TellIs
  <2>3. Service!Answer(c, verb, NoName)
    BY <1>2, <2>2, SameLine DEF Service!Answer, Boxes
  <2>4. Service!Seen
    BY <2>1 DEF Service!Seen, Boxes
  <2> QED BY <2>3, <2>4 DEF ServiceStep, Service!Next
<1>6. CASE ~Reached(c)
  <2>1. CASE Unseen(c)
    <3>1. Boxes'[c] = Boxes[c]
      BY <1>3, <2>1, BoxIs, NextBoxIs
    <3> QED BY <1>2, <3>1, NothingServed
  <2>2. CASE c \in Victims /\ ~Through(c)
    <3>1. down'[Near(c)] = down[Near(c)]
      BY <2>2 DEF RelayOnly
    <3>2. Behind(c)' = Behind(c)
      BY <1>3, <2>2 DEF Behind
    <3>3. Boxes'[c] = Boxes[c]
      BY <1>3, <3>1, <3>2, BoxKept
    <3> QED BY <1>2, <3>3, NothingServed
  <2> QED BY <1>6, <2>1, <2>2 DEF Reached
<1> QED BY <1>5, <1>6

\* A FROM line queued is a message posted.
LEMMA PostServes ==
    ASSUME SealedInv, SealedInv', NEW c \in Clients, NEW to \in Names,
           NEW m \in 1 .. MaxLines, Post(c, to, m), RelayOnly
    PROVE  ServiceStep
<1>1. PICK g, line : g = byName[to] /\ line = Line("FROM", conns[c].user, m)
  OBVIOUS
<1>2. TypesOK /\ NamesInverse
  BY SealedInvIs
<1>3. /\ g # NoClient /\ SameUser(g) /\ byName' = byName /\ Grows(g, Base(g, c), line)
      /\ Registered(c) /\ \A x \in Clients \ {g} : Kept(x, Base(x, c))
  BY <1>1 DEF Post
<1>4. g \in Clients /\ Registered(g)
  <2>1. g \in Clients
    BY <1>1, <1>2, <1>3 DEF TypesOK
  <2>2. conns[g].user = to /\ to # NoName
    BY <1>1, <1>2, <1>3, SealedChatAssumption DEF NamesInverse
  <2> QED BY <2>1, <2>2 DEF Registered
<1>5. \A x \in Clients \ {g} : Boxes'[x] = Boxes[x]
  BY <1>3, KeptBox
<1>6. Base(g, c) \in SessionType
  BY <1>2, <1>4, BaseTyped
<1>7. Boxes'[g] = Append(Boxes[g], line) /\ Boxes'[g] # Boxes[g]
  BY <1>3, <1>4, <1>6, UserGrows
<1>8. Boxes' = Service!Tell(Boxes, {g}, line)
  BY <1>5, <1>7, TellIs
<1>9. conns[c].user \in Names /\ byName[conns[c].user] = c /\ c # NoClient
  BY <1>2, <1>3, SealedChatAssumption DEF NamesInverse
<1>10. Service!Post(conns[c].user, to, m)
  BY <1>1, <1>3, <1>8, <1>9, SameLine DEF Service!Post, Boxes
<1>11. Service!Seen
  BY <1>4, <1>7 DEF Service!Seen, Boxes
<1> QED BY <1>9, <1>10, <1>11 DEF ServiceStep, Service!Next

\* A LOGIN granted is a user who joins.
LEMMA JoinServes ==
    ASSUME SealedInv, SealedInv', LoginInv, NEW c \in Clients, HasLogin(up[Last(c)]),
           "acceptor" \in ends[Last(c)], NEW n \in Names, Join(c, n), RelayOnly
    PROVE  ServiceStep
<1>1. TypesOK /\ NamesInverse /\ ToldNothing(c)
  BY SealedInvIs DEF LoginInv
<1>2. PICK ok, joined : ok = Line("OK", n, 0) /\ joined = Line("joined", n, 0)
  OBVIOUS
<1>3. /\ ~Registered(c) /\ byName[n] = NoClient /\ conns'[c].user = n
      /\ Grows(c, Base(c, c), ok)
      /\ byName' = [byName EXCEPT ![n] = c] /\ n # NoName /\ c # NoClient
  BY <1>2, SealedChatAssumption DEF Join
<1>4. \A l \in LegsOf(c) : NoData(down[l])
  <2>1. StillToLogIn(c)
    BY LegsOfIs DEF StillToLogIn
  <2> QED BY <1>1, <1>3, <2>1 DEF ToldNothing
<1>5. byName \in [Names -> Clients \cup {NoClient}]
  BY <1>1 DEF TypesOK
<1>6. \A x \in Clients : conns[x].sess \in SessionType /\ Base(x, c) \in SessionType
  BY <1>1, BaseTyped
<1>7. Reached(c)'
  BY <1>3 DEF Reached, Unseen, Through, Registered
<1>8. Boxes'[c] = Append(Boxes[c], ok)
  BY <1>3, <1>4, <1>6, <1>7, BoxGrows DEF RelayOnly
<1>9. ASSUME NEW x \in Clients \ {c}
      PROVE  Boxes'[x] = IF Registered(x) THEN Append(Boxes[x], joined) ELSE Boxes[x]
  <2>1. CASE Registered(x)
    <3>1. SameUser(x) /\ Grows(x, conns[x].sess, joined)
      BY <1>2, <2>1 DEF Join
    <3> QED BY <1>6, <2>1, <3>1, UserGrows
  <2>2. CASE ~Registered(x)
    <3>1. Kept(x, conns[x].sess)
      BY <2>2 DEF Join
    <3> QED BY <2>2, <3>1, KeptBox
  <2> QED BY <2>1, <2>2
<1>10. c \notin Service!Online /\ \A x \in Clients : x \in Service!Online <=> Registered(x)
  BY <1>3, OnlineIs
<1>11. PICK first : first = Service!Tell(Boxes, {c}, ok)
  OBVIOUS
<1>12. \A x \in Clients : first[x] = IF x = c THEN Append(Boxes[x], ok) ELSE Boxes[x]
  BY <1>11 DEF Service!Tell
<1>13. \A x \in Clients :
          Boxes'[x] = IF x \in Service!Online THEN Append(first[x], joined) ELSE first[x]
  BY <1>8, <1>9, <1>10, <1>12
<1>14. Boxes' = Service!Tell(first, Service!Online, joined)
  BY <1>13, TellIs
<1>15. Service!Join(c, n)
  BY <1>2, <1>3, <1>10, <1>11, <1>14, SameLine DEF Service!Join, Boxes
<1>16. Service!Seen
  <2>1. byName'[n] # byName[n]
    BY <1>3, <1>5
  <2> QED BY <2>1 DEF Service!Seen
<1> QED BY <1>15, <1>16 DEF ServiceStep, Service!Next

\* A connection given up or at another stage, and a record of the exchange.
LEMMA StageServes ==
    ASSUME SealedInv, SealedInv', NEW c \in Clients, byName' = byName,
           UNCHANGED <<clients, proxy>>, \A x \in Clients : SameUser(x),
           \A l \in Legs \ {Last(c)} : down'[l] = down[l],
           \/ down'[Last(c)] = down[Last(c)]
           \/ \E r \in DownRecord : /\ r.type # "appdata"
                                    /\ down'[Last(c)] = Append(down[Last(c)], r)
    PROVE  ServiceStep
<1>1. Lines(down'[Last(c)]) = Lines(down[Last(c)])
  <2>1. Last(c) \in Legs /\ Last(c)' = Last(c)
    BY LegIs DEF Last, Near, Far
  <2>2. down[Last(c)] \in Seq(DownRecord) /\ DataLast(down'[Last(c)])
    BY <2>1, LinesTyped, NextLinesTyped
  <2> QED BY <2>2, NoLineSent
<1>2. \A l \in Legs : Lines(down'[l]) = Lines(down[l])
  BY <1>1
<1>3. ASSUME NEW x \in Clients PROVE Boxes'[x] = Boxes[x]
  <2>1. (Unseen(x)' <=> Unseen(x)) /\ (Through(x)' <=> Through(x))
    BY SeenKept DEF Carried, Victim
  <2>2. Near(x) \in Legs /\ (Through(x) => Far(x) \in Legs) /\ Far(x)' = Far(x)
    BY LegIs DEF Through, Far
  <2>3. Behind(x)' = Behind(x)
    BY <1>2, <2>1, <2>2 DEF Behind
  <2> QED BY <1>2, <2>1, <2>2, <2>3, BoxKept
<1> QED BY <1>3, NothingServed

\* A record handled is one of these, or nothing the service shows.
LEMMA DrainServes ==
    ASSUME SealedInv, SealedInv', LoginInv, NEW c \in Clients, DrainRecord(c)
    PROVE  ServiceStep
<1>1. /\ TypesOK /\ NamesInverse /\ (\A x \in Clients : ConnOK(x)) /\ Last(c) \in Legs
      /\ conns \in [Clients -> ConnType] /\ down \in [Legs -> Seq(DownRecord)]
      /\ up[Last(c)] \in Seq(UpRecord)
  BY SealedInvIs, LegIs DEF OwnOK, TypesOK
<1>2. PICK r : r = Head(up[Last(c)])
  OBVIOUS
<1>3. /\ conns[c].st = "open" /\ up[Last(c)] # <<>> /\ up' = Take(up, Last(c))
      /\ UNCHANGED <<ends, clients, proxy, lines, junk>>
  BY DEF DrainRecord
<1>4. "acceptor" \in ends[Last(c)]
  BY <1>1, <1>3 DEF ConnOK
<1>5. r \in UpRecord
  BY <1>1, <1>2, <1>3, TakesOne
<1>6. CASE Dooms(c)
  <2>1. \A x \in Clients : SameUser(x)
    BY <1>1, <1>6 DEF Dooms, SameUser, ConnType
  <2> QED BY <1>3, <1>6, <2>1, StageServes DEF Dooms
<1>7. CASE Negotiates(c, r)
  <2>1. PICK l : l = Last(c)
    OBVIOUS
  <2>2. byName' = byName /\ \E p : /\ Fails(c, l, p) \/ Answers(c, l, p) \/ Completes(c, l, p)
                                   /\ conns' = [conns EXCEPT ![c] = p]
    BY <1>1, <1>2, <1>7, <2>1, NegotiatesIs
  <2>3. PICK p : /\ Fails(c, l, p) \/ Answers(c, l, p) \/ Completes(c, l, p)
                 /\ conns' = [conns EXCEPT ![c] = p]
    BY <2>2
  <2>4. PICK q : q = conns[c]
    OBVIOUS
  <2>5. q \in ConnType
    BY <1>1, <2>4
  <2>6. p.user = q.user
    BY <2>3, <2>4, <2>5 DEF Fails, Answers, Completes, ConnType
  <2>7. \A x \in Clients : SameUser(x)
    BY <1>1, <2>3, <2>4, <2>6 DEF SameUser
  <2>8. PICK hello : hello = Hs("ServerKex", Pub(l, "server"))
    OBVIOUS
  <2>9. /\ hello \in DownRecord /\ hello.type = "handshake"
        /\ Alert \in DownRecord /\ Alert.type = "alert"
    BY <1>1, <2>1, <2>8, ExchangeRecords
  <2>10. /\ \A k \in Legs \ {l} : down'[k] = down[k]
         /\ down'[l] \in {down[l], Append(down[l], Alert), Append(down[l], hello)}
    BY <1>1, <2>1, <2>3, <2>8 DEF Fails, Answers, Completes
  <2>11. \/ down'[l] = down[l]
         \/ \E k \in DownRecord : k.type # "appdata" /\ down'[l] = Append(down[l], k)
    BY <2>9, <2>10
  <2> QED BY <1>3, <2>1, <2>2, <2>7, <2>10, <2>11, StageServes
<1>8. CASE /\ Opens(conns[c].sess, r)
           /\ HandleLine([Now EXCEPT !.conns[c].sess = Opened(@)], c, r.line)
  <2>1. conns[c].sess.up /\ r.type = "appdata" /\ conns[c].st # "none"
    BY <1>3, <1>8 DEF Opens
  <2>2. r.line \in Asked
    BY <1>5, <2>1 DEF UpRecord, Data, Alert, Hs
  <2>3. \A x \in Clients : Registered(x) => conns[x].sess.up
    BY <1>1 DEF ConnOK, Registered
  <2>4. LineEffect(c, r.line) /\ Shape
    BY <1>1, <1>8, <2>1, <2>2, <2>3, HandleLineEffect
  <2>5. RelayOnly
    BY <1>3, <2>4, ShapeIsRelayOnly
  <2>6. CASE Reply(c)
    BY <2>5, <2>6, ReplyServes
  <2>7. CASE Wants(c)
    <3>1. byName' = byName /\ \A x \in Clients : Boxes'[x] = Boxes[x]
      BY <2>5, <2>7, KeptBox DEF Wants
    <3> QED BY <3>1, NothingServed
  <2>8. CASE r.line.verb = "MSG" /\ r.line.name \in Names /\ Post(c, r.line.name, r.line.msg)
    <3>1. r.line.msg \in 1 .. MaxLines
      BY <2>2, <2>8 DEF Asked
    <3> QED BY <2>5, <2>8, <3>1, PostServes
  <2>9. CASE r.line.verb = "LOGIN" /\ r.line.name \in Names /\ Join(c, r.line.name)
    <3>1. HasLogin(up[Last(c)])
      <4>1. up[Last(c)][1] = r /\ 1 \in DOMAIN up[Last(c)]
        BY <1>1, <1>2, <1>3
      <4> QED BY <2>1, <2>9, <4>1 DEF HasLogin, IsLogin
    <3> QED BY <1>4, <2>5, <2>9, <3>1, JoinServes
  <2> QED BY <2>4, <2>6, <2>7, <2>8, <2>9 DEF LineEffect
<1> QED BY <1>2, <1>6, <1>7, <1>8 DEF DrainRecord

\* The end of an inbox whose user is not online is forgotten.
LEMMA ForgetServes ==
    ASSUME SealedInv, NEW c \in Clients, ~Registered(c), byName' = byName,
           \E k \in 0 .. Len(Boxes[c]) : Boxes'[c] = SubSeq(Boxes[c], 1, k),
           \A x \in Clients \ {c} : Boxes'[x] = Boxes[x]
    PROVE  ServiceStep
<1>1. PICK k \in 0 .. Len(Boxes[c]) : Boxes'[c] = SubSeq(Boxes[c], 1, k)
  OBVIOUS
<1>2. Boxes \in [Clients -> Seq(Told)]
  BY BoxTyped
<1>3. Boxes' = [Boxes EXCEPT ![c] = SubSeq(@, 1, k)]
  <2>1. Boxes' = [x \in Clients |-> Boxes'[x]]
    BY DEF Boxes
  <2> QED BY <1>1, <1>2, <2>1
<1>4. c \notin Service!Online /\ k <= Len(Boxes[c])
  BY <1>1, <1>2, OnlineIs
<1>5. Service!Forget(c, k)
  BY <1>3, <1>4 DEF Service!Forget, Service!Cut, Boxes
<1>6. CASE Boxes' = Boxes
  BY <1>6 DEF ServiceStep
<1>7. CASE Boxes' # Boxes
  <2>1. Service!Seen
    BY <1>7 DEF Service!Seen, Boxes
  <2>2. \E l \in 0 .. Len(Boxes[c]) : Service!Forget(c, l)
    BY <1>5
  <2> QED BY <2>1, <2>2 DEF ServiceStep, Service!Next, Boxes
<1> QED BY <1>6, <1>7

\* The beginning of an inbox is left when the connection to the relay is dropped.
LEMMA BoxCut ==
    ASSUME SealedInv, SealedInv', NEW c \in Clients, RelayOnly, conns'[c].user = NoName,
           NEW k \in 0 .. Len(down[Last(c)]), down'[Last(c)] = SubSeq(down[Last(c)], 1, k)
    PROVE  \E j \in 0 .. Len(Boxes[c]) : Boxes'[c] = SubSeq(Boxes[c], 1, j)
<1>1. /\ Last(c) \in Legs /\ Near(c) \in Legs
      /\ c \in Victims => Last(c) = Far(c)
      /\ c \notin Victims => Last(c) = Near(c)
      /\ Near(c)' = Near(c) /\ Far(c)' = Far(c)
  BY LegIs DEF Near, Far
<1>2. Boxes[c] \in Seq(Told)
  BY BoxTyped
<1>3. (Carried(c)' <=> Carried(c)) /\ clients' = clients /\ ~Registered(c)'
  BY DEF RelayOnly, Carried, Victim, Registered
<1>4. CASE Unseen(c)'
  <2>1. Boxes'[c] = <<>>
    BY <1>4, NextBoxIs
  <2> QED BY <1>2, <2>1, NothingLeft
<1>5. CASE ~Unseen(c)'
  <2>1. ~Unseen(c)
    BY <1>3, <1>5 DEF Unseen
  <2>2. PICK a : a = Lines(down[Near(c)])
    OBVIOUS
  <2>3. PICK b : b = Behind(c)
    OBVIOUS
  <2>4. a \in Seq(Told) /\ b \in Seq(Told) /\ Boxes[c] = a \o b
    BY <2>1, <2>2, <2>3, PartsTyped, BoxIs
  <2>5. Boxes'[c] = Lines(down'[Near(c)]) \o Behind(c)'
    BY <1>1, <1>5, NextBoxIs
  <2>6. down[Last(c)] \in Seq(DownRecord) /\ DataLast(down[Last(c)])
    BY <1>1, LinesTyped
  <2>7. PICK w : w = Lines(down[Last(c)])
    OBVIOUS
  <2>8. PICK j \in 0 .. Len(w) : Lines(down'[Last(c)]) = SubSeq(w, 1, j)
    BY <2>6, <2>7, LinesCut
  <2>9. CASE c \notin Victims
    <3>1. Behind(c)' = <<>> /\ b = <<>> /\ w = a
      BY <1>1, <2>2, <2>3, <2>7, <2>9 DEF Behind, Through
    <3>2. SubSeq(a, 1, j) \in Seq(Told)
      BY <2>4, <2>8, <3>1, CutShort
    <3>3. SubSeq(a, 1, j) \o <<>> = SubSeq(a, 1, j) /\ a \o <<>> = a
      BY <2>4, <3>2, TwoLegs
    <3> QED BY <1>1, <2>4, <2>5, <2>8, <2>9, <3>1, <3>3
  <2>10. CASE c \in Victims /\ Carried(c)
    <3>1. Through(c) /\ Through(c)'
      BY <1>3, <2>10 DEF Through
    <3>2. b = w /\ Behind(c)' = SubSeq(b, 1, j)
      BY <1>1, <2>3, <2>7, <2>8, <2>10, <3>1 DEF Behind
    <3>3. Lines(down'[Near(c)]) = a
      BY <2>2, <2>10 DEF RelayOnly
    <3>4. \E i \in 0 .. Len(a \o b) : a \o SubSeq(b, 1, j) = SubSeq(a \o b, 1, i)
      <4>1. j \in 0 .. Len(b)
        BY <2>8, <3>2
      <4>2. a \in Seq(Told) /\ b \in Seq(Told)
        BY <2>4
      <4> QED BY <4>1, <4>2, CutOfTwo
    <3>5. Boxes'[c] = a \o SubSeq(b, 1, j)
      BY <2>5, <3>2, <3>3
    <3> QED BY <2>4, <3>4, <3>5
  <2>11. CASE c \in Victims /\ ~Carried(c)
    <3>1. Behind(c)' = <<>>
      BY <1>3, <2>11 DEF Behind, Through
    <3>2. Lines(down'[Near(c)]) = a /\ a \o <<>> = a
      BY <2>2, <2>4, <2>11 DEF RelayOnly
    <3> QED BY <2>4, <2>5, <3>1, <3>2, FirstAlone
  <2> QED BY <2>9, <2>10, <2>11
<1> QED BY <1>4, <1>5

\* drop_conn is a user who leaves, or a connection forgotten.
LEMMA DropServes ==
    ASSUME SealedInv, SealedInv', NEW c \in Clients, DropConn(c)
    PROVE  ServiceStep
<1>1. /\ TypesOK /\ NamesInverse /\ (\A x \in Clients : ConnOK(x)) /\ c # NoClient
      /\ byName \in [Names -> Clients \cup {NoClient}]
  BY SealedInvIs, SealedChatAssumption DEF OwnOK, TypesOK
<1>2. Dropped(c) /\ Shape
  BY <1>1, DropEffect
<1>3. /\ byName' = [n \in Names |-> IF byName[n] = c THEN NoClient ELSE byName[n]]
      /\ UNCHANGED <<clients, proxy>>
  BY DEF DropConn
<1>4. RelayOnly
  BY <1>2, <1>3, ShapeIsRelayOnly
<1>5. conns'[c].user = NoName
  BY <1>2, ConnTypes DEF Dropped
<1>6. PICK k \in 0 .. Len(Boxes[c]) : Boxes'[c] = SubSeq(Boxes[c], 1, k)
  <2>1. PICK j \in 0 .. Len(down[Last(c)]) : down'[Last(c)] = SubSeq(down[Last(c)], 1, j)
    BY <1>2 DEF Dropped
  <2> QED BY <1>4, <1>5, <2>1, BoxCut
<1>7. ASSUME NEW x \in Clients \ {c}, ~(Registered(c) /\ Registered(x))
      PROVE  Boxes'[x] = Boxes[x]
  <2>1. conns'[x] = conns[x] /\ down'[Last(x)] = down[Last(x)]
    BY <1>2, <1>7 DEF Dropped
  <2> QED BY <1>4, <2>1, BoxUntold DEF SameUser, RelayOnly
<1>8. CASE ~Registered(c)
  <2>1. byName' = byName
    <3>1. \A n \in Names : byName[n] # c
      BY <1>1, <1>8, SealedChatAssumption DEF NamesInverse, Registered
    <3> QED BY <1>1, <1>3, <3>1
  <2> QED BY <1>6, <1>7, <1>8, <2>1, ForgetServes
<1>9. CASE Registered(c)
  <2>1. PICK u \in Names : u = conns[c].user /\ byName[u] = c
    BY <1>1, <1>9 DEF NamesInverse
  <2>2. PICK line : line = Line("left", u, 0)
    OBVIOUS
  <2>3. ASSUME NEW x \in Clients \ {c}
        PROVE  Boxes'[x] = IF Registered(x) THEN Append(Boxes[x], line) ELSE Boxes[x]
    <3>1. CASE Registered(x)
      <4>1. SameUser(x) /\ Grows(x, conns[x].sess, line)
        BY <1>2, <1>9, <2>1, <2>2, <3>1 DEF Dropped
      <4>2. conns[x].sess \in SessionType
        BY <1>1, BaseTyped
      <4> QED BY <1>4, <3>1, <4>1, <4>2, UserGrows
    <3>2. CASE ~Registered(x)
      BY <1>7, <3>2
    <3> QED BY <3>1, <3>2
  <2>4. \A x \in Clients : x \in Service!Online <=> Registered(x)
    BY OnlineIs
  <2>5. PICK cut : cut = [Boxes EXCEPT ![c] = SubSeq(@, 1, k)]
    OBVIOUS
  <2>6. cut[c] = SubSeq(Boxes[c], 1, k) /\ \A x \in Clients \ {c} : cut[x] = Boxes[x]
    BY <2>5, BoxTyped
  <2>7. PICK whom : whom = Service!Online \ {byName[u]}
    OBVIOUS
  <2>8. \A x \in Clients : x \in whom <=> x # c /\ Registered(x)
    BY <2>1, <2>4, <2>7
  <2>9. Boxes' = Service!Tell(cut, whom, line)
    <3>1. \A x \in Clients : Boxes'[x] = IF x \in whom THEN Append(cut[x], line) ELSE cut[x]
      BY <1>6, <2>3, <2>6, <2>8
    <3> QED BY <3>1, TellIs
  <2>10. byName' = [byName EXCEPT ![u] = NoClient]
    <3>1. \A n \in Names : byName[n] = c <=> n = u
      BY <1>1, <2>1 DEF NamesInverse
    <3> QED BY <1>1, <1>3, <3>1
  <2>11. k <= Len(Boxes[c])
    BY BoxTyped
  <2>12. cut = Service!Cut(byName[u], k)
    BY <2>1, <2>5 DEF Service!Cut, Boxes
  <2>13. Service!Leave(u, k)
    BY <1>1, <2>1, <2>2, <2>7, <2>9, <2>10, <2>11, <2>12, SameLine DEF Service!Leave, Boxes
  <2>14. Service!Seen
    <3>1. byName'[u] = NoClient /\ byName[u] # NoClient
      BY <1>1, <2>1, <2>10
    <3> QED BY <3>1 DEF Service!Seen
  <2>15. k \in 0 .. Len(Boxes[byName[u]]) /\ byName[u] # NoClient
    BY <1>1, <2>1
  <2>16. \E l \in 0 .. Len(Boxes[byName[u]]) : Service!Leave(u, l)
    BY <2>13, <2>15
  <2> QED BY <2>14, <2>15, <2>16 DEF ServiceStep, Service!Next, Boxes
<1> QED BY <1>8, <1>9

\* Every step of the relay.
LEMMA RelayServes ==
    ASSUME SealedInv, SealedInv', LoginInv, NEW c \in Clients,
           AcceptNew(c) \/ DrainRecord(c) \/ PeerClosed(c) \/ Quit(c) \/ DropConn(c)
    PROVE  ServiceStep
<1>1. CASE AcceptNew(c) \/ PeerClosed(c) \/ Quit(c)
  <2>1. conns \in [Clients -> ConnType]
    BY DEF SealedInv, TypesOK
  <2>2. /\ UNCHANGED <<down, byName, clients, proxy>>
        /\ \E st : conns' = [conns EXCEPT ![c].st = st]
    BY <1>1 DEF AcceptNew, PeerClosed, Quit, Dooms
  <2>3. \A x \in Clients : SameUser(x)
    BY <2>1, <2>2 DEF ConnType, SameUser
  <2> QED BY <2>2, <2>3, StageServes
<1> QED BY <1>1, DrainServes, DropServes

-----------------------------------------------------------------------------
(* The service that the users see: the clients.                            *)

\* A step of one client, seen from the service: it is away or comes nearer, and takes a
\* record or not.
Steps(c) ==
    /\ UNCHANGED <<conns, byName, proxy>>
    /\ clients[c].st \in Away => clients'[c].st \in Away
    /\ down'[Near(c)] = down[Near(c)]
          \/ (down[Near(c)] # <<>> /\ down'[Near(c)] = Tail(down[Near(c)]))
    /\ \A x \in Clients \ {c} : clients'[x] = clients[x]
    /\ \A l \in Legs \ {Near(c)} : down'[l] = down[l]

\* The inboxes of the others.
LEMMA OthersKept ==
    ASSUME SealedInv, SealedInv', NEW c \in Clients, UNCHANGED <<conns, proxy>>,
           \A x \in Clients \ {c} : clients'[x] = clients[x],
           \A l \in Legs \ {Near(c)} : down'[l] = down[l]
    PROVE  \A x \in Clients \ {c} : Boxes'[x] = Boxes[x]
<1> SUFFICES ASSUME NEW x \in Clients \ {c} PROVE Boxes'[x] = Boxes[x]
  OBVIOUS
<1>1. /\ Near(x) \in Legs /\ Near(x) # Near(c)
      /\ x \in Victims => Far(x) \in Legs /\ Far(x) # Near(c)
  BY LegIs
<1> QED BY <1>1, BoxSame DEF SameUser, Carried, Victim

\* So a client that only steps does nothing the service shows, or takes a line.
LEMMA StepsServe ==
    ASSUME SealedInv, SealedInv', NEW c \in Clients, Steps(c)
    PROVE  ServiceStep
<1>1. byName' = byName /\ \A x \in Clients \ {c} : Boxes'[x] = Boxes[x]
  BY OthersKept DEF Steps
<1>2. (Registered(c)' <=> Registered(c)) /\ (Through(c)' <=> Through(c))
  BY DEF Steps, Registered, Through, Carried, Victim
<1>3. Boxes[c] \in Seq(Told)
  BY BoxTyped
<1>4. CASE Unseen(c)'
  <2>1. Boxes'[c] = <<>> /\ ~Registered(c)
    BY <1>2, <1>4, NextBoxIs DEF Unseen
  <2>2. \E k \in 0 .. Len(Boxes[c]) : Boxes'[c] = SubSeq(Boxes[c], 1, k)
    BY <1>3, <2>1, NothingLeft
  <2> QED BY <1>1, <2>1, <2>2, ForgetServes
<1>5. CASE ~Unseen(c)'
  <2>1. ~Unseen(c) /\ Near(c)' = Near(c)
    BY <1>2, <1>5 DEF Unseen, Steps, Near
  <2>2. PICK n : n = Near(c)
    OBVIOUS
  <2>3. PICK b : b = Behind(c)
    OBVIOUS
  <2>4. Behind(c)' = b
    <3>1. Through(c) => Far(c) \in Legs /\ Far(c) # Near(c) /\ Far(c)' = Far(c)
      BY LegIs DEF Through, Far
    <3>2. Through(c) => down'[Far(c)] = down[Far(c)]
      BY <3>1 DEF Steps
    <3> QED BY <1>2, <2>3, <3>1, <3>2 DEF Behind
  <2>5. Boxes[c] = Lines(down[n]) \o b /\ Boxes'[c] = Lines(down'[n]) \o b
    BY <1>5, <2>1, <2>2, <2>3, <2>4, BoxIs, NextBoxIs
  <2>6. CASE down'[n] = down[n]
    BY <1>1, <2>5, <2>6, NothingServed
  <2>7. CASE down[n] # <<>> /\ down'[n] = Tail(down[n])
    <3>1. /\ down[n] \in Seq(DownRecord) /\ DataLast(down[n])
          /\ Lines(down[n]) \in Seq(Told) /\ b \in Seq(Told)
      BY <2>2, <2>3, LinesTyped, PartsTyped
    <3>2. CASE Head(down[n]).type # "appdata"
      <4>1. Boxes'[c] = Boxes[c]
        BY <2>5, <2>7, <3>1, <3>2, LineTaken
      <4> QED BY <1>1, <4>1, NothingServed
    <3>3. CASE Head(down[n]).type = "appdata"
      <4>1. PICK a : a = Lines(down[n])
        OBVIOUS
      <4>2. a # <<>> /\ Lines(down'[n]) = Tail(a) /\ a \in Seq(Told)
        BY <2>7, <3>1, <3>3, <4>1, LineTaken
      <4>3. Boxes[c] # <<>> /\ Boxes'[c] = Tail(Boxes[c])
        BY <2>5, <3>1, <4>1, <4>2, FirstOfTwo
      <4>4. Boxes'[c] # Boxes[c]
        <5>1. Len(Tail(Boxes[c])) = Len(Boxes[c]) - 1 /\ Len(Boxes[c]) \in Nat
          BY <1>3, <4>3
        <5>2. Len(Boxes[c]) - 1 # Len(Boxes[c])
          BY <5>1
        <5> QED BY <4>3, <5>1, <5>2
      <4>5. Boxes' = [Boxes EXCEPT ![c] = Tail(@)]
        <5>1. Boxes' = [x \in Clients |-> Boxes'[x]]
          BY DEF Boxes
        <5> QED BY <1>1, <4>3, <5>1, BoxTyped
      <4>6. Service!See(c)
        BY <1>1, <4>3, <4>5 DEF Service!See, Boxes
      <4>7. Service!Seen
        BY <4>4 DEF Service!Seen, Boxes
      <4> QED BY <4>6, <4>7 DEF ServiceStep, Service!Next
    <3> QED BY <3>2, <3>3
  <2> QED BY <2>2, <2>6, <2>7 DEF Steps
<1> QED BY <1>4, <1>5

\* A client that reads nothing.
LEMMA SilentStep ==
    ASSUME NEW c \in Clients, UNCHANGED <<conns, byName, proxy, down>>,
           clients[c].st \in Away => clients'[c].st \in Away,
           \A x \in Clients \ {c} : clients'[x] = clients[x]
    PROVE  Steps(c)
BY DEF Steps

\* One that reads a record.
LEMMA ReadStep ==
    ASSUME TypesOK, NEW c \in Clients, UNCHANGED <<conns, byName, proxy>>,
           clients[c].st \notin Away, down[Near(c)] # <<>>, down' = Take(down, Near(c)),
           \A x \in Clients \ {c} : clients'[x] = clients[x]
    PROVE  Steps(c)
<1>1. Near(c) \in Legs
  BY LegIs
<1> QED BY <1>1, TakeIs DEF Steps

\* What a client does once it has connected.
LEMMA ClientSteps ==
    ASSUME TypesOK, NEW c \in Clients,
           ClientThread(c) \/ HandleInput(c) \/ Dies(c) \/ StrangerSends(c)
    PROVE  Steps(c)
<1>1. clients \in [Clients -> ProcessType] /\ UNCHANGED <<conns, byName, proxy>>
  BY DEF TypesOK, ClientThread, TakesKex, Login, Reads, SeesClose, HandleInput, Dies,
         StrangerSends, Says
<1>2. ASSUME Ends(c)
      PROVE  clients'[c].st \in Away /\ \A x \in Clients \ {c} : clients'[x] = clients[x]
  BY <1>2, EndsIs DEF Away
<1>3. \A st, s : clients' = [clients EXCEPT ![c].st = st, ![c].sess = s]
                   => \A x \in Clients \ {c} : clients'[x] = clients[x]
  BY GoesOnIs
<1>4. CASE SeesClose(c) \/ Dies(c)
  <2>1. down' = down /\ Ends(c)
    BY <1>4 DEF SeesClose, Dies
  <2> QED BY <1>1, <1>2, <2>1, SilentStep
<1>5. CASE StrangerSends(c)
  BY <1>1, <1>5, SilentStep DEF StrangerSends
<1>6. CASE Login(c)
  <2>1. /\ down' = down /\ clients[c].st \notin Away
        /\ \E st, s : clients' = [clients EXCEPT ![c].st = st, ![c].sess = s]
    BY <1>6 DEF Login, Says, Away
  <2> QED BY <1>1, <1>3, <2>1, SilentStep
<1>7. CASE HandleInput(c)
  <2>1. /\ down' = down /\ clients[c].st \notin Away
        /\ Ends(c) \/ clients' = [clients EXCEPT ![c].sess = Counted(@)]
    BY <1>7 DEF HandleInput, Says, Away
  <2>2. \A x \in Clients \ {c} : clients'[x] = clients[x]
    BY <1>1, <1>2, <2>1
  <2> QED BY <1>1, <2>1, <2>2, SilentStep
<1>8. CASE Reads(c) \/ TakesKex(c)
  <2>1. /\ down[Near(c)] # <<>> /\ down' = Take(down, Near(c)) /\ clients[c].st \notin Away
        /\ Ends(c) \/ \E st, s : clients' = [clients EXCEPT ![c].st = st, ![c].sess = s]
    BY <1>8 DEF Reads, TakesKex, Away
  <2>2. \A x \in Clients \ {c} : clients'[x] = clients[x]
    BY <1>2, <1>3, <2>1
  <2> QED BY <1>1, <2>1, <2>2, ReadStep
<1> QED BY <1>4, <1>5, <1>6, <1>7, <1>8 DEF ClientThread

\* A client that connects has been told nothing.
LEMMA DialServes ==
    ASSUME SealedInv, SealedInv', NEW c \in Clients,
           StrangerConnects(c) \/ \E name \in Names : Connect(c, name)
    PROVE  ServiceStep
<1>1. TypesOK /\ ProcessOK(c) /\ clients[c].st = "off"
  BY SealedInvIs DEF OwnOK, StrangerConnects, Connect
<1>2. /\ UNCHANGED <<conns, byName, proxy, down>>
      /\ \A x \in Clients \ {c} : clients'[x] = clients[x]
  BY <1>1 DEF StrangerConnects, Connect, TypesOK
<1>3. /\ down[Near(c)] = <<>> /\ conns[c] = NoConn /\ Victim # c /\ Near(c) \in Legs
  BY <1>1, LegIs DEF ProcessOK
<1>4. ~Registered(c) /\ ~Through(c) /\ ~Through(c)'
  BY <1>2, <1>3, ConnTypes DEF Registered, Through, Carried, Victim
<1>5. Boxes[c] = <<>>
  BY <1>1, <1>4, BoxIs DEF Unseen, Away
<1>6. Lines(down'[Near(c)]) = <<>>
  <2>1. PICK w : w = down'[Near(c)]
    OBVIOUS
  <2>2. w \in Seq(DownRecord) /\ NoData(w)
    BY <1>2, <1>3, <2>1, LinesTyped, NoneOnTheWay
  <2> QED BY <2>1, <2>2, NoLines
<1>7. Boxes'[c] = <<>>
  <2>1. Near(c)' = Near(c) /\ Behind(c)' = <<>>
    BY <1>4 DEF Near, Behind
  <2>2. <<>> \o <<>> = <<>>
    OBVIOUS
  <2> QED BY <1>6, <2>1, <2>2, NextBoxIs
<1>8. \A x \in Clients \ {c} : Boxes'[x] = Boxes[x]
  BY <1>2, OthersKept
<1> QED BY <1>2, <1>5, <1>7, <1>8, NothingServed

\* Every step of a client.
LEMMA ClientServes ==
    ASSUME SealedInv, SealedInv', NEW c \in Clients,
           \/ ClientThread(c) \/ \E name \in Names : Connect(c, name)
           \/ HandleInput(c) \/ Dies(c) \/ StrangerConnects(c) \/ StrangerSends(c)
    PROVE  ServiceStep
<1>1. TypesOK
  BY SealedInvIs
<1>2. CASE ClientThread(c) \/ HandleInput(c) \/ Dies(c) \/ StrangerSends(c)
  BY <1>1, <1>2, ClientSteps, StepsServe
<1> QED BY <1>2, DialServes

-----------------------------------------------------------------------------
(* The service that the users see: the proxy.                              *)

\* The inboxes of those that the proxy has nothing to do with.
LEMMA OthersServed ==
    ASSUME SealedInv, SealedInv', NEW v \in Victims, Victim \in {v, NoClient},
           Victim' \in {v, NoClient}, UNCHANGED <<clients, conns>>,
           \A l \in Legs \ {Near(v), Far(v)} : down'[l] = down[l]
    PROVE  \A x \in Clients \ {v} : Boxes'[x] = Boxes[x]
<1> SUFFICES ASSUME NEW x \in Clients \ {v} PROVE Boxes'[x] = Boxes[x]
  OBVIOUS
<1>1. v \in Clients /\ x # NoClient
  BY SealedChatAssumption
<1>2. ~Carried(x) /\ ~Carried(x)'
  BY <1>1 DEF Carried, Victim
<1>3. /\ Near(x) \in Legs \ {Near(v), Far(v)}
      /\ x \in Victims => Far(x) \in Legs \ {Near(v), Far(v)}
  BY <1>1, LegIs
<1> QED BY <1>2, <1>3, BoxSame DEF SameUser

\* The proxy does nothing the users see when both parts of the victim's inbox stay.
LEMMA SilentProxy ==
    ASSUME SealedInv, SealedInv', NEW v \in Victims, Victim \in {v, NoClient},
           Victim' \in {v, NoClient}, UNCHANGED <<clients, conns, byName>>,
           \A l \in Legs \ {Near(v), Far(v)} : down'[l] = down[l],
           Lines(down'[Near(v)]) = Lines(down[Near(v)]), Behind(v)' = Behind(v)
    PROVE  ServiceStep
<1>1. v \in Clients /\ (Unseen(v)' <=> Unseen(v))
  BY SealedChatAssumption DEF Unseen, Registered
<1>2. Boxes'[v] = Boxes[v]
  BY <1>1, BoxKept
<1> QED BY <1>2, OthersServed, NothingServed

\* The next victim.
LEMMA AcceptsServes ==
    ASSUME SealedInv, SealedInv', NEW v \in Victims, ProxyAccepts(v),
           UNCHANGED <<clients, conns, byName>>
    PROVE  ServiceStep
<1>1. /\ proxy.st = "accept" /\ proxy' = [proxy EXCEPT !.st = "victim", !.victim = v]
      /\ down' = down
  BY DEF ProxyAccepts
<1>2. TypesOK /\ ProxyOK /\ proxy \in ProxyType
  BY SealedInvIs DEF TypesOK
<1>3. Victim = NoClient /\ Victim' = v /\ proxy.pumps = {} /\ proxy'.pumps = {}
  BY <1>1, <1>2, ProxyField DEF ProxyOK, Victim
<1>4. (Through(v)' <=> Through(v)) /\ Far(v)' = Far(v)
  BY <1>3 DEF Through, Carried, Registered, Far
<1>5. Behind(v)' = Behind(v)
  BY <1>1, <1>4 DEF Behind
<1> QED BY <1>1, <1>3, <1>5, SilentProxy

\* A record of the exchange is no line.
LEMMA ExchangeServes ==
    ASSUME SealedInv, SealedInv', NEW v \in Victims, Exchanges(v)
    PROVE  ServiceStep
<1>1. v \in Clients /\ Near(v) \in Legs
  BY SealedChatAssumption, LegIs
<1>2. /\ Victim \in {v, NoClient} /\ Victim' \in {v, NoClient}
      /\ UNCHANGED <<clients, conns, byName>>
      /\ \A l \in Legs \ {Near(v), Far(v)} : down'[l] = down[l]
      /\ down'[Far(v)] = down[Far(v)]
      /\ proxy.pumps = {} /\ proxy'.pumps = {}
  BY DEF Exchanges
<1>3. (Through(v)' <=> Through(v)) /\ Far(v)' = Far(v)
  BY <1>2 DEF Through, Carried, Registered, Far
<1>4. Behind(v)' = Behind(v)
  BY <1>2, <1>3 DEF Behind
<1>5. Lines(down'[Near(v)]) = Lines(down[Near(v)])
  <2>1. ASSUME NEW r \in DownRecord, r.type # "appdata",
               down'[Near(v)] = Append(down[Near(v)], r)
        PROVE  Lines(down'[Near(v)]) = Lines(down[Near(v)])
    <3>1. PICK w : w = down[Near(v)]
      OBVIOUS
    <3>2. w \in Seq(DownRecord)
      BY <1>1, <3>1, LinesTyped
    <3>3. DataLast(Append(w, r))
      <4>1. DataLast(down'[Near(v)])
        BY <1>1, NextLinesTyped
      <4> QED BY <2>1, <3>1, <4>1
    <3> QED BY <2>1, <3>1, <3>2, <3>3, NoLineSent
  <2> QED BY <2>1 DEF Exchanges
<1> QED BY <1>2, <1>4, <1>5, SilentProxy

\* Before the relay has answered, it has told the victim nothing.
LEMMA AnswerServes ==
    ASSUME SealedInv, SealedInv', LoginInv, HandshakeAsClient,
           UNCHANGED <<clients, conns, byName>>
    PROVE  ServiceStep
<1>1. PICK v : v = Victim
  OBVIOUS
<1>2. /\ v \in Victims /\ proxy.st = "server" /\ proxy.pumps = {} /\ down[Far(v)] # <<>>
      /\ down'[Far(v)] = Tail(down[Far(v)])
      /\ \A l \in Legs \ {Far(v)} : down'[l] = down[l]
      /\ Victim' \in {v, NoClient}
  BY <1>1, AnswerIs
<1>3. /\ v \in Clients /\ Near(v) \in Legs /\ Far(v) \in Legs /\ Near(v) # Far(v)
      /\ Last(v) = Far(v) /\ ConnOK(v) /\ FarOK(v) /\ ToldNothing(v)
  BY <1>2, SealedInvIs, SealedChatAssumption, LegIs DEF LoginInv, OwnOK
<1>4. ~Registered(v)
  <2>1. SUFFICES ASSUME Registered(v) PROVE FALSE
    OBVIOUS
  <2>2. conns[v].sess.up /\ conns[v].hs.step = "Complete"
    BY <1>3, <2>1 DEF ConnOK, Registered
  <2>3. conns[v].st # "none"
    BY <1>3, <2>1, ConnTypes DEF ConnOK, Registered
  <2>4. "acceptor" \in ends[Far(v)]
    BY <1>3, <2>3 DEF ConnOK
  <2> QED BY <1>1, <1>2, <1>3, <2>2, <2>4 DEF FarOK
<1>5. down[Far(v)] \in Seq(DownRecord) /\ NoData(down[Far(v)])
  BY <1>1, <1>2, <1>3, LinesTyped DEF ToldNothing
<1>6. Lines(down'[Far(v)]) = <<>>
  <2>1. PICK w : w = down[Far(v)]
    OBVIOUS
  <2>2. w \in Seq(DownRecord) /\ w # <<>> /\ NoData(w)
    BY <1>2, <1>5, <2>1
  <2>3. NoData(Tail(w)) /\ Tail(w) \in Seq(DownRecord)
    BY <2>2, CalmTaken, FirstTaken DEF Calm
  <2> QED BY <1>2, <2>1, <2>3, NoLines
<1>7. Behind(v) = <<>>
  BY <1>2, <1>4 DEF Behind, Through, Carried
<1>8. Behind(v)' = <<>>
  <2>1. Far(v)' = Far(v)
    BY DEF Far
  <2> QED BY <1>6, <2>1 DEF Behind
<1>9. Lines(down'[Near(v)]) = Lines(down[Near(v)])
  BY <1>2, <1>3
<1> QED BY <1>1, <1>2, <1>7, <1>8, <1>9, SilentProxy

\* Every step of main of the proxy.
LEMMA ProxyMainServes ==
    ASSUME SealedInv, SealedInv', LoginInv, ProxyMain
    PROVE  ServiceStep
<1>1. UNCHANGED <<clients, conns, byName>>
  BY DEF ProxyMain
<1>2. CASE HandshakeAsServer \/ VictimLeaves \/ ServerLeaves \/ Joins \/ Dials
  <2>1. PICK v : v = Victim
    OBVIOUS
  <2>2. v \in Victims /\ Exchanges(v)
    BY <1>1, <1>2, <2>1, ExchangesIs
  <2> QED BY <2>2, ExchangeServes
<1> QED BY <1>1, <1>2, AnswerServes, AcceptsServes DEF ProxyMain

\* The pump towards the relay touches nothing that is told.
LEMMA PumpUpServes ==
    ASSUME SealedInv, SealedInv', NEW v \in Victims, Victim = v, PumpedUp(v),
           UNCHANGED <<clients, conns, byName>>
    PROVE  ServiceStep
<1>1. down' = down /\ Victim' = v /\ proxy'.pumps = proxy.pumps
  BY DEF PumpedUp
<1>2. (Through(v)' <=> Through(v)) /\ Far(v)' = Far(v)
  BY <1>1 DEF Through, Carried, Registered, Far
<1>3. Behind(v)' = Behind(v)
  BY <1>1, <1>2 DEF Behind
<1> QED BY <1>1, <1>3, SilentProxy

\* A line that the other pump passes on stays in the inbox, at its place.
LEMMA PumpDownServes ==
    ASSUME SealedInv, SealedInv', NEW v \in Victims, Victim = v, PumpedDown(v),
           "down" \in proxy.pumps, UNCHANGED <<clients, conns, byName>>
    PROVE  ServiceStep
<1>1. /\ v \in Clients /\ Near(v) \in Legs /\ Far(v) \in Legs /\ Near(v) # Far(v)
      /\ Near(v)' = Near(v) /\ Far(v)' = Far(v)
  BY SealedChatAssumption, LegIs DEF Near, Far
<1>2. /\ down[Far(v)] # <<>> /\ down'[Far(v)] = Tail(down[Far(v)])
      /\ \A l \in Legs \ {Near(v), Far(v)} : down'[l] = down[l]
      /\ Victim' = v /\ proxy'.pumps = proxy.pumps
  BY DEF PumpedDown
<1>3. Through(v) /\ Through(v)'
  BY <1>2 DEF Through, Carried
<1>4. PICK n, f : n = down[Near(v)] /\ f = down[Far(v)]
  OBVIOUS
<1>5. PICK q \in DownRecord : down'[Near(v)] = Append(n, q) /\ SameSaid(Head(f), q)
  BY <1>4 DEF PumpedDown
<1>6. /\ n \in Seq(DownRecord) /\ DataLast(n) /\ Lines(n) \in Seq(Told)
      /\ f \in Seq(DownRecord) /\ DataLast(f) /\ Lines(f) \in Seq(Told) /\ f # <<>>
      /\ DataLast(Append(n, q))
  BY <1>1, <1>2, <1>4, <1>5, LinesTyped, NextLinesTyped
<1>7. Behind(v) = Lines(f) /\ Behind(v)' = Lines(Tail(f))
  BY <1>1, <1>2, <1>3, <1>4 DEF Behind
<1>8. CASE q.type # "appdata"
  <2>1. Head(f).type # "appdata"
    BY <1>5, <1>8 DEF SameSaid
  <2>2. Lines(Append(n, q)) = Lines(n)
    BY <1>6, <1>8, NoLineSent
  <2>3. Lines(Tail(f)) = Lines(f)
    BY <1>6, <2>1, LineTaken
  <2> QED BY <1>2, <1>4, <1>5, <1>7, <2>2, <2>3, SilentProxy
<1>9. CASE q.type = "appdata"
  <2>1. Head(f).type = "appdata" /\ q.line = Head(f).line
    BY <1>5, <1>9 DEF SameSaid
  <2>2. q \in Data(Told)
    BY <1>9 DEF DownRecord, Alert
  <2>3. PICK a, b : a = Lines(n) /\ b = Lines(f)
    OBVIOUS
  <2>4. a \in Seq(Told) /\ b \in Seq(Told)
    BY <1>6, <2>3
  <2>5. Lines(Append(n, q)) = Append(a, q.line)
    BY <1>6, <2>2, <2>3, LineSent
  <2>6. b # <<>> /\ Lines(Tail(f)) = Tail(b) /\ Head(b) = q.line
    BY <1>6, <2>1, <2>3, LineTaken
  <2>7. Append(a, Head(b)) \o Tail(b) = a \o b
    BY <2>4, <2>6, MovesOver
  <2>8. Unseen(v)' <=> Unseen(v)
    BY DEF Unseen, Registered
  <2>9. Boxes[v] = IF Unseen(v) THEN <<>> ELSE a \o b
    BY <1>1, <1>4, <1>7, <2>3, BoxIs
  <2>10. Boxes'[v] = IF Unseen(v) THEN <<>> ELSE Append(a, Head(b)) \o Tail(b)
    BY <1>1, <1>5, <1>7, <2>5, <2>6, <2>8, NextBoxIs
  <2>11. Boxes'[v] = Boxes[v]
    <3>1. PICK x : x = a \o b
      OBVIOUS
    <3>2. PICK y : y = Append(a, Head(b)) \o Tail(b)
      OBVIOUS
    <3>3. /\ x = y /\ Boxes[v] = IF Unseen(v) THEN <<>> ELSE x
          /\ Boxes'[v] = IF Unseen(v) THEN <<>> ELSE y
      BY <2>7, <2>9, <2>10, <3>1, <3>2
    <3> QED BY <3>3
  <2> QED BY <1>2, <2>11, OthersServed, NothingServed
<1> QED BY <1>8, <1>9

\* What a pump that ends leaves behind reaches no user, if the relay knows the victim no more.
LEMMA PumpEndServes ==
    ASSUME SealedInv, SealedInv', NEW v \in Victims, Victim = v, PumpEnded(v),
           "down" \in proxy'.pumps => "down" \in proxy.pumps,
           UNCHANGED <<clients, conns, byName>>
    PROVE  ServiceStep
<1>1. v \in Clients /\ Near(v)' = Near(v) /\ Far(v)' = Far(v)
  BY SealedChatAssumption DEF Near, Far
<1>2. down' = down /\ Victim' = v
  BY DEF PumpEnded
<1>3. /\ Registered(v)' <=> Registered(v)
      /\ Unseen(v)' <=> Unseen(v)
      /\ Through(v)' => Through(v)
  BY <1>2 DEF Unseen, Registered, Through, Carried
<1>4. CASE Through(v)' <=> Through(v)
  <2>1. Behind(v)' = Behind(v)
    BY <1>1, <1>2, <1>4 DEF Behind
  <2> QED BY <1>2, <2>1, SilentProxy
<1>5. CASE Through(v) /\ ~Through(v)'
  <2>1. ~Registered(v)
    BY <1>3, <1>5 DEF Through
  <2>2. PICK a, b : a = Lines(down[Near(v)]) /\ b = Behind(v)
    OBVIOUS
  <2>3. a \in Seq(Told) /\ b \in Seq(Told)
    BY <1>1, <2>2, PartsTyped
  <2>4. Behind(v)' = <<>> /\ a \o <<>> = a
    BY <1>5, <2>3 DEF Behind
  <2>5. Boxes[v] = IF Unseen(v) THEN <<>> ELSE a \o b
    BY <1>1, <2>2, BoxIs
  <2>6. Boxes'[v] = IF Unseen(v) THEN <<>> ELSE a
    BY <1>1, <1>2, <1>3, <2>2, <2>4, NextBoxIs
  <2>7. \E j \in 0 .. Len(a \o b) : a = SubSeq(a \o b, 1, j)
    BY <2>3, FirstAlone
  <2>8. \E k \in 0 .. Len(Boxes[v]) : Boxes'[v] = SubSeq(Boxes[v], 1, k)
    <3>1. CASE Unseen(v)
      <4>1. Boxes[v] = <<>> /\ Boxes'[v] = <<>> /\ Boxes[v] \in Seq(Told)
        BY <1>1, <2>5, <2>6, <3>1, BoxTyped
      <4> QED BY <4>1, NothingLeft
    <3>2. CASE ~Unseen(v)
      BY <2>5, <2>6, <2>7, <3>2
    <3> QED BY <3>1, <3>2
  <2> QED BY <1>1, <1>2, <2>1, <2>8, OthersServed, ForgetServes
<1> QED BY <1>3, <1>4, <1>5

\* Every step of the pumps.
LEMMA PumpsServe ==
    ASSUME SealedInv, SealedInv', Pumps
    PROVE  ServiceStep
<1>1. PICK v : v = Victim
  OBVIOUS
<1>2. UNCHANGED <<clients, conns, byName>>
  BY DEF Pumps
<1>3. CASE PumpUp
  BY <1>1, <1>2, <1>3, PumpUpIs, PumpUpServes
<1>4. CASE PumpDown
  BY <1>1, <1>2, <1>4, PumpDownIs, PumpDownServes
<1>5. CASE PumpUpEnds \/ PumpDownEnds
  <2>1. v \in Victims /\ PumpEnded(v) /\ ("down" \in proxy'.pumps => "down" \in proxy.pumps)
    BY <1>1, <1>5, PumpEndsIs
  <2> QED BY <1>1, <1>2, <2>1, PumpEndServes
<1> QED BY <1>3, <1>4, <1>5 DEF Pumps

\* Every step is one of the service, or none.
LEMMA EveryStepServes ==
    ASSUME SealedInv, SealedInv', LoginInv, [Next]_vars
    PROVE  ServiceStep
<1>1. CASE Relay
  BY <1>1, RelayServes DEF Relay
<1>2. CASE Users \/ \E c \in Clients : ClientThread(c)
  BY <1>2, ClientServes DEF Users
<1>3. CASE UNCHANGED vars
  <2>1. UNCHANGED <<clients, conns, byName, proxy, down>>
    BY <1>3 DEF vars
  <2>2. ASSUME NEW x \in Clients PROVE Boxes'[x] = Boxes[x]
    BY <2>1, BoxSame DEF SameUser, Carried, Victim
  <2> QED BY <2>1, <2>2, NothingServed
<1> QED BY <1>1, <1>2, <1>3, ProxyMainServes, PumpsServe DEF Next

\* The sealed chat is the chat service, for the victims of the proxy too: what is on the way
\* to a client after the exchange, the lines that the proxy has still to pass on included, is
\* its inbox, g_by_name is the roster.
THEOREM SealedChatServes == Spec => ServiceSpec
<1>1. Init => Service!Init
  <2> SUFFICES ASSUME Init PROVE Service!Init
    OBVIOUS
  <2>1. byName = [n \in Names |-> NoClient]
    BY DEF Init
  <2>2. SealedInv
    BY SealedInit
  <2>3. ASSUME NEW c \in Clients PROVE Boxes[c] = <<>>
    <3>1. clients[c].st = "off" /\ conns[c].user = NoName
      BY ConnTypes DEF Init, NoProcess
    <3>2. Unseen(c)
      BY <3>1 DEF Unseen, Away, Registered
    <3> QED BY <2>2, <3>2, BoxIs
  <2>4. Boxes = [c \in Clients |-> <<>>]
    <3>1. Boxes = [c \in Clients |-> Boxes[c]]
      BY DEF Boxes
    <3> QED BY <2>3, <3>1
  <2> QED BY <2>1, <2>4 DEF Service!Init, Boxes
<1>2. SealedInv /\ SealedInv' /\ LoginInv /\ [Next]_vars => [Service!Next]_<<byName, Boxes>>
  BY EveryStepServes DEF ServiceStep
<1>3. SealedInv /\ SealedInv' /\ LoginInv /\ [Next]_vars
        => [Service!Next]_<<byName, [c \in Clients |-> Inbox(c)]>>
  BY <1>2 DEF Boxes
<1> QED BY <1>1, <1>3, SealedInvariance, LoginInvariance,
           PTL DEF Spec, ServiceSpec, Service!Spec
=============================================================================
