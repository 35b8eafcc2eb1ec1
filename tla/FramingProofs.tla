--------------------------- MODULE FramingProofs ---------------------------
(***************************************************************************)
(* Proofs about Framing, for every length of headers, records, chunks and  *)
(* sockets: however the bytes are cut, both sides take the records off     *)
(* their streams whole, once and in order.                                 *)
(***************************************************************************)
EXTENDS Framing, TLAPS

USE FramingAssumption

-----------------------------------------------------------------------------
(***************************************************************************)
(* Streams.                                                                *)
(***************************************************************************)
\* The records of a stream follow each other, a header and a body each.
LEMMA Marks ==
    ASSUME NEW s \in StreamType, StreamOK(s)
    PROVE  /\ End(s) = Mark(s, Len(s.recs)) /\ End(s) \in Nat
           /\ \A k \in 0 .. Len(s.recs) : Mark(s, k) \in Nat /\ Mark(s, k) <= End(s)
           /\ \A k \in 1 .. Len(s.recs) :
                /\ s.recs[k] \in RecType
                /\ s.recs[k].at = Mark(s, k - 1)
                /\ Mark(s, k) = Mark(s, k - 1) + HdrLen + s.recs[k].len
<1>1. s.recs \in Seq(RecType) /\ Len(s.recs) \in Nat
  BY DEF StreamType
<1>2. \A k \in 1 .. Len(s.recs) : s.recs[k] \in RecType
  BY <1>1
<1>3. \A k \in 0 .. Len(s.recs) : Mark(s, k) \in Nat
  BY <1>1, <1>2 DEF Mark, EndOf, RecType
<1>4. End(s) = Mark(s, Len(s.recs))
  BY <1>1 DEF End, Mark
<1>5. \A k \in 0 .. Len(s.recs) : Mark(s, k) <= End(s)
  <2> SUFFICES ASSUME NEW k \in 0 .. Len(s.recs) PROVE Mark(s, k) <= End(s)
    OBVIOUS
  <2>1. CASE k = Len(s.recs)
    BY <1>3, <1>4, <2>1
  <2>2. CASE k < Len(s.recs)
    <3>1. Mark(s, k) + HdrLen <= Mark(s, Len(s.recs))
      BY <1>1, <2>2 DEF StreamOK
    <3>2. Mark(s, k) \in Nat /\ Mark(s, Len(s.recs)) \in Nat
      BY <1>1, <1>3
    <3> QED BY <1>4, <3>1, <3>2
  <2> QED BY <1>1, <2>1, <2>2
<1>6. \A k \in 1 .. Len(s.recs) :
        /\ s.recs[k].at = Mark(s, k - 1)
        /\ Mark(s, k) = Mark(s, k - 1) + HdrLen + s.recs[k].len
  <2> SUFFICES ASSUME NEW k \in 1 .. Len(s.recs)
               PROVE  /\ s.recs[k].at = Mark(s, k - 1)
                      /\ Mark(s, k) = Mark(s, k - 1) + HdrLen + s.recs[k].len
    OBVIOUS
  <2>1. s.recs[k].at = Mark(s, k - 1)
    BY DEF StreamOK
  <2>2. Mark(s, k) = s.recs[k].at + HdrLen + s.recs[k].len
    BY <1>1 DEF Mark, EndOf
  <2> QED BY <2>1, <2>2
<1> QED BY <1>1, <1>2, <1>3, <1>4, <1>5, <1>6

\* Where a record begins, its header is its length.
LEMMA HeaderMeans ==
    ASSUME NEW s \in StreamType, StreamOK(s), NEW k \in 0 .. Len(s.recs),
           Mark(s, k) + HdrLen <= End(s)
    PROVE  /\ k < Len(s.recs) /\ k + 1 \in 1 .. Len(s.recs)
           /\ s.recs[k + 1] \in RecType /\ s.recs[k + 1].at = Mark(s, k)
           /\ Header(s, Mark(s, k)) = {s.recs[k + 1].len}
           /\ Mark(s, k + 1) = Mark(s, k) + HdrLen + s.recs[k + 1].len
<1>1. Len(s.recs) \in Nat
  BY DEF StreamType
<1>2. k < Len(s.recs)
  BY <1>1, Marks
<1>3. k + 1 \in 1 .. Len(s.recs) /\ (k + 1) - 1 = k
  BY <1>1, <1>2
<1>4. /\ s.recs[k + 1] \in RecType /\ s.recs[k + 1].at = Mark(s, k)
      /\ Mark(s, k + 1) = Mark(s, k) + HdrLen + s.recs[k + 1].len
  BY <1>3, Marks
<1>5. \A i \in 1 .. Len(s.recs) : s.recs[i].at = Mark(s, k) => i = k + 1
  <2> SUFFICES ASSUME NEW i \in 1 .. Len(s.recs), Mark(s, i - 1) = Mark(s, k), i - 1 # k
               PROVE  FALSE
    BY <1>1, <1>3, Marks, SMTT(30)
  <2>1. i - 1 \in 0 .. Len(s.recs) /\ Mark(s, i - 1) \in Nat /\ Mark(s, k) \in Nat
    BY <1>1, Marks
  <2>2. Mark(s, i - 1) + HdrLen <= Mark(s, k) \/ Mark(s, k) + HdrLen <= Mark(s, i - 1)
    BY <1>1, <2>1, SMTT(30) DEF StreamOK
  <2> QED BY <2>1, <2>2
<1>6. {i \in 1 .. Len(s.recs) : s.recs[i].at = Mark(s, k)} = {k + 1}
  BY <1>3, <1>4, <1>5
<1>7. Header(s, Mark(s, k)) = {s.recs[k + 1].len}
  BY <1>6 DEF Header
<1> QED BY <1>2, <1>3, <1>4, <1>7

\* Writing and reading bytes moves no record.
LEMMA SameRecords ==
    ASSUME NEW s, NEW t, t.recs = s.recs
    PROVE  /\ End(t) = End(s)
           /\ \A k : Mark(t, k) = Mark(s, k)
           /\ \A p : Header(t, p) = Header(s, p)
           /\ \A seq, p : ReadUpTo(t, seq, p) <=> ReadUpTo(s, seq, p)
<1>1. End(t) = End(s) /\ \A p : Header(t, p) = Header(s, p)
  BY DEF End, Header
<1>2. \A k : Mark(t, k) = Mark(s, k)
  BY DEF Mark
<1>3. \A seq, p : ReadUpTo(t, seq, p) <=> ReadUpTo(s, seq, p)
  BY <1>2 DEF ReadUpTo
<1> QED BY <1>1, <1>2, <1>3

\* A record put at the end moves none of those before it.
LEMMA Added ==
    ASSUME NEW s \in StreamType, StreamOK(s), NEW len \in Nat, NEW t, t = Add(s, len)
    PROVE  /\ t \in StreamType /\ StreamOK(t)
           /\ t.recs = Append(s.recs, [at |-> End(s), len |-> len])
           /\ t.written = s.written /\ t.received = s.received
           /\ Len(t.recs) = Len(s.recs) + 1
           /\ End(t) = End(s) + HdrLen + len
           /\ \A i \in 1 .. Len(s.recs) : t.recs[i] = s.recs[i]
           /\ \A k \in 0 .. Len(s.recs) : Mark(t, k) = Mark(s, k)
           /\ \A seq \in Seq(RecType) : \A p : ReadUpTo(s, seq, p) => ReadUpTo(t, seq, p)
<1> DEFINE r == [at |-> End(s), len |-> len]
           n == Len(s.recs)
<1>1. /\ s.recs \in Seq(RecType) /\ n \in Nat /\ s.written \in Nat /\ s.received \in Nat
      /\ s = [recs |-> s.recs, written |-> s.written, received |-> s.received]
  BY DEF StreamType
<1>2. End(s) \in Nat /\ r \in RecType
  BY Marks DEF RecType
<1>3. /\ t.recs = Append(s.recs, r) /\ t.written = s.written /\ t.received = s.received
      /\ t \in StreamType
  <2>1. t = [recs |-> Append(s.recs, r), written |-> s.written, received |-> s.received]
    BY <1>1 DEF Add
  <2>2. Append(s.recs, r) \in Seq(RecType)
    BY <1>1, <1>2
  <2> QED BY <1>1, <2>1, <2>2 DEF StreamType
<1>4. Len(t.recs) = n + 1 /\ t.recs[n + 1] = r /\ \A i \in 1 .. n : t.recs[i] = s.recs[i]
  BY <1>1, <1>2, <1>3
<1>5. \A k \in 0 .. n : Mark(t, k) = Mark(s, k)
  <2> SUFFICES ASSUME NEW k \in 0 .. n PROVE Mark(t, k) = Mark(s, k)
    OBVIOUS
  <2>1. CASE k = 0
    BY <2>1 DEF Mark
  <2>2. CASE k \in 1 .. n
    BY <1>4, <2>2 DEF Mark
  <2> QED BY <1>1, <2>1, <2>2
<1>6. Mark(t, n + 1) = End(s) + HdrLen + len
  BY <1>1, <1>4 DEF Mark, EndOf
<1>7. End(t) = End(s) + HdrLen + len
  <2>1. t.recs # <<>>
    BY <1>1, <1>4
  <2> QED BY <1>4, <2>1 DEF End, EndOf
<1>8. \A i \in 1 .. n + 1 : t.recs[i].at = Mark(t, i - 1)
  <2> SUFFICES ASSUME NEW i \in 1 .. n + 1 PROVE t.recs[i].at = Mark(t, i - 1)
    OBVIOUS
  <2>1. CASE i = n + 1
    <3>1. t.recs[i].at = End(s) /\ i - 1 = n /\ n \in 0 .. n
      BY <1>1, <1>4, <2>1
    <3>2. Mark(t, n) = End(s)
      BY <1>5, <3>1, Marks
    <3> QED BY <3>1, <3>2
  <2>2. CASE i \in 1 .. n
    <3>1. s.recs[i].at = Mark(s, i - 1) /\ i - 1 \in 0 .. n
      BY <1>1, <2>2, SMTT(30) DEF StreamOK
    <3> QED BY <1>4, <1>5, <2>2, <3>1
  <2> QED BY <1>1, <2>1, <2>2
<1>9. \A i, j \in 0 .. n + 1 : i < j => Mark(t, i) + HdrLen <= Mark(t, j)
  <2> SUFFICES ASSUME NEW i \in 0 .. n + 1, NEW j \in 0 .. n + 1, i < j
               PROVE  Mark(t, i) + HdrLen <= Mark(t, j)
    OBVIOUS
  <2>1. i \in 0 .. n /\ Mark(t, i) = Mark(s, i) /\ Mark(s, i) \in Nat /\ Mark(s, i) <= End(s)
    BY <1>1, <1>5, Marks, SMTT(30)
  <2>2. CASE j = n + 1
    BY <1>2, <1>6, <2>1, <2>2
  <2>3. CASE j \in 0 .. n
    BY <1>5, <2>1, <2>3 DEF StreamOK
  <2> QED BY <1>1, <2>2, <2>3, SMTT(30)
<1>10. StreamOK(t)
  <2>1. s.received <= s.written /\ s.written <= End(s) /\ End(s) <= End(t)
    BY <1>2, <1>7 DEF StreamOK
  <2>2. t.received <= t.written /\ t.written <= End(t)
    BY <1>1, <1>2, <1>3, <1>7, <2>1
  <2> QED BY <1>4, <1>8, <1>9, <2>2 DEF StreamOK
<1>11. \A seq \in Seq(RecType) : \A p : ReadUpTo(s, seq, p) => ReadUpTo(t, seq, p)
  <2> SUFFICES ASSUME NEW seq \in Seq(RecType), NEW p, ReadUpTo(s, seq, p)
               PROVE  ReadUpTo(t, seq, p)
    OBVIOUS
  <2>1. Len(seq) \in 0 .. n
    BY <1>1 DEF ReadUpTo
  <2>2. \A i \in 1 .. Len(seq) : i \in 1 .. n
    BY <1>1, <2>1
  <2> QED BY <1>1, <1>4, <1>5, <2>1, <2>2, SMTT(30) DEF ReadUpTo
<1> QED BY <1>3, <1>4, <1>5, <1>7, <1>10, <1>11

\* Reading a whole record takes the next one.
LEMMA ReadOn ==
    ASSUME NEW s \in StreamType, StreamOK(s), NEW seq \in Seq(RecType), NEW p,
           ReadUpTo(s, seq, p), NEW r, Len(seq) < Len(s.recs), r = s.recs[Len(seq) + 1]
    PROVE  ReadUpTo(s, Append(seq, r), p + HdrLen + r.len) /\ Append(seq, r) \in Seq(RecType)
<1> DEFINE n == Len(seq)
           q == Append(seq, r)
<1>1. n \in Nat /\ n + 1 \in 1 .. Len(s.recs) /\ (n + 1) - 1 = n
  BY DEF StreamType
<1>2. r \in RecType /\ Mark(s, n + 1) = Mark(s, n) + HdrLen + r.len
  BY <1>1, Marks
<1>3. q \in Seq(RecType) /\ Len(q) = n + 1 /\ q[n + 1] = r /\ \A i \in 1 .. n : q[i] = seq[i]
  BY <1>1, <1>2
<1>4. p = Mark(s, n) /\ \A i \in 1 .. n : seq[i] = s.recs[i]
  BY DEF ReadUpTo
<1>5. \A i \in 1 .. n + 1 : q[i] = s.recs[i]
  BY <1>1, <1>3, <1>4
<1> HIDE DEF q
<1> QED BY <1>1, <1>2, <1>3, <1>4, <1>5 DEF ReadUpTo, q

-----------------------------------------------------------------------------
(***************************************************************************)
(* Type correctness.                                                       *)
(***************************************************************************)
LEMMA Buffers ==
    ASSUME NEW b \in BufferType, b.off <= b.size
    PROVE  /\ b.base \in Nat /\ b.size \in Nat /\ b.off \in Nat
           /\ Unread(b) \in Nat /\ Unread(b) = b.size - b.off
           /\ Front(b) \in Nat /\ Front(b) = b.base + b.off
           /\ Reclaim(b) \in BufferType
           /\ Reclaim(b) = [base |-> b.base + b.off, size |-> b.size - b.off, off |-> 0]
BY DEF BufferType, Unread, Front, Reclaim

\* What is left of a queue that was flushed.
LEMMA SentBuffer ==
    ASSUME NEW b \in BufferType, b.off <= b.size
    PROVE  /\ Sent(b) \in BufferType /\ Sent(b).off <= Sent(b).size
           /\ Sent(b).base + Sent(b).size = b.base + b.size
           /\ Sent(b).base + Sent(b).off = b.base + b.off
<1>1. CASE Sent(b) = b
  BY <1>1
<1>2. CASE Sent(b) = Reclaim(b)
  BY <1>2, Buffers
<1> QED BY <1>1, <1>2 DEF Sent

\* A chunk fed to the reader, whose consumed prefix is below a record then.
LEMMA FedBuffer ==
    ASSUME NEW b \in BufferType, b.off <= b.size, NEW n \in Nat
    PROVE  /\ Fed(b, n) \in BufferType /\ Fed(b, n).off <= Fed(b, n).size
           /\ Fed(b, n).base + Fed(b, n).size = b.base + b.size + n
           /\ Front(Fed(b, n)) = Front(b)
           /\ Fed(b, n).off \in 0 .. MaxRecord - 1
           /\ Fed(b, n).size = Fed(b, n).off + Unread(b) + n
<1> DEFINE c == IF b.off = b.size \/ b.off >= MaxRecord THEN Reclaim(b) ELSE b
<1>1. Fed(b, n) = [c EXCEPT !.size = c.size + n]
  BY DEF Fed
<1>2. /\ c \in BufferType /\ c.off <= c.size /\ c.off < MaxRecord
      /\ c.base + c.size = b.base + b.size /\ c.base + c.off = b.base + b.off
      /\ c.size - c.off = b.size - b.off
  BY Buffers
<1> HIDE DEF c
<1>3. /\ Fed(b, n) = [base |-> c.base, size |-> c.size + n, off |-> c.off]
      /\ c.base \in Nat /\ c.size \in Nat /\ c.off \in Nat
  BY <1>1, <1>2 DEF BufferType
<1>4. /\ Fed(b, n) \in BufferType /\ Fed(b, n).base = c.base
      /\ Fed(b, n).size = c.size + n /\ Fed(b, n).off = c.off
  BY <1>3 DEF BufferType
<1>5. Front(Fed(b, n)) = Front(b)
  BY <1>2, <1>4 DEF Front
<1>6. b.base \in Nat /\ b.size \in Nat /\ b.off \in Nat /\ Unread(b) = b.size - b.off
  BY Buffers
<1> QED BY <1>2, <1>3, <1>4, <1>5, <1>6

\* A record consumed.
LEMMA ConsumedBuffer ==
    ASSUME NEW b \in BufferType, b.off <= b.size, NEW n \in Nat, n <= Unread(b)
    PROVE  /\ Consumed(b, n) \in BufferType /\ Consumed(b, n).off <= Consumed(b, n).size
           /\ Consumed(b, n).base + Consumed(b, n).size = b.base + b.size
           /\ Front(Consumed(b, n)) = Front(b) + n
           /\ Consumed(b, n).size <= b.size
<1>1. b.base \in Nat /\ b.size \in Nat /\ b.off \in Nat /\ n <= b.size - b.off
  BY Buffers
<1> DEFINE d == [base |-> b.base, size |-> b.size, off |-> b.off + n]
<1>2. [b EXCEPT !.off = b.off + n] = d
  BY DEF BufferType
<1>3. Consumed(b, n) = IF d.off = d.size THEN Reclaim(d) ELSE d
  BY <1>2 DEF Consumed
<1>4. Consumed(b, n) = IF b.off + n = b.size
                         THEN [base |-> b.base + b.off + n, size |-> 0, off |-> 0] ELSE d
  BY <1>1, <1>3 DEF Reclaim
<1> QED BY <1>1, <1>4 DEF Front, BufferType

\* Bytes written to a stream, as many as are left of its records.
LEMMA Written ==
    ASSUME NEW s \in StreamType, NEW n \in Nat
    PROVE  \A t : t = [s EXCEPT !.written = @ + n] =>
             /\ t \in StreamType
             /\ t.recs = s.recs /\ t.written = s.written + n /\ t.received = s.received
             /\ StreamOK(s) /\ n <= End(s) - s.written => StreamOK(t)
<1>1. /\ s.recs \in Seq(RecType) /\ s.written \in Nat /\ s.received \in Nat
      /\ [s EXCEPT !.written = @ + n]
            = [recs |-> s.recs, written |-> s.written + n, received |-> s.received]
  BY DEF StreamType
<1> SUFFICES ASSUME NEW t, t.recs = s.recs, t.written = s.written + n, t.received = s.received
             PROVE  StreamOK(s) /\ n <= End(s) - s.written => StreamOK(t)
  <2>1. [recs |-> s.recs, written |-> s.written + n, received |-> s.received] \in StreamType
    BY <1>1 DEF StreamType
  <2> QED BY <1>1, <2>1
<1>2. End(t) = End(s) /\ \A k : Mark(t, k) = Mark(s, k)
  BY SameRecords
<1>3. StreamOK(s) => End(s) \in Nat
  BY Marks
<1> QED BY <1>1, <1>2, <1>3, SMTT(30) DEF StreamOK

\* Bytes received from a stream, as many as were written.
LEMMA Received ==
    ASSUME NEW s \in StreamType, NEW n \in Nat
    PROVE  \A t : t = [s EXCEPT !.received = @ + n] =>
             /\ t \in StreamType
             /\ t.recs = s.recs /\ t.written = s.written /\ t.received = s.received + n
             /\ StreamOK(s) /\ n <= Readable(s) => StreamOK(t)
<1>1. /\ s.recs \in Seq(RecType) /\ s.written \in Nat /\ s.received \in Nat
      /\ [s EXCEPT !.received = @ + n]
            = [recs |-> s.recs, written |-> s.written, received |-> s.received + n]
  BY DEF StreamType
<1> SUFFICES ASSUME NEW t, t.recs = s.recs, t.written = s.written, t.received = s.received + n
             PROVE  StreamOK(s) /\ n <= Readable(s) => StreamOK(t)
  <2>1. [recs |-> s.recs, written |-> s.written, received |-> s.received + n] \in StreamType
    BY <1>1 DEF StreamType
  <2> QED BY <1>1, <2>1
<1>2. End(t) = End(s) /\ \A k : Mark(t, k) = Mark(s, k)
  BY SameRecords
<1>3. StreamOK(s) => End(s) \in Nat
  BY Marks
<1> QED BY <1>1, <1>2, <1>3, SMTT(30) DEF StreamOK, Readable

\* Bytes queued at the end of a buffer.
LEMMA Queued ==
    ASSUME NEW b \in BufferType, b.off <= b.size, NEW n \in Nat
    PROVE  \A c : c = [b EXCEPT !.size = @ + n] =>
             /\ c \in BufferType /\ c.off <= c.size
             /\ c.base + c.off = b.base + b.off /\ c.base + c.size = b.base + b.size + n
<1>1. /\ b.base \in Nat /\ b.size \in Nat /\ b.off \in Nat
      /\ [b EXCEPT !.size = @ + n] = [base |-> b.base, size |-> b.size + n, off |-> b.off]
  BY DEF BufferType
<1> QED BY <1>1 DEF BufferType

\* Bytes taken from the front of a buffer.
LEMMA Taken ==
    ASSUME NEW b \in BufferType, b.off <= b.size, NEW n \in Nat, n <= Unread(b)
    PROVE  \A c : c = [b EXCEPT !.off = @ + n] =>
             /\ c \in BufferType /\ c.off <= c.size
             /\ c.base + c.off = b.base + b.off + n /\ c.base + c.size = b.base + b.size
<1>1. /\ b.base \in Nat /\ b.size \in Nat /\ b.off \in Nat
      /\ [b EXCEPT !.off = @ + n] = [base |-> b.base, size |-> b.size, off |-> b.off + n]
  BY DEF BufferType
<1> QED BY <1>1 DEF BufferType, Unread

\* What next() finds at the front of the reader is the next record's length.
LEMMA AtFront ==
    ASSUME NEW s \in StreamType, StreamOK(s), NEW b \in BufferType, b.off <= b.size,
           b.base + b.size = s.received, NEW seq \in Seq(RecType),
           ReadUpTo(s, seq, Front(b)), Unread(b) >= HdrLen
    PROVE  /\ Len(seq) < Len(s.recs) /\ Len(seq) + 1 \in 1 .. Len(s.recs)
           /\ s.recs[Len(seq) + 1] \in RecType
           /\ s.recs[Len(seq) + 1].at = Front(b)
           /\ Header(s, Front(b)) = {s.recs[Len(seq) + 1].len}
<1>1. Len(seq) \in 0 .. Len(s.recs) /\ Front(b) = Mark(s, Len(seq))
  BY DEF ReadUpTo, StreamType
<1>2. Front(b) + HdrLen <= b.base + b.size /\ Front(b) \in Nat
  BY DEF Front, Unread, BufferType
<1>3. s.received <= End(s)
  BY Marks DEF StreamOK, StreamType
<1>4. End(s) \in Nat /\ s.received \in Nat
  BY Marks DEF StreamType
<1>5. Mark(s, Len(seq)) + HdrLen <= End(s)
  BY <1>1, <1>2, <1>3, <1>4
<1> QED BY <1>1, <1>5, HeaderMeans

\* The lengths a header may say are numbers.
LEMMA Headers ==
    ASSUME NEW s \in StreamType, NEW p
    PROVE  Header(s, p) \subseteq Nat
<1>1. s.recs \in Seq(RecType) /\ Len(s.recs) \in Nat
  BY DEF StreamType
<1>2. \A i \in 1 .. Len(s.recs) : s.recs[i] \in RecType
  BY <1>1
<1>3. \A i \in 1 .. Len(s.recs) : s.recs[i].len \in Nat
  BY <1>2 DEF RecType
<1> QED BY <1>3 DEF Header

\* The types hold at the start.
LEMMA InitType == Init => TypeOK
<1>1. Stream \in StreamType /\ Buffer \in BufferType
  BY DEF Stream, Buffer, StreamType, BufferType
<1>2. << >> \in Seq(RecType)
  OBVIOUS
<1>3. Buffer.off <= Buffer.size
  BY DEF Buffer
<1> QED BY <1>1, <1>2, <1>3 DEF Init, TypeOK, Stages, Needs

\* Every step keeps the types.
LEMMA NextType ==
    ASSUME TypeOK, UpInv, DownInv, [Next]_vars
    PROVE  TypeOK'
<1> USE DEF TypeOK
<1> DEFINE TurnType == [at : Stages, in : BOOLEAN, want : BOOLEAN]
<1>0. \A stage \in Stages : [turn EXCEPT !.at = stage] \in TurnType
  OBVIOUS
<1>1. CASE UNCHANGED vars
  BY <1>1 DEF vars, upVars, downVars, Needs
<1>2. ASSUME NEW len \in Nat, SendRecord(len) PROVE TypeOK'
  <2>1. up' \in StreamType
    BY <1>2, Added DEF SendRecord, UpInv
  <2> QED BY <1>2, <2>1 DEF SendRecord, downVars, Needs
<1>3. ASSUME NEW len \in Nat, Enqueue(len) PROVE TypeOK'
  <2>1. down' \in StreamType
    BY <1>3, Added DEF Enqueue, DownInv
  <2>2. out' \in BufferType /\ out'.off <= out'.size
    <3>1. out' = [out EXCEPT !.size = @ + (HdrLen + len)]
      BY <1>3 DEF Enqueue
    <3>2. HdrLen + len \in Nat
      OBVIOUS
    <3> QED BY <3>1, <3>2, Queued
  <2> QED BY <1>3, <2>1, <2>2 DEF Enqueue, upVars, Needs
<1>4. CASE SendBytes
  <2>1. PICK n \in 1 .. WireUp : up' = [up EXCEPT !.written = @ + n]
    BY <1>4 DEF SendBytes
  <2>2. up' \in StreamType
    BY <2>1, Written
  <2> QED BY <1>4, <2>2 DEF SendBytes, downVars, Needs
<1>5. CASE Leave
  BY <1>5 DEF Leave, upVars, downVars, Needs
<1>6. CASE Wake
  <2>1. turn' \in TurnType
    BY <1>6 DEF Wake, Stages, InEvent
  <2> QED BY <1>6, <2>1 DEF Wake, upVars, downVars, Needs
<1>7. CASE FlushSends
  <2>1. PICK n \in 1 .. WireDown :
          /\ n <= Unread(out) /\ out' = [out EXCEPT !.off = @ + n]
          /\ down' = [down EXCEPT !.written = @ + n]
    BY <1>7 DEF FlushSends
  <2>2. down' \in StreamType
    BY <2>1, Written
  <2>3. out' \in BufferType /\ out'.off <= out'.size
    <3>1. n \in Nat /\ n <= Unread(out) /\ out' = [out EXCEPT !.off = @ + n]
      BY <2>1
    <3> QED BY <3>1, Taken
  <2> QED BY <1>7, <2>2, <2>3 DEF FlushSends, upVars, Needs
<1>8. CASE FlushEnds
  <2>1. out' \in BufferType /\ out'.off <= out'.size
    BY <1>8, SentBuffer DEF FlushEnds
  <2>2. turn' \in TurnType
    BY <1>8 DEF FlushEnds, Stages
  <2> QED BY <1>8, <2>1, <2>2 DEF FlushEnds, upVars, Needs
<1>9. CASE SocketFails
  <2>1. turn' \in TurnType
    BY <1>0, <1>9 DEF SocketFails, Goes, Stages
  <2> QED BY <1>9, <2>1 DEF SocketFails, upVars, downVars, Needs
<1>10. CASE Recv
  <2>1. PICK n \in 1 .. ReadChunk :
          reader' = Fed(reader, n) /\ up' = [up EXCEPT !.received = @ + n]
    BY <1>10 DEF Recv
  <2>2. up' \in StreamType
    BY <2>1, Received
  <2>3. reader' \in BufferType /\ reader'.off <= reader'.size
    <3>1. n \in Nat /\ reader' = Fed(reader, n)
      BY <2>1
    <3> QED BY <3>1, FedBuffer
  <2>4. turn' \in TurnType
    BY <1>0, <1>10 DEF Recv, Goes, Stages
  <2> QED BY <1>10, <2>2, <2>3, <2>4 DEF Recv, downVars, Needs
<1>11. CASE RecvNothing
  <2>1. turn' \in TurnType
    BY <1>0, <1>11 DEF RecvNothing, Goes, Stages
  <2> QED BY <1>11, <2>1 DEF RecvNothing, upVars, downVars, Needs
<1>12. CASE NeedMore
  <2>1. turn' \in TurnType
    BY <1>0, <1>12 DEF NeedMore, Goes, Stages
  <2> QED BY <1>12, <2>1 DEF NeedMore, upVars, downVars, Needs
<1>13. CASE Malformed
  <2>1. turn' \in TurnType
    BY <1>0, <1>13 DEF Malformed, Goes, Stages
  <2> QED BY <1>13, <2>1 DEF Malformed, upVars, downVars, Needs
<1>14. CASE NextRecord
  <2>1. PICK len \in Header(up, Front(reader)) :
          /\ Whole(reader, len) /\ reader' = Consumed(reader, HdrLen + len)
          /\ got' = Append(got, [at |-> Front(reader), len |-> len])
    BY <1>14 DEF NextRecord
  <2>2. len \in Nat /\ Front(reader) \in Nat
    BY Headers, Buffers
  <2>3. reader' \in BufferType /\ reader'.off <= reader'.size
    <3>1. reader' = Consumed(reader, HdrLen + len)
      BY <2>1
    <3>2. HdrLen + len \in Nat /\ HdrLen + len <= Unread(reader)
      BY <2>1, <2>2, Buffers DEF Whole
    <3> QED BY <3>1, <3>2, ConsumedBuffer
  <2>4. [at |-> Front(reader), len |-> len] \in RecType
    BY <2>2 DEF RecType
  <2>5. got' \in Seq(RecType)
    BY <2>1, <2>4
  <2>6. turn' \in TurnType
    BY <1>0, <1>14 DEF NextRecord, Goes, Stages
  <2> QED BY <1>14, <2>3, <2>5, <2>6 DEF NextRecord, downVars, Needs
<1>15. CASE HandlerReturns \/ HandshakeGoesOn
  <2>1. turn' \in TurnType
    <3>1. CASE HandlerReturns
      <4>1. PICK want \in {turn.want, TRUE} :
              turn' = [turn EXCEPT !.want = want, !.at = AfterRecord(want)]
        BY <3>1 DEF HandlerReturns
      <4>2. turn.want \in BOOLEAN /\ turn \in TurnType
        OBVIOUS
      <4>3. want \in BOOLEAN
        BY <4>1, <4>2
      <4>4. AfterRecord(want) \in Stages
        BY DEF AfterRecord, Stages
      <4> QED BY <4>1, <4>2, <4>3, <4>4
    <3>2. CASE HandshakeGoesOn
      BY <1>0, <3>2 DEF HandshakeGoesOn, Goes, Stages
    <3> QED BY <1>15, <3>1, <3>2
  <2> QED BY <1>15, <2>1 DEF HandlerReturns, HandshakeGoesOn, upVars, downVars, Needs
<1>16. CASE HandlerFails
  <2>1. turn' \in TurnType
    BY <1>0, <1>16 DEF HandlerFails, Goes, Stages
  <2> QED BY <1>16, <2>1 DEF HandlerFails, upVars, downVars, Needs
<1>17. CASE ReadsPart
  <2>1. PICK n \in 1 .. WireDown :
          /\ down' = [down EXCEPT !.received = @ + n]
          /\ rx.have + n < Needs /\ rx' = [rx EXCEPT !.have = @ + n]
    BY <1>17 DEF ReadsPart, Receives
  <2>2. down' \in StreamType
    BY <2>1, Received, SMTT(30)
  <2>3. /\ rx' \in [at : {"header", "body"}, have : Nat, len : Nat]
        /\ rx'.have = rx.have + n /\ rx'.at = rx.at /\ rx'.len = rx.len
    <3>1. n \in Nat /\ rx' = [rx EXCEPT !.have = @ + n]
      BY <2>1
    <3>2. /\ rx = [at |-> rx.at, have |-> rx.have, len |-> rx.len]
          /\ rx.at \in {"header", "body"} /\ rx.have \in Nat /\ rx.len \in Nat
      OBVIOUS
    <3>3. rx' = [at |-> rx.at, have |-> rx.have + n, len |-> rx.len]
      BY <3>1, <3>2
    <3>4. [at |-> rx.at, have |-> rx.have + n, len |-> rx.len]
            \in [at : {"header", "body"}, have : Nat, len : Nat]
      BY <3>1, <3>2
    <3> QED BY <3>3, <3>4
  <2>4. rx'.have < Needs'
    BY <2>1, <2>3 DEF Needs
  <2> QED BY <1>17, <2>2, <2>3, <2>4 DEF ReadsPart, upVars
<1>18. CASE ReadsHeader
  <2>1. PICK n \in 1 .. WireDown :
          /\ down' = [down EXCEPT !.received = @ + n]
          /\ \E len \in Header(down, down.received + n - HdrLen) :
                IF Legal(len) THEN rx' = Body(len) /\ UNCHANGED client
                              ELSE client' = "gone" /\ UNCHANGED rx
    BY <1>18 DEF ReadsHeader, Receives
  <2>2. PICK len \in Nat : IF Legal(len) THEN rx' = Body(len) /\ UNCHANGED client
                                         ELSE client' = "gone" /\ UNCHANGED rx
    BY <2>1, Headers
  <2>3. down' \in StreamType
    <3>1. n \in Nat /\ down' = [down EXCEPT !.received = @ + n]
      BY <2>1
    <3> QED BY <3>1, Received
  <2>4. /\ rx' \in [at : {"header", "body"}, have : Nat, len : Nat]
        /\ rx'.have < Needs' /\ client' \in {"on", "gone"}
    BY <2>2 DEF Legal, Body, Needs
  <2> QED BY <1>18, <2>3, <2>4 DEF ReadsHeader, upVars
<1>19. CASE ReadsBody
  <2>1. PICK n \in 1 .. WireDown :
          /\ Receives(n) /\ rx.have + n = Needs
          /\ shown' = Append(shown, [at |-> down.received + n - HdrLen - rx.len, len |-> rx.len])
    BY <1>19 DEF ReadsBody, NextHeader
  <2>2. down' \in StreamType
    <3>1. n \in Nat /\ down' = [down EXCEPT !.received = @ + n]
      BY <2>1 DEF Receives
    <3> QED BY <3>1, Received
  <2>3. rx.have + HdrLen <= down.received /\ n = rx.len - rx.have
    BY <1>19, <2>1 DEF ReadsBody, NextHeader, Receives, DownInv, RxOK, Needs
  <2>4. [at |-> down.received + n - HdrLen - rx.len, len |-> rx.len] \in RecType
    <3>1. down.received \in Nat /\ rx.len \in Nat /\ rx.have \in Nat /\ HdrLen \in Nat
      BY FramingAssumption DEF FramingAssumption, StreamType
    <3>2. down.received + n - HdrLen - rx.len \in Nat
      BY <2>3, <3>1
    <3> QED BY <3>1, <3>2 DEF RecType
  <2>5. shown' \in Seq(RecType)
    BY <2>1, <2>4
  <2>6. rx' \in [at : {"header", "body"}, have : Nat, len : Nat] /\ rx'.have < Needs'
    BY <1>19 DEF ReadsBody, NextHeader, Needs
  <2> QED BY <1>19, <2>2, <2>5, <2>6 DEF ReadsBody, NextHeader, upVars
<1>20. CASE ServerClosed
  BY <1>20 DEF ServerClosed, upVars, downVars, Needs
<1>21. 1 .. MaxRecord \subseteq Nat /\ BadLengths \subseteq Nat
  OBVIOUS
<1> QED
  BY <1>1, <1>2, <1>3, <1>4, <1>5, <1>6, <1>7, <1>8, <1>9, <1>10, <1>11, <1>12, <1>13, <1>14,
     <1>15, <1>16, <1>17, <1>18, <1>19, <1>20, <1>21 DEF Next, Loop, ClientReads

-----------------------------------------------------------------------------
(***************************************************************************)
(* The way up: the server reads on from where the last record ended.       *)
(***************************************************************************)
LEMMA InitUp == Init => UpInv
<1> SUFFICES ASSUME Init PROVE UpInv
  OBVIOUS
<1>1. /\ up.recs = <<>> /\ up.written = 0 /\ up.received = 0 /\ got = <<>>
      /\ reader.base = 0 /\ reader.size = 0 /\ reader.off = 0
  BY DEF Init, Stream, Buffer
<1>2. End(up) = 0 /\ Mark(up, 0) = 0
  BY <1>1 DEF End, Mark
<1> QED BY <1>1, <1>2 DEF UpInv, StreamOK, ReadUpTo, Front

\* Every step keeps the upward stream and what the server has read of it.
LEMMA NextUp ==
    ASSUME TypeOK, UpInv, [Next]_vars
    PROVE  UpInv'
<1>0. /\ up \in StreamType /\ reader \in BufferType /\ reader.off <= reader.size
      /\ got \in Seq(RecType) /\ StreamOK(up) /\ ReadUpTo(up, got, Front(reader))
      /\ reader.base + reader.size = up.received
  BY DEF TypeOK, UpInv
<1>1. CASE UNCHANGED upVars
  BY <1>0, <1>1 DEF upVars, UpInv
<1>2. ASSUME NEW len \in Nat, SendRecord(len) PROVE UpInv'
  <2>1. up' = Add(up, len) /\ reader' = reader /\ got' = got
    BY <1>2 DEF SendRecord
  <2>2. StreamOK(up') /\ up'.received = up.received /\ ReadUpTo(up', got, Front(reader))
    BY <1>0, <2>1, Added
  <2> QED BY <1>0, <2>1, <2>2 DEF UpInv
<1>3. CASE SendBytes
  <2>1. PICK n \in 1 .. WireUp :
          n <= End(up) - up.written /\ up' = [up EXCEPT !.written = @ + n]
    BY <1>3 DEF SendBytes
  <2>2. n \in Nat /\ n <= End(up) - up.written
    BY <2>1
  <2>3. StreamOK(up') /\ up'.received = up.received /\ up'.recs = up.recs
    BY <1>0, <2>1, <2>2, Written
  <2>4. ReadUpTo(up', got, Front(reader))
    BY <1>0, <2>3, SameRecords
  <2> QED BY <1>0, <1>3, <2>3, <2>4 DEF SendBytes, UpInv
<1>4. CASE Recv
  <2>1. PICK n \in 1 .. ReadChunk :
          /\ n <= Readable(up) /\ reader' = Fed(reader, n)
          /\ up' = [up EXCEPT !.received = @ + n]
    BY <1>4 DEF Recv
  <2>2. n \in Nat /\ n <= Readable(up)
    BY <2>1
  <2>3. /\ StreamOK(up') /\ up'.received = up.received + n /\ up'.recs = up.recs
    BY <1>0, <2>1, <2>2, Received
  <2>4. /\ reader'.base + reader'.size = up.received + n
        /\ Front(reader') = Front(reader)
    <3>1. reader' = Fed(reader, n) /\ reader.base + reader.size = up.received
      BY <1>0, <2>1
    <3>2. reader \in BufferType /\ reader.off <= reader.size /\ n \in Nat
      BY <1>0, <2>2
    <3>3. Fed(reader, n).base + Fed(reader, n).size = reader.base + reader.size + n
          /\ Front(Fed(reader, n)) = Front(reader)
      BY <3>2, FedBuffer
    <3> QED BY <3>1, <3>3
  <2>5. ReadUpTo(up', got, Front(reader))
    BY <1>0, <2>3, SameRecords
  <2> QED BY <1>4, <2>3, <2>4, <2>5 DEF Recv, UpInv
<1>5. CASE NextRecord
  <2>1. PICK len \in Header(up, Front(reader)) :
          /\ Unread(reader) >= HdrLen /\ Whole(reader, len)
          /\ got' = Append(got, [at |-> Front(reader), len |-> len])
          /\ reader' = Consumed(reader, HdrLen + len)
    BY <1>5 DEF NextRecord
  <2> DEFINE r == up.recs[Len(got) + 1]
  <2>2. Len(got) < Len(up.recs) /\ r \in RecType /\ r.at = Front(reader) /\ len = r.len
    BY <1>0, <2>1, AtFront
  <2>3. r = [at |-> Front(reader), len |-> len]
    BY <2>2 DEF RecType
  <2>4. ReadUpTo(up, got', Front(reader) + HdrLen + len)
    <3>1. got' = Append(got, r)
      BY <2>1, <2>3
    <3> QED BY <1>0, <2>2, <3>1, ReadOn
  <2>5. /\ reader'.base + reader'.size = reader.base + reader.size
        /\ Front(reader') = Front(reader) + (HdrLen + len)
    <3>1. reader' = Consumed(reader, HdrLen + len)
      BY <2>1
    <3>2. HdrLen + len \in Nat
      BY <2>2 DEF RecType
    <3>3. HdrLen + len <= Unread(reader)
      BY <2>1 DEF Whole
    <3> QED BY <1>0, <3>1, <3>2, <3>3, ConsumedBuffer
  <2>6. Front(reader') = Front(reader) + HdrLen + len
    <3>1. len \in Nat /\ Front(reader) \in Nat
      BY <1>0, <2>2, Buffers DEF RecType
    <3> QED BY <2>5, <3>1
  <2> QED BY <1>0, <1>5, <2>4, <2>5, <2>6 DEF NextRecord, UpInv
<1>6. 1 .. MaxRecord \subseteq Nat /\ BadLengths \subseteq Nat
  OBVIOUS
<1>7. \A len : Enqueue(len) => UNCHANGED upVars
  BY DEF Enqueue
<1>8. Leave \/ Wake \/ FlushSends \/ FlushEnds \/ RecvNothing \/ NeedMore \/ Malformed => UNCHANGED upVars
  BY DEF Leave, Wake, FlushSends, FlushEnds, RecvNothing, NeedMore, Malformed
<1>9. HandlerReturns \/ HandshakeGoesOn \/ HandlerFails \/ SocketFails \/ ClientReads => UNCHANGED upVars
  BY DEF HandlerReturns, HandshakeGoesOn, HandlerFails, SocketFails, ClientReads, ReadsPart, ReadsHeader,
         ReadsBody, ServerClosed
<1>10. UNCHANGED vars => UNCHANGED upVars
  BY DEF vars
<1> QED
  BY <1>1, <1>2, <1>3, <1>4, <1>5, <1>6, <1>7, <1>8, <1>9, <1>10, Zenon DEF Next, Loop

-----------------------------------------------------------------------------
(***************************************************************************)
(* The way down: so does the client.                                       *)
(***************************************************************************)
LEMMA InitDown == Init => DownInv
<1> SUFFICES ASSUME Init PROVE DownInv
  OBVIOUS
<1>1. /\ down.recs = <<>> /\ down.written = 0 /\ down.received = 0 /\ shown = <<>>
      /\ out.base = 0 /\ out.size = 0 /\ out.off = 0
      /\ rx.at = "header" /\ rx.have = 0
  BY DEF Init, Stream, Buffer
<1>2. End(down) = 0 /\ Mark(down, 0) = 0
  BY <1>1 DEF End, Mark
<1>3. StreamOK(down)
  BY <1>1, <1>2 DEF StreamOK
<1>4. RxFront = 0
  BY <1>1 DEF RxFront
<1>5. RxOK
  BY <1>1, <1>2, <1>4 DEF RxOK, ReadUpTo
<1> QED BY <1>1, <1>2, <1>3, <1>5 DEF DownInv

\* The same of the downward stream and the client.
LEMMA NextDown ==
    ASSUME TypeOK, DownInv, [Next]_vars
    PROVE  DownInv'
<1>0. /\ down \in StreamType /\ out \in BufferType /\ out.off <= out.size
      /\ shown \in Seq(RecType) /\ StreamOK(down)
      /\ rx.at \in {"header", "body"} /\ rx.have \in Nat /\ rx.len \in Nat
      /\ down.received \in Nat /\ down.written \in Nat
      /\ rx = [at |-> rx.at, have |-> rx.have, len |-> rx.len]
  BY DEF TypeOK, DownInv, StreamType
<1>1. ASSUME UNCHANGED downVars, client' = "on" => client = "on" PROVE DownInv'
  BY <1>1 DEF downVars, DownInv, RxOK, RxFront
<1>2. ASSUME NEW len \in Nat, Enqueue(len) PROVE DownInv'
  <2>1. /\ down' = Add(down, len) /\ rx' = rx /\ shown' = shown /\ client' = client
        /\ out' = [out EXCEPT !.size = @ + (HdrLen + len)]
    BY <1>2 DEF Enqueue
  <2>2. /\ StreamOK(down') /\ down'.received = down.received /\ down'.written = down.written
        /\ End(down') = End(down) + HdrLen + len /\ Len(down'.recs) = Len(down.recs) + 1
        /\ \A i \in 1 .. Len(down.recs) : down'.recs[i] = down.recs[i]
        /\ \A p : ReadUpTo(down, shown, p) => ReadUpTo(down', shown, p)
    <3>1. down' = Add(down, len)
      BY <2>1
    <3>2. down \in StreamType /\ StreamOK(down) /\ shown \in Seq(RecType)
      BY <1>0
    <3>3. StreamOK(down') /\ down'.received = down.received /\ down'.written = down.written
      BY <3>1, <3>2, Added
    <3> DEFINE r == [at |-> End(down), len |-> len]
    <3>4. down.recs \in Seq(RecType) /\ r \in RecType
      BY <3>2, Marks DEF StreamType, RecType
    <3>5. down'.recs = Append(down.recs, r)
      BY <3>1, <3>2, Added
    <3>6. /\ Len(down'.recs) = Len(down.recs) + 1 /\ down'.recs # <<>>
          /\ down'.recs[Len(down'.recs)] = r
          /\ \A i \in 1 .. Len(down.recs) : down'.recs[i] = down.recs[i]
      BY <3>4, <3>5, SMTT(30)
    <3>7. End(down') = End(down) + HdrLen + len
      BY <3>6 DEF End, EndOf
    <3>8. ASSUME NEW p, ReadUpTo(down, shown, p) PROVE ReadUpTo(down', shown, p)
      BY <3>1, <3>2, <3>8, Added
    <3> QED BY <3>3, <3>6, <3>7, <3>8
  <2>3. /\ out'.base + out'.off = out.base + out.off
        /\ out'.base + out'.size = out.base + out.size + (HdrLen + len)
    <3>1. HdrLen + len \in Nat /\ out' = [out EXCEPT !.size = @ + (HdrLen + len)]
      BY <2>1
    <3>2. out \in BufferType /\ out.off <= out.size
      BY <1>0
    <3> QED BY <3>1, <3>2, Queued DEF BufferType
  <2>4. out'.base + out'.size = End(down')
    <3>1. End(down) \in Nat /\ out.base + out.size = End(down)
      BY <1>0, Marks DEF DownInv
    <3> QED BY <2>2, <2>3, <3>1
  <2>5. RxOK => RxOK'
    <3> SUFFICES ASSUME RxOK PROVE RxOK'
      OBVIOUS
    <3>1. RxFront' = RxFront
      BY <2>1, <2>2 DEF RxFront
    <3>2. ReadUpTo(down', shown', RxFront')
      BY <2>1, <2>2, <3>1 DEF RxOK
    <3>3. rx'.at = "body" => /\ Len(shown') < Len(down'.recs)
                             /\ rx'.len = down'.recs[Len(shown') + 1].len
                             /\ Legal(rx'.len)
      <4> SUFFICES ASSUME rx.at = "body"
                   PROVE  /\ Len(shown) < Len(down'.recs)
                          /\ rx.len = down'.recs[Len(shown) + 1].len
                          /\ Legal(rx.len)
        BY <2>1
      <4>1. Len(shown) < Len(down.recs) /\ rx.len = down.recs[Len(shown) + 1].len /\ Legal(rx.len)
        BY DEF RxOK
      <4>2. Len(shown) \in Nat /\ Len(down.recs) \in Nat
        BY <1>0, SMTT(30) DEF StreamType
      <4>3. Len(shown) + 1 \in 1 .. Len(down.recs)
        BY <4>1, <4>2
      <4> QED BY <2>2, <4>1, <4>2, <4>3
    <3>4. rx'.have + (IF rx'.at = "header" THEN 0 ELSE HdrLen) <= down'.received
      BY <2>1, <2>2 DEF RxOK
    <3> QED BY <3>2, <3>3, <3>4 DEF RxOK
  <2>6. out'.base + out'.off = down'.written
    BY <2>2, <2>3 DEF DownInv
  <2> QED BY <2>1, <2>2, <2>4, <2>5, <2>6 DEF DownInv
<1>3. CASE FlushSends
  <2>1. PICK n \in 1 .. WireDown :
          /\ n <= Unread(out) /\ out' = [out EXCEPT !.off = @ + n]
          /\ down' = [down EXCEPT !.written = @ + n]
    BY <1>3 DEF FlushSends
  <2>2. n \in Nat /\ n <= Unread(out) /\ out' = [out EXCEPT !.off = @ + n]
    BY <2>1
  <2>3. down' = [down EXCEPT !.written = @ + n]
    BY <2>1
  <2>4. /\ out'.base + out'.off = out.base + out.off + n
        /\ out'.base + out'.size = out.base + out.size
    <3>1. out \in BufferType /\ out.off <= out.size
      BY <1>0
    <3> QED BY <2>2, <3>1, Taken DEF BufferType
  <2>5. n <= End(down) - down.written
    <3>1. /\ n <= out.size - out.off
          /\ out.base \in Nat /\ out.size \in Nat /\ out.off \in Nat
      BY <1>0, <2>2, Buffers
    <3>2. out.base + out.off = down.written /\ out.base + out.size = End(down)
      BY DEF DownInv
    <3> QED BY <2>2, <3>1, <3>2
  <2>6. /\ StreamOK(down') /\ down'.recs = down.recs
        /\ down'.written = down.written + n /\ down'.received = down.received
    BY <1>0, <2>2, <2>3, <2>5, Written
  <2>7. /\ End(down') = End(down)
        /\ \A seq, p : ReadUpTo(down', seq, p) <=> ReadUpTo(down, seq, p)
    BY <2>6, SameRecords
  <2>8. rx' = rx /\ shown' = shown /\ client' = client
    BY <1>3 DEF FlushSends
  <2>9. RxOK => RxOK'
    BY <2>6, <2>7, <2>8 DEF RxOK, RxFront
  <2> QED BY <2>4, <2>6, <2>7, <2>8, <2>9 DEF DownInv
<1>4. CASE FlushEnds
  <2>1. /\ out' = Sent(out) /\ down' = down /\ rx' = rx /\ shown' = shown /\ client' = client
    BY <1>4 DEF FlushEnds
  <2>2. out'.base + out'.size = out.base + out.size /\ out'.base + out'.off = out.base + out.off
    BY <1>0, <2>1, SentBuffer
  <2>3. RxOK => RxOK'
    BY <2>1 DEF RxOK, RxFront
  <2> QED BY <2>1, <2>2, <2>3 DEF DownInv
<1>5. ASSUME NEW n \in 1 .. WireDown, Receives(n), out' = out
      PROVE  /\ StreamOK(down') /\ down'.recs = down.recs /\ down'.received = down.received + n
             /\ \A seq, p : ReadUpTo(down', seq, p) <=> ReadUpTo(down, seq, p)
             /\ RxOK /\ n \in Nat
             /\ down.received + n <= End(down) /\ End(down) \in Nat
             /\ RxOK' => DownInv'
  <2>1. n \in Nat /\ n <= Readable(down) /\ down' = [down EXCEPT !.received = @ + n]
    BY <1>5 DEF Receives
  <2>2. /\ StreamOK(down') /\ down'.recs = down.recs
        /\ down'.received = down.received + n /\ down'.written = down.written
    BY <1>0, <2>1, Received
  <2>3. /\ End(down') = End(down)
        /\ \A seq, p : ReadUpTo(down', seq, p) <=> ReadUpTo(down, seq, p)
    BY <2>2, SameRecords
  <2>4. End(down) \in Nat
    BY <1>0, Marks
  <2>5. down.received + n <= End(down)
    <3>1. down.written <= End(down) /\ down.received \in Nat /\ down.written \in Nat
      BY <1>0 DEF StreamOK
    <3>2. n \in Nat /\ n <= down.written - down.received
      BY <2>1 DEF Readable
    <3> QED BY <2>4, <3>1, <3>2
  <2>6. RxOK' => DownInv'
    BY <1>5, <2>2, <2>3 DEF DownInv
  <2>7. RxOK
    BY <1>5 DEF Receives, DownInv
  <2> QED BY <2>1, <2>2, <2>3, <2>4, <2>5, <2>6, <2>7
<1>6. CASE ReadsPart
  <2>1. PICK n \in 1 .. WireDown :
          Receives(n) /\ out' = out /\ shown' = shown /\ rx' = [rx EXCEPT !.have = @ + n]
    BY <1>6 DEF ReadsPart
  <2>2. rx' = [at |-> rx.at, have |-> rx.have + n, len |-> rx.len]
    BY <1>0, <2>1
  <2>3. rx'.at = rx.at /\ rx'.have = rx.have + n /\ rx'.len = rx.len
    BY <2>2
  <2>4. /\ down'.recs = down.recs /\ down'.received = down.received + n
        /\ \A seq, p : ReadUpTo(down', seq, p) <=> ReadUpTo(down, seq, p)
        /\ RxOK /\ n \in Nat
        /\ RxOK' => DownInv'
    BY <1>5, <2>1
  <2>5. RxFront' = RxFront
    BY <1>0, <2>3, <2>4, SMTT(30) DEF RxFront
  <2>6. RxOK'
    <3>1. ReadUpTo(down', shown', RxFront')
      BY <2>1, <2>4, <2>5 DEF RxOK
    <3>2. rx'.have + (IF rx'.at = "header" THEN 0 ELSE HdrLen) <= down'.received
      BY <1>0, <2>3, <2>4, SMTT(30) DEF RxOK
    <3> QED BY <2>1, <2>3, <2>4, <3>1, <3>2 DEF RxOK
  <2> QED BY <2>4, <2>6
<1>7. CASE ReadsHeader
  <2>1. PICK n \in 1 .. WireDown :
          /\ Receives(n) /\ out' = out /\ shown' = shown /\ rx.have + n = Needs
          /\ \E len \in Header(down, down.received + n - HdrLen) :
                IF Legal(len) THEN rx' = Body(len) /\ UNCHANGED client
                              ELSE client' = "gone" /\ UNCHANGED rx
    BY <1>7 DEF ReadsHeader
  <2>2. PICK len \in Header(down, down.received + n - HdrLen) :
                IF Legal(len) THEN rx' = Body(len) /\ UNCHANGED client
                              ELSE client' = "gone" /\ UNCHANGED rx
    BY <2>1
  <2>3. /\ StreamOK(down') /\ down'.recs = down.recs /\ down'.received = down.received + n
        /\ \A seq, p : ReadUpTo(down', seq, p) <=> ReadUpTo(down, seq, p)
        /\ RxOK /\ n \in Nat /\ down.received + n <= End(down) /\ End(down) \in Nat
        /\ RxOK' => DownInv'
    BY <1>5, <2>1
  <2>4. rx.at = "header" /\ rx.have + n = HdrLen
    BY <1>7, <2>1 DEF ReadsHeader, Needs
  <2> DEFINE k == Len(shown)
  <2>5. k \in 0 .. Len(down.recs) /\ down.received - rx.have = Mark(down, k)
    BY <1>0, <2>3, <2>4 DEF RxOK, RxFront, ReadUpTo, StreamType
  <2>6. down.received + n - HdrLen = Mark(down, k)
    BY <1>0, <2>3, <2>4, <2>5, SMTT(30)
  <2>7. Mark(down, k) + HdrLen <= End(down)
    <3>1. Mark(down, k) \in Nat
      BY <1>0, <2>5, Marks
    <3>2. Mark(down, k) + HdrLen = down.received + n
      <4>1. down.received \in Nat /\ HdrLen \in Nat /\ n \in Nat
        BY <1>0, <2>3, FramingAssumption DEF StreamType
      <4> HIDE DEF k
      <4> QED BY <2>6, <4>1
    <3> QED BY <2>3, <3>2
  <2>8. k < Len(down.recs) /\ Header(down, Mark(down, k)) = {down.recs[k + 1].len}
    BY <1>0, <2>5, <2>7, HeaderMeans
  <2>9. CASE Legal(len)
    <3>1. rx' = Body(len) /\ len = down.recs[k + 1].len
      BY <2>2, <2>6, <2>8, <2>9
    <3>2. rx'.at = "body" /\ rx'.have = 0 /\ rx'.len = len
      BY <3>1 DEF Body
    <3>3. RxFront' = Mark(down, k)
      BY <1>0, <2>3, <2>6, <3>2, SMTT(30) DEF RxFront
    <3>4. ReadUpTo(down', shown', RxFront')
      <4>1. ReadUpTo(down, shown, Mark(down, k))
        BY <2>3 DEF RxOK, ReadUpTo
      <4> QED BY <2>1, <2>3, <3>3, <4>1
    <3>5. HdrLen <= down'.received
      BY <1>0, <2>3, <2>4, <2>5, Marks, SMTT(30) DEF RxOK
    <3>6. RxOK'
      BY <2>1, <2>3, <2>8, <2>9, <3>1, <3>2, <3>4, <3>5 DEF RxOK
    <3> QED BY <2>3, <3>6
  <2>10. CASE ~Legal(len)
    <3>1. client' = "gone"
      BY <2>2, <2>10
    <3>2. End(down') = End(down) /\ down'.written = down.written
      BY <2>1, <2>3, <1>0, SameRecords, Received DEF Receives
    <3> QED BY <2>1, <2>3, <3>1, <3>2 DEF DownInv
  <2> QED BY <2>9, <2>10
<1>8. CASE ReadsBody
  <2>1. PICK n \in 1 .. WireDown :
          /\ Receives(n) /\ out' = out /\ rx.have + n = Needs
          /\ shown' = Append(shown, [at |-> down.received + n - HdrLen - rx.len, len |-> rx.len])
    BY <1>8 DEF ReadsBody, NextHeader
  <2>2. /\ StreamOK(down') /\ down'.recs = down.recs /\ down'.received = down.received + n
        /\ \A seq, p : ReadUpTo(down', seq, p) <=> ReadUpTo(down, seq, p)
        /\ RxOK /\ n \in Nat
        /\ RxOK' => DownInv'
    BY <1>5, <2>1
  <2>3. rx.at = "body" /\ rx.have + n = rx.len
    BY <1>8, <2>1 DEF ReadsBody, NextHeader, Needs
  <2> DEFINE r == down.recs[Len(shown) + 1]
             p == down.received - rx.have - HdrLen
  <2>4. /\ ReadUpTo(down, shown, p) /\ Len(shown) < Len(down.recs) /\ rx.len = r.len
        /\ rx.have + HdrLen <= down.received
    BY <2>2, <2>3 DEF RxOK, RxFront
  <2>5. r \in RecType /\ r.at = p
    <3>1. Len(shown) + 1 \in 1 .. Len(down.recs) /\ (Len(shown) + 1) - 1 = Len(shown)
      <4>1. Len(shown) \in Nat /\ Len(down.recs) \in Nat
        BY <1>0, SMTT(30) DEF StreamType
      <4> QED BY <2>4, <4>1
    <3> QED BY <1>0, <2>4, <3>1, Marks DEF ReadUpTo
  <2>6. r = [at |-> down.received + n - HdrLen - rx.len, len |-> rx.len]
    <3>1. down.received + n - HdrLen - rx.len = p
      <4>1. /\ rx.have + n = rx.len /\ rx.have \in Nat /\ n \in Nat
            /\ rx.len \in Nat /\ down.received \in Nat /\ HdrLen \in Nat
        BY <1>0, <2>2, <2>3
      <4> QED BY <4>1
    <3> QED BY <2>4, <2>5, <3>1 DEF RecType
  <2>7. ReadUpTo(down, shown', p + HdrLen + r.len)
    <3>1. shown' = Append(shown, r)
      BY <2>1, <2>6
    <3> QED BY <1>0, <2>4, <3>1, ReadOn
  <2>8. p + HdrLen + r.len = down'.received
    <3>1. rx.have + n = r.len /\ down'.received = down.received + n
      BY <2>2, <2>3, <2>4
    <3>2. rx.have \in Nat /\ r.len \in Nat /\ n \in Nat /\ down.received \in Nat
      BY <1>0, <2>2, <2>5 DEF RecType
    <3> HIDE DEF r
    <3> QED BY <3>1, <3>2
  <2>9. rx'.at = "header" /\ rx'.have = 0
    BY <1>8 DEF ReadsBody, NextHeader
  <2>10. RxFront' = down'.received
    BY <1>0, <2>2, <2>9 DEF RxFront
  <2>11. RxOK'
    <3>1. ReadUpTo(down', shown', RxFront')
      BY <2>2, <2>7, <2>8, <2>10
    <3>2. 0 <= down'.received
      BY <1>0, <2>2, SMTT(30)
    <3> QED BY <2>9, <3>1, <3>2 DEF RxOK
  <2> QED BY <2>2, <2>11
<1>9. 1 .. MaxRecord \subseteq Nat
  OBVIOUS
<1>10. (\E len : SendRecord(len)) \/ SendBytes \/ Wake \/ Recv \/ RecvNothing \/ NeedMore
        => UNCHANGED <<downVars, client>>
  BY DEF SendRecord, SendBytes, Wake, Recv, RecvNothing, NeedMore
<1>11. Malformed \/ NextRecord \/ HandlerReturns \/ HandshakeGoesOn \/ HandlerFails \/ SocketFails
        => UNCHANGED <<downVars, client>>
  BY DEF Malformed, NextRecord, HandlerReturns, HandshakeGoesOn, HandlerFails, SocketFails
<1>12. Leave \/ ServerClosed => UNCHANGED downVars /\ client' = "gone"
  BY DEF Leave, ServerClosed
<1>13. UNCHANGED vars => UNCHANGED <<downVars, client>>
  BY DEF vars
<1>14. UNCHANGED <<downVars, client>> => UNCHANGED downVars /\ (client' = "on" => client = "on")
  OBVIOUS
<1>15. client' = "gone" => (client' = "on" => client = "on")
  OBVIOUS
<1> QED
  BY <1>1, <1>2, <1>3, <1>4, <1>6, <1>7, <1>8, <1>9, <1>10, <1>11, <1>12, <1>13, <1>14, <1>15
  DEF Next, Loop, ClientReads

-----------------------------------------------------------------------------
(***************************************************************************)
(* The loop: what drain_records leaves in the buffer.                      *)
(***************************************************************************)
\* A chunk is read only behind an unfinished record.
LEMMA UnfinishedIsShort ==
    ASSUME reader \in BufferType, reader.off <= reader.size, up \in StreamType, Unfinished
    PROVE  Unread(reader) <= HdrLen + MaxRecord - 1
<1>1. Unread(reader) \in Nat
  BY Buffers
<1>2. CASE Unread(reader) < HdrLen
  BY <1>1, <1>2
<1>3. ASSUME NEW len \in Header(up, Front(reader)), Legal(len), Unread(reader) < HdrLen + len
      PROVE  Unread(reader) <= HdrLen + MaxRecord - 1
  BY <1>1, <1>3, Headers DEF Legal
<1> QED BY <1>2, <1>3 DEF Unfinished

\* New records and bytes behind an unfinished record leave it unfinished.
LEMMA StaysUnfinished ==
    ASSUME TypeOK, UpInv, TypeOK', UpInv', Unfinished, reader' = reader, got' = got,
           Len(up.recs) <= Len(up'.recs),
           \A i \in 1 .. Len(up.recs) : up'.recs[i] = up.recs[i]
    PROVE  Unfinished'
<1>1. CASE Unread(reader) < HdrLen
  BY <1>1 DEF Unfinished
<1>2. CASE ~(Unread(reader) < HdrLen)
  <2> DEFINE k == Len(got) + 1
  <2>0. reader \in BufferType /\ reader.off <= reader.size /\ got \in Seq(RecType)
    BY DEF TypeOK
  <2>1. Unread(reader) >= HdrLen
    BY <1>2, <2>0, Buffers
  <2>2. Header(up, Front(reader)) = {up.recs[k].len} /\ k \in 1 .. Len(up.recs)
    <3>1. /\ up \in StreamType /\ StreamOK(up) /\ reader.base + reader.size = up.received
          /\ ReadUpTo(up, got, Front(reader))
      BY DEF TypeOK, UpInv
    <3> QED BY <2>0, <2>1, <3>1, AtFront
  <2>3. Header(up', Front(reader)) = {up'.recs[k].len}
    <3>1. /\ up' \in StreamType /\ StreamOK(up') /\ reader.base + reader.size = up'.received
          /\ ReadUpTo(up', got, Front(reader))
      BY DEF TypeOK, UpInv
    <3> QED BY <2>0, <2>1, <3>1, AtFront
  <2>4. up'.recs[k] = up.recs[k]
    BY <2>2
  <2>5. Header(up', Front(reader)) = Header(up, Front(reader))
    BY <2>2, <2>3, <2>4
  <2> QED BY <2>5 DEF Unfinished
<1> QED BY <1>1, <1>2

\* At the start the loop has read nothing.
LEMMA InitLoop == Init => LoopInv
<1> SUFFICES ASSUME Init PROVE LoopInv
  OBVIOUS
<1>1. reader.size = 0 /\ Unread(reader) = 0
  BY DEF Init, Buffer, Unread
<1> QED BY <1>1 DEF LoopInv, Unfinished, BufferBounded

\* Every step of the loop leaves no whole record where it reads or waits.
LEMMA NextLoop ==
    ASSUME TypeOK, UpInv, LoopInv, TypeOK', UpInv', [Next]_vars
    PROVE  LoopInv'
<1> DEFINE Mid == At("drain") \/ At("handle") \/ Closed \/ turn.want
<1>0. /\ turn \in [at : Stages, in : BOOLEAN, want : BOOLEAN]
      /\ ~Mid => Unfinished
      /\ up \in StreamType /\ reader \in BufferType /\ reader.off <= reader.size
      /\ Len(up.recs) \in Nat
  BY DEF LoopInv, TypeOK, StreamType
<1>1. ASSUME UNCHANGED upVars, turn'.want = turn.want, ~Mid \/ Mid'
      PROVE  LoopInv'
  BY <1>0, <1>1 DEF upVars, LoopInv, BufferBounded, Unfinished
<1>2. ASSUME reader' = reader, got' = got, turn' = turn,
             Len(up.recs) <= Len(up'.recs),
             \A i \in 1 .. Len(up.recs) : up'.recs[i] = up.recs[i]
      PROVE  LoopInv'
  <2>1. Unfinished => Unfinished'
    BY <1>2, StaysUnfinished
  <2>2. Mid' <=> Mid
    BY <1>2 DEF At, Closed
  <2>3. BufferBounded'
    BY <1>2 DEF LoopInv, BufferBounded
  <2> QED BY <1>0, <2>1, <2>2, <2>3 DEF LoopInv
<1>3. ASSUME NEW len \in Nat, SendRecord(len) PROVE LoopInv'
  <2>1. up' = Add(up, len) /\ reader' = reader /\ got' = got /\ turn' = turn
    BY <1>3 DEF SendRecord
  <2>2. up'.recs = Append(up.recs, [at |-> End(up), len |-> len])
    BY <1>0, <2>1, Added DEF UpInv
  <2>3. up.recs \in Seq(RecType) /\ [at |-> End(up), len |-> len] \in RecType
    BY <1>0, Marks DEF StreamType, RecType, UpInv
  <2>4. /\ Len(up.recs) <= Len(up'.recs)
        /\ \A i \in 1 .. Len(up.recs) : up'.recs[i] = up.recs[i]
    BY <2>2, <2>3
  <2> QED BY <1>2, <2>1, <2>4
<1>4. CASE SendBytes
  <2>1. reader' = reader /\ got' = got /\ turn' = turn
    BY <1>4 DEF SendBytes
  <2>2. up'.recs = up.recs
    BY <1>0, <1>4, Written DEF SendBytes
  <2> QED BY <1>0, <1>2, <2>1, <2>2
<1>5. CASE Wake
  <2>1. UNCHANGED upVars /\ turn'.want = turn.want
    BY <1>0, <1>5 DEF Wake
  <2>2. ~Mid \/ turn.want
    BY <1>5 DEF Wake, At, Closed
  <2> QED BY <1>1, <2>1, <2>2
<1>6. CASE FlushEnds
  <2>1. UNCHANGED upVars /\ turn'.want = turn.want
    BY <1>0, <1>6 DEF FlushEnds
  <2>2. ~Mid \/ turn.want
    BY <1>6 DEF FlushEnds, Flushing, At, Closed
  <2> QED BY <1>1, <2>1, <2>2
<1>7. CASE SocketFails
  <2>1. UNCHANGED upVars /\ turn'.want = turn.want /\ turn'.at = "closed"
    BY <1>0, <1>7 DEF SocketFails, Goes
  <2>2. Mid'
    BY <2>1 DEF Closed
  <2> QED BY <1>1, <2>1, <2>2
<1>8. CASE Recv
  <2>1. PICK n \in 1 .. ReadChunk : reader' = Fed(reader, n)
    BY <1>8 DEF Recv
  <2>2. turn'.want = turn.want /\ turn'.at = "drain"
    BY <1>0, <1>8 DEF Recv, Goes
  <2>3. Mid'
    BY <2>2 DEF At
  <2>4. BufferBounded'
    <3> SUFFICES ASSUME ~turn.want
                 PROVE  reader'.size <= (MaxRecord - 1) + (HdrLen + MaxRecord - 1) + ReadChunk
      BY <2>2 DEF BufferBounded
    <3>1. Unread(reader) \in Nat /\ Unread(reader) <= HdrLen + MaxRecord - 1
      BY <1>0, <1>8, UnfinishedIsShort, Buffers DEF Recv, At, Closed
    <3> HIDE DEF Mid
    <3>2. n \in Nat /\ reader' \in BufferType /\ reader'.off \in 0 .. MaxRecord - 1
      <4>1. n \in Nat
        OBVIOUS
      <4>2. reader \in BufferType /\ reader.off <= reader.size
        BY <1>0
      <4> QED BY <2>1, <4>1, <4>2, FedBuffer
    <3>3. reader'.off \in Nat /\ reader'.off < MaxRecord /\ reader'.size \in Nat
      BY <3>2 DEF BufferType
    <3>4. reader'.size = reader'.off + Unread(reader) + n
      BY <1>0, <2>1, <3>1, <3>2, <3>3, FedBuffer
    <3> QED BY <3>1, <3>2, <3>3, <3>4
  <2> QED BY <2>3, <2>4 DEF LoopInv
<1>9. CASE RecvNothing
  <2>1. UNCHANGED upVars /\ turn'.want = turn.want
    BY <1>0, <1>9 DEF RecvNothing, Goes
  <2>2. ~Mid \/ turn.want
    BY <1>9 DEF RecvNothing, At, Closed
  <2> QED BY <1>1, <2>1, <2>2
<1>10. CASE NeedMore
  <2>1. UNCHANGED upVars /\ turn'.want = turn.want
    BY <1>0, <1>10 DEF NeedMore, Goes
  <2>2. Unfinished
    <3>1. ASSUME NEW len \in Header(up, Front(reader)), Legal(len), ~Whole(reader, len)
          PROVE  Unfinished
      <4>1. len \in Nat /\ Unread(reader) \in Nat
        BY <1>0, Headers, Buffers
      <4>2. Unread(reader) < HdrLen + len
        BY <3>1, <4>1 DEF Whole
      <4> QED BY <3>1, <4>2 DEF Unfinished
    <3> QED BY <1>10, <3>1 DEF NeedMore, Unfinished
  <2>3. Unfinished' /\ BufferBounded'
    BY <2>1, <2>2 DEF upVars, Unfinished, LoopInv, BufferBounded
  <2> QED BY <2>3 DEF LoopInv
<1>11. CASE Malformed \/ HandlerFails \/ HandshakeGoesOn
  <2>1. UNCHANGED upVars /\ turn'.want = turn.want /\ turn'.at \in {"closed", "drain"}
    BY <1>0, <1>11 DEF Malformed, HandlerFails, HandshakeGoesOn, Goes
  <2>2. Mid'
    BY <2>1 DEF Closed, At
  <2> QED BY <1>1, <2>1, <2>2
<1>12. CASE NextRecord
  <2>1. PICK len \in Header(up, Front(reader)) :
          Whole(reader, len) /\ reader' = Consumed(reader, HdrLen + len)
    BY <1>12 DEF NextRecord
  <2>2. HdrLen + len \in Nat /\ HdrLen + len <= Unread(reader)
    BY <1>0, <2>1, Headers, Buffers DEF Whole
  <2>3. reader'.size <= reader.size /\ reader' \in BufferType
    BY <1>0, <2>1, <2>2, ConsumedBuffer
  <2>4. turn'.want = turn.want /\ turn'.at = "handle"
    BY <1>0, <1>12 DEF NextRecord, Goes
  <2>5. BufferBounded'
    <3>1. reader'.size \in Nat /\ reader.size \in Nat
      BY <1>0, <2>3 DEF BufferType
    <3> QED BY <2>3, <2>4, <3>1 DEF LoopInv, BufferBounded
  <2>6. Mid'
    BY <2>4 DEF At
  <2> QED BY <2>5, <2>6 DEF LoopInv
<1>13. CASE HandlerReturns
  <2>1. PICK want \in {turn.want, TRUE} :
          turn' = [turn EXCEPT !.want = want, !.at = AfterRecord(want)]
    BY <1>13 DEF HandlerReturns
  <2>2. turn'.want = want /\ turn'.at = AfterRecord(want) /\ want \in BOOLEAN
    BY <1>0, <2>1
  <2>3. Mid' /\ (turn.want => turn'.want)
    BY <2>1, <2>2 DEF AfterRecord, At
  <2>4. BufferBounded'
    BY <1>13, <2>3 DEF HandlerReturns, upVars, LoopInv, BufferBounded
  <2> QED BY <2>3, <2>4 DEF LoopInv
<1>14. \A len : Enqueue(len) => UNCHANGED upVars /\ turn' = turn
  BY DEF Enqueue
<1>15. Leave \/ FlushSends \/ ClientReads => UNCHANGED upVars /\ turn' = turn
  BY DEF Leave, FlushSends, ClientReads, ReadsPart, ReadsHeader, ReadsBody, NextHeader, ServerClosed
<1>16. UNCHANGED vars => UNCHANGED upVars /\ turn' = turn
  BY DEF vars
<1>17. UNCHANGED upVars /\ turn' = turn => LoopInv'
  <2> SUFFICES ASSUME UNCHANGED upVars, turn' = turn PROVE LoopInv'
    OBVIOUS
  <2>1. Mid' <=> Mid
    BY DEF At, Closed
  <2> QED BY <1>1, <2>1
<1>18. 1 .. MaxRecord \subseteq Nat /\ BadLengths \subseteq Nat
  OBVIOUS
<1> HIDE DEF Mid
<1> QED
  BY <1>3, <1>4, <1>5, <1>6, <1>7, <1>8, <1>9, <1>10, <1>11, <1>12, <1>13, <1>14, <1>15,
     <1>16, <1>17, <1>18, Zenon DEF Next, Loop

-----------------------------------------------------------------------------
(***************************************************************************)
(* The invariant holds throughout.                                         *)
(***************************************************************************)
LEMMA FramingInvariant == Spec => []FramingInv
<1>1. Init => FramingInv
  BY InitType, InitUp, InitDown, InitLoop DEF FramingInv
<1>2. FramingInv /\ [Next]_vars => FramingInv'
  <2> SUFFICES ASSUME FramingInv, [Next]_vars PROVE FramingInv'
    OBVIOUS
  <2>1. TypeOK /\ UpInv /\ DownInv /\ LoopInv
    BY DEF FramingInv
  <2>2. TypeOK'
    BY <2>1, NextType
  <2>3. UpInv'
    BY <2>1, NextUp
  <2>4. DownInv'
    BY <2>1, NextDown
  <2>5. LoopInv'
    BY <2>1, <2>2, <2>3, NextLoop
  <2> QED BY <2>2, <2>3, <2>4, <2>5 DEF FramingInv
<1> QED BY <1>1, <1>2, PTL DEF Spec

(***************************************************************************)
(* Every buffer, stream and thread stays well formed, and no buffer is     *)
(* read past its end.                                                      *)
(***************************************************************************)
THEOREM FramingTypes == Spec => []TypeOK
<1>1. FramingInv => TypeOK
  BY DEF FramingInv
<1> QED BY <1>1, FramingInvariant, PTL

(***************************************************************************)
(* No byte is skipped or repeated on its way through the buffers.          *)
(***************************************************************************)
THEOREM BytesAreKept == Spec => []NoByteLost
<1>1. FramingInv => NoByteLost
  BY DEF FramingInv, UpInv, DownInv, NoByteLost
<1> QED BY <1>1, FramingInvariant, PTL

(***************************************************************************)
(* drain_records leaves no whole record behind for a poll that may never   *)
(* return.                                                                 *)
(***************************************************************************)
THEOREM DrainIsComplete == Spec => []NothingLeft
<1>1. FramingInv => NothingLeft
  BY DEF FramingInv, LoopInv, NothingLeft, At, Closed
<1> QED BY <1>1, FramingInvariant, PTL

(***************************************************************************)
(* The reader's buffer never exceeds two records, a header and a chunk,    *)
(* whatever is sent.                                                       *)
(***************************************************************************)
THEOREM ReaderIsBounded == Spec => []BufferBounded
<1>1. FramingInv => BufferBounded
  BY DEF FramingInv, LoopInv
<1> QED BY <1>1, FramingInvariant, PTL

(***************************************************************************)
(* The way up implements the queue of records: each step of the client's   *)
(* send_record puts one, each record that next() gives out is the next one *)
(* put, and no other step shows.                                           *)
(***************************************************************************)
THEOREM UpIsFifo == Spec => UpFifo
<1>1. Init => Up!Init
  BY DEF Init, Up!Init, Stream
<1>2. FramingInv /\ [Next]_vars => [Up!Put \/ Up!Get]_<<up.recs, got>>
  <2> SUFFICES ASSUME FramingInv, [Next]_vars PROVE [Up!Put \/ Up!Get]_<<up.recs, got>>
    OBVIOUS
  <2>0. /\ up \in StreamType /\ reader \in BufferType /\ reader.off <= reader.size
        /\ got \in Seq(RecType) /\ StreamOK(up) /\ ReadUpTo(up, got, Front(reader))
        /\ reader.base + reader.size = up.received
    BY DEF FramingInv, TypeOK, UpInv
  <2>1. ASSUME NEW len \in Nat, SendRecord(len) PROVE Up!Put
    <3> DEFINE r == [at |-> End(up), len |-> len]
    <3>1. up' = Add(up, len) /\ got' = got
      BY <2>1 DEF SendRecord
    <3>2. up'.recs = Append(up.recs, r)
      BY <2>0, <3>1, Added
    <3>3. up.recs \in Seq(RecType) /\ r \in RecType
      BY <2>0, Marks DEF StreamType, RecType
    <3>4. up'.recs # <<>> /\ up'.recs[Len(up'.recs)] = r
      BY <3>2, <3>3
    <3> QED BY <3>1, <3>2, <3>4 DEF Up!Put
  <2>2. CASE NextRecord
    <3>1. PICK len \in Header(up, Front(reader)) :
            /\ Unread(reader) >= HdrLen /\ Legal(len)
            /\ got' = Append(got, [at |-> Front(reader), len |-> len])
      BY <2>2 DEF NextRecord
    <3> DEFINE r == up.recs[Len(got) + 1]
    <3>2. Len(got) < Len(up.recs) /\ r \in RecType /\ r.at = Front(reader) /\ len = r.len
      BY <2>0, <3>1, AtFront
    <3>3. r = [at |-> Front(reader), len |-> len] /\ r.len \in 1 .. MaxRecord
      BY <3>1, <3>2 DEF RecType, Legal
    <3> QED BY <2>2, <3>1, <3>2, <3>3 DEF NextRecord, Up!Get
  <2>3. SendBytes \/ Recv => up'.recs = up.recs /\ got' = got
    BY <2>0, Written, Received DEF SendBytes, Recv
  <2>4. /\ \A len : Enqueue(len) => UNCHANGED upVars
        /\ Leave \/ Wake \/ FlushSends \/ FlushEnds \/ RecvNothing \/ NeedMore => UNCHANGED upVars
        /\ Malformed \/ HandlerReturns \/ HandshakeGoesOn \/ HandlerFails \/ SocketFails => UNCHANGED upVars
        /\ ClientReads => UNCHANGED upVars
        /\ UNCHANGED vars => UNCHANGED upVars
    BY DEF Enqueue, Leave, Wake, FlushSends, FlushEnds, RecvNothing, NeedMore, Malformed,
           HandlerReturns, HandshakeGoesOn, HandlerFails, SocketFails, ClientReads, ReadsPart, ReadsHeader,
           ReadsBody, ServerClosed, vars
  <2>5. UNCHANGED upVars => up'.recs = up.recs /\ got' = got
    BY DEF upVars
  <2>6. 1 .. MaxRecord \subseteq Nat /\ BadLengths \subseteq Nat
    OBVIOUS
  <2>7. Up!Put \/ Up!Get \/ (up'.recs = up.recs /\ got' = got)
    BY <2>1, <2>2, <2>3, <2>4, <2>5, <2>6, Zenon DEF Next, Loop
  <2> QED BY <2>7
<1> QED BY <1>1, <1>2, FramingInvariant, PTL DEF Spec, UpFifo, Up!Spec

(***************************************************************************)
(* The way down implements it too: what the client shows is what enqueue   *)
(* was given, whole, once and in order.                                    *)
(***************************************************************************)
THEOREM DownIsFifo == Spec => DownFifo
<1>1. Init => Down!Init
  BY DEF Init, Down!Init, Stream
<1>2. FramingInv /\ [Next]_vars => [Down!Put \/ Down!Get]_<<down.recs, shown>>
  <2> SUFFICES ASSUME FramingInv, [Next]_vars PROVE [Down!Put \/ Down!Get]_<<down.recs, shown>>
    OBVIOUS
  <2>0. /\ down \in StreamType /\ shown \in Seq(RecType) /\ StreamOK(down)
        /\ client = "on" => RxOK
        /\ rx.have \in Nat /\ rx.len \in Nat /\ down.received \in Nat
    BY DEF FramingInv, TypeOK, DownInv, StreamType
  <2>1. ASSUME NEW len \in Nat, Enqueue(len) PROVE Down!Put
    <3> DEFINE r == [at |-> End(down), len |-> len]
    <3>1. down' = Add(down, len) /\ shown' = shown
      BY <2>1 DEF Enqueue
    <3>2. down'.recs = Append(down.recs, r)
      BY <2>0, <3>1, Added
    <3>3. down.recs \in Seq(RecType) /\ r \in RecType
      BY <2>0, Marks DEF StreamType, RecType
    <3>4. down'.recs # <<>> /\ down'.recs[Len(down'.recs)] = r
      BY <3>2, <3>3
    <3> QED BY <3>1, <3>2, <3>4 DEF Down!Put
  <2>2. \A n \in 1 .. WireDown : Receives(n) => down'.recs = down.recs /\ RxOK
    BY <2>0, Received DEF Receives
  <2>3. CASE ReadsBody
    <3>1. PICK n \in 1 .. WireDown :
            /\ Receives(n) /\ rx.have + n = rx.len
            /\ shown' = Append(shown, [at |-> down.received + n - HdrLen - rx.len, len |-> rx.len])
      BY <2>3 DEF ReadsBody, NextHeader, Needs
    <3> DEFINE r == down.recs[Len(shown) + 1]
               p == down.received - rx.have - HdrLen
    <3>2. /\ ReadUpTo(down, shown, p) /\ Len(shown) < Len(down.recs) /\ rx.len = r.len
          /\ rx.have + HdrLen <= down.received /\ Legal(rx.len) /\ down'.recs = down.recs
      BY <2>2, <2>3, <3>1 DEF ReadsBody, NextHeader, RxOK, RxFront
    <3>3. r \in RecType /\ r.at = p
      <4>1. Len(shown) + 1 \in 1 .. Len(down.recs) /\ (Len(shown) + 1) - 1 = Len(shown)
        <5>1. Len(shown) \in Nat /\ Len(down.recs) \in Nat
          BY <2>0 DEF StreamType
        <5> QED BY <3>2, <5>1
      <4> QED BY <2>0, <3>2, <4>1, Marks DEF ReadUpTo
    <3>4. r = [at |-> down.received + n - HdrLen - rx.len, len |-> rx.len]
      <4>1. down.received + n - HdrLen - rx.len = p
        <5>1. /\ rx.have + n = rx.len /\ rx.have \in Nat /\ n \in Nat
              /\ rx.len \in Nat /\ down.received \in Nat /\ HdrLen \in Nat
          BY <2>0, <3>1
        <5> QED BY <5>1
      <4> QED BY <3>2, <3>3, <4>1 DEF RecType
    <3>5. r.len \in 1 .. MaxRecord
      BY <2>0, <3>2 DEF Legal
    <3> QED BY <3>1, <3>2, <3>4, <3>5 DEF Down!Get
  <2>4. ReadsPart \/ ReadsHeader => down'.recs = down.recs /\ shown' = shown
    BY <2>2 DEF ReadsPart, ReadsHeader
  <2>5. FlushSends => down'.recs = down.recs /\ shown' = shown
    BY <2>0, Written DEF FlushSends
  <2>6. FlushEnds => down'.recs = down.recs /\ shown' = shown
    BY DEF FlushEnds
  <2>7. /\ \A len : SendRecord(len) => UNCHANGED downVars
        /\ Leave \/ SendBytes \/ Wake \/ Recv \/ RecvNothing \/ NeedMore => UNCHANGED downVars
        /\ Malformed \/ NextRecord \/ HandlerReturns \/ HandshakeGoesOn \/ HandlerFails => UNCHANGED downVars
        /\ SocketFails \/ ServerClosed => UNCHANGED downVars
        /\ UNCHANGED vars => UNCHANGED downVars
    BY DEF SendRecord, Leave, SendBytes, Wake, Recv, RecvNothing, NeedMore, Malformed,
           NextRecord, HandlerReturns, HandshakeGoesOn, HandlerFails, SocketFails, ServerClosed, vars
  <2>8. UNCHANGED downVars => down'.recs = down.recs /\ shown' = shown
    BY DEF downVars
  <2>9. 1 .. MaxRecord \subseteq Nat
    OBVIOUS
  <2>10. Down!Put \/ Down!Get \/ (down'.recs = down.recs /\ shown' = shown)
    BY <2>1, <2>3, <2>4, <2>5, <2>6, <2>7, <2>8, <2>9, Zenon DEF Next, Loop, ClientReads
  <2> QED BY <2>10
<1> QED BY <1>1, <1>2, FramingInvariant, PTL DEF Spec, DownFifo, Down!Spec
=============================================================================
