------------------------------ MODULE Framing ------------------------------
(***************************************************************************)
(* Records over the byte streams of one connection, a length before each:  *)
(* the client sends with send_record and reads with the blocking           *)
(* recv_record; the server reads what there is into a RecordReader, drains *)
(* it, and queues what it has to say for flush_out.  A socket takes and    *)
(* gives any number of bytes at a time.                                    *)
(*                                                                         *)
(* A byte is its position in its stream.  A buffer is a window of it: base *)
(* is the position of the first byte, size how many there are, and off how *)
(* many of them are consumed (buf_ and off_, out and out_off).  The four   *)
(* bytes of a header mean the length of a record if they are where one     *)
(* begins, and might be any number elsewhere.                              *)
(***************************************************************************)
EXTENDS Naturals, Sequences

CONSTANTS
    HdrLen,       \* HDR_LEN
    MaxRecord,    \* MAX_RECORD
    ReadChunk,    \* READ_CHUNK
    MaxOut,       \* MAX_OUT_QUEUE, in bytes
    WireUp,       \* how many bytes the socket holds on the way to the server
    WireDown,     \* and on the way to the client
    BadLengths,   \* lengths other clients may write: 0, or above MAX_RECORD
    MaxSent,      \* bound: records the client sends
    MaxReplies    \* bound: records the server queues

ASSUME FramingAssumption ==
    /\ HdrLen \in Nat \ {0} /\ MaxRecord \in Nat \ {0} /\ ReadChunk \in Nat \ {0}
    /\ WireUp \in Nat \ {0} /\ WireDown \in Nat \ {0}
    /\ MaxOut \in Nat /\ MaxSent \in Nat /\ MaxReplies \in Nat
    /\ BadLengths \subseteq Nat

VARIABLES
    up, down,   \* the bytes to the server and to the client: the records in
                \* them, and how many were written and received
    reader,     \* Conn::reader
    out,        \* Conn::out, out_off
    turn,       \* the server's loop, as far as this connection goes
    got,        \* records the server has handled
    client,     \* is the client there?
    rx,         \* its recv_record: header or body, and how much of it
    shown       \* records the client has read

upVars == <<up, reader, got>>
downVars == <<down, out, rx, shown>>
vars == <<upVars, downVars, turn, client>>

Legal(len) == 1 <= len /\ len <= MaxRecord

Stream == [recs |-> <<>>, written |-> 0, received |-> 0]
Buffer == [base |-> 0, size |-> 0, off |-> 0]

\* Where the record r ends, and all the records of s.
EndOf(r) == r.at + HdrLen + r.len
End(s) == IF s.recs = <<>> THEN 0 ELSE EndOf(s.recs[Len(s.recs)])

Add(s, len) == [s EXCEPT !.recs = Append(s.recs, [at |-> End(s), len |-> len])]

Readable(s) == s.written - s.received
\* What the sockets still take.
RoomUp == WireUp - Readable(up)
RoomDown == WireDown - Readable(down)

\* What the header at position p says.
Header(s, p) ==
    LET here == {i \in 1 .. Len(s.recs) : s.recs[i].at = p}
    IN  IF here # {} THEN {s.recs[i].len : i \in here} ELSE 0 .. MaxRecord + 1

Unread(b) == b.size - b.off

Reclaim(b) == [base |-> b.base + b.off, size |-> b.size - b.off, off |-> 0]

Init ==
    /\ up = Stream /\ down = Stream
    /\ reader = Buffer /\ out = Buffer
    /\ turn = [at |-> "poll", in |-> FALSE, want |-> FALSE]
    /\ got = <<>>
    /\ client = "on"
    /\ rx = [at |-> "header", have |-> 0, len |-> 0]
    /\ shown = <<>>

Closed == turn.at = "closed"
At(stage) == turn.at = stage
Goes(stage) == turn' = [turn EXCEPT !.at = stage]

-----------------------------------------------------------------------------
(* The client sends.  One record is on its way at a time: g_send_mu. *)

SendRecord(len) ==
    /\ client = "on" /\ up.written = End(up)
    /\ Len(up.recs) < MaxSent
    /\ Legal(len) \/ len \in BadLengths
    /\ up' = Add(up, len)
    /\ UNCHANGED <<reader, got, downVars, turn, client>>

SendBytes ==
    /\ client = "on" /\ ~Closed
    /\ \E n \in 1 .. WireUp :
        /\ n <= End(up) - up.written /\ n <= RoomUp
        /\ up' = [up EXCEPT !.written = @ + n]
    /\ UNCHANGED <<reader, got, downVars, turn, client>>

Leave ==
    /\ client = "on"
    /\ client' = "gone"
    /\ UNCHANGED <<upVars, downVars, turn>>

-----------------------------------------------------------------------------
(* The server: one pass of the loop for this connection. *)

InEvent == Readable(up) > 0 \/ client = "gone"

\* Mutant: POLLOUT is not asked for.
OutEventNever == FALSE

OutEvent == Unread(out) > 0 /\ (RoomDown > 0 \/ client = "gone")

Wake ==
    /\ At("poll") /\ (InEvent \/ OutEvent)
    /\ turn' = IF OutEvent THEN [turn EXCEPT !.at = "out", !.in = InEvent]
                           ELSE [turn EXCEPT !.at = "recv"]
    /\ UNCHANGED <<upVars, downVars, client>>

Flushing == At("out") \/ At("after")

FlushSends ==
    /\ Flushing
    /\ \E n \in 1 .. WireDown :
        /\ n <= Unread(out) /\ n <= RoomDown
        /\ out' = [out EXCEPT !.off = @ + n]
        /\ down' = [down EXCEPT !.written = @ + n]
    /\ UNCHANGED <<upVars, rx, shown, turn, client>>

\* clear, or erase what was sent if it is much.
Sent(b) == IF b.off = b.size \/ b.off >= MaxRecord THEN Reclaim(b) ELSE b

\* The socket takes no more; then the next step of the pass.
FlushEnds ==
    /\ Flushing /\ (Unread(out) = 0 \/ RoomDown = 0)
    /\ out' = Sent(out)
    /\ turn' = [turn EXCEPT !.in = FALSE, !.at =
            CASE Unread(out) > MaxOut -> "closed"
              [] Unread(out) <= MaxOut /\ At("out") -> IF turn.in THEN "recv" ELSE "after"
              [] OTHER -> IF turn.want /\ Unread(out) = 0 THEN "closed" ELSE "poll"]
    /\ UNCHANGED <<upVars, down, rx, shown, client>>

\* POLLERR, or send or recv fails.
SocketFails ==
    /\ client = "gone" /\ (At("poll") \/ Flushing \/ At("recv"))
    /\ Goes("closed")
    /\ UNCHANGED <<upVars, downVars, client>>

\* Mutant: the buffer is reclaimed only when all of it is consumed.
FedRarely(b, n) ==
    LET c == IF b.off = b.size THEN Reclaim(b) ELSE b IN [c EXCEPT !.size = @ + n]

Fed(b, n) ==
    LET c == IF b.off = b.size \/ b.off >= MaxRecord THEN Reclaim(b) ELSE b
    IN  [c EXCEPT !.size = c.size + n]

Recv ==
    /\ At("recv")
    /\ \E n \in 1 .. ReadChunk :
        /\ n <= Readable(up)
        /\ reader' = Fed(reader, n)
        /\ up' = [up EXCEPT !.received = @ + n]
    /\ Goes("drain")
    /\ UNCHANGED <<got, downVars, client>>

RecvNothing ==
    /\ At("recv") /\ Readable(up) = 0
    /\ Goes(IF client = "gone" THEN "closed" ELSE "after")
    /\ UNCHANGED <<upVars, downVars, client>>

\* What next() sees at the front of the buffer b.
Front(b) == b.base + b.off

Whole(b, len) == Unread(b) >= HdrLen + len

\* Mutant: the buffer is cleared after each record.
ConsumedClears(b, n) == [base |-> b.base + b.size, size |-> 0, off |-> 0]

Consumed(b, n) ==
    LET c == [b EXCEPT !.off = b.off + n] IN IF c.off = c.size THEN Reclaim(c) ELSE c

NeedMore ==
    /\ At("drain")
    /\ \/ Unread(reader) < HdrLen
       \/ \E len \in Header(up, Front(reader)) : Legal(len) /\ ~Whole(reader, len)
    /\ Goes(IF turn.want THEN "after" ELSE "recv")
    /\ UNCHANGED <<upVars, downVars, client>>

Malformed ==
    /\ At("drain") /\ Unread(reader) >= HdrLen
    /\ \E len \in Header(up, Front(reader)) : ~Legal(len)
    /\ Goes("closed")
    /\ UNCHANGED <<upVars, downVars, client>>

NextRecord ==
    /\ At("drain") /\ Unread(reader) >= HdrLen
    /\ \E len \in Header(up, Front(reader)) :
        /\ Legal(len) /\ Whole(reader, len)
        /\ got' = Append(got, [at |-> Front(reader), len |-> len])
        /\ reader' = Consumed(reader, HdrLen + len)
    /\ Goes("handle")
    /\ UNCHANGED <<up, downVars, client>>

\* A handler, of this connection or of another one, has something to say.
Enqueue(len) ==
    /\ At("handle") \/ At("poll")
    /\ Len(down.recs) < MaxReplies
    /\ Legal(len)
    /\ down' = Add(down, len)
    /\ out' = [out EXCEPT !.size = @ + (HdrLen + len)]
    /\ UNCHANGED <<upVars, rx, shown, turn, client>>

AfterRecord(want) == IF want THEN "after" ELSE "drain"

\* A record of the handshake is followed by the next one, want_close or not.
HandshakeGoesOn ==
    /\ At("handle") /\ turn.want
    /\ Goes("drain")
    /\ UNCHANGED <<upVars, downVars, client>>

HandlerReturns ==
    /\ At("handle")
    /\ \E want \in {turn.want, TRUE} :
        turn' = [turn EXCEPT !.want = want, !.at = AfterRecord(want)]
    /\ UNCHANGED <<upVars, downVars, client>>

HandlerFails ==
    /\ At("handle")
    /\ Goes("closed")
    /\ UNCHANGED <<upVars, downVars, client>>

Loop ==
    \/ Wake \/ FlushSends \/ FlushEnds
    \/ Recv \/ RecvNothing \/ NeedMore \/ Malformed \/ NextRecord
    \/ HandshakeGoesOn \/ HandlerReturns \/ HandlerFails

-----------------------------------------------------------------------------
(* The client reads: recv_record. *)

Needs == IF rx.at = "header" THEN HdrLen ELSE rx.len

Body(len) == [at |-> "body", have |-> 0, len |-> len]

\* recv gives n of the bytes that are there.
Receives(n) ==
    /\ client = "on"
    /\ n <= Needs - rx.have /\ n <= Readable(down)
    /\ down' = [down EXCEPT !.received = @ + n]

ReadsPart ==
    /\ \E n \in 1 .. WireDown :
        /\ Receives(n) /\ rx.have + n < Needs
        /\ rx' = [rx EXCEPT !.have = @ + n]
    /\ UNCHANGED <<upVars, out, shown, turn, client>>

ReadsHeader ==
    /\ rx.at = "header"
    /\ \E n \in 1 .. WireDown :
        /\ Receives(n) /\ rx.have + n = Needs
        /\ \E len \in Header(down, down.received + n - HdrLen) :
            IF Legal(len) THEN rx' = Body(len) /\ UNCHANGED client
                          ELSE client' = "gone" /\ UNCHANGED rx
    /\ UNCHANGED <<upVars, out, shown, turn>>

\* Mutant: what was counted of a body that came in parts still counts.
NextHeaderStale == [rx EXCEPT !.at = "header"]

NextHeader == [at |-> "header", have |-> 0, len |-> 0]

ReadsBody ==
    /\ rx.at = "body"
    /\ \E n \in 1 .. WireDown :
        /\ Receives(n) /\ rx.have + n = Needs
        /\ shown' = Append(shown, [at |-> down.received + n - HdrLen - rx.len, len |-> rx.len])
    /\ rx' = NextHeader
    /\ UNCHANGED <<upVars, out, turn, client>>

\* recv returns 0.
ServerClosed ==
    /\ client = "on" /\ Closed /\ Readable(down) = 0
    /\ client' = "gone"
    /\ UNCHANGED <<upVars, downVars, turn>>

ClientReads == ReadsPart \/ ReadsHeader \/ ReadsBody \/ ServerClosed

Next ==
    \/ \E len \in 1 .. MaxRecord : SendRecord(len) \/ Enqueue(len)
    \/ \E len \in BadLengths : SendRecord(len)
    \/ SendBytes \/ Leave
    \/ Loop \/ SocketFails
    \/ ClientReads

Spec == Init /\ [][Next]_vars

(***************************************************************************)
(* The server's loop runs, and so do the client's threads: a send_all that *)
(* has begun goes on, and the reader reads.                                *)
(***************************************************************************)
FairSpec == Spec /\ WF_vars(Loop) /\ WF_vars(SendBytes) /\ WF_vars(ClientReads)

-----------------------------------------------------------------------------
RecType == [at : Nat, len : Nat]
StreamType == [recs : Seq(RecType), written : Nat, received : Nat]
BufferType == [base : Nat, size : Nat, off : Nat]
Stages == {"poll", "out", "recv", "drain", "handle", "after", "closed"}

TypeOK ==
    /\ up \in StreamType /\ down \in StreamType
    /\ reader \in BufferType /\ reader.off <= reader.size
    /\ out \in BufferType /\ out.off <= out.size
    /\ turn \in [at : Stages, in : BOOLEAN, want : BOOLEAN]
    /\ got \in Seq(RecType) /\ shown \in Seq(RecType)
    /\ client \in {"on", "gone"}
    /\ rx \in [at : {"header", "body"}, have : Nat, len : Nat] /\ rx.have < Needs

(***************************************************************************)
(* However the bytes are cut on the way, the records the server handles    *)
(* are the client's, whole, once and in order, and nothing is handled from *)
(* a bad length on.                                                        *)
(***************************************************************************)
Up == INSTANCE RecordFifo WITH put <- up.recs, got <- got, LegalLengths <- 1 .. MaxRecord
UpFifo == Up!Spec

(***************************************************************************)
(* The same from the server's queue to the client.                         *)
(***************************************************************************)
Down == INSTANCE RecordFifo WITH put <- down.recs, got <- shown, LegalLengths <- 1 .. MaxRecord
DownFifo == Down!Spec

\* The buffer holds no whole record, and no header that is refused.
Unfinished ==
    \/ Unread(reader) < HdrLen
    \/ \E len \in Header(up, Front(reader)) : Legal(len) /\ Unread(reader) < HdrLen + len

(***************************************************************************)
(* The loop never waits in poll with a whole record in the buffer: the     *)
(* bytes that would wake it may never come.  Only a connection that is to  *)
(* be closed may leave some.                                               *)
(***************************************************************************)
NothingLeft == (At("poll") /\ ~turn.want) => Unfinished

(***************************************************************************)
(* No byte is skipped or repeated: the buffer ends where the socket was    *)
(* read, and the queue begins where it was written and ends with the last  *)
(* record queued.                                                          *)
(***************************************************************************)
NoByteLost ==
    /\ reader.base + reader.size = up.received
    /\ out.base + out.off = down.written
    /\ out.base + out.size = End(down)

(***************************************************************************)
(* The lazy reclaiming of feed bounds the buffer, whatever a client sends: *)
(* a consumed prefix and an unfinished record, both below a record, and a  *)
(* chunk.                                                                  *)
(***************************************************************************)
BufferBounded ==
    ~turn.want => reader.size <= (MaxRecord - 1) + (HdrLen + MaxRecord - 1) + ReadChunk

\* Nothing is owed in either direction, or there is nobody to give it to.
Settled ==
    /\ Len(got) = Len(up.recs) \/ Closed
    /\ Len(shown) = Len(down.recs) \/ client = "gone"

(***************************************************************************)
(* Every record that was begun is handled in the end, or the connection    *)
(* ends; every record that was queued is read, or the client has left.     *)
(* Both sides begin a bounded number of them, so this is to be settled     *)
(* again and again.                                                        *)
(***************************************************************************)
Delivered == []<>Settled

-----------------------------------------------------------------------------
(***************************************************************************)
(* The inductive invariant: both sides read where a record begins.         *)
(***************************************************************************)
\* The position after the first k records of s.
Mark(s, k) == IF k = 0 THEN 0 ELSE EndOf(s.recs[k])

StreamOK(s) ==
    /\ \A i \in 1 .. Len(s.recs) : s.recs[i].at = Mark(s, i - 1)
    /\ \A i, j \in 0 .. Len(s.recs) : i < j => Mark(s, i) + HdrLen <= Mark(s, j)
    /\ s.received <= s.written /\ s.written <= End(s)

\* The records in seq are the first ones of s, and p is where they end.
ReadUpTo(s, seq, p) ==
    /\ Len(seq) <= Len(s.recs)
    /\ \A i \in 1 .. Len(seq) : seq[i] = s.recs[i]
    /\ p = Mark(s, Len(seq))

\* Where the record begins that the client is reading.
RxFront == IF rx.at = "header" THEN down.received - rx.have
                               ELSE down.received - rx.have - HdrLen

RxOK ==
    /\ rx.have + (IF rx.at = "header" THEN 0 ELSE HdrLen) <= down.received
    /\ ReadUpTo(down, shown, RxFront)
    /\ rx.at = "body" => /\ Len(shown) < Len(down.recs)
                         /\ rx.len = down.recs[Len(shown) + 1].len
                         /\ Legal(rx.len)

UpInv ==
    /\ reader.base + reader.size = up.received
    /\ StreamOK(up)
    /\ ReadUpTo(up, got, Front(reader))

DownInv ==
    /\ out.base + out.off = down.written
    /\ out.base + out.size = End(down)
    /\ StreamOK(down)
    /\ client = "on" => RxOK

LoopInv ==
    /\ ~(At("drain") \/ At("handle") \/ Closed \/ turn.want) => Unfinished
    /\ BufferBounded

FramingInv == TypeOK /\ UpInv /\ DownInv /\ LoopInv
=============================================================================
