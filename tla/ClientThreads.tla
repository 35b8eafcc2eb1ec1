---------------------------- MODULE ClientThreads ----------------------------
(***************************************************************************)
(* The three threads of client.cpp: main reads the keyboard, the reader    *)
(* the socket, and the timer drives rotation.  A thread calls the Manager  *)
(* under g_e2e_mu, lets go of it, and only then sends what the Manager     *)
(* gave it to say; each record it sends is sealed and written under        *)
(* g_send_mu.  Another thread may call the Manager, and send, in between.  *)
(* No lock is held while another of the two is taken.  What a client sends *)
(* in the clear touches no Manager and is left out; so are logouts and     *)
(* crashes, which E2E has.                                                 *)
(***************************************************************************)
EXTENDS Lines

CONSTANTS
    RepeatStart,   \* does a user type /e2e v again when it already has an entry for v?
    LongMessages   \* which of FALSE, TRUE a message may be: too long for a record?

ASSUME ThreadsAssumption ==
    /\ IsFiniteSet(Users)
    /\ RepeatStart \in BOOLEAN /\ LongMessages \subseteq BOOLEAN

VARIABLES
    pend,     \* pend[u][t]: what thread t of u still has to send
    held,     \* held[u]: records sealed and not written: the thread and the counter
    outer,    \* outer[u]: the send counter of u's g_session
    opened    \* opened[u]: the receive counter of the server's session with u

threadsVars == <<keyVars, net, pend, held, outer, opened>>

Threads == {"main", "reader", "timer"}

Line(v, m, long) == [to |-> v, line |-> m, long |-> long]

Free(u, t) == pend[u][t] = <<>>
ToSend(u, t, lines) == pend' = [pend EXCEPT ![u][t] = lines]
ReaderGets(u, v, tag) == Free(u, "reader") /\ HeadTag(u, v, tag)

ThreadsInit ==
    /\ KeyInit
    /\ NetInit
    /\ pend = [u \in Users |-> [t \in Threads |-> <<>>]]
    /\ held = [u \in Users |-> {}]
    /\ outer = [u \in Users |-> 0]
    /\ opened = [u \in Users |-> 0]

-----------------------------------------------------------------------------
(* The main thread. *)

TypeE2E(u, v) ==
    /\ Free(u, "main")
    /\ RepeatStart \/ peers[u][v].st = "none"
    /\ gen[u][v] < MaxKeyPairs
    /\ KeyStart(u, v)
    /\ ToSend(u, "main", <<Line(v, InitLine(0, NewKeyPair(u, v)), FALSE)>>)
    /\ UNCHANGED <<net, held, outer, opened>>

TypeMessage(u, v) ==
    /\ Free(u, "main")
    /\ sent[u][v] < MaxMessages
    /\ KeySeal(u, v)
    /\ \E long \in LongMessages :
        ToSend(u, "main",
            <<Line(v, MsgLine(Ciphertext(u, v, peers[u][v], sent[u][v])), long)>>)
    /\ UNCHANGED <<net, held, outer, opened>>

(* The reader thread. *)

\* Mutant: the ACK is not sent.
ReadInitSilently(u, v) ==
    /\ ReaderGets(u, v, "init")
    /\ LET m == Head(net[v][u]) IN KeyOnInit(u, v, m.n, m.pub)
    /\ Pop(v, u)
    /\ UNCHANGED <<pend, held, outer, opened>>

ReadInit(u, v) ==
    /\ ReaderGets(u, v, "init")
    /\ LET m == Head(net[v][u]) IN
        /\ KeyOnInit(u, v, m.n, m.pub)
        /\ ToSend(u, "reader", <<Line(v, AckLine(m.n, NewKeyPair(u, v)), FALSE)>>)
    /\ Pop(v, u)
    /\ UNCHANGED <<held, outer, opened>>

PassInit(u, v) ==
    /\ ReaderGets(u, v, "init")
    /\ WinsTie(u, v, peers[u][v], Head(net[v][u]).n)
    /\ Pop(v, u)
    /\ UNCHANGED <<keyVars, pend, held, outer, opened>>

ReadAck(u, v) ==
    /\ ReaderGets(u, v, "ack")
    /\ LET m == Head(net[v][u]) IN KeyOnAck(u, v, m.n, m.pub)
    /\ Pop(v, u)
    /\ UNCHANGED <<pend, held, outer, opened>>

PassAck(u, v) ==
    /\ ReaderGets(u, v, "ack")
    /\ ~AckExpected(peers[u][v], Head(net[v][u]).n)
    /\ Pop(v, u)
    /\ UNCHANGED <<keyVars, pend, held, outer, opened>>

ReadMessage(u, v) ==
    /\ ReaderGets(u, v, "msg")
    /\ KeyOpen(u, v, Head(net[v][u]).ct)
    /\ Pop(v, u)
    /\ UNCHANGED <<pend, held, outer, opened>>

\* Mutant: the receive counter moves on a message that did not open.
PassMessageCounts(u, v) ==
    /\ ReaderGets(u, v, "msg")
    /\ ~Opens(u, v, peers[u][v], Head(net[v][u]).ct)
    /\ Update(u, v, [peers[u][v] EXCEPT !.cur.rx = @ + 1])
    /\ Pop(v, u)
    /\ UNCHANGED <<gen, sent, sealed, pend, held, outer, opened>>

PassMessage(u, v) ==
    /\ ReaderGets(u, v, "msg")
    /\ ~Opens(u, v, peers[u][v], Head(net[v][u]).ct)
    /\ Pop(v, u)
    /\ UNCHANGED <<keyVars, pend, held, outer, opened>>

(* The timer thread: the INITs are sent in the order of peers_. *)

TimerTicks(u, due) ==
    /\ Free(u, "timer")
    /\ \A v \in due : gen[u][v] < MaxKeyPairs
    /\ KeyTick(u, due)
    /\ \E order \in [1 .. Cardinality(due) -> due] :
        /\ \A i, j \in DOMAIN order : i < j => order[i] < order[j]
        /\ ToSend(u, "timer",
            [i \in DOMAIN order |->
                Line(order[i], InitLine(NextEpoch(peers[u][order[i]]),
                                        NewKeyPair(u, order[i])), FALSE)])
    /\ UNCHANGED <<net, held, outer, opened>>

WindowEnds(u, v) ==
    /\ GraceElapses(u, v)
    /\ UNCHANGED <<net, pend, held, outer, opened>>

-----------------------------------------------------------------------------
(* send_line, in any thread. *)

\* The caller is told the line was sent.
SkipLong(u, t) ==
    /\ ~Free(u, t) /\ Head(pend[u][t]).long
    /\ ToSend(u, t, Tail(pend[u][t]))
    /\ UNCHANGED <<keyVars, net, held, outer, opened>>

\* Mutant: g_send_mu is not taken.
SendMutexNever(u) == TRUE

SendMutexFree(u) == held[u] = {}

SealRecord(u, t) ==
    /\ ~Free(u, t) /\ ~Head(pend[u][t]).long
    /\ \A r \in held[u] : r.by # t
    /\ SendMutexFree(u)
    /\ held' = [held EXCEPT ![u] = @ \cup {[by |-> t, n |-> outer[u]]}]
    /\ outer' = [outer EXCEPT ![u] = @ + 1]
    /\ UNCHANGED <<keyVars, net, pend, opened>>

WriteRecord(u, t) ==
    /\ \E r \in held[u] : r.by = t /\ held' = [held EXCEPT ![u] = @ \ {r}]
    /\ opened' = [opened EXCEPT ![u] = @ + 1]
    /\ LET l == Head(pend[u][t]) IN Push(u, l.to, l.line)
    /\ ToSend(u, t, Tail(pend[u][t]))
    /\ UNCHANGED <<keyVars, outer>>

Sends(u, t) == SkipLong(u, t) \/ SealRecord(u, t) \/ WriteRecord(u, t)

ReaderRuns(u, v) ==
    \/ ReadInit(u, v) \/ PassInit(u, v)
    \/ ReadAck(u, v) \/ PassAck(u, v)
    \/ ReadMessage(u, v) \/ PassMessage(u, v)

TimerRuns(u) == \E due \in SUBSET (Users \ {u}) : TimerTicks(u, due)

ThreadsNext ==
    \/ \E u, v \in Users : u # v /\
        \/ TypeE2E(u, v) \/ TypeMessage(u, v)
        \/ ReaderRuns(u, v)
        \/ WindowEnds(u, v)
    \/ \E u \in Users : TimerRuns(u) \/ \E t \in Threads : Sends(u, t)

ThreadsSpec == ThreadsInit /\ [][ThreadsNext]_threadsVars

(***************************************************************************)
(* The scheduler runs every thread.  g_send_mu is held for one seal and    *)
(* one write, so a thread that waits for it finds it free.                 *)
(***************************************************************************)
ThreadsFair ==
    /\ \A u, v \in Users : u # v =>
        WF_threadsVars(ReaderRuns(u, v)) /\ WF_threadsVars(WindowEnds(u, v))
    /\ \A u \in Users : WF_threadsVars(TimerRuns(u))
    /\ \A u \in Users, t \in Threads : WF_threadsVars(Sends(u, t))

FairThreads == ThreadsSpec /\ ThreadsFair

-----------------------------------------------------------------------------
(***************************************************************************)
(* The record a thread is about to write carries the counter the server    *)
(* expects next: seal and write are one critical section, so records reach *)
(* the socket in the order of their nonces.                                *)
(***************************************************************************)
RecordsInOrder ==
    \A u \in Users : \A r \in held[u] : r.n = opened[u]

(***************************************************************************)
(* docs/protocol.md, "the two sides can never diverge": with every line    *)
(* sent and read, and no ACK awaited, two clients in the same epoch hold   *)
(* the same secret.  An INIT can leave after the reader gave it up for the *)
(* peer's, and is then answered like a new one.                            *)
(***************************************************************************)
AllSent(u, v) == net[u][v] = <<>> /\ \A t \in Threads : Free(u, t)

NeverDiverge ==
    \A u, v \in Users :
        (/\ u # v /\ BothUp(u, v) /\ AllSent(u, v) /\ AllSent(v, u)
         /\ ~peers[u][v].rotating /\ ~peers[v][u].rotating
         /\ peers[u][v].cur.n = peers[v][u].cur.n)
            => peers[u][v].cur.z = peers[v][u].cur.z

(***************************************************************************)
(* docs/protocol.md: a message in flight across a rotation still decrypts, *)
(* so chat is never interrupted.  When the peer has rotated away from the  *)
(* epoch a client is in, and the client still awaits the ACK, the message  *)
(* it is about to read opens.                                              *)
(***************************************************************************)
ChatIsNeverInterrupted ==
    \A u, v \in Users :
        (/\ u # v /\ BothUp(u, v) /\ peers[u][v].rotating
         /\ peers[v][u].havePrev /\ peers[v][u].prev.z = peers[u][v].cur.z
         /\ ReaderGets(u, v, "msg"))
            => Opens(u, v, peers[u][v], Head(net[v][u]).ct)

(***************************************************************************)
(* docs/protocol.md: the two counters stay in lockstep.  With every line   *)
(* sent and read, two clients that share an epoch key have counted the     *)
(* same messages: one that send_line skipped has been counted by seal.     *)
(***************************************************************************)
CountersMeet ==
    \A u, v \in Users :
        (/\ u # v /\ BothUp(u, v) /\ AllSent(u, v)
         /\ peers[u][v].cur.n = peers[v][u].cur.n
         /\ peers[u][v].cur.z = peers[v][u].cur.z)
            => peers[u][v].cur.tx = peers[v][u].cur.rx
=============================================================================
