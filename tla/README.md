# A TLA+ model of the secure chat application

The program (`src/`) is a chat server and its clients, built in five phases.
Each phase directory is a whole program that adds a layer to the one before:
plain chat; a Diffie-Hellman exchange and sealed records; certificates;
end-to-end sessions; key rotation. Phase 5 is the finished one. Many of its files
are those of earlier phases: `proto.cpp` is the same in all five, `dh.cpp` and
`crypto.cpp` hardly change, `pki.cpp`, `certcheck.cpp`, `mitm.cpp`, `server.cpp`
and `session.cpp` are the same from phase 3 to 5. Paths below are relative to
`src/phase5/` unless they name a phase.

## The system

| Part | Source | State | Operations | Talks to |
|---|---|---|---|---|
| End-to-end key manager | `e2e.{h,cpp}` | `peers_`: one entry per peer, with the current and the previous epoch key, their counters, and an open INIT | `start`, `on_init`, `on_ack`, `seal`, `open`, `tick` | called by the three client threads |
| Client | `client.cpp` | the outer session, the manager, two mutexes, the socket | main thread: `handle_input`; reader: `display`; timer: `rotation_timer`; all: `send_line` | the server, by records; the other clients, by lines the server passes on |
| Relay server | `server.cpp` | `g_conns`, `g_by_name`, one output queue per connection | the poll loop: accept, read, handle a record, flush, drop | all clients |
| Outer session, handshake | `session.{h,cpp}` | keys, a counter per direction, the step of the handshake | `feed`, `client_handshake`, `seal`, `open` | server and client |
| Record framing | `proto.{h,cpp}` | the buffer of the incremental reader | `send_record`, `recv_record`, `feed`, `next` | everything that uses a socket |
| Key pairs | `dh.{h,cpp}` | a private exponent and its public value | `generate`, `compute_shared` | manager, handshake |
| Ciphers, hashing, base64 | `crypto.{h,cpp}` | none | `seal`, `open`, `b64_*` | session, manager |
| Certificates | `pki.{h,cpp}`, `certcheck.cpp`, `pki/` | a trust store | `validate_cert`, `sign`, `verify_signature` | handshake |
| Demonstration proxy | `mitm.cpp` | two sessions | `handshake_as_server`, `pump` | client and server |
| Phase 1 | `phase1/` | the relay, its queues and names; a client of two threads | the chat, in the clear | |
| Phase 2 | `phase2/` | and a session per connection | the exchange without certificates, sealed lines, the first proxy | |
| Phase 3 | `phase3/` | and `g_creds`, a trust store | the authenticated exchange | |
| Phase 4 | `phase4/` | and a manager with one epoch per peer | `/e2e` and tagged lines | |

What is hard, and where the properties aim:

* **Two managers agree without a coordinator.** INITs cross, ACKs carry an
  epoch number and nothing else, either side may restart. Correct means: one
  secret per epoch, no nonce used twice, counters in step, messages in flight
  still open, and every handshake ends.
* **Three threads share a manager and a send counter**, under two mutexes that
  are never held together. What a thread decides under the first lock it sends
  after releasing it.
* **Records over a byte stream.** Bytes arrive cut anywhere; two readers, one
  blocking and one incremental, must find the same records, and the incremental
  one decides when to reclaim its buffer and when to wait.
* **One server thread, many sockets.** Connections end in the middle of a
  pass, descriptors are used again, queues grow, and the implicit counters of
  every layer need each record delivered once and in order. What users see of
  all this must still be one chat: `ChatService` says what that is.
* **A handshake in many steps with many ends.** Either side may fail, leave or
  be stopped between any two records, and a client must not have contributed
  anything before it has made every check, whichever server it meets and however
  often that one was restarted.

The hazards, each at its line, with the properties that are about it, are in
`PROJECT.json`.

## The modules

The end-to-end layer:

| Module | What it is |
|---|---|
| `E2EPeer` | one entry of `peers_` and what each method of `Manager` does to it; no variables |
| `EpochKeys` | the managers of all users when *any* key-exchange message may arrive at *any* time: loss, delay, duplication, reordering and restarts are all allowed. The abstract specification |
| `Lines` | the lines that travel between two clients, and the properties of a pair of clients |
| `E2E` | clients driven one event at a time, behind a relay that keeps order; they may log out, type `/e2e` again, crash and come back. Implements `EpochKeys` |
| `E2ESession` | the inductive invariant of a session in `E2E` that nobody breaks off |
| `ClientThreads` | the same clients as three threads each, with `send_line` in its two halves. Implements `EpochKeys` too |
| `OneEpoch` | phase 4: its manager, the two threads of its client, and the relay between them |
| `KeyMemory` | what one entry of a manager keeps in memory: exponents and epoch keys until they are overwritten |

The server, the outer session and the wire:

| Module | What it is |
|---|---|
| `Relay` | the server's loop and its clients' sockets |
| `RelayStreams` | the inductive invariant of `Relay` about what is on its streams and in its clients' queues |
| `RecordFifo` | what framing promises: records are taken whole, once and in order, up to the first bad length. The abstract specification of `Framing` |
| `Framing` | one connection as bytes: `send_record`, `recv_record` and the socket on the client's side, `RecordReader`, the output queue and one connection's part of the loop on the server's. Implements `RecordFifo` twice, once per direction |
| `SecureLines` | what the outer layer promises for one direction of a chat: only a genuine server is spoken to or speaks, and lines arrive unchanged, once and in order. The abstract specification of `Proxy` |
| `Handshake` | one connection: `client_handshake` at one end, `ServerHandshake::feed` in `drain_records` at the other, and the sealed lines after it |
| `Proxy` | a client and the server on one such connection, or on two with the proxy of `mitm.cpp` between them. Implements `SecureLines` twice, once per direction |
| `ProxyLines` | the inductive invariant of `Proxy` about the lines of both directions |
| `DhGroup` | the arithmetic of `dh.cpp`, in the group of a small safe prime |
| `Encoding` | base64, the bodies of the handshake records, INIT payloads, the nonce, and the words of a line |

Whole systems, phase by phase:

| Module | What it is |
|---|---|
| `ChatService` | what the chat promises its users: a roster of names and an inbox for each user, in which lines stand in the order they happened. The abstract specification of the next three |
| `PlainChat` | phase 1: relay and clients, sockets and queues that fill, a limit on descriptors, strangers that say anything, and a relay that stops and starts. Implements `ChatService` |
| `PlainRoster` | the inductive invariant of `PlainChat` about sockets, names, news and logins |
| `SealedChat` | phase 2: the exchange, the sealed lines and the proxy, one victim after the other, in front of the same relay. Implements `ChatService` |
| `SealedLegs` | the inductive invariant of `SealedChat`: the two ends of every leg and what is on it, the names, and that LOGIN comes first |
| `CertChat` | phase 3: many clients in the authenticated exchange on their way into the chat, servers that stop and start with other credentials, certificates that run out. Implements `ChatService` for the clients of each server |
| `CertExchange` | the inductive invariant of `CertChat` about the exchange, the lines behind it and the names |

`MCE2E`, `MCClientThreads`, `MCRelay`, `MCFraming`, `MCProxy`, `MCPlainChat`,
`MCSealedChat`, `MCCertChat` and `MCParts` are the instances for TLC.
`KeyProofs` (about `EpochKeys`, `E2E` and `ClientThreads`), `OneEpochProofs` (about
`OneEpoch` and `KeyMemory`),
`RelayProofs`, `FramingProofs`, `ProxyProofs` (about `Handshake` and `Proxy`),
`PlainChatProofs`, `SealedChatProofs` and `CertChatProofs` hold the theorems.

`EpochKeys` extends `E2EPeer`, `Lines` extends `EpochKeys`, and `E2E` and
`ClientThreads` extend `Lines`. They have the variables of `EpochKeys` and more,
so the refinement mapping is the identity and the abstract specification,
`KeySpec`, is a property of both. The three chats map `g_by_name` to the roster,
and to each inbox what is queued for a client and not yet read by it: with the
proxy in between that is two stretches of wire, one behind the other.

`MCParts` runs `OneEpoch`, `KeyMemory`, `DhGroup` and `Encoding` side by side; it and
`OneEpochProofs` have `KeyMemory` through `MemoryPart`, which only instantiates it.
The four share nothing; `part` says which one moves and the other three stay in one
initial state, so the states of the run are the sum of theirs.

### How the state corresponds

* A user is a number, its rank among the names; `me < peer` is the a-side test.
* A key pair is `<<owner, peer, i>>`, the i-th its owner made for that peer; a
  public value stands for its pair. A secret is the set of two pairs, which
  makes both sides compute the same one, and different pairs give different
  secrets: this is what is assumed of Diffie-Hellman and of the hash. `DhGroup`
  checks the first half in a group of order 11.
* An epoch key is `(number, secret, direction)`, what `derive` hashes. A
  ciphertext opens under the key and the counter it was sealed with and under
  no other: this is what is assumed of AES-GCM.
* Time is not counted. `grace` is `Clock::now() < grace_until` and may become
  false at any moment; a rotation may be due at any moment, for either side,
  so the 60 s and 75 s of the code are one of the cases. `CertChat` counts days.
* In `Relay`, a connection's `stream` is every record ever put on its queue and
  `flushed` how many the socket has taken. `turn` is the position of the loop
  inside a pass, `revents` what `poll` reported and is not served yet,
  `doomed` the sockets to drop at the end of the pass.
* In `Framing`, a byte is its position in its stream. `reader` and `out` are
  windows of it: the position of the first byte held, how many are held, and how
  many of these are consumed (`off_`, `out_off`). A stream remembers where its
  records begin; the header bytes at such a place say the length, and the same
  number of bytes read anywhere else may say anything, so a reader that lost its
  place is seen at once. The refinement to `RecordFifo` maps the records put on a
  stream and the records its reader took.
* In `Handshake`, a record is its kind and what it carries. A certificate is its
  key and the set of things wrong with it, so `validate_cert` accepts it when there
  are none; a signature is a key and the data it signs. `Genuine` is what a client
  is to find out: the certificate is good and the server holds the key in it. A
  random value and a key pair are fresh, so they are named after the connection and
  the end that made them; a session is the two keys `derive_keys` makes of the
  secret and the transcript. `up` and `down` are the records on the way in the two
  directions of a connection, ended by `Eof` when the sender closed or shut it down.
  `creds` are what a server presents: the chat server's, or the proxy's.
* In `PlainChat`, `SealedChat` and `CertChat`, a client is its descriptor or its
  process and connects once; a line is its verb, a name and a message number.
  `ends` is the set of sides that still hold a connection, so data on the way
  outlives the side that sent it, and `conns[c].st` is `none` when `g_conns` has no
  entry, `doomed` when `want_close` is set, `flushed` when its queue is out.
  `PlainChat` keeps `out` of a connection and the socket apart; the other two join
  them into one sequence, since what they are about does not depend on it.
  A credential of `CertChat` is a certificate (trusted or not, for which host,
  with which key, until which day) and the key beside it in the server's files.
* In `OneEpoch`, `pend` is what a thread was given under `g_e2e_mu` and has not
  sent yet; `up` and `down` are the two halves of the way through the relay.
* In `KeyMemory`, an exponent is the number in which it was drawn, and `heap` the
  exponents whose bytes nobody has cleared or written over.
* In `Encoding`, a byte is a digit of base `Q^4` and a base64 character one of base
  `Q^3` (`Q` is 4 in the code, 2 in the run), so three bytes are four characters
  all the same. A decoder is the set of what it reads: one value, or none.

### How the actions correspond

`E2E` has an action per outcome of each handler: `RecvInit`, `IgnoreInit` (the
tie is won), `FailInit` (key generation fails after the own INIT was dropped),
`RecvAck`, `RefuseAck`, `RecvMsg`, `RefuseMsg`, `Start`, `SendMsg`, `Tick`.
`Tick` is one pass over all entries, as `tick` is. `RelayDrops` and
`SenderLoses` are the lines lost with a client that is gone.

`ClientThreads` splits each of them where the code lets go of `g_e2e_mu`: the
handler leaves what it has to say in `pend`, and `SealRecord`, `WriteRecord`
(under `g_send_mu`) and `SkipLong` are `send_line`. The outer counter of the
client, and the one of the server that opens the records, are in it; a key generation
that fails is left to `E2E` and `KeyMemory`. `OneEpoch`
does the same for the two threads of phase 4: `TypeE2E` and `TypeMessage` are
what the main thread decides, `Reader` what arrives, `Send` the half after the lock,
`SkipLong` what it leaves out.

`Relay` has one action per step of the loop: `Poll` (with the accepts), `Serve`
(up to the read), one action per kind of record and reply, `ReadFails`,
`Finish`, `Drop`. The clients act between any two of them. `PlainChat` has the
same loop, with `accept` that fails for want of descriptors and `Flush` that
writes what the socket takes; one line of the relay is one action, with everything
its handler does.

`Framing` follows one connection through the loop: `Wake` (`poll`), `FlushSends`
and `FlushEnds` (`flush_out` for POLLOUT, and once more after the handlers),
`Recv`, then `NextRecord`, `NeedMore` or `Malformed` (the three answers of
`next`), and `HandlerReturns`, `HandshakeGoesOn` or `HandlerFails` (what
`drain_records` does with the handler's answer). `Enqueue` is any handler that
has something to say. On the client's side `SendRecord` and `SendBytes` are
`send_record` and the loop of `send_all`; `ReadsPart`, `ReadsHeader` and
`ReadsBody` are `recv_record`, its two `recv_all` cut wherever `recv` cuts them.

`Handshake` has an action per record the client waits for (`ReadCert`, `ReadKex`,
`ReadProof`, and `GivesUp` for any other), then `Rejects` or `Contributes`, and
`Installs`; any step may fail instead (`Leaves`). The server's are the outcomes of
`drain_records`: `AnswersHello`, `Completes`, `FeedFails`, `HandlesLine`, `Drops`,
then `Closes`. `Reset` is TCP: an end that is closed with unread data may take back
what it sent. In `Proxy`, `Main` is `main` of `mitm.cpp` for one victim, which uses
the same actions for its own two ends, and `PumpUp` and `PumpDown` are its two
threads; a pump that ends shuts the *other* socket down, and that is what the
other pump sees. `SealedChat` has `main` with its accept loop.

In `SealedChat` and `CertChat` a record, with all its handler does, is one action
of the relay for its connection; `SendUsers` has the one reply that `enqueue` may
refuse, since what a client sends is too short to make another one longer than a
record. The client's steps are those of its handshake,
`Login` (the verdict), `Reads`, `SeesClose` and what its user types. `StartServer`
of `CertChat` picks the credentials, a certificate with the key of another one
included, since `load_server_creds` does not compare them; `StopServer` closes every
connection.

`DhGroup` takes `mod_exp` one bit at a time (`Loop`), called by `generate`, by
`compute_shared` and by `mod_exp_hex`. `KeyMemory` has one action per method, with
`generate` failing before or after the new exponent was drawn. `Encoding` only
grows an input; the conversions are operators applied to each of them.

## The runs

Two users (or two descriptors) are enough for most of what is checked: a manager
keeps one entry per peer and no operation touches two except `tick`, whose passes
are independent; the server's interactions are between one sender and one receiver.

| Run | Bounds | Result |
|---|---|---|
| `E2E` | 3 epochs, 3 key pairs per side, 2 messages each way, key generation may fail, one break (logout, crash, or `/e2e` typed again); after the break each side makes no more than 3 pairs and has sent no more than 2 messages (`MCFew`) | `NonceFresh`, `SessionAgrees`, `SessionLockstep`, `SessionDecrypts`, `SessionInOrder` hold |
| `Threads` | 2 epochs, 2 own INITs, 1 message of either length; a session is started once per side; fair | `RecordsInOrder`, `HandshakeCompletes`, `RotationEnds`, `PreviousKeyRetires` hold and `KeySpec` is implemented |
| `Threads_start` | 2 INITs, no messages | `NeverDiverge` is violated |
| `Relay_route` | 2 descriptors, 2 names and invalid ones, a roster of one name fits in a record and one of two does not, 4 requests (`LOGIN`, `MSG`, `QUIT`, the last of any kind), 2 connections each, 2 unread | `NamesInverse`, `VerdictFirst`, `Delivery`, `DriftIsOwn` hold |
| `Relay_live` | 2 descriptors, 1 name, 2 requests (`LOGIN`, `QUIT`, a handshake), 1 unread, queue cap 1, clients may stall, fair | `WantCloseCloses`, `DepartedIsDropped` hold |
| `Framing` | headers of 2 bytes, records up to 2, chunks of 4, sockets of 4 and 2 bytes, queue cap 4 bytes; the client sends 2 records, of any length, 0 and too long ones included, the server 2; fair | `BufferBounded`, `Delivered` hold and `RecordFifo` is implemented in both directions (`UpFifo`, `DownFifo`) |
| `Proxy` | the client's connection and the proxy's; the five certificates of `pki/`: the server's, one nobody signed, the server's with another key, one for another name, an expired one, for the server and for the proxy; clients of this version and of the one before; 3 lines each way; the proxy alters a record or not; fair | `SameKeys`, `NothingRevealed`, `LinesOpen`, `EverythingEnds` hold and `SecureLines` is implemented in both directions (`BothWays`) |
| `Plain` | 2 descriptors, one of them a stranger's that may say anything; 2 names; room for 1 or 2 clients at the relay; sockets of 1 line, queue cap 2, 1 message, 2 other lines, 1 start of the relay; fair | `AdmittedIsRegistered`, `NewsAgree`, `EveryoneIsServed` hold and `ChatService` is implemented |
| `Sealed` | 2 clients, one of them behind the proxy, either possibly a stranger; 2 names, a roster of one fits in a record and one of two does not; 1 line, 2 records of strangers; the proxy alters one record; key generation may fail | `FingerprintsTell`, `LinesInStep` hold and `ChatService` is implemented |
| `Cert` | 2 clients, one of them possibly a stranger; the relay's address with four credentials: a certificate for one day, its renewal with the old key beside it, a forged one, another host's; 2 names, a roster of one fits in a record; 2 starts, 2 days, 1 line, 1 record of the stranger, at most three of these in one behaviour (`MCFew`); key generation may fail | `NothingBeforeProof`, `NobodyJoinsExpired` hold and `ChatService` is implemented |
| `Parts` | `OneEpoch`: 2 users, `/e2e` from both and again, one of them leaving and coming back, 4 key pairs in all (`MCFew`), 2 messages. `KeyMemory`: 6 exponents, 4 epochs. `DhGroup`: p = 23, exponents of 3 bits, every peer value below 32, `mod_exp_hex` up to 9. `Encoding`: up to 4 bytes, 8 characters, bodies of 9 bytes, lines of 7, a length past one byte's range | `NonceFresh`, `OpenedInOrder` of `OneEpoch`, `ExponentsMatch`, `GroupIsSound` and `ConversionsExact` hold |
| `KeyMemory_wiped` | 6 exponents, 4 epochs | `OldKeyIsWiped` is violated |

The bounds let the interesting cases happen: three epochs are one more than the
two keys an entry holds; two own INITs per side are a crossing and another one;
one break is a session with a past on one side and none on the other; two
connections per descriptor are a descriptor used again, while a message of
its former user may be on a queue; a cap of one record is reached by two; a
chunk of four bytes ends inside a header, inside a body, between two records, or
holds the end of one and the beginning of the next, and a socket of two bytes
takes a queued record in parts; three lines are a login, an altered message and
one after it; a socket of one line makes the relay queue the second; with room for
one client the other stays in the backlog; one client behind the proxy and one that is
not show both sides of the fingerprints, and they are on line at once, so rosters of
two names occur; two starts are a restart, with the certificate that has run out in
the meantime or another; p = 23 has elements of order 1, 2, 11 and 22. A second victim,
who takes the accept loop of the proxy round, makes `Sealed` too large for TLC; the
proofs are for any number of victims.

The bounds in guards are on what *originates* something: a client always answers,
and the server always goes on. The two constraints named `MCFew` cut a behaviour
where it leaves the instance; they stand in runs without liveness. They
were chosen after runs without them: `E2E` without its constraint passes too, it
takes twice as long. `CHECK_DEADLOCK FALSE` is
`poll` waiting for clients that have nothing more to say, or a connection closed on
both sides, or an input that has its full length.

`SessionAgrees`, `SessionLockstep`, `SessionDecrypts` and `SessionInOrder` speak of
two users until one of them breaks the session off: logs out, crashes, or types
`/e2e` again. After that the two ends may disagree until somebody rotates, since an
ACK names an epoch and nothing else; `NonceFresh` holds all the same.

`BufferBounded` speaks of connections the server is not about to close: once
`want_close` is set the loop takes one chunk and at most one record per pass, so
records stay behind in the buffer and it may grow until the queue is flushed.

The properties that are conjunctions name their parts: `Delivery` is
`NoMisdelivery /\ NoGaps`, `BothWays` the
two refinements, `EverythingEnds` handshakes, departures and tampering,
`EveryoneIsServed` messages and connections.

Smaller instances of `SealedChat`, `CertChat` and `OneEpoch` under their
`FairSpec` also satisfy the liveness properties stated there (`HandshakeEnds`,
`NameIsFreed` and `TamperingIsCaught`; `HandshakeEnds` and `GoneIsForgotten`;
`HandshakeEnds` where nobody leaves); no run is kept for them.

### What disagrees with the documentation

Two runs check a sentence of the documentation and find it violated; `PROJECT.json`
quotes it with its line.

1. `Threads_start`: between `start` and its `send_line` the reader may settle the
   crossing by giving up that very INIT, which is sent all the same. The peer
   answers it like a new one, its ACK is refused, and the two sides stay on
   different keys.
2. `KeyMemory_wiped`: after the grace window the previous key is marked unused; its
   bytes stay in the entry until another rotation writes over them.

### Other divergences

Each of these is a definition beside the properties, with the sentence it checks,
and TLC finds it false when it is added to a configuration as given here:

| Definition | Configuration | The code | The sentence |
|---|---|---|---|
| `RotationResumes` (`Lines`) | `MCE2E` with `FairSpec`, 2 key pairs, no messages, no failing generation | `e2e.cpp:226`: an INIT that finds the peer gone is never sent again, and while it is open that side does not rotate; when both sides wait so, nobody does | `evidence/phase5/01-verification.md:67-68`: "a crashed initiator does not freeze rotation" |
| `ChatIsNeverInterrupted` (`ClientThreads`) | `MCClientThreads_start.cfg` with 1 message | `client.cpp:114`: between `on_init` and the sending of its ACK the main thread may send a message of an epoch the peer does not know yet | `docs/protocol.md:428-429`: "so chat is never interrupted" |
| `CountersMeet` (`ClientThreads`) | the same, 1 key pair, 1 message, `LongMessages` = `{TRUE}` | `client.cpp:59`: a message near the size limit is sealed, counted, and then not sent, since its line is longer than its text | `docs/protocol.md:390` with `:243-245`: "the two counters stay in lockstep" |
| `QueueIsCapped` (`Relay`) | `MCRelay_live.cfg` with `Spec`, queue cap 0 | `server.cpp:123`: the limit is looked at only for sockets that have an event | `docs/protocol.md:473-474`: "a peer that exceeds it is dropped" |
| `CountersInStep` (`Relay`) | `MCRelay_route.cfg` | `server.cpp:94` with `:78`: a reply to `/who` is sealed, counted, and not queued when it is longer than a record | `docs/protocol.md:243-245`: "the two counters stay in lockstep" |
| `PadIsTrailing` (`MCParts`) | `MCParts.cfg` | `crypto.cpp:183`: a pad is looked at within its own four characters, so text may follow one | `crypto.cpp:183`: "'=' must be trailing" |
| `RelayedIsShown` (`PlainChat`) | `MCPlainChat.cfg` | `phase1/server.cpp:172`: `RELAY` is logged when the message is queued, and the queue goes with the connection | `docs/protocol.md:340-341`: "so the line means the message was actually delivered" |
| `FingerprintsMatch` (`OneEpoch`) | `MCParts.cfg` | `phase4/e2e.cpp:74`: INITs that cross are both answered, and each side ends on the key it derived last | `docs/protocol.md:391`: "Both clients print FP_e2e, which match" |
| `NoFalseAlarm` (`OneEpoch`) | `MCParts.cfg` | `phase4/client.cpp:138`: a plain message sent before the ACK arrived is flagged as a downgrade | `docs/protocol.md:410-411` |
| `NoStrayExponent` (`KeyMemory`) | `KeyMemory_wiped.cfg` | `e2e.cpp:239` with `dh.cpp:101`: `generate` on an object that has a pair drops the old exponent without clearing it | `docs/protocol.md:439-440`, `dh.h:17` |
| `PrevIsAnEpoch` (`KeyMemory`) | `KeyMemory_wiped.cfg` | `e2e.cpp:117`: an entry whose first INIT is still open retires an epoch it never had | `e2e.h:79`: "previous epoch, decrypt-only" |

`CountersInStep` is false in every phase that seals, so `Relay`, `SealedChat` and
`CertChat` have `WhoMax`, the number of names that fit in a record, and their runs have
one name more: the roster is counted and then not queued, and its reader is out of step
from there on. What holds is stated in its place. `DriftIsOwn` of `Relay` says how far
the counters may come apart and by whose doing. `LinesInStep` of `SealedChat` says that
the keys fit all the same, that a counter is never used twice, and that nobody is out of
step but a reader of whom the relay has skipped a roster. A session counts those in
`skipped`, which is no field of the code's; no action reads it.

### Fairness

`E2E` and `ClientThreads`: each thread of a client keeps running (reader, timer,
and in `ClientThreads` every thread that has a line to send), time passes, and
in `E2E` a client that went away comes back. Nobody is obliged to type. Weak
fairness is enough: the reader's next line stays there until it is read, and
`g_send_mu` is held for one seal and one write only.

`Relay`: the loop runs (`WF` on all server steps together, as there is one
thread). `Relay_live` also assumes that a client that stops reading reads again
or leaves; without that its queue may never drain.

`Framing`: the loop runs, `send_all` goes on with a record it has begun, and the
client's reader thread reads. Handlers need not say anything and a client may
leave at any time.

`Proxy`: the client's threads, the server's loop and each thread of the proxy run;
nobody has to say a line, and a client need not leave. The sockets take all that is
sent, as handshakes and chats are short; `Framing` is about sockets that do not.

`PlainChat`: the relay's loop runs while the relay does, and the reader of each
client takes what has arrived; a stranger need not, and may stall for ever.

## What is proved

For all sets of users, epochs, descriptors and names, and without the bounds of
the runs:

* `NonceFreshness` (`KeyProofs`): `KeySpec => []NonceFresh`. The invariant
  alone is not inductive. `KeyInv` adds why it holds: the pair of an INIT that is
  open has been used for nothing (`PendingUnused`), so the secret an ACK completes
  is new whichever ACK it is; the pair `on_init` makes is new; and the counter of
  the current key is past every nonce used with it (`CounterAhead`). The proof is
  by method: one lemma per method says it keeps the invariant of its entry, and
  the entries of the others survive because pairs and ciphertexts are only added.
* `NewKeysAreUnused`: the same facts give the action property `NewKeyIsUnused`.
* `E2EImplementsEpochKeys` (`KeyProofs`): `Spec => KeySpec`. It needs that every
  public value on a wire was made by its sender for its receiver and every
  ciphertext was sealed (`NetOK`), which is inductive with `TypeOK`.
  `E2ENonceFreshness` follows.
* `E2ESessionAgrees`, `E2ESessionLockstep`, `E2ESessionDecrypts` and
  `E2ESessionInOrder` (`KeyProofs`): what two clients hold in common until one of them
  breaks the session off, for all users, epochs and numbers of messages. None of the
  four is inductive, nor is their conjunction: whether an ACK is accepted depends on
  which INITs are on the way in both directions, and whether a message opens on which
  ACK lies before it. `SessionInv` (`E2ESession`) describes a pair of entries together
  with the two sequences of lines between them. They are `Settled` (same epoch and
  secret, and every INIT on the way is its sender's open one or will lose the tie) or
  one side has `Answered` (it is one epoch ahead, its ACK is on the way and it is for
  the other's open INIT, and INITs in front of that ACK will be ignored). In both cases
  the lines are in the order of their epochs with an ACK first (`Ordered`), messages
  are under keys the reader has or is about to get (`KeysKnown`), and per epoch their
  counters leave nothing out between what the reader expects and what the sender uses
  next (`CountersMatch`). TLC checked `SessionInv` on `MCE2E` and on a larger instance
  before the proof. The proof is by line: reading, sending and settling each have a
  lemma for the side that acts and one for the other side, since the invariant of a
  pair is stated for both orders of it.
* `ThreadsImplementEpochKeys` (`KeyProofs`): the same for the three threads. What a
  thread was given under `g_e2e_mu` and has not sent yet is as valid as what is on a
  wire (`PendOK`), however many calls of the other threads come in between, since pairs
  and ciphertexts are only added; `ThreadsNonceFreshness` follows. `RecordsStayInOrder`
  rests on `RecordOK`: either no record lies between its seal and its write and the
  client's counter is the server's, or one does, it has the counter the server expects,
  and the thread that sealed it still has the line.
* `NamesAreInverse`, `RelayTypeCorrect` (`RelayProofs`): `RelayInv` adds to
  `NamesInverse` that the loop serves and dooms open connections only, and that a
  connection is open exactly when a client holds the other end, so a descriptor
  given out by `accept` has no connection and no name.
* `VerdictComesFirst`, `RelayDelivers` and `RelayDriftIsOwn` (`RelayProofs`), for
  all numbers of descriptors, names, connections and requests. For `Delivery` the
  invariant has to say where the next message of a sender will come from:
  `StreamInv` (`RelayStreams`) links each stream to the unread requests of each
  client. In the queue of a client, the messages to one name are numbered through up
  to the client's own count (`QueueInv`); where the last message of its present
  connection on a stream ends, its queue goes on (`LinkInv`); a message taken from the
  queue without being relayed can only be one to a name nobody has, or one of a
  sender that is not logged in, and then no stream holds a message to that name from
  this connection. Messages of earlier connections of
  a descriptor have lower `inc`, so a descriptor used again starts afresh. Most
  steps relay nothing; `Hears` and `Turns` say once what such a step may do to
  a connection and to a client, and the lemmas are about these. TLC checked
  `StreamInv` on the instance of `Relay_route` first. `RelayDriftIsOwn` holds for
  every `WhoMax`, 0 included. `CountInv` has for each connection how many
  of its replies were too long (`Counted`); these and the requests for the roster that are
  unread (`Asks`) are together no more than its client has sent, and a connection that has
  ended keeps neither records nor counter, so a descriptor used again starts in step.
* `FramingTypes`, `BytesAreKept`, `DrainIsComplete`, `ReaderIsBounded`, `UpIsFifo`
  and `DownIsFifo` (`FramingProofs`), for every size of header, record, chunk and
  socket: from `FramingInv`, which says that the front of the server's buffer and
  the place where the client reads are where a record begins, and that the records
  taken so far are those before it (`ReadUpTo`). Records do not overlap
  (`StreamOK`), so the header found there can only be the next record's
  (`HeaderMeans`); a step that takes a record is then a `Get` of `RecordFifo` and
  every other step a `Put` or a stutter. `DrainIsComplete` and `ReaderIsBounded`
  need in addition that the buffer holds no whole record wherever the loop reads
  or waits (`LoopInv`).
* `KeysAgree`, `NothingIsRevealed` and `ProxyTypeCorrect` (`ProxyProofs`), from
  `ProxyInv`. That both ends derive the same keys is no invariant of a step on its
  own: `ConnOK` says of each connection that the records of the handshake are on
  the way once and in order, and what each of them and each end holds at every step
  (the certificate of this server, its public value, the signature of just these, the
  client's value), so what the client verified is what the server sent, and the value
  that completes the server's keys was sent by a client that had found it genuine.
  There is one lemma per action of `Handshake`; most touch nothing of the handshake,
  and `Quiet` with `QuietOK` says once for all that these keep `ConnOK`.
  The proxy acts on two connections at once, and relies on both handshakes being
  over while its pumps run (`ProxyOK`).
* `LinesInvariance`, `ProxyLinesOpen` and `ProxyBothWays` (`ProxyProofs`): the sealed
  lines after the handshake. `LinesOpen` is not inductive: it says that keys and
  counters fit, and not what the records hold, nor that nothing else may follow.
  `LinesInv` (`ProxyLines`) has for each connection and direction a `Wire`: what was
  heard is the first part of what was said, every record that is sealed is the next
  one by number, under the session's key and with the line that was said at that
  place, and while the sender may go on nothing is missing between the two. A record
  that was altered or that has no key ends the direction: the reader fails at it and
  the sender is not heard again. `ProxyHolds` joins the two connections: what
  the proxy said on one is what it heard on the other, and it pumps only after both
  handshakes. From this every step says a line, hears the next one, or changes nothing
  of `SecureLines`, in each direction (`Upwards`, `Downwards`), so `Spec => BothWays`.
  TLC checked `LinesInv` on the instance of `MCProxy` before the proof.
* `OneEpochNonceFreshness` (`OneEpochProofs`): phase 4 never uses a key and nonce
  twice either, with INITs that cross and that are repeated. The manager gives each
  entry one pair of its own, but an ACK may complete an INIT it does not answer, and
  the peer may have sealed under that very key already. `OneInv` therefore speaks of
  directions: a pair belongs to one user and one peer (`SealedBy`), the pair of an
  open INIT has sealed nothing *on this side* (`PairUnused`), and no two sides share
  a direction of a key (`OneSealer`). What the wires carry is its sender's own.
* `OneEpochOpensInOrder` (`OneEpochProofs`): that what was opened under a key is in
  order does not follow from what was opened so far; one has to know where the
  receive counter stands. `OpenInv` has, on top of `OneInv`: what is on the wires was
  really made or really sealed (`WiresReal`), a receive counter counts the messages
  that were opened under its key, and nothing was opened under the pair of an open
  INIT (`CounterTells`). That a message opened at one entry does not move the count of
  another needs that a key is of one entry only (`OneKeyOneEntry`), which is
  a matter of who made the two pairs. TLC checked `OpenInv` first.
* `ExponentsAlwaysMatch` (`OneEpochProofs`), for `KeyMemory` with any number of exponents
  and epochs. That no exponent goes into two epoch keys (`OneKeyPerExponent`) needs that
  while an ACK is awaited the exponent in `next_kp` is not the one the key in use was
  made from, and that an entry which is not up has no epochs (`MemoryInv`); a new
  exponent is unused since they are numbered as they are drawn.
* `PlainRosterInvariance`, `PlainNewsAgree` and `PlainAdmitted` (`PlainChatProofs`),
  for any descriptors, names, strangers and bounds, from `RosterInv` (`PlainRoster`).
  `NewsAgree` needs `NamesInverse`, that `g_by_name` is the inverse of the registered
  connections, since `drop_conn` frees names by descriptor and `broadcast` names the
  user, and `NewsOK`, that nobody was told anything before logging in. A client takes
  the first line that says OK for its own. What makes this right is not in any one
  place: its wire asks for no name but its own (`AsksFor`), so an OK in its queue or
  its socket means that it has the name (`LoginOK`), and the name is its own until
  `drop_conn` closes the socket. `SocketsOK` says that a descriptor that is not open
  has nothing at the relay, and that a socket is not served while it is doomed. The
  proof names what a line may do to the connections (`Reply`, `Wants`, `Post`, `Join`),
  what a flush does (`Moves`) and what a step of one client leaves alone
  (`ClientFrame`), shows each action to be one of these, and argues about these only.
* `PlainChatServes` (`PlainChatProofs`): `Spec => ServiceSpec`. The inbox of a user is
  what its socket holds followed by what is queued, so a flush of any length is
  a stutter (`MoveKeeps`), a line handled is an `Answer`, a `Post` or a `Join`, a line
  taken by the client a `See`, `drop_conn` a `Leave` or a `Forget` that keeps just what
  the socket had taken, and a stop of the relay a `Halt` (`EveryStepServes`). Only
  the safety part is proved; that everybody is served stays with TLC.
  TLC checked `RosterInv` on two instances, with three other lines and one start of
  the relay and with two lines and two starts, before the proof.
* `NothingIsContributed`, `NobodyJoinsAnExpiredServer` and `CertTypes`
  (`CertChatProofs`), from `CertInv` (`CertExchange`), for any clients, strangers,
  servers and certificates. What a client found genuine is the certificate it holds,
  and the property is about the credentials the server has *now*; in between the
  server may have been stopped and started with others. `ProofOK` closes the gap: as
  long as the server holds a connection it has the credentials with which it accepted
  it, all that is on the way shows those (`ShownBy`), and so does what the client has
  read; stopping the server ends every connection it holds (`SiteOK`), and records it
  still sent then prove nothing to anybody the property is about.
* `CertChatServes` (`CertChatProofs`): `Spec => ServiceSpec`, for any one of the
  servers. Here the inbox of a client is the lines among the records on the way to it,
  and records of the exchange are on the same wire. `LinesOK` says that lines come
  after the exchange (`DataLast`), so to queue a line is to append to the inbox, and
  to lose the end of a queue is to cut it; that a client sends its LOGIN before
  any other line (`LoginFirst`), so whoever is told something has asked to be
  let in; and `NamesInverse` that names and connections of each server fit. The
  proof says what a line may do (`Reply`, `Wants`, `Post`, `Join`), what a client
  may do to its side (`Steps`), and argues about these only. TLC checked `CertInv`
  on the instance of `MCCertChat` before the proof.
* `SealedInvariance`, `SealedTypes`, `FingerprintsAlwaysTell` and `LinesAlwaysInStep`
  (`SealedChatProofs`), for any clients, victims, strangers and bounds and every
  `WhoMax`, from `SealedInv` (`SealedLegs`). `LinesInStep` speaks of lines whose two
  ends both have keys; the reason that they fit is older than that. `SealedInv` says it
  of every leg, whoever holds its ends: records of the exchange come first, and the
  sealed ones behind them are numbered upwards, from what the reader expects to what the
  writer uses next (`Stream`), also while the reader has no session yet, and when the
  writer is gone. The gaps are no more than the relay has skipped on this connection, so
  there are none on a leg that is not written by the relay (`DownFits`). `KeysFit` says
  which keys an end of the leg may have, so two ends that have some have the same, and
  the two legs of a victim cannot have the same: this is `FingerprintsTell`. A record altered by the proxy breaks the numbering, which is why
  `UpFits` is only asked where the acceptor still opens what it reads (`Hears`).
  Between its legs the proxy needs `proxy.ssess.tx = proxy.vsess.rx`, and the same the
  other way (`ProxyOK`), and that it passes nothing on before its own exchange with the
  relay is through (`FarOK`). The proof shows what each step does to one leg (a
  record is sent, taken, or cut off the end; an end comes or goes), and that each
  of these keeps a leg as it should be.
* `LoginInvariance` and `SealedChatServes` (`SealedChatProofs`): `Spec => ServiceSpec`.
  The inbox of a victim is what is between the proxy and the victim, followed by what is
  between the relay and the proxy; the second part counts while the relay knows the
  victim or the pump runs that will carry it. So a line that the proxy re-seals moves
  within the inbox (`PumpDownServes`), and a pump that ends cuts the inbox of a user
  who is gone, or of nobody (`PumpEndServes`). A victim's second leg comes into its
  inbox when the relay registers it or the pumps start. That no line is on it then,
  which would appear in the inbox from nowhere, is `LoginInv`: a client asks to be let in
  before it says anything else (`AsksInOrder`), on both legs, so the relay has told it
  nothing before (`ToldNothing`). TLC checked `SealedInv` and `LoginInv` on the instance
  of `MCSealedChat` before the proofs.

The assumptions are the named `ASSUME`s of the modules: users and epochs are
natural numbers and 0 is an epoch; `NoFd` and `NoName` are nobody's; the bounds
are natural numbers; sizes in `Framing` are positive; the two connections of `Proxy`
are connections of `Handshake`, `VERSION` is a version, and `None` is no key of a
session; the placeholders of `SealedChat` for no keys and for no valid public value are
none that anybody derived or generated (`NothingAssumption`); `None` of `KeyMemory` is no
number (`MemoryAssumption`, which `MCParts` assumes of its instance); the users of
`ClientThreads` are finitely many, as the entries of a Manager are. Epoch numbers are a set
in `E2EPeer`, so the wrap-around of `uint32_t` after 2^32 rotations is not modelled.

Only model-checked: the algorithms of `DhGroup` and `Encoding`, which are defined by
recursion over their data and so are out of the prover's reach. So is all liveness: what
eventually happens under fairness is checked by TLC on the instances.

## Not modelled

Text formats, printing and logging (except where a log line makes a claim); the
command line; the encoding of certificates and the chain of checks inside OpenSSL,
and the text `certcheck` prints; AES-GCM and SHA-256 themselves; creating the
listening socket and name resolution; allocation failures; the self-tests, which
check single functions in sequence; scripts, VM set-up, the report and the evidence.

## Plan

1. *Done:* the end-to-end layer, the relay, framing, the handshake and the proxy of
   phase 5, with the proofs named above.
2. *Done:* the earlier phases as whole systems over `ChatService`; the algorithms;
   what memory holds.
3. `Relay` as an implementation of `ChatService`, and of one FIFO per pair of
   clients, which is what `Lines` assumes of it; `CertChat` over `Framing`.
4. *Done:* proofs of the safety properties and of the refinements of all three chats, and
   of what `KeyMemory` keeps.
5. An abstract specification of the proxy of phase 2 alone.
