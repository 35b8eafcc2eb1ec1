----------------------------- MODULE KeyMemory -----------------------------
(***************************************************************************)
(* What one entry of an e2e::Manager keeps in memory: the epoch keys and   *)
(* the private exponents, on the heap of the process until something       *)
(* overwrites them or ~Impl clears them.  The other modules treat a key    *)
(* that is no longer used as gone; here it is gone when its bytes are.     *)
(*                                                                         *)
(* The peer and the network are open: an INIT or an ACK may arrive at any  *)
(* time.  A private exponent is a number, the order in which it was drawn; *)
(* an epoch is its number and the exponent of this side that made its key. *)
(***************************************************************************)
EXTENDS Naturals

CONSTANTS
    None,
    MaxDrawn,   \* bound: exponents drawn
    MaxEpoch    \* bound: epoch numbers

MemoryAssumption == MaxDrawn \in Nat /\ MaxEpoch \in Nat /\ None \notin Nat

VARIABLES
    amA,                       \* the user has the smaller name of the two
    st, rotating, nextEpoch,   \* of the Peer in peers_
    cur, prev, havePrev,
    kp,        \* next_kp: the exponent of its Impl, and the value announced
    heap,      \* the exponents that are still in memory
    drawn      \* how many were drawn

peer == <<st, rotating, nextEpoch, cur, prev, havePrev, kp>>
vars == <<amA, peer, heap, drawn>>

Epochs == [n : 0 .. MaxEpoch, own : 1 .. MaxDrawn]
NoKeyPair == [priv |-> None, pub |-> None]

Init ==
    /\ amA \in BOOLEAN
    /\ st = "none" /\ rotating = FALSE /\ nextEpoch = 0
    /\ cur = None /\ prev = None /\ havePrev = FALSE
    /\ kp = NoKeyPair
    /\ heap = {} /\ drawn = 0

CanDraw == drawn < MaxDrawn
New == drawn + 1

-----------------------------------------------------------------------------
\* start: a Peer of its own, with its own key pair, is moved over the entry;
\* ~Impl clears the exponent that the old next_kp held last.
Start ==
    /\ CanDraw
    /\ st' = "pending" /\ rotating' = TRUE /\ nextEpoch' = 0
    /\ cur' = None /\ prev' = None /\ havePrev' = FALSE
    /\ kp' = [priv |-> New, pub |-> New]
    /\ heap' = (heap \ {kp.priv}) \cup {New}
    /\ drawn' = New
    /\ UNCHANGED amA

\* on_ack and on_init: the key in use becomes the previous one, and the one
\* before that is overwritten.
Retires == prev' = cur /\ havePrev' = TRUE

WinsTie(n) == amA /\ st # "none" /\ rotating /\ nextEpoch = n

\* on_init: the key pair is a local variable, and cleared on return.
OnInit(n) ==
    /\ ~WinsTie(n) /\ CanDraw
    /\ IF st = "none" THEN UNCHANGED <<prev, havePrev>> ELSE Retires
    /\ st' = "up" /\ rotating' = FALSE
    /\ cur' = [n |-> n, own |-> New]
    /\ drawn' = New
    /\ UNCHANGED <<amA, nextEpoch, kp, heap>>

\* Key generation or compute_shared fails: the loser of the tie has dropped
\* its INIT.
OnInitFails(n) ==
    /\ ~WinsTie(n)
    /\ rotating' = (rotating /\ nextEpoch # n)
    /\ UNCHANGED <<amA, st, nextEpoch, cur, prev, havePrev, kp, heap, drawn>>

AckExpected(n) == st # "none" /\ rotating /\ nextEpoch = n

\* on_ack: the secret comes from the exponent that next_kp holds.
OnAck(n) ==
    /\ AckExpected(n) /\ kp.priv # None
    /\ IF st = "up" THEN Retires ELSE UNCHANGED <<prev, havePrev>>
    /\ st' = "up" /\ rotating' = FALSE
    /\ cur' = [n |-> n, own |-> kp.priv]
    /\ UNCHANGED <<amA, nextEpoch, kp, heap, drawn>>

MayRotate == st = "up" /\ ~rotating /\ cur.n < MaxEpoch /\ CanDraw

\* generate on the next_kp of the entry: the Impl takes a new exponent, and
\* the BIGNUM of the one before it is neither cleared nor freed.
Draws(pub) ==
    /\ kp' = [priv |-> New, pub |-> pub]
    /\ heap' = heap \cup {New}
    /\ drawn' = New

Rotates ==
    /\ MayRotate /\ Draws(New)
    /\ rotating' = TRUE /\ nextEpoch' = cur.n + 1

\* Mutant: the rotation has begun when its key pair could not be made.
GenerateFailsLate ==
    /\ MayRotate /\ Draws(kp.pub)
    /\ rotating' = TRUE /\ nextEpoch' = cur.n + 1

\* generate fails after the exponent is drawn: the value announced last stays.
GenerateFails ==
    /\ MayRotate /\ Draws(kp.pub)
    /\ UNCHANGED <<rotating, nextEpoch>>

\* tick, for the entry: the window of the previous key may have closed, and a
\* rotation may be due.
Tick ==
    /\ st # "none"
    /\ havePrev' \in {havePrev, FALSE}
    /\ \/ Rotates
       \/ GenerateFails
       \/ UNCHANGED <<rotating, nextEpoch, kp, heap, drawn>>
    /\ UNCHANGED <<amA, st, cur, prev>>

Next ==
    \/ Start
    \/ \E n \in 0 .. MaxEpoch :
        OnInit(n) \/ OnInitFails(n) \/ OnAck(n)
    \/ Tick

Spec == Init /\ [][Next]_vars

-----------------------------------------------------------------------------
TypeOK ==
    /\ amA \in BOOLEAN
    /\ st \in {"none", "pending", "up"}
    /\ rotating \in BOOLEAN /\ havePrev \in BOOLEAN
    /\ nextEpoch \in 0 .. MaxEpoch
    /\ cur \in Epochs \cup {None} /\ prev \in Epochs \cup {None}
    /\ st = "up" => cur # None
    /\ kp.priv \in heap \cup {None} /\ kp.pub \in 1 .. MaxDrawn \cup {None}
    /\ heap \subseteq 1 .. drawn /\ drawn \in 0 .. MaxDrawn

(***************************************************************************)
(* While an ACK is awaited, next_kp holds the exponent of the value that   *)
(* the INIT carried: a key generation that failed half way, an answer to   *)
(* the peer's INIT or an ACK in between has not put another in its place.  *)
(***************************************************************************)
InitMatchesPair == rotating => kp.priv # None /\ kp.priv = kp.pub

(***************************************************************************)
(* An own exponent goes into one epoch key of an entry at most.            *)
(***************************************************************************)
OneKeyPerExponent == cur # None /\ prev # None => cur.own # prev.own

(***************************************************************************)
(* Together: the key both sides derive is the one the INIT announced, and  *)
(* every epoch has a secret of its own.                                    *)
(***************************************************************************)
ExponentsMatch == InitMatchesPair /\ OneKeyPerExponent

(***************************************************************************)
(* docs/protocol.md:418: "the old key is kept only for a ~10 s grace       *)
(* window (decrypt-only) and then wiped"; :425: "then zeroised".           *)
(***************************************************************************)
OldKeyIsWiped == ~havePrev => prev = None

(***************************************************************************)
(* docs/protocol.md:440: earlier epochs use secrets "whose ephemeral       *)
(* private values were discarded", and dh.h:17 has an exponent wiped when  *)
(* its key pair goes: an exponent that is in memory is in a key pair.      *)
(***************************************************************************)
NoStrayExponent == heap \subseteq {kp.priv}

(***************************************************************************)
(* e2e.h:79: have_prev says that there is a "previous epoch, decrypt-only" *)
(* to open messages with.                                                  *)
(***************************************************************************)
PrevIsAnEpoch == havePrev => prev # None
=============================================================================
