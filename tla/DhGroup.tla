------------------------------ MODULE DhGroup ------------------------------
(***************************************************************************)
(* The arithmetic of dh.cpp: mod_exp by square and multiply, and the two   *)
(* methods of KeyPair that call it.  Two sides generate a key pair and     *)
(* compute a secret from the public value they are given, which is the     *)
(* other side's or any number of MODULUS_BYTES bytes; a third caller is    *)
(* mod_exp_hex, with a base, an exponent and a modulus of its own.         *)
(*                                                                         *)
(* A call of mod_exp is a record: the arguments, the accumulator, and how  *)
(* many bits of the exponent are still to be read.                         *)
(***************************************************************************)
EXTENDS Integers

CONSTANTS
    P,         \* the modulus, a safe prime: RFC 3526 group 14 in the code
    G,         \* the generator
    PrivBits,  \* PRIV_BITS
    Bytes,     \* numbers that MODULUS_BYTES bytes can hold: 0 .. Bytes - 1
    Sides,     \* two parties
    Hex,       \* the caller of mod_exp_hex
    MaxHex,    \* bound: the arguments of mod_exp_hex
    None

Prime(n) == n > 1 /\ \A d \in 2 .. n - 1 : n % d # 0

GroupAssumption ==
    /\ Prime(P) /\ Prime((P - 1) \div 2) /\ P <= Bytes
    /\ G \in 2 .. P - 2
    /\ PrivBits \in Nat \ {0} /\ 2 ^ PrivBits <= (P - 1) \div 2
    /\ Hex \notin Sides /\ None \notin Int /\ MaxHex \in Nat

VARIABLES
    at,      \* what a caller is doing
    priv,    \* the private exponent of a side's key pair
    pub,     \* its public value
    given,   \* the peer value it computes a secret from
    secret,  \* what compute_shared returned
    call     \* the call of mod_exp a caller is in

vars == <<at, priv, pub, given, secret, call>>
Callers == Sides \cup {Hex}

\* base ^ exp mod m by its definition.
Power(base, exp, m) ==
    LET p[k \in 0 .. exp] == IF k = 0 THEN 1 % m ELSE (p[k - 1] * base) % m IN p[exp]

NumBits(n) == CHOOSE k \in 0 .. n : n < 2 ^ k /\ (k = 0 \/ 2 ^ (k - 1) <= n)
BitSet(n, i) == (n \div 2 ^ i) % 2 = 1

\* BN_RAND_TOP_ONE: the top bit is set.
Exponents == 2 ^ (PrivBits - 1) .. 2 ^ PrivBits - 1

-----------------------------------------------------------------------------
(* mod_exp. *)

Calls(base, exp, m) ==
    [base |-> base, exp |-> exp, m |-> m, acc |-> 1, bits |-> NumBits(exp)]

Turns(c) == c.bits > 0

\* One turn of the loop: square, and multiply if the bit is set.
Turned(c) ==
    LET i == c.bits - 1
        s == (c.acc * c.acc) % c.m
    IN  [c EXCEPT !.acc = IF BitSet(c.exp, i) THEN (s * (c.base % c.m)) % c.m ELSE s,
                  !.bits = i]

Loop(s) ==
    /\ call[s] # None /\ Turns(call[s])
    /\ call' = [call EXCEPT ![s] = Turned(call[s])]
    /\ UNCHANGED <<at, priv, pub, given, secret>>

Returns(s) == call[s] # None /\ ~Turns(call[s])

-----------------------------------------------------------------------------
Init ==
    /\ at = [s \in Callers |-> "new"]
    /\ priv = [s \in Sides |-> None] /\ pub = [s \in Sides |-> None]
    /\ given = [s \in Sides |-> None] /\ secret = [s \in Sides |-> None]
    /\ call = [s \in Callers |-> None]

\* KeyPair::generate, until it calls mod_exp and after.
Generate(s) ==
    /\ at[s] = "new" /\ at[Hex] = "new"
    /\ \E x \in Exponents :
        /\ priv' = [priv EXCEPT ![s] = x]
        /\ call' = [call EXCEPT ![s] = Calls(G, x, P)]
    /\ at' = [at EXCEPT ![s] = "generating"]
    /\ UNCHANGED <<pub, given, secret>>

Generated(s) ==
    /\ at[s] = "generating" /\ Returns(s)
    /\ pub' = [pub EXCEPT ![s] = call[s].acc]
    /\ call' = [call EXCEPT ![s] = None]
    /\ at' = [at EXCEPT ![s] = "ready"]
    /\ UNCHANGED <<priv, given, secret>>

\* Mutant: the upper bound is one too high.
InGroupLoose(y) == y > 1 /\ y < P

\* What compute_shared takes: not 0, 1 or p - 1, and below p.
InGroup(y) == y > 1 /\ y < P - 1

\* None stands for a value that is not MODULUS_BYTES long.
Refuse(s) ==
    /\ at[s] = "ready"
    /\ \E y \in {None} \cup {v \in 0 .. Bytes - 1 : ~InGroup(v)} :
        given' = [given EXCEPT ![s] = y]
    /\ at' = [at EXCEPT ![s] = "refused"]
    /\ UNCHANGED <<priv, pub, secret, call>>

ComputeShared(s) ==
    /\ at[s] = "ready"
    /\ \E y \in 0 .. Bytes - 1 :
        /\ InGroup(y)
        /\ given' = [given EXCEPT ![s] = y]
        /\ call' = [call EXCEPT ![s] = Calls(y, priv[s], P)]
    /\ at' = [at EXCEPT ![s] = "sharing"]
    /\ UNCHANGED <<priv, pub, secret>>

Shared(s) ==
    /\ at[s] = "sharing" /\ Returns(s)
    /\ secret' = [secret EXCEPT ![s] = call[s].acc]
    /\ call' = [call EXCEPT ![s] = None]
    /\ at' = [at EXCEPT ![s] = "agreed"]
    /\ UNCHANGED <<priv, pub, given>>

\* mod_exp_hex, which only the self-test calls, in a process of its own;
\* mod_exp refuses a zero modulus.
ModExpHex ==
    /\ at = [s \in Callers |-> "new"]
    /\ \E base, exp \in 0 .. MaxHex, m \in 1 .. MaxHex :
        call' = [call EXCEPT ![Hex] = Calls(base, exp, m)]
    /\ at' = [at EXCEPT ![Hex] = "computing"]
    /\ UNCHANGED <<priv, pub, given, secret>>

ModExpHexReturns ==
    /\ at[Hex] = "computing" /\ Returns(Hex)
    /\ at' = [at EXCEPT ![Hex] = "done"]
    /\ UNCHANGED <<priv, pub, given, secret, call>>

Next ==
    \/ \E s \in Sides :
        Generate(s) \/ Generated(s) \/ Refuse(s) \/ ComputeShared(s) \/ Shared(s)
    \/ \E s \in Callers : Loop(s)
    \/ ModExpHex
    \/ ModExpHexReturns

Spec == Init /\ [][Next]_vars

-----------------------------------------------------------------------------
(* Types and what the callers rely on. *)

TypeOK ==
    /\ at \in [Callers -> {"new", "generating", "ready", "refused", "sharing", "agreed",
                           "computing", "done"}]
    /\ priv \in [Sides -> Exponents \cup {None}]
    /\ pub \in [Sides -> 0 .. P - 1 \cup {None}]
    /\ given \in [Sides -> 0 .. Bytes - 1 \cup {None}]
    /\ secret \in [Sides -> 0 .. P - 1 \cup {None}]
    /\ \A s \in Callers : call[s] # None =>
        /\ call[s].acc \in 0 .. call[s].m
        /\ call[s].bits \in 0 .. NumBits(call[s].exp)

(***************************************************************************)
(* mod_exp returns base ^ exp mod m (dh.cpp, checked against known values  *)
(* by the self-test).  The accumulator is not reduced before the first     *)
(* turn, so an empty exponent gives 1, and with a modulus of 1 that is not *)
(* a residue: the one pair of arguments the definition does not hold for.  *)
(***************************************************************************)
ModExpIsPower ==
    \A s \in Callers : Returns(s) /\ ~(call[s].exp = 0 /\ call[s].m = 1) =>
        call[s].acc = Power(call[s].base, call[s].exp, call[s].m)

(***************************************************************************)
(* Two sides that were given each other's public value hold the same       *)
(* secret, whatever exponents they drew.                                   *)
(***************************************************************************)
SecretsAgree ==
    \A s, t \in Sides :
        /\ secret[s] # None /\ secret[t] # None
        /\ given[s] = pub[t] /\ given[t] = pub[s]
        => secret[s] = secret[t]

(***************************************************************************)
(* No peer value fixes the secret: with any other exponent, the side that  *)
(* was given it would have computed another one.  It takes the test of the *)
(* peer value (docs/protocol.md:191) and exponents shorter than the order  *)
(* of the subgroup, and holds for values of either subgroup.               *)
(***************************************************************************)
PeerCannotFix ==
    \A s \in Sides : secret[s] # None =>
        \A x \in Exponents \ {priv[s]} : Power(given[s], x, P) # secret[s]
=============================================================================
