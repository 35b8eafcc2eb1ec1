------------------------------ MODULE MCParts ------------------------------
(***************************************************************************)
(* One run for four parts that touch no other: the sessions of phase 4     *)
(* (OneEpoch), the memory of a Manager (KeyMemory), the arithmetic of      *)
(* dh.cpp (DhGroup) and the conversions (Encoding).  `part' says which of  *)
(* them moves; the others stay as they begin.                              *)
(***************************************************************************)
EXTENDS OneEpoch, MemoryPart

CONSTANTS
    P, G, PrivBits, Bytes, Sides, Hex, MaxHex,            \* of DhGroup
    Q, VERSION, RandomLen, ModulusLen, SeqBytes, MaxUsername,
    BodyBytes, TextChars, MaxBytes, MaxText, MaxBody, MaxLine, MaxLong,
    MaxGenerated    \* bound: key pairs of both users together

VARIABLES
    part,
    at, priv, pub, given, secret, call,
    kind, input

groupVars == <<at, priv, pub, given, secret, call>>
codesVars == <<kind, input>>

Group == INSTANCE DhGroup
Codes == INSTANCE Encoding

ASSUME PartsAssumption ==
    Memory!MemoryAssumption /\ Group!GroupAssumption /\ Codes!EncodingAssumption

PartsInit ==
    /\ Init /\ Memory!Init /\ Group!Init /\ Codes!Init
    /\ part \in {"sessions", "memory", "group", "codes"}
    /\ part = "memory" \/ amA
    /\ part = "codes" \/ kind = "bytes"

PartsNext ==
    /\ UNCHANGED part
    /\ \/ /\ part = "sessions" /\ Next
          /\ UNCHANGED <<memoryVars, groupVars, codesVars>>
       \/ /\ part = "memory" /\ Memory!Next
          /\ UNCHANGED <<vars, groupVars, codesVars>>
       \/ /\ part = "group" /\ Group!Next
          /\ UNCHANGED <<vars, memoryVars, codesVars>>
       \/ /\ part = "codes" /\ Codes!More
          /\ UNCHANGED <<vars, memoryVars, groupVars>>

PartsSpec == PartsInit /\ [][PartsNext]_<<part, vars, memoryVars, groupVars, codesVars>>

MCBodyBytes == {0, 2, 3, 5}
MCTextChars == {0, 7}

MCFew == gen[1] + gen[2] <= MaxGenerated

-----------------------------------------------------------------------------
\* The properties of OneEpoch and MemoryPart are checked under their own names.

(***************************************************************************)
(* DhGroup: mod_exp is exponentiation, two sides get the same secret, and  *)
(* no peer value that compute_shared takes fixes it.                       *)
(***************************************************************************)
GroupIsSound == Group!ModExpIsPower /\ Group!SecretsAgree /\ Group!PeerCannotFix

(***************************************************************************)
(* Encoding: what base64, the record bodies and the words of a line carry  *)
(* is read back as it was written.  A body is read only if it is just what *)
(* would be written of its value; a base64 text may also be another one,   *)
(* with pads inside or with spare bits, and exactly in these two ways.     *)
(***************************************************************************)
ConversionsExact ==
    /\ Codes!EncodedReadsBack /\ Codes!ReadsMoreThanMade
    /\ Codes!BodiesAreExact /\ Codes!LongIsRefused
    /\ Codes!SplitLosesNothing /\ Codes!GrammarIsUnambiguous

(***************************************************************************)
(* crypto.cpp:183: "'=' must be trailing".  False: see PadsAreTrailing.    *)
(***************************************************************************)
PadIsTrailing == Codes!PadsAreTrailing
=============================================================================
