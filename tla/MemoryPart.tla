----------------------------- MODULE MemoryPart -----------------------------
(***************************************************************************)
(* KeyMemory as one part among others: its constants and variables under   *)
(* their own names, its actions behind `Memory!'.  The run that checks it  *)
(* next to other parts and the module that proves it both extend this one. *)
(***************************************************************************)
CONSTANTS
    None,
    MaxDrawn, MaxEpoch    \* bounds: exponents drawn, epoch numbers

VARIABLES amA, st, rotating, nextEpoch, cur, prev, havePrev, kp, heap, drawn

memoryVars == <<amA, st, rotating, nextEpoch, cur, prev, havePrev, kp, heap, drawn>>

Memory == INSTANCE KeyMemory

(***************************************************************************)
(* KeyMemory: next_kp keeps the exponent whose public value the open INIT  *)
(* carries, and no exponent goes into two epoch keys.                      *)
(***************************************************************************)
ExponentsMatch == Memory!ExponentsMatch
=============================================================================
