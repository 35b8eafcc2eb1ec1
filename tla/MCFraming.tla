----------------------------- MODULE MCFraming -----------------------------
(***************************************************************************)
(* Instances of Framing for TLC: headers of two bytes.                     *)
(***************************************************************************)
EXTENDS Framing

MCBadLengths == {0, MaxRecord + 1}
=============================================================================
