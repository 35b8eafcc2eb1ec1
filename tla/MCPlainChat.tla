----------------------------- MODULE MCPlainChat -----------------------------
(***************************************************************************)
(* Instances of PlainChat for TLC: two descriptors, at one of which any    *)
(* peer may connect.                                                       *)
(***************************************************************************)
EXTENDS PlainChat

CONSTANTS f1, f2, alice, bob

MCTwo == {f1, f2}
MCStranger == {f2}
MCNames == {alice, bob}
MCVerbs == {"bad", "LOGIN", "MSG", "WHO", "QUIT", "other"}
=============================================================================
