------------------------------- MODULE MCRelay -------------------------------
(***************************************************************************)
(* Instances of Relay for TLC.                                             *)
(***************************************************************************)
EXTENDS Relay, TLC

CONSTANTS f1, f2, alice, bob

MCTwo == {f1, f2}
MCNames == {alice, bob}
MCAlice == {alice}
MCOthers == {"WHO", "other", "bad"}
MCTalkQuit == {"LOGIN", "MSG", "QUIT"}
MCComeAndGo == {"LOGIN", "QUIT", "handshake"}
MCSymmetry == Permutations(MCTwo) \cup Permutations(MCNames)
=============================================================================
