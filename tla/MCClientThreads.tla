--------------------------- MODULE MCClientThreads ---------------------------
(***************************************************************************)
(* Instances of ClientThreads for TLC: two users, 1 the a-side.            *)
(***************************************************************************)
EXTENDS ClientThreads

MCUsers == {1, 2}
MCEpochNumbers == 0 .. 1
MCShort == {FALSE}
MCAnyLength == {FALSE, TRUE}
=============================================================================
