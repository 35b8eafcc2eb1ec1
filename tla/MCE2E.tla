------------------------------- MODULE MCE2E -------------------------------
(***************************************************************************)
(* Instances of E2E for TLC: two users, 1 the a-side.                      *)
(***************************************************************************)
EXTENDS E2E

CONSTANTS
    MaxRebuilt,     \* bound: key pairs made for a peer once a session was broken off
    MaxSentAgain    \* bound: messages sent to a peer then

MCUsers == {1, 2}
MCEpochNumbers == 0 .. 2

\* Once a session was broken off it is followed less far.
MCFew ==
    breaks > 0 => \A u, v \in Users :
        gen[u][v] <= MaxRebuilt /\ sent[u][v] <= MaxSentAgain
=============================================================================
