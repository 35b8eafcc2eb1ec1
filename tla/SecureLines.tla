----------------------------- MODULE SecureLines -----------------------------
(***************************************************************************)
(* What the outer layer promises for one direction of a chat: only a       *)
(* genuine server is spoken to, or speaks, and the lines of one side reach *)
(* the other unchanged, once and in order.                                 *)
(***************************************************************************)
EXTENDS Naturals, Sequences

VARIABLES genuine, said, heard

Init == genuine \in BOOLEAN /\ said = <<>> /\ heard = <<>>

Say ==
    /\ genuine
    /\ said' # <<>> /\ said' = Append(said, said'[Len(said')])
    /\ UNCHANGED <<genuine, heard>>

Hear ==
    /\ Len(heard) < Len(said)
    /\ heard' = Append(heard, said[Len(heard) + 1])
    /\ UNCHANGED <<genuine, said>>

Spec == Init /\ [][Say \/ Hear]_<<genuine, said, heard>>
=============================================================================
