----------------------------- MODULE RecordFifo -----------------------------
(***************************************************************************)
(* What record framing promises: records are taken in the order they were  *)
(* put, each whole and once, and none from the first one on whose length   *)
(* is not legal.                                                           *)
(***************************************************************************)
EXTENDS Naturals, Sequences

CONSTANT LegalLengths

VARIABLES put, got

Init == put = <<>> /\ got = <<>>

Put == put' # <<>> /\ put' = Append(put, put'[Len(put')]) /\ UNCHANGED got

Get ==
    /\ Len(got) < Len(put)
    /\ put[Len(got) + 1].len \in LegalLengths
    /\ got' = Append(got, put[Len(got) + 1])
    /\ UNCHANGED put

Spec == Init /\ [][Put \/ Get]_<<put, got>>
=============================================================================
