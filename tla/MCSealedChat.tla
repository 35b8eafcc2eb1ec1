---------------------------- MODULE MCSealedChat ----------------------------
(***************************************************************************)
(* Instances of SealedChat for TLC.                                        *)
(***************************************************************************)
EXTENDS SealedChat
=============================================================================
