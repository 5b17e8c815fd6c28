---------------------------- MODULE MCEmailQueue ----------------------------
(***************************************************************************)
(* EmailQueue for TLC.                                                     *)
(***************************************************************************)
EXTENDS EmailQueue, TLC

Interchangeable == Permutations(Emails) \cup Permutations(Workers)
=============================================================================
