---------------------------- MODULE MCWebSession ----------------------------
(***************************************************************************)
(* WebSession for TLC.  Tabs are interchangeable.                          *)
(***************************************************************************)
EXTENDS WebSession, TLC

Interchangeable == Permutations(Tabs)
=============================================================================
