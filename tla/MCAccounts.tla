----------------------------- MODULE MCAccounts -----------------------------
(***************************************************************************)
(* Accounts for TLC.  Requests and tokens are interchangeable.             *)
(***************************************************************************)
EXTENDS Accounts, TLC

CONSTANTS i1, i2, i3, e1, e2

TwoFounders == (i1 :> e1) @@ (i2 :> e2)

Interchangeable == Permutations(Requests) \cup Permutations(Tokens)
=============================================================================
