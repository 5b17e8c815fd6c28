---------------------------- MODULE MCTwoFactor ----------------------------
(***************************************************************************)
(* TwoFactor for TLC.  Users, tokens, codes and requests are               *)
(* interchangeable: no property tells two of them apart.                   *)
(***************************************************************************)
EXTENDS TwoFactor, TLC

Interchangeable ==
    Permutations(Requests) \cup Permutations(Codes)
        \cup Permutations(Users) \cup Permutations(Tokens)
=============================================================================
