----------------------------- MODULE MCProfiles -----------------------------
(***************************************************************************)
(* Profiles for TLC.  Requests and user ids are interchangeable.           *)
(***************************************************************************)
EXTENDS Profiles, TLC

Interchangeable == Permutations(Requests) \cup Permutations(Ids)
=============================================================================
