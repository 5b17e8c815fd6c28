---------------------------- MODULE MCMediaStore ----------------------------
(***************************************************************************)
(* MediaStore for TLC: two album ids that share one slug, so that an album *)
(* can be deleted and created again under the same folder.                 *)
(***************************************************************************)
EXTENDS MediaStore, TLC

CONSTANT Slug
OneSlug == [a \in Albums |-> Slug]

Interchangeable == Permutations(Photos) \cup Permutations(Albums)
                     \cup Permutations(Requests)
=============================================================================
