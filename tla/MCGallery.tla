----------------------------- MODULE MCGallery ------------------------------
(***************************************************************************)
(* Gallery for TLC: albums that share one slug, so that no two are live.   *)
(***************************************************************************)
EXTENDS Gallery, TLC

CONSTANT Slug
OneSlug == [a \in Albums |-> Slug]

Interchangeable == Permutations(Requests) \cup Permutations(Photos)
                     \cup Permutations(Albums)
=============================================================================
