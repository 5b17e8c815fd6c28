---------------------------- MODULE MCMediaTree ----------------------------
(***************************************************************************)
(* MediaTree for TLC. Uploaded pictures are interchangeable.               *)
(***************************************************************************)
EXTENDS MediaTree, TLC

Interchangeable == Permutations(Pics)
=============================================================================
