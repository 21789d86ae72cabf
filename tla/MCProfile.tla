----------------------------- MODULE MCProfile -----------------------------
(***************************************************************************)
(* Profile on a small instance; all its sets are symmetric.                *)
(***************************************************************************)
EXTENDS Profile, TLC

Symmetry == Permutations(Users) \cup Permutations(Attempts)
              \cup Permutations(Blobs) \cup Permutations(Pages)
============================================================================
