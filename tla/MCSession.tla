----------------------------- MODULE MCSession -----------------------------
(***************************************************************************)
(* Session on a small instance.  No symmetry: a liveness property is       *)
(* checked beside the safety ones.                                         *)
(***************************************************************************)
EXTENDS Session
============================================================================
