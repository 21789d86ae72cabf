------------------------------ MODULE MCScreens ------------------------------
(***************************************************************************)
(* Screens with two movies and stacks of a few pages.                      *)
(***************************************************************************)
EXTENDS Screens
==============================================================================
