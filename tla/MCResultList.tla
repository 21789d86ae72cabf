----------------------------- MODULE MCResultList -----------------------------
(***************************************************************************)
(* Answers that are empty, short and longer, movies with a poster, without *)
(* one and with a broken address; two cells and two loads.                 *)
(***************************************************************************)
EXTENDS ResultList

CONSTANTS m1, m2, none, broken

MoviesDef     == {m1, m2, none, broken}
PosterlessDef == {none}
UnlinkedDef   == {broken}
AnswersDef    == {<<>>, <<m1>>, <<m2, none, broken>>}
===============================================================================
