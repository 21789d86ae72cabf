-------------------------------- MODULE MCWatch --------------------------------
(***************************************************************************)
(* WatchTargets over one query and two documents.  At first each document  *)
(* matches the query or does not exist.                                    *)
(***************************************************************************)
EXTENDS WatchTargets

MCInit == Init /\ \A k \in Keys : history[1][k].val # {}

MCSpec == MCInit /\ [][Next]_vars /\ Fairness
================================================================================
