---------------------------- MODULE MCWritePipeline ----------------------------
(* Two users.  Which of them is logged in first makes no difference. *)
EXTENDS WritePipeline

CONSTANTS ann, bob

MCUsers == {ann, bob}
MCTasks == 0..MaxWrites
MCInit  == Init /\ authUser = ann
MCSpec  == MCInit /\ [][Next]_vars /\ Fairness
===============================================================================
