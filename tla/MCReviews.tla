----------------------------- MODULE MCReviews -----------------------------
(***************************************************************************)
(* Reviews on small instances, in a quiet world and in a rough one.        *)
(***************************************************************************)
EXTENDS Reviews

QuietWorld == [reviews |-> 3, switches |-> 2, otherPhones |-> FALSE,
               rejects |-> FALSE, switchWithPending |-> FALSE, typing |-> TRUE]
RoughWorld == [reviews |-> 2, switches |-> 2, otherPhones |-> TRUE,
               rejects |-> TRUE, switchWithPending |-> TRUE, typing |-> FALSE]
AllWorlds  == {QuietWorld, RoughWorld}

\* One page, two reviews and one change of user show a disagreement.
SmallWorld  == [QuietWorld EXCEPT !.reviews = 2, !.switches = 1, !.typing = FALSE]
GhostWorlds == {[SmallWorld EXCEPT !.rejects = TRUE]}
LostWorlds  == {SmallWorld}
============================================================================
