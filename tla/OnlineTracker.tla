----------------------------- MODULE OnlineTracker -----------------------------
(***************************************************************************)
(* What the Firestore SDK takes its connection for, as a value: the state  *)
(* that listeners are told of, the failures in a row, and the timer that   *)
(* gives up on an attempt that neither succeeds nor fails.                 *)
(***************************************************************************)
EXTENDS Naturals

CONSTANT MaxFailures   \* kMaxWatchStreamFailures

ASSUME TrackerAssumption == MaxFailures \in Nat \ {0}

OnlineStates == {"Unknown", "Online", "Offline"}

Tracker(s, n, armed) == [state |-> s, failures |-> n, timer |-> armed]

NewTracker == Tracker("Unknown", 0, FALSE)

\* Only the first attempt is timed.
HandleWatchStreamStart(o) ==
    IF o.failures # 0 THEN o ELSE Tracker("Unknown", 0, TRUE)

\* Mutant: the timer goes on after the failure.
HandleWatchStreamFailureTimed(o) ==
    IF o.state = "Online" THEN Tracker("Unknown", o.failures, o.timer)
    ELSE IF o.failures + 1 >= MaxFailures THEN Tracker("Offline", o.failures + 1, o.timer)
    ELSE Tracker(o.state, o.failures + 1, o.timer)

HandleWatchStreamFailure(o) ==
    IF o.state = "Online" THEN Tracker("Unknown", o.failures, o.timer)
    ELSE IF o.failures + 1 >= MaxFailures THEN Tracker("Offline", o.failures + 1, FALSE)
    ELSE Tracker(o.state, o.failures + 1, o.timer)

UpdateState(s) == Tracker(s, 0, FALSE)

\* The timer's block.
TimedOut(o) == Tracker("Offline", o.failures, FALSE)
===============================================================================
