----------------------------- MODULE StreamStates -----------------------------
(***************************************************************************)
(* One stream of the Firestore SDK to its backend, as a value: the states  *)
(* of remote/stream.h and what each operation of Stream makes of them.     *)
(* The write stream and the watch stream are both such streams.            *)
(***************************************************************************)
EXTENDS Naturals

CONSTANT NoCred   \* the identity of a stream that has no call under way

StreamStatus == {"Initial", "Starting", "Open", "Backoff", "Error"}

\* closes is close_count_, cred the user whose ID token opened the call.
NewStream == [st |-> "Initial", closes |-> 0, cred |-> NoCred]

IsOpen(s)    == s.st = "Open"
IsStarted(s) == s.st \in {"Starting", "Open", "Backoff"}

\* Stream::Start after an error waits first (BackoffAndTryRestarting).
Start(s) == [s EXCEPT !.st = IF s.st = "Error" THEN "Backoff" ELSE "Starting"]

\* The timer of ExponentialBackoff: the stream starts over.
BackoffOver(s) == [s EXCEPT !.st = "Starting"]

\* ResumeStartWithCredentials and OnStreamStart: gRPC calls the observer back
\* from Start itself.
Opened(s, u) == [s EXCEPT !.st = "Open", !.cred = u]

\* Mutant: ++close_count_ is missing.
ClosedUncounted(s, ok) == [st     |-> IF ok THEN "Initial" ELSE "Error",
                           closes |-> s.closes,
                           cred   |-> NoCred]

\* Stream::Close, up to the notification of its owner.
Closed(s, ok) == [st     |-> IF ok THEN "Initial" ELSE "Error",
                  closes |-> s.closes + 1,
                  cred   |-> NoCred]

\* Stream::Stop does nothing to a stream that is not started.
Stopped(s) == IF IsStarted(s) THEN Closed(s, TRUE) ELSE s

\* InhibitBackoff clears the error condition.
Inhibited(s) == [s EXCEPT !.st = "Initial"]
===============================================================================
