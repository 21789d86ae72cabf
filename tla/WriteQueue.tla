------------------------------ MODULE WriteQueue ------------------------------
(***************************************************************************)
(* What an app may rely on when it writes to Firestore: each user has a    *)
(* queue of writes that survives the process and a change of user; the     *)
(* backend stores them in order; a write leaves its queue from the head    *)
(* only, as stored or as refused.  A write that was stored may still be    *)
(* reported as refused: the answer can be lost and the write sent again.   *)
(***************************************************************************)
EXTENDS Naturals, Sequences

CONSTANTS Users, Writes

VARIABLES
    queue,  \* the unanswered writes of each user, oldest first
    stored, \* the writes the backend has
    gone    \* the writes that left their queue

queueVars == <<queue, stored, gone>>

QueueInit ==
    /\ queue = [u \in Users |-> <<>>]
    /\ stored = {}
    /\ gone = {}

Queued(u) == {queue[u][i] : i \in DOMAIN queue[u]}

Submit(u, w) ==
    /\ w \notin gone \cup stored
    /\ \A v \in Users : w \notin Queued(v)
    /\ queue' = [queue EXCEPT ![u] = Append(@, w)]
    /\ UNCHANGED <<stored, gone>>

\* Any number of writes from the head on, never one before another.
Store(u) ==
    /\ \E n \in 1..Len(queue[u]) :
          stored' = stored \cup {queue[u][i] : i \in 1..n}
    /\ UNCHANGED <<queue, gone>>

Settle(u) ==
    /\ queue[u] # <<>>
    /\ queue' = [queue EXCEPT ![u] = Tail(@)]
    /\ gone' = gone \cup {Head(queue[u])}
    /\ stored' \in {stored, stored \cup {Head(queue[u])}}

QueueNext == \E u \in Users : \/ Store(u) \/ Settle(u)
                              \/ \E w \in Writes : Submit(u, w)

QueueSpec == QueueInit /\ [][QueueNext]_queueVars
===============================================================================
