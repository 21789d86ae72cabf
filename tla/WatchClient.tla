------------------------------ MODULE WatchClient ------------------------------
(***************************************************************************)
(* What RemoteStore and SyncEngine keep of the targets listened to, as a   *)
(* value: listen_targets_, the aggregator, the requests on their way, and  *)
(* the resolution of documents in limbo: documents that the cache puts in  *)
(* the result of a query and the backend does not.  Each is looked up by a *)
(* target of its own, a bounded number of them at a time.                  *)
(***************************************************************************)
EXTENDS WatchChanges, Sequences, SequencesExt

CONSTANT MaxResolutions   \* max_concurrent_limbo_resolutions_

ASSUME ClientAssumption == MaxResolutions \in Nat

\* refs is limbo_document_refs_ (and each view's limbo_documents_), active is
\* active_limbo_targets_by_key_, resolving the targets of
\* active_limbo_resolutions_by_target_, received those with document_received,
\* waiting is enqueued_limbo_resolutions_.  emptied notes, during a step, that
\* the last listen went while the stream was not open.
NewClient == [listens |-> {}, tokens |-> [t \in Targets |-> NoToken],
              agg |-> NewAggregator, up |-> <<>>, idle |-> FALSE, emptied |-> FALSE,
              refs |-> [q \in Queries |-> {}], active |-> [k \in Keys |-> None],
              resolving |-> {}, received |-> {}, waiting |-> <<>>]

Request(op, t, tok) == [op |-> op, target |-> t, token |-> tok]

\* Mutant: the answer is not waited for.
SendUncounted(c, r) == [c EXCEPT !.up = Append(@, r), !.idle = FALSE]

\* SendWatchRequest and SendUnwatchRequest.  A request cancels the idle timer.
Send(c, r) ==
    [c EXCEPT !.agg = RecordPendingTargetRequest(@, r.target),
              !.up = Append(@, r), !.idle = FALSE]

Watch(c, t, tok) == Send(c, Request("watch", t, tok))
Unwatch(c, t)    == Send(c, Request("unwatch", t, NoToken))

RemoteListen(c, open, t, tok) ==
    LET d == [c EXCEPT !.listens = @ \cup {t}, !.tokens[t] = tok]
    IN  IF open THEN Watch(d, t, tok) ELSE d

RemoteStop(c, open, t) ==
    LET d == [c EXCEPT !.listens = @ \ {t}, !.tokens[t] = NoToken]
    IN  IF open THEN [Unwatch(d, t) EXCEPT !.idle = (d.listens = {})]
                ELSE [d EXCEPT !.emptied = @ \/ d.listens = {}]

\* OnWatchStreamOpen: all listens are sent, each from its token.
Resent(c) ==
    LET Resend(d, t) == Watch(d, t, d.tokens[t])
    IN  FoldLeft(Resend, c, SetToSeq(c.listens))

\* CleanUpWatchStreamState, and what the stream drops with its call.
Disconnected(c) == [c EXCEPT !.agg = NewAggregator, !.up = <<>>, !.idle = FALSE]

----------------------------------------------------------------------------
(* Limbo resolution.                                                       *)

\* The generator of target ids never gives one twice.
IsFresh(c, n) == n \notin c.resolving /\ c.agg.targets[n].out = 0

\* The ids suffice for what one step can start.
IdsLeft(c) == \A k \in Keys : \E n \in LimboIds : KeyOf(n) = k /\ IsFresh(c, n)

StartResolution(c, open, k) ==
    LET n == CHOOSE m \in LimboIds : KeyOf(m) = k /\ IsFresh(c, m)
    IN  RemoteListen([c EXCEPT !.resolving = @ \cup {n},
                               !.active[k] = IF @ = None THEN n ELSE @],
                     open, n, NoToken)

\* PumpEnqueuedLimboResolutions.
Pump(c, open) ==
    LET One(d, k) ==
            IF Cardinality({j \in Keys : d.active[j] # None}) < MaxResolutions
            THEN StartResolution([d EXCEPT !.waiting = Tail(@)], open, Head(d.waiting))
            ELSE d
    IN  FoldLeft(One, c, c.waiting)

TrackLimboChange(c, open, k) ==
    IF c.active[k] # None THEN c
    ELSE Pump([c EXCEPT !.waiting = Append(@, k)], open)

\* The target of n is forgotten: it was removed, or refused.
Forgotten(c, n) ==
    [c EXCEPT !.active[KeyOf(n)] = None, !.resolving = @ \ {n}, !.received = @ \ {n}]

\* Mutant: the lookup goes on although nobody needs it.
RemoveLimboTargetLater(c, open, k) == c

RemoveLimboTarget(c, open, k) ==
    IF c.active[k] = None THEN c
    ELSE Pump(Forgotten(RemoteStop(c, open, c.active[k]), c.active[k]), open)

IsReferenced(c, k) == \E q \in Queries : k \in c.refs[q]

\* UpdateTrackedLimboDocuments: limbo is now the limbo of q's view.
UpdateTrackedLimboDocuments(c, open, q, limbo) ==
    LET Removed(d, k) ==
            LET e == [d EXCEPT !.refs[q] = @ \ {k}]
            IN  IF IsReferenced(e, k) THEN e ELSE RemoveLimboTarget(e, open, k)
        Added(d, k) == TrackLimboChange([d EXCEPT !.refs[q] = @ \cup {k}], open, k)
    IN  FoldLeft(Added, FoldLeft(Removed, c, SetToSeq(c.refs[q] \ limbo)),
                 SetToSeq(limbo \ c.refs[q]))

\* ApplyRemoteEvent of SyncEngine: what lookups have received.
Received(c, changes) ==
    {n \in c.resolving : IF n \notin DOMAIN changes THEN n \in c.received
                         ELSE \/ changes[n].added # {}
                              \/ n \in c.received /\ changes[n].removed = {}}

\* GetRemoteKeys; synced[q] is synced_documents_ of q's view.
RemoteKeys(c, synced) ==
    [t \in Targets |-> IF IsDocumentQuery(t)
                       THEN IF t \in c.received THEN {KeyOf(t)} ELSE {}
                       ELSE synced[t]]

----------------------------------------------------------------------------
(* RaiseWatchSnapshot, up to the hand-over to SyncEngine.                  *)

\* A target in mismatch is unwatched and watched anew, without its token.
Relisten(c, t) == Watch(Unwatch([c EXCEPT !.tokens[t] = NoToken], t), t, NoToken)

Tokens(c, changes) ==
    [t \in Targets |-> IF t \in DOMAIN changes /\ changes[t].token # NoToken
                       THEN changes[t].token ELSE c.tokens[t]]

TakeEvent(c, changes) ==
    LET d == [c EXCEPT !.tokens = Tokens(c, changes), !.agg = AfterEvent(@, c.listens)]
    IN  FoldLeft(Relisten, d, SetToSeq(c.agg.resets \cap c.listens))
===============================================================================
