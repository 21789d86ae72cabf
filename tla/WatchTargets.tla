------------------------------ MODULE WatchTargets ------------------------------
(***************************************************************************)
(* How a query of the Firestore SDK gets and keeps its result: the watch   *)
(* stream and the state the client takes its connection for, the targets   *)
(* listened to, the snapshots the backend completes, the local cache with  *)
(* what it remembers of each target, and the views of the queries, with    *)
(* their documents in limbo.                                               *)
(*                                                                         *)
(* Everything runs on the worker queue, one task per action.  The backend  *)
(* is external: it answers requests in order, sends what changed, and      *)
(* completes a snapshot when all targets are caught up; it may forget what *)
(* left a result, and sends a count instead.  A message is read when it is *)
(* sent: one sent earlier tells an earlier version, of which the backend   *)
(* cannot have sent more.  A document's data is the set of queries it      *)
(* matches; queries have no limit and no local writes are pending.         *)
(***************************************************************************)
EXTENDS StreamStates, OnlineTracker, WatchClient

CONSTANTS MaxVersion,   \* bound: versions of the backend's data
          MaxRequests,  \* bound: requests on their way when the user acts
          MaxTrouble    \* bound: failures, closings and crashes

VARIABLES
    stream,   \* watch_stream_
    online,   \* online_state_tracker_
    client,   \* the targets of RemoteStore and SyncEngine
    views,    \* the view of each query, with its entry in LocalStore's maps
    disk,     \* the document cache and the target cache
    server,   \* external: the backend, and its side of the call
    trouble

vars == <<stream, online, client, views, disk, server, trouble>>

----------------------------------------------------------------------------
(* The backend.                                                            *)

Data == {Gone} \cup SUBSET Queries

\* None is no document, of the backend or of the cache.
ASSUME DocumentAssumption ==
    None \notin [val : Data, ver : Nat] \cup [val : Data, ver : Nat, read : Nat]

history == server.history
Now     == Len(history)

Matches(doc, q) == doc # None /\ doc.val # Gone /\ q \in doc.val

\* The documents of target t at version v.
Content(t, v) ==
    IF t \in Queries THEN {k \in Keys : Matches(history[v][k], t)}
    ELSE {k \in Keys : k = KeyOf(t) /\ history[v][k].val # Gone}

\* sent[k] is the version of document k last sent as one of the target's.
NoSession == [on |-> FALSE, cur |-> FALSE, due |-> FALSE, sent |-> [k \in Keys |-> 0]]

NoSessions == [t \in Targets |-> NoSession]

\* A listen that resumes at token tok.
Resumed(t, tok) ==
    LET forgets == tok # NoToken /\ tok < server.horizon
        had     == IF tok = NoToken THEN {}
                   ELSE IF forgets THEN Content(t, tok) \cap Content(t, Now)
                   ELSE Content(t, tok)
    IN  [on |-> TRUE, cur |-> FALSE, due |-> forgets,
         sent |-> [k \in Keys |-> IF k \in had THEN history[tok][k].ver ELSE 0]]

\* What the backend has not yet told of document k.
News(t, k) ==
    /\ server.session[t].on
    /\ server.session[t].sent[k] # (IF k \in Content(t, Now) THEN history[Now][k].ver ELSE 0)

HasNews(t) == \E k \in Keys : News(t, k)

----------------------------------------------------------------------------
(* Views and cache.                                                        *)

\* free is last_limbo_free_snapshot_version, token the in-memory resume token
\* with its version.  Not in the code: misled, the backend took up the listen
\* from other keys than the view has; flawed, it did so once, or the view and
\* the cache did not agree then or over a refused lookup.
NoView == [on |-> FALSE, shown |-> {}, synced |-> {}, current |-> FALSE,
           token |-> NoToken, free |-> 0, misled |-> FALSE, flawed |-> FALSE]

IsSynced(v, limbo) == v.on /\ v.current /\ limbo = {}

Synced(q) == IsSynced(views[q], client.refs[q])

Known == RemoteKeys(client, [q \in Queries |-> views[q].synced])

\* IndexFreeQueryEngine: once the view was without limbo, the documents of the
\* target and those read since then, instead of the whole collection.
ExecuteQuery(q) ==
    LET t == disk.targets[q]
    IN  {k \in Keys : /\ Matches(disk.cache[k], q)
                      /\ t.free = 0 \/ k \in t.keys \/ disk.cache[k].read > t.free}

\* ApplyOnlineStateChange, for views that are told of o.
ToldOnline(o) ==
    IF o.state = "Offline" /\ online.state # "Offline"
    THEN [q \in Queries |-> [views[q] EXCEPT !.current = FALSE]] ELSE views

\* The documents of the event that the cache takes.
Applied(docs) ==
    {k \in Keys : /\ docs[k] # None
                  /\ \/ docs[k] = NoDocument(0)
                     \/ disk.cache[k] = None
                     \/ docs[k].ver > disk.cache[k].ver}

CacheAfter(docs, ver) ==
    [k \in Keys |-> IF k \notin Applied(docs) THEN disk.cache[k]
                    ELSE IF docs[k] = NoDocument(0) THEN None
                    ELSE [val |-> docs[k].val, ver |-> docs[k].ver, read |-> ver]]

\* ComputeDocumentChanges and ApplyTargetChange.
ViewAfter(q, event, cache) ==
    LET v       == views[q]
        changed == Applied(event.docs)
        shown   == {k \in Keys : IF k \in changed THEN Matches(cache[k], q)
                                 ELSE k \in v.shown}
    IN  IF q \notin DOMAIN event.changes
        THEN [v EXCEPT !.shown = shown,
                       !.flawed = @ \/ (event.ver = 0 /\ changed \cap v.synced # {})]
        ELSE LET change == event.changes[q]
             IN  [v EXCEPT !.shown = shown,
                           !.synced = (@ \cup change.added) \ change.removed,
                           !.current = change.current,
                           !.token = IF change.token # NoToken THEN change.token ELSE @]

\* UpdateLimboDocuments.
LimboAfter(v, limbo) == IF v.current THEN v.shown \ v.synced ELSE limbo

\* ApplyRemoteEvent of LocalStore, for a target; slow are the queries whose
\* token was last written long enough ago.
TargetAfter(q, event, slow) ==
    LET t == disk.targets[q]
        v == views[q]
    IN  IF ~v.on \/ q \notin DOMAIN event.changes THEN t
        ELSE LET change == event.changes[q]
                 told   == change.added \cup change.modified \cup change.removed
                 keys   == (t.keys \ change.removed) \cup change.added
             IN  IF change.token # NoToken /\ (v.token = NoToken \/ q \in slow \/ told # {})
                 THEN [token |-> change.token, keys |-> keys, free |-> v.free]
                 ELSE [t EXCEPT !.keys = keys]

\* NotifyLocalViewChanges: a view that emits a snapshot without limbo.
Notified(q, v, limbo, cache, changed) ==
    LET emits == \/ IsSynced(v, limbo) # Synced(q)
                 \/ v.shown # views[q].shown
                 \/ \E k \in changed \cap v.shown : cache[k].val # disk.cache[k].val
    IN  IF emits /\ IsSynced(v, limbo) THEN [v EXCEPT !.free = v.token] ELSE v

\* EmitNewSnapshotsAndNotifyLocalStore: limbo changes of the views, in turn.
LimboTracked(c, limbo) ==
    LET Emit(d, q) == UpdateTrackedLimboDocuments(d, TRUE, q, limbo[q])
    IN  FoldLeft(Emit, c, SetToSeq({q \in Queries : views[q].on}))

\* ApplyRemoteEvent of SyncEngine, with c the client the event leaves.
ApplyRemoteEvent(c, event, slow) ==
    \E cache \in {CacheAfter(event.docs, event.ver)} :
    \E new \in {[q \in Queries |-> IF views[q].on THEN ViewAfter(q, event, cache)
                                   ELSE views[q]]} :
    \E limbo \in {[q \in Queries |-> LimboAfter(new[q], c.refs[q])]} :
        /\ client' = LimboTracked([c EXCEPT !.received = Received(c, event.changes)], limbo)
        /\ views' = [q \in Queries |->
                        Notified(q, new[q], limbo[q], cache, Applied(event.docs))]
        /\ disk' = [cache   |-> cache,
                    targets |-> [q \in Queries |-> TargetAfter(q, event, slow)],
                    last    |-> IF event.ver = 0 THEN disk.last ELSE event.ver]

----------------------------------------------------------------------------
Init ==
    /\ stream = NewStream
    /\ online = NewTracker
    /\ client = NewClient
    /\ views = [q \in Queries |-> NoView]
    /\ disk = [cache   |-> [k \in Keys |-> None],
               targets |-> [q \in Queries |-> [token |-> NoToken, keys |-> {}, free |-> 0]],
               last    |-> 0]
    /\ \E d \in [Keys -> Data] :
           server = [history |-> <<[k \in Keys |-> Doc(d[k], 1)]>>, horizon |-> 0,
                     session |-> NoSessions]
    /\ trouble = 0

----------------------------------------------------------------------------
(* The user of the SDK.                                                    *)

\* ShouldStartWatchStream and StartWatchStream; a stream that is under way
\* takes the listen when it opens.
Listen(q) ==
    /\ ~views[q].on
    /\ Len(client.up) < MaxRequests
    /\ LET t == disk.targets[q]
       IN  /\ views' = [views EXCEPT ![q] =
                           [on |-> TRUE, shown |-> ExecuteQuery(q), synced |-> t.keys,
                            current |-> FALSE, token |-> t.token, free |-> t.free,
                            misled |-> FALSE, flawed |-> FALSE]]
           /\ client' = RemoteListen(client, IsOpen(stream), q, t.token)
    /\ IF IsStarted(stream) THEN UNCHANGED <<stream, online>>
       ELSE /\ stream' = Start(stream)
            /\ online' = HandleWatchStreamStart(online)
    /\ UNCHANGED <<disk, server, trouble>>

\* ReleaseTarget writes what is in memory of the target.
StopListening(q) ==
    /\ views[q].on
    /\ Len(client.up) < MaxRequests
    /\ IdsLeft(client)
    /\ LET c == UpdateTrackedLimboDocuments(RemoteStop(client, IsOpen(stream), q),
                                            IsOpen(stream), q, {})
       IN  /\ client' = [c EXCEPT !.emptied = FALSE]
           /\ online' = IF c.emptied THEN UpdateState("Unknown") ELSE online
    /\ views' = [views EXCEPT ![q] = NoView]
    /\ disk' = [disk EXCEPT !.targets[q].token = views[q].token,
                            !.targets[q].free = views[q].free]
    /\ UNCHANGED <<stream, server, trouble>>

----------------------------------------------------------------------------
(* The stream.                                                             *)

StreamOpens ==
    /\ stream.st = "Starting"
    /\ stream' = Opened(stream, NoCred)
    /\ client' = Resent(client)
    /\ UNCHANGED <<online, views, disk, server, trouble>>

\* The call ends: its closings are not counted here, since no callback of an
\* earlier call arrives.
Ended(s, ok) == [Closed(s, ok) EXCEPT !.closes = 0]

Hangup ==
    /\ client' = Disconnected(client)
    /\ server' = [server EXCEPT !.session = NoSessions]

Trouble ==
    /\ trouble < MaxTrouble
    /\ trouble' = trouble + 1

\* OnWatchStreamClose, with an error.
StreamFails ==
    /\ stream.st \in {"Starting", "Open"}
    /\ Trouble
    /\ Hangup
    /\ LET needed == client.listens # {}
           o == IF needed THEN HandleWatchStreamStart(HandleWatchStreamFailure(online))
                ELSE UpdateState("Unknown")
       IN  /\ stream' = IF needed THEN Start(Ended(stream, FALSE)) ELSE Ended(stream, FALSE)
           /\ online' = o
           /\ views' = ToldOnline(o)
    /\ UNCHANGED disk

BackoffElapses ==
    /\ stream.st = "Backoff"
    /\ stream' = BackoffOver(stream)
    /\ UNCHANGED <<online, client, views, disk, server, trouble>>

\* The idle timer of Stream, which is armed while nothing is listened to.
IdleTimeout ==
    /\ IsOpen(stream)
    /\ client.idle
    /\ Trouble
    /\ Hangup
    /\ stream' = Ended(stream, TRUE)
    /\ online' = UpdateState("Unknown")
    /\ UNCHANGED <<views, disk>>

\* The timer of OnlineStateTracker.
TimerFires ==
    /\ online.timer
    /\ online' = TimedOut(online)
    /\ views' = ToldOnline(TimedOut(online))
    /\ UNCHANGED <<stream, client, disk, server, trouble>>

\* RestartNetwork, at a change of connectivity or of the user.
RestartNetwork ==
    /\ Trouble
    /\ Hangup
    /\ IF client.listens # {}
       THEN /\ stream' = Start(Inhibited(stream))
            /\ online' = HandleWatchStreamStart(UpdateState("Unknown"))
       ELSE /\ stream' = Inhibited(stream)
            /\ online' = UpdateState("Unknown")
    /\ UNCHANGED <<views, disk>>

\* The process is killed and started again: what is not on disk is gone.
Crash ==
    /\ Trouble
    /\ stream' = NewStream
    /\ online' = NewTracker
    /\ client' = NewClient
    /\ views' = [q \in Queries |-> NoView]
    /\ server' = [server EXCEPT !.session = NoSessions]
    /\ UNCHANGED disk

----------------------------------------------------------------------------
(* OnWatchStreamChange: messages of the backend.                           *)

\* A message that completes no snapshot leaves the aggregator a.
Hears(a) ==
    /\ IsOpen(stream)
    /\ online' = UpdateState("Online")
    /\ client' = [client EXCEPT !.agg = a]
    /\ UNCHANGED <<stream, views, disk, trouble>>

HeadRequest == Head(client.up)

\* The keys the backend takes up the listen from.
TakenFrom(r) == IF r.token = NoToken THEN {} ELSE Content(r.target, r.token)

\* The view does not have these keys.
Misleading(r) ==
    /\ r.target \in Queries
    /\ views[r.target].on
    /\ views[r.target].synced # TakenFrom(r)

\* The cache has document k as the backend does.
IsCached(k) == disk.cache[k] # None /\ disk.cache[k].ver = history[Now][k].ver

\* The last listen of a view is taken up: with other keys, with a document that
\* is not sent again and that the cache has no more, or without showing one that
\* is no news to the cache.
Flawing(r) ==
    /\ r.target \in Queries
    /\ views[r.target].on
    /\ client.agg.targets[r.target].out = 1
    /\ \/ Misleading(r)
       \/ \E k \in TakenFrom(r) : /\ history[r.token][k] = history[Now][k]
                                  /\ disk.cache[k] = None
       \/ \E k \in Content(r.target, Now) \ views[r.target].shown : IsCached(k)

Answered(c) == [c EXCEPT !.up = Tail(@)]

AnswerWatch ==
    /\ client.up # <<>>
    /\ HeadRequest.op = "watch"
    /\ IsOpen(stream)
    /\ LET r == HeadRequest
       IN  /\ client' = [Answered(client) EXCEPT !.agg = TargetAdded(@, r.target)]
           /\ server' = [server EXCEPT !.session[r.target] = Resumed(r.target, r.token)]
           /\ views' = [q \in Queries |->
                          IF q = r.target
                          THEN [views[q] EXCEPT !.misled = Misleading(r),
                                                !.flawed = @ \/ Flawing(r)]
                          ELSE views[q]]
    /\ online' = UpdateState("Online")
    /\ UNCHANGED <<stream, disk, trouble>>

AnswerUnwatch ==
    /\ client.up # <<>>
    /\ HeadRequest.op = "unwatch"
    /\ IsOpen(stream)
    /\ LET r == HeadRequest
       IN  /\ client' = [Answered(client) EXCEPT !.agg = TargetRemoved(@, r.target)]
           /\ server' = [server EXCEPT !.session[r.target] = NoSession]
    /\ online' = UpdateState("Online")
    /\ UNCHANGED <<stream, views, disk, trouble>>

\* The backend refuses the lookup of a document the user may not read:
\* ProcessTargetError and HandleRejectedListen.  A refusal of a target no
\* longer listened to is ignored and left out.
RejectLookup ==
    /\ client.up # <<>>
    /\ HeadRequest.op = "watch"
    /\ HeadRequest.target \in client.listens \cap LimboIds
    /\ IsOpen(stream)
    /\ IdsLeft(client)
    /\ LET n == HeadRequest.target
           c == [Answered(client) EXCEPT !.listens = @ \ {n}, !.tokens[n] = NoToken,
                                         !.agg.targets[n] = NewTarget]
       IN  ApplyRemoteEvent(Pump(Forgotten(c, n), TRUE),
                            [ver     |-> 0, changes |-> [t \in {} |-> 0],
                             docs    |-> [k \in Keys |-> IF k = KeyOf(n) THEN NoDocument(0)
                                                         ELSE None]],
                            {})
    /\ online' = UpdateState("Online")
    /\ UNCHANGED <<stream, server, trouble>>

\* A change of document k is told to all targets it concerns.  Of a document
\* that only leaves targets the backend may say no more than that.
SendDocument(k) ==
    LET told    == {t \in Targets : News(t, k)}
        updated == {t \in told : k \in Content(t, Now)}
    IN  /\ told # {}
        /\ \E doc \in {history[Now][k], None} :
               /\ updated # {} => doc # None
               /\ Hears(HandleDocumentChange(client.agg, client.listens, Known,
                                             updated, told \ updated, k, doc))
        /\ server' = [server EXCEPT !.session = [t \in Targets |->
                         IF t \in told
                         THEN [@[t] EXCEPT !.sent[k] = IF t \in updated
                                                       THEN history[Now][k].ver ELSE 0]
                         ELSE @[t]]]

SendCurrent(t) ==
    /\ server.session[t].on /\ ~server.session[t].cur /\ ~HasNews(t)
    /\ Hears(TargetCurrent(client.agg, client.listens, t, Now))
    /\ server' = [server EXCEPT !.session[t].cur = TRUE]

\* What left the result is no longer known: a count is sent instead, to a
\* target that is current, as HandleExistenceFilter's comment presumes.
SendFilter(t) ==
    /\ server.session[t].due /\ server.session[t].cur /\ ~HasNews(t)
    /\ Hears(HandleExistenceFilter(client.agg, client.listens, Known, t,
                                   Cardinality(Content(t, Now))))
    /\ server' = [server EXCEPT !.session[t].due = FALSE]

CaughtUp ==
    LET on == {t \in Targets : server.session[t].on}
    IN  /\ on # {}
        /\ \A t \in on : /\ server.session[t].cur
                         /\ ~server.session[t].due
                         /\ ~HasNews(t)

\* The message that completes a snapshot, with a token for every target:
\* RaiseWatchSnapshot.
SendSnapshot ==
    /\ IsOpen(stream)
    /\ CaughtUp
    /\ IdsLeft(client)
    /\ Now >= disk.last
    /\ \E a \in {WithDeletes(NoTargetChange(client.agg, client.listens, Now),
                            client.listens, Known, Now)} :
       \E event \in {RemoteEvent(a, client.listens, Now)} :
       \E c \in {TakeEvent([client EXCEPT !.agg = a], event.changes)} :
       \E slow \in SUBSET Queries :
           ApplyRemoteEvent(c, event, slow)
    /\ online' = UpdateState("Online")
    /\ UNCHANGED <<stream, server, trouble>>

\* Somebody writes document k.
Change(k) ==
    /\ Now < MaxVersion
    /\ \E d \in Data \ {history[Now][k].val} :
           server' = [server EXCEPT !.history =
                         Append(@, [history[Now] EXCEPT ![k] = Doc(d, Now + 1)])]
    /\ UNCHANGED <<stream, online, client, views, disk, trouble>>

Forget ==
    /\ server.horizon < Now
    /\ server' = [server EXCEPT !.horizon = Now]
    /\ UNCHANGED <<stream, online, client, views, disk, trouble>>

----------------------------------------------------------------------------
Messages ==
    \/ AnswerWatch \/ AnswerUnwatch \/ RejectLookup
    \/ \E k \in Keys : SendDocument(k)
    \/ \E t \in Targets : SendCurrent(t) \/ SendFilter(t)
    \/ SendSnapshot

Next ==
    \/ \E q \in Queries : Listen(q) \/ StopListening(q)
    \/ StreamOpens \/ StreamFails \/ BackoffElapses \/ IdleTimeout
    \/ TimerFires \/ RestartNetwork \/ Crash
    \/ Messages
    \/ \E k \in Keys : Change(k)
    \/ Forget

\* The executor runs a delayed task, gRPC completes its calls, and the
\* backend sends what it has to send.
Fairness ==
    /\ WF_vars(StreamOpens \/ BackoffElapses)
    /\ WF_vars(Messages)

Spec == Init /\ [][Next]_vars /\ Fairness

----------------------------------------------------------------------------
TypeOK ==
    /\ stream.st \in StreamStatus
    /\ online \in [state : OnlineStates, failures : Nat, timer : BOOLEAN]
    /\ client.listens \subseteq Targets
    /\ client.tokens \in [Targets -> 0..Now]
    /\ \A t \in Targets : client.agg.targets[t].out \in Nat
    /\ client.resolving \subseteq LimboIds
    /\ client.active \in [Keys -> LimboIds \cup {None}]
    /\ views \in [Queries -> [on : BOOLEAN, shown : SUBSET Keys, synced : SUBSET Keys,
                              current : BOOLEAN, token : 0..Now, free : 0..Now,
                              misled : BOOLEAN, flawed : BOOLEAN]]
    /\ disk.last \in 0..Now

\* What a view shows as synced (SyncState::Synced, from_cache = false) is the
\* backend's result at the last snapshot, with its data: whatever was lost,
\* resumed, removed by a count or looked up on the way.
SyncedShown(q) ==
    Synced(q) /\ views[q].token = disk.last =>
        /\ views[q].shown = Content(q, disk.last)
        /\ \A k \in views[q].shown :
               /\ disk.cache[k].val = history[disk.last][k].val
               /\ disk.cache[k].ver = history[disk.last][k].ver

SyncedIsTheResult == \A q \in Queries : ~views[q].flawed => SyncedShown(q)

\* FIRSnapshotMetadata.h promises it of every view.
SyncedIsUpToDate == \A q \in Queries : SyncedShown(q)

\* The changes collected for a target fit what the client has for it: what is
\* added is new, what is modified or removed is there (the HARD_ASSERTs of
\* View::ApplyTargetChange and of SyncEngine::ApplyRemoteEvent).
ChangesFitViews ==
    \A t \in client.listens :
        LET s == client.agg.targets[t]
        IN  IsActive(client.agg, client.listens, t) =>
                /\ Marked(s, "added") \cap Known[t] = {}
                /\ Marked(s, "modified") \cup Marked(s, "removed") \subseteq Known[t]

\* The timer that gives up on a connection is pending only while one is
\* attempted and the state is Unknown (the HARD_ASSERTs of
\* OnlineStateTracker), being Online has cleared the failures, and nothing is
\* shown as up to date while Offline (ApplyOnlineStateChange): neither a view
\* that was when the connection went, nor one opened or restored since.
OnlineStateSound ==
    /\ online.timer => online.state = "Unknown" /\ IsStarted(stream)
    /\ online.state = "Online" => online.failures = 0
    /\ online.state = "Offline" => \A q \in Queries : ~views[q].current

\* What is looked up some view has in limbo, by one target each, and the stream
\* is kept for all that is listened to.
LookupsAreNeeded ==
    /\ \A k \in Keys : client.active[k] # None => IsReferenced(client, k)
    /\ client.resolving = {client.active[k] : k \in Keys} \ {None}
    /\ client.listens = client.resolving \cup {q \in Queries : views[q].on}
    /\ client.listens # {} => IsStarted(stream)

\* The backend refuses the lookup of document k.
IsRefused(k) == RejectLookup /\ HeadRequest.target = client.active[k]

\* What enters limbo is looked up, and until no view has it in limbo, unless the
\* lookup is refused, which takes it out of the limbo of current views.
LookupsFollowLimbo ==
    /\ \A q \in Queries : \A k \in client'.refs[q] \ client.refs[q] :
           client'.active[k] # None
    /\ \A k \in Keys :
           client.active[k] # None /\ client'.active[k] = None =>
               \/ ~IsReferenced(client, k)'
               \/ /\ IsRefused(k)
                  /\ \A q \in Queries : views'[q].current => k \notin client'.refs[q]

\* TrackLimboChange, RemoveLimboTarget, HandleRejectedListen and
\* StartWatchStream keep the lookups to what is in limbo, while no more documents
\* are in limbo than may be looked up at a time: one that has to wait stays in
\* the queue when it leaves limbo.
LimboIsLookedUp == [][LookupsAreNeeded' /\ LookupsFollowLimbo]_vars

\* A view that stays is in the end synced with the last version, if the token
\* it was resumed from was true.
EventuallySynced ==
    \A q \in Queries :
        <>[](views[q].on /\ ~views[q].misled) => <>[](Synced(q) /\ views[q].token = Now)
================================================================================
