------------------------------ MODULE WatchProofs ------------------------------
(***************************************************************************)
(* WatchTargets for any queries and bounds.  First the state of the        *)
(* connection: its timer, its failures, and the views told of it; for any  *)
(* documents too.  Then the targets: the requests counted, the changes     *)
(* collected, and the documents in limbo with their lookups, for no more   *)
(* documents than may be looked up at a time.                              *)
(***************************************************************************)
EXTENDS WatchTargets, FiniteSetInduction, TLAPS

Connection ==
    /\ stream \in [st : StreamStatus, closes : Nat, cred : {NoCred}]
    /\ online \in [state : OnlineStates, failures : Nat, timer : BOOLEAN]
    /\ DOMAIN views = Queries
    /\ \A q \in Queries : "current" \in DOMAIN views[q]

\* OnlineStateSound is inductive with the types it reads.
ConnectionInv == Connection /\ OnlineStateSound

----------------------------------------------------------------------------
(* What the operations of the tracker keep, wherever they are called.      *)

\* A tracker whose timer goes with the state Unknown and whose failures are
\* cleared while Online.
Sound(o) ==
    /\ o \in [state : OnlineStates, failures : Nat, timer : BOOLEAN]
    /\ o.timer => o.state = "Unknown"
    /\ o.state = "Online" => o.failures = 0

\* UpdateState of OnlineStateTracker disarms the timer.
LEMMA UpdateStateSound ==
    ASSUME NEW s \in OnlineStates
    PROVE  /\ Sound(UpdateState(s))
           /\ UpdateState(s).state = s
           /\ ~UpdateState(s).timer
BY DEF Sound, UpdateState, Tracker, OnlineStates

\* HandleWatchStreamStart arms it in the state Unknown only, and leaves
\* another state that had failures.
LEMMA StartSound ==
    ASSUME NEW o, Sound(o)
    PROVE  /\ Sound(HandleWatchStreamStart(o))
           /\ HandleWatchStreamStart(o).state = "Offline" => o.state = "Offline"
BY DEF Sound, HandleWatchStreamStart, Tracker, OnlineStates

\* HandleWatchStreamFailure disarms it when it goes Offline.
LEMMA FailureSound ==
    ASSUME NEW o, Sound(o)
    PROVE  Sound(HandleWatchStreamFailure(o))
BY DEF Sound, HandleWatchStreamFailure, Tracker, OnlineStates

\* The block of the timer leaves none behind.
LEMMA TimedOutSound ==
    ASSUME NEW o, Sound(o)
    PROVE  /\ Sound(TimedOut(o))
           /\ TimedOut(o).state = "Offline"
           /\ ~TimedOut(o).timer
BY DEF Sound, TimedOut, Tracker, OnlineStates

\* The views told of a change to Offline are not current, whatever they were.
LEMMA ToldViews ==
    ASSUME NEW o, Connection, OnlineStateSound
    PROVE  /\ DOMAIN ToldOnline(o) = Queries
           /\ \A q \in Queries : "current" \in DOMAIN ToldOnline(o)[q]
           /\ o.state = "Offline" => \A q \in Queries : ~ToldOnline(o)[q].current
<1>1. CASE o.state = "Offline" /\ online.state # "Offline"
  <2>1. ToldOnline(o) = [q \in Queries |-> [views[q] EXCEPT !.current = FALSE]]
    BY <1>1 DEF ToldOnline
  <2>2. ASSUME NEW q \in Queries
        PROVE  /\ "current" \in DOMAIN ToldOnline(o)[q]
               /\ ~ToldOnline(o)[q].current
    BY <2>1 DEF Connection
  <2> QED BY <2>1, <2>2
<1>2. CASE ~(o.state = "Offline" /\ online.state # "Offline")
  BY <1>2 DEF ToldOnline, Connection, OnlineStateSound
<1> QED BY <1>1, <1>2

----------------------------------------------------------------------------
\* The invariant as the lemmas above speak of it.
LEMMA InvParts ==
    ConnectionInv <=> /\ Connection
                      /\ Sound(online)
                      /\ online.timer => IsStarted(stream)
                      /\ online.state = "Offline" => \A q \in Queries : ~views[q].current
BY DEF ConnectionInv, Connection, OnlineStateSound, Sound

\* At first there is neither timer nor view.
LEMMA ConnectionInit == Init => ConnectionInv
BY DEF Init, ConnectionInv, Connection, OnlineStateSound, NewStream, NewTracker, Tracker,
       NoView, StreamStatus, OnlineStates

\* The views after an event, or after any step that ends Online.
LEMMA HeardStep ==
    ASSUME ConnectionInv, UNCHANGED stream, online' = UpdateState("Online"),
           DOMAIN views' = Queries,
           \A q \in Queries : "current" \in DOMAIN views'[q]
    PROVE  ConnectionInv'
<1>1. Sound(online') /\ online'.state = "Online" /\ ~online'.timer
  BY UpdateStateSound DEF OnlineStates
<1> QED
  BY <1>1 DEF ConnectionInv, Connection, OnlineStateSound, Sound

\* The views an event leaves are views: the fields of each are kept.
LEMMA EventViews ==
    ASSUME ConnectionInv, NEW c, NEW event, NEW slow, ApplyRemoteEvent(c, event, slow)
    PROVE  /\ DOMAIN views' = Queries
           /\ \A q \in Queries : "current" \in DOMAIN views'[q]
<1> DEFINE New(cache) == [q \in Queries |-> IF views[q].on THEN ViewAfter(q, event, cache)
                                          ELSE views[q]]
           Told(cache, new, limbo) ==
               [q \in Queries |-> Notified(q, new[q], limbo[q], cache, Applied(event.docs))]
<1>1. PICK cache, limbo : views' = Told(cache, New(cache), limbo)
  <2>1. PICK cache \in {CacheAfter(event.docs, event.ver)} :
            \E n \in {New(cache)} :
            \E limbo \in {[q \in Queries |-> LimboAfter(n[q], c.refs[q])]} :
                views' = Told(cache, n, limbo)
    BY Zenon DEF ApplyRemoteEvent
  <2>2. PICK n \in {New(cache)} : \E limbo : views' = Told(cache, n, limbo)
    BY Zenon, <2>1
  <2>3. PICK limbo : views' = Told(cache, n, limbo)
    BY <2>2
  <2>4. n = New(cache)
    BY Zenon, <2>2
  <2> QED BY Zenon, <2>3, <2>4
<1> DEFINE new == New(cache)
<1>2. ASSUME NEW q \in Queries
      PROVE  "current" \in DOMAIN new[q]
  <2>1. "current" \in DOMAIN views[q]
    BY DEF ConnectionInv, Connection
  <2>2. "current" \in DOMAIN ViewAfter(q, event, cache)
    BY <2>1 DEF ViewAfter
  <2> QED BY <1>1, <2>1, <2>2
<1>3. ASSUME NEW q \in Queries
      PROVE  "current" \in DOMAIN Notified(q, new[q], limbo[q], cache, Applied(event.docs))
  BY <1>2 DEF Notified
<1> QED BY <1>1, <1>3

----------------------------------------------------------------------------
(* The steps.                                                              *)

\* A listen starts the stream with its timer, or finds it started; the view it
\* opens is not current.
LEMMA ListenInv ==
    ASSUME ConnectionInv, NEW q \in Queries, Listen(q)
    PROVE  ConnectionInv'
<1>1. /\ DOMAIN views' = Queries
      /\ \A p \in Queries : "current" \in DOMAIN views'[p]
      /\ \A p \in Queries : views'[p].current => views[p].current
  BY DEF Listen, ConnectionInv, Connection
<1>2. CASE IsStarted(stream)
  <2>1. UNCHANGED <<stream, online>>
    BY <1>2 DEF Listen
  <2> QED BY <1>1, <2>1 DEF ConnectionInv, Connection, OnlineStateSound, IsStarted
<1>3. CASE ~IsStarted(stream)
  <2>1. stream' = Start(stream) /\ online' = HandleWatchStreamStart(online)
    BY <1>3 DEF Listen
  <2>2. /\ stream' \in [st : StreamStatus, closes : Nat, cred : {NoCred}]
        /\ IsStarted(stream')
    BY <2>1 DEF ConnectionInv, Connection, Start, IsStarted, StreamStatus
  <2>3. Sound(online') /\ (online'.state = "Offline" => online.state = "Offline")
    BY <2>1, InvParts, StartSound
  <2> QED BY <1>1, <2>2, <2>3 DEF ConnectionInv, Connection, OnlineStateSound, Sound, IsStarted
<1> QED BY <1>2, <1>3

\* The last stop before the stream opens clears the tracker.
LEMMA StopListeningInv ==
    ASSUME ConnectionInv, NEW q \in Queries, StopListening(q)
    PROVE  ConnectionInv'
<1>1. /\ DOMAIN views' = Queries
      /\ \A p \in Queries : "current" \in DOMAIN views'[p]
      /\ \A p \in Queries : views'[p].current => views[p].current
  BY DEF StopListening, ConnectionInv, Connection, NoView
<1>2. stream' = stream
  BY DEF StopListening
<1>3. online' = UpdateState("Unknown") \/ online' = online
  BY DEF StopListening
<1>4. CASE online' = online
  BY <1>1, <1>2, <1>4 DEF ConnectionInv, Connection, OnlineStateSound, IsStarted
<1>5. CASE online' = UpdateState("Unknown")
  <2>1. Sound(online') /\ online'.state = "Unknown" /\ ~online'.timer
    BY <1>5, UpdateStateSound DEF OnlineStates
  <2> QED BY <1>1, <1>2, <2>1 DEF ConnectionInv, Connection, OnlineStateSound, Sound
<1> QED BY <1>3, <1>4, <1>5

\* A failure counts, goes Offline or forgets that it was Online; the stream
\* starts over for what is listened to.
LEMMA StreamFailsInv ==
    ASSUME ConnectionInv, StreamFails
    PROVE  ConnectionInv'
<1>1. views' = ToldOnline(online')
  BY DEF StreamFails, ToldOnline
<1>2. /\ DOMAIN views' = Queries
      /\ \A q \in Queries : "current" \in DOMAIN views'[q]
      /\ online'.state = "Offline" => \A q \in Queries : ~views'[q].current
  BY <1>1, ToldViews DEF ConnectionInv
<1>3. CASE client.listens # {}
  <2>1. /\ online' = HandleWatchStreamStart(HandleWatchStreamFailure(online))
        /\ stream' = Start(Ended(stream, FALSE))
    BY <1>3 DEF StreamFails
  <2>2. Sound(online')
    BY <2>1, InvParts, FailureSound, StartSound
  <2>3. /\ stream' \in [st : StreamStatus, closes : Nat, cred : {NoCred}]
        /\ IsStarted(stream')
    BY <2>1 DEF Start, Ended, Closed, IsStarted, StreamStatus
  <2> QED BY <1>2, <2>2, <2>3 DEF ConnectionInv, Connection, OnlineStateSound, Sound, IsStarted
<1>4. CASE client.listens = {}
  <2>1. online' = UpdateState("Unknown") /\ stream' = Ended(stream, FALSE)
    BY <1>4 DEF StreamFails
  <2>2. Sound(online') /\ online'.state = "Unknown" /\ ~online'.timer
    BY <2>1, UpdateStateSound DEF OnlineStates
  <2>3. stream' \in [st : StreamStatus, closes : Nat, cred : {NoCred}]
    BY <2>1 DEF Ended, Closed, StreamStatus
  <2> QED BY <1>2, <2>2, <2>3 DEF ConnectionInv, Connection, OnlineStateSound, Sound
<1> QED BY <1>3, <1>4

\* The timer goes off into the state Offline, and the views are told.
LEMMA TimerFiresInv ==
    ASSUME ConnectionInv, TimerFires
    PROVE  ConnectionInv'
<1>1. online' = TimedOut(online) /\ views' = ToldOnline(online') /\ stream' = stream
  BY DEF TimerFires, ToldOnline
<1>2. Sound(online') /\ online'.state = "Offline" /\ ~online'.timer
  BY <1>1, InvParts, TimedOutSound
<1>3. /\ DOMAIN views' = Queries
      /\ \A q \in Queries : "current" \in DOMAIN views'[q]
      /\ \A q \in Queries : ~views'[q].current
  BY <1>1, <1>2, ToldViews DEF ConnectionInv
<1> QED BY <1>1, <1>2, <1>3 DEF ConnectionInv, Connection, OnlineStateSound, Sound

\* A restart of the network starts over, with a timer if it is needed.
LEMMA RestartNetworkInv ==
    ASSUME ConnectionInv, RestartNetwork
    PROVE  ConnectionInv'
<1>1. Sound(UpdateState("Unknown")) /\ UpdateState("Unknown").state = "Unknown"
      /\ ~UpdateState("Unknown").timer
  BY UpdateStateSound DEF OnlineStates
<1>2. views' = views
  BY DEF RestartNetwork
<1>3. CASE client.listens # {}
  <2>1. /\ online' = HandleWatchStreamStart(UpdateState("Unknown"))
        /\ stream' = Start(Inhibited(stream))
    BY <1>3 DEF RestartNetwork
  <2>2. Sound(online') /\ online'.state # "Offline"
    BY <1>1, <2>1, StartSound
  <2>3. /\ stream' \in [st : StreamStatus, closes : Nat, cred : {NoCred}]
        /\ IsStarted(stream')
    BY <2>1 DEF ConnectionInv, Connection, Start, Inhibited, IsStarted, StreamStatus
  <2> QED BY <1>2, <2>2, <2>3 DEF ConnectionInv, Connection, OnlineStateSound, Sound, IsStarted
<1>4. CASE client.listens = {}
  <2>1. online' = UpdateState("Unknown") /\ stream' = Inhibited(stream)
    BY <1>4 DEF RestartNetwork
  <2>2. stream' \in [st : StreamStatus, closes : Nat, cred : {NoCred}]
    BY <2>1 DEF ConnectionInv, Connection, Inhibited, StreamStatus
  <2> QED BY <1>1, <1>2, <2>1, <2>2
          DEF ConnectionInv, Connection, OnlineStateSound, Sound
<1> QED BY <1>3, <1>4

\* What opens the stream, or waits no longer to, leaves it started.
LEMMA StreamMovesInv ==
    ASSUME ConnectionInv, StreamOpens \/ BackoffElapses
    PROVE  ConnectionInv'
<1>1. /\ stream' \in [st : StreamStatus, closes : Nat, cred : {NoCred}]
      /\ IsStarted(stream')
  BY DEF ConnectionInv, Connection, StreamOpens, BackoffElapses, Opened, BackoffOver,
         IsStarted, StreamStatus
<1>2. UNCHANGED <<online, views>>
  BY DEF StreamOpens, BackoffElapses
<1> QED BY <1>1, <1>2 DEF ConnectionInv, Connection, OnlineStateSound

\* What ends the call without a failure forgets what was known of it.
LEMMA IdleTimeoutInv ==
    ASSUME ConnectionInv, IdleTimeout
    PROVE  ConnectionInv'
<1>1. /\ online' = UpdateState("Unknown") /\ stream' = Ended(stream, TRUE)
      /\ views' = views
  BY DEF IdleTimeout
<1>2. Sound(online') /\ online'.state = "Unknown" /\ ~online'.timer
  BY <1>1, UpdateStateSound DEF OnlineStates
<1>3. stream' \in [st : StreamStatus, closes : Nat, cred : {NoCred}]
  BY <1>1 DEF Ended, Closed, StreamStatus
<1> QED BY <1>1, <1>2, <1>3 DEF ConnectionInv, Connection, OnlineStateSound, Sound

\* A new process starts without connection and without view.
LEMMA CrashInv ==
    ASSUME ConnectionInv, Crash
    PROVE  ConnectionInv'
BY DEF Crash, ConnectionInv, Connection, OnlineStateSound, NewStream, NewTracker, Tracker,
       NoView, StreamStatus, OnlineStates

\* Every message leaves the state Online, the stream as it is and views.
LEMMA MessagesInv ==
    ASSUME ConnectionInv, Messages
    PROVE  ConnectionInv'
<1>1. /\ UNCHANGED stream
      /\ online' = UpdateState("Online")
  BY Zenon DEF Messages, AnswerWatch, AnswerUnwatch, RejectLookup, SendDocument,
               SendCurrent, SendFilter, SendSnapshot, Hears
<1>2. /\ DOMAIN views = Queries
      /\ \A q \in Queries : "current" \in DOMAIN views[q]
  BY DEF ConnectionInv, Connection
<1>3. /\ DOMAIN views' = Queries
      /\ \A q \in Queries : "current" \in DOMAIN views'[q]
  <2>1. CASE AnswerWatch
    <3>1. views' = [q \in Queries |->
                        IF q = HeadRequest.target
                        THEN [views[q] EXCEPT !.misled = Misleading(HeadRequest),
                                              !.flawed = @ \/ Flawing(HeadRequest)]
                        ELSE views[q]]
      BY <2>1 DEF AnswerWatch
    <3> QED BY <1>2, <3>1
  <2>2. CASE RejectLookup
    <3>1. PICK c, event, slow : ApplyRemoteEvent(c, event, slow)
      BY <2>2, Zenon DEF RejectLookup
    <3> QED BY <3>1, EventViews
  <2>3. CASE SendSnapshot
    <3>1. PICK c, event, slow : ApplyRemoteEvent(c, event, slow)
      BY <2>3, Zenon DEF SendSnapshot
    <3> QED BY <3>1, EventViews
  <2>4. CASE views' = views
    BY <1>2, <2>4
  <2>5. AnswerWatch \/ RejectLookup \/ SendSnapshot \/ views' = views
    BY Zenon DEF Messages, AnswerUnwatch, SendDocument, SendCurrent, SendFilter, Hears
  <2> QED BY <2>1, <2>2, <2>3, <2>4, <2>5
<1> QED BY <1>1, <1>3, HeardStep

\* What happens behind the backend reaches the client by messages only.
LEMMA QuietInv ==
    ASSUME ConnectionInv, UNCHANGED <<stream, online, views>>
    PROVE  ConnectionInv'
BY DEF ConnectionInv, Connection, OnlineStateSound

----------------------------------------------------------------------------
\* Each action is one of the cases above.
LEMMA ConnectionNext == ConnectionInv /\ [Next]_vars => ConnectionInv'
<1> SUFFICES ASSUME ConnectionInv, [Next]_vars PROVE ConnectionInv'
  OBVIOUS
<1>1. CASE \E q \in Queries : Listen(q) \/ StopListening(q)
  BY <1>1, ListenInv, StopListeningInv
<1>2. CASE StreamOpens \/ BackoffElapses
  BY <1>2, StreamMovesInv
<1>3. CASE StreamFails
  BY <1>3, StreamFailsInv
<1>4. CASE IdleTimeout
  BY <1>4, IdleTimeoutInv
<1>5. CASE TimerFires
  BY <1>5, TimerFiresInv
<1>6. CASE RestartNetwork
  BY <1>6, RestartNetworkInv
<1>7. CASE Crash
  BY <1>7, CrashInv
<1>8. CASE Messages
  BY <1>8, MessagesInv
<1>9. CASE (\E k \in Keys : Change(k)) \/ Forget \/ UNCHANGED vars
  <2>1. UNCHANGED <<stream, online, views>>
    BY <1>9, Zenon DEF Change, Forget, vars
  <2> QED BY <2>1, QuietInv
<1> QED
  BY <1>1, <1>2, <1>3, <1>4, <1>5, <1>6, <1>7, <1>8, <1>9, Zenon DEF Next

\* The timer that gives up on a connection is pending only while one is tried
\* and nothing is known of it, an answer clears the failures, and no view is
\* current, and so none is shown as up to date, while the state is Offline:
\* the assertions of OnlineStateTracker and ApplyOnlineStateChange, for any
\* queries, documents and bounds.
THEOREM OnlineStateAlwaysSound == Spec => []OnlineStateSound
<1>1. ConnectionInv => OnlineStateSound
  BY DEF ConnectionInv
<1> QED BY <1>1, ConnectionInit, ConnectionNext, PTL DEF Spec

----------------------------------------------------------------------------
(* Types. *)

\* What the aggregator collects for a document of a target.
Marks == {"same", "added", "modified", "removed"}

\* A document as the backend sends it, or nothing.
Documents == {None} \cup [val : Data, ver : Nat]

\* A document of the cache, with the snapshot it was read at.
Cached == {None} \cup [val : Data, ver : Nat, read : Nat]

\* Tokens and versions go up to the version N of the backend.
TargetStates(N) == [out : Nat, changed : BOOLEAN, docs : [Keys -> Marks],
                    current : BOOLEAN, token : 0..N]

Aggregators(N) == [targets : [Targets -> TargetStates(N)], docs : [Keys -> Documents],
                   resets : SUBSET Queries]

Requests(N) == [op : {"watch", "unwatch"}, target : Targets, token : 0..N]

\* Nothing waits for its turn to be looked up, as few documents as there are.
Clients(N) == [listens : SUBSET Targets, tokens : [Targets -> 0..N], agg : Aggregators(N),
               up : Seq(Requests(N)), idle : BOOLEAN, emptied : BOOLEAN,
               refs : [Queries -> SUBSET Keys], active : [Keys -> LimboIds \cup {None}],
               resolving : SUBSET LimboIds, received : SUBSET LimboIds, waiting : {<<>>}]

Views(N) == [on : BOOLEAN, shown : SUBSET Keys, synced : SUBSET Keys, current : BOOLEAN,
             token : 0..N, free : 0..N, misled : BOOLEAN, flawed : BOOLEAN]

Disks(N) == [cache : [Keys -> Cached],
             targets : [Queries -> [token : 0..N, keys : SUBSET Keys, free : 0..N]],
             last : 0..N]

\* The versions of the backend's data.
Histories == Seq([Keys -> [val : Data, ver : Nat]]) \ {<<>>}

(* The client. *)

\* The requests on their way for target t.
Pending(up, t) == Cardinality({i \in DOMAIN up : up[i].target = t})

\* The changes collected for a target fit the keys known for it.
Fits(s, known) ==
    /\ Marked(s, "added") \cap known = {}
    /\ Marked(s, "modified") \cup Marked(s, "removed") \subseteq known

\* Nothing is collected.
Blank(s) == s.docs = [k \in Keys |-> "same"]

\* The requests of a target on their way are counted.  What is collected for a
\* target that hears fits what is known of it; nothing is collected unless it is
\* listened to and noted as changed.  A lookup has at most one request on its way.
TargetSound(c, syn, t) ==
    LET s == c.agg.targets[t]
    IN  /\ s.out = Pending(c.up, t)
        /\ s.out = 0 => /\ Fits(s, RemoteKeys(c, syn)[t])
                        /\ ~s.changed \/ t \notin c.listens => Blank(s)
        /\ t \in LimboIds \cap c.listens => s.out <= 1

\* On are the queries with a view, syn their synced_documents_.  What is listened
\* to is what is looked up and On; each lookup is of its document.
ClientCore(c, On, syn, N) ==
    /\ c \in Clients(N)
    /\ c.listens = c.resolving \cup On
    /\ c.received \subseteq c.resolving
    /\ \A k \in Keys : c.active[k] # None => KeyOf(c.active[k]) = k
    /\ c.resolving = {c.active[k] : k \in Keys} \ {None}
    /\ \A t \in Targets : TargetSound(c, syn, t)

\* What the client has of the backend while there is no call.
Unheard(c) == c.agg = NewAggregator /\ c.up = <<>> /\ ~c.idle

\* The same, and what holds of the stream that is open or not.
ClientInv(c, open, On, syn, N) ==
    /\ ClientCore(c, On, syn, N)
    /\ ~open => Unheard(c)
    /\ c.idle => c.listens = {}

\* What is looked up some view has in limbo.
Lookups(c) == \A k \in Keys : c.active[k] # None => IsReferenced(c, k)

\* The queries listened to and what their views have as synced.
OnViews == {q \in Queries : views[q].on}
SyncedKeys == [q \in Queries |-> views[q].synced]

\* No more documents than may be looked up at a time: kMaxConcurrentLimboResolutions
\* is 100.  Beyond it a document may leave limbo while it waits for its turn.
FewKeys == Cardinality(Keys) <= MaxResolutions

\* The types of what is not the client's; a view that is closed is not current.
Typed ==
    /\ "history" \in DOMAIN server /\ history \in Histories
    /\ views \in [Queries -> Views(Now)]
    /\ \A q \in Queries : views[q].current => views[q].on
    /\ disk \in Disks(Now)

\* The invariant of the targets, with the types of all it reads.
WatchInv ==
    /\ Typed
    /\ ClientInv(client, IsOpen(stream), OnViews, SyncedKeys, Now)
    /\ Lookups(client)
    /\ client.listens # {} => IsStarted(stream)

----------------------------------------------------------------------------
(* Requests on their way.                                                  *)

\* The requests for a target are as many as there are, and none of none.
LEMMA PendingIsCount ==
    ASSUME NEW N, NEW up \in Seq(Requests(N)), NEW t
    PROVE  /\ IsFiniteSet({i \in DOMAIN up : up[i].target = t})
           /\ Pending(up, t) \in Nat
           /\ up = <<>> => Pending(up, t) = 0
<1> DEFINE I == {i \in DOMAIN up : up[i].target = t}
<1>1. DOMAIN up = 1..Len(up) /\ Len(up) \in Nat
  OBVIOUS
<1>2. IsFiniteSet(I)
  <2>1. I \in SUBSET (1..Len(up))
    BY <1>1
  <2>2. IsFiniteSet(1..Len(up))
    BY <1>1, FS_Interval
  <2> HIDE DEF I
  <2> QED BY <2>1, <2>2, FS_Subset
<1>3. Pending(up, t) \in Nat
  BY <1>2, FS_CardinalityType DEF Pending
<1>4. ASSUME up = <<>> PROVE Pending(up, t) = 0
  <2>1. I = {}
    BY <1>4
  <2> QED BY <2>1, FS_EmptySet DEF Pending
<1> QED BY <1>2, <1>3, <1>4

\* A request is for a target.
LEMMA TargetOnItsWay ==
    ASSUME NEW N, NEW up \in Seq(Requests(N)), NEW i \in DOMAIN up
    PROVE  up[i].target \in Targets
<1>1. up[i] \in Requests(N)
  OBVIOUS
<1> QED BY <1>1 DEF Requests

\* A target with none on its way has none.
LEMMA NonePending ==
    ASSUME NEW N, NEW up \in Seq(Requests(N)), NEW t, Pending(up, t) = 0
    PROVE  \A i \in DOMAIN up : up[i].target # t
<1> DEFINE I == {i \in DOMAIN up : up[i].target = t}
<1>1. IsFiniteSet(I) /\ Cardinality(I) = 0
  BY PendingIsCount DEF Pending
<1>2. I = {}
  <2> HIDE DEF I
  <2> QED BY <1>1, FS_EmptySet
<1> QED BY <1>2

\* A request that is sent is one more for its target.
LEMMA PendingAppend ==
    ASSUME NEW N, NEW up \in Seq(Requests(N)), NEW r \in Requests(N), NEW t
    PROVE  Pending(Append(up, r), t) = Pending(up, t) + (IF r.target = t THEN 1 ELSE 0)
<1> DEFINE I == {i \in DOMAIN up : up[i].target = t}
           new == Append(up, r)
           J == {i \in DOMAIN new : new[i].target = t}
           n == Len(up) + 1
<1>1. DOMAIN new = 1..n /\ DOMAIN up = 1..Len(up) /\ Len(up) \in Nat
  OBVIOUS
<1>2. /\ new[n] = r
      /\ \A i \in 1..Len(up) : new[i] = up[i]
  OBVIOUS
<1>3. IsFiniteSet(I) /\ Cardinality(I) \in Nat
  BY PendingIsCount, FS_CardinalityType
<1>4. n \notin I
  BY <1>1
<1>5. CASE r.target = t
  <2>1. J = I \cup {n}
    BY <1>1, <1>2, <1>5
  <2> HIDE DEF I, n
  <2>2. Cardinality(J) = Cardinality(I) + 1
    BY <1>3, <1>4, <2>1, FS_AddElement
  <2> QED BY <1>5, <2>2 DEF Pending, I
<1>6. CASE r.target # t
  <2>1. J = I
    BY <1>1, <1>2, <1>6
  <2>2. Pending(new, t) = Cardinality(I) /\ Pending(up, t) = Cardinality(I)
    BY <2>1 DEF Pending
  <2> HIDE DEF I
  <2> QED BY <1>3, <1>6, <2>2
<1> QED BY <1>5, <1>6

\* An answered request is one less for its target.
LEMMA PendingTail ==
    ASSUME NEW N, NEW up \in Seq(Requests(N)), up # <<>>, NEW t
    PROVE  Pending(up, t) = Pending(Tail(up), t) + (IF Head(up).target = t THEN 1 ELSE 0)
<1> DEFINE I == {i \in DOMAIN up : up[i].target = t}
           new == Tail(up)
           J == {i \in DOMAIN new : new[i].target = t}
           K == I \ {1}
           f == [i \in J |-> i + 1]
<1>1. /\ DOMAIN up = 1..Len(up) /\ Len(up) \in Nat \ {0}
      /\ DOMAIN new = 1..(Len(up) - 1)
      /\ new \in Seq(Requests(N))
      /\ Head(up) = up[1]
  OBVIOUS
<1>2. \A i \in DOMAIN new : new[i] = up[i + 1]
  OBVIOUS
<1>3. IsFiniteSet(I) /\ IsFiniteSet(J) /\ Cardinality(I) \in Nat /\ Cardinality(J) \in Nat
  BY <1>1, PendingIsCount, FS_CardinalityType
<1>4. Cardinality(K) = Cardinality(J)
  <2>1. f \in [J -> K]
    BY <1>1, <1>2
  <2>2. \A a, b \in J : f[a] = f[b] => a = b
    BY <1>1
  <2>3. \A k \in K : \E j \in J : f[j] = k
    <3> TAKE k \in K
    <3>1. k - 1 \in J /\ (k - 1) + 1 = k
      BY <1>1, <1>2
    <3> QED BY <3>1
  <2>4. f \in Injection(J, K) /\ f \in Surjection(J, K)
    BY <2>1, <2>2, <2>3 DEF Injection, IsInjective, Surjection
  <2>5. ExistsBijection(J, K)
    BY <2>4 DEF ExistsBijection, Bijection
  <2> HIDE DEF J, K
  <2> QED BY <1>3, <2>5, FS_Bijection
<1>5. 1 \in I <=> Head(up).target = t
  BY <1>1
<1>6. Cardinality(K) = IF 1 \in I THEN Cardinality(I) - 1 ELSE Cardinality(I)
  <2> HIDE DEF I
  <2> QED BY <1>3, FS_RemoveElement
<1>7. Pending(up, t) = Cardinality(I) /\ Pending(new, t) = Cardinality(J)
  BY DEF Pending
<1> HIDE DEF I, J, K, new, f
<1>8. Cardinality(I) = Cardinality(J) + (IF 1 \in I THEN 1 ELSE 0)
  BY <1>3, <1>4, <1>6
<1> QED BY <1>5, <1>7, <1>8 DEF new

----------------------------------------------------------------------------
(* What the aggregator keeps of one target.                                *)

\* What is collected for a target fits the keys the client has for it, and
\* nothing is collected unless it has pending changes.
Sane(s, known) == Fits(s, known) /\ (~s.changed => Blank(s))

\* A target nothing is collected for is sane, whatever is known of it.
LEMMA BlankIsSane ==
    ASSUME NEW s, Blank(s), NEW known
    PROVE  Sane(s, known)
BY DEF Sane, Fits, Blank, Marked

\* A target starts with nothing.
LEMMA NewTargetIsBlank ==
    ASSUME NEW N \in Nat
    PROVE  NewTarget \in TargetStates(N) /\ NewTarget.out = 0 /\ Blank(NewTarget)
BY DEF NewTarget, TargetStates, Blank, Marks, NoToken

\* ClearPendingChanges forgets what was collected.
LEMMA ClearedIsBlank ==
    ASSUME NEW N, NEW s \in TargetStates(N)
    PROVE  /\ ClearPendingChanges(s) \in TargetStates(N)
           /\ ClearPendingChanges(s).out = s.out
           /\ Blank(ClearPendingChanges(s))
BY DEF ClearPendingChanges, TargetStates, Blank, Marks

\* UpdateResumeToken collects nothing.
LEMMA TokenStaysSane ==
    ASSUME NEW N, NEW s \in TargetStates(N), NEW tok \in 0..N, NEW known
    PROVE  /\ UpdateResumeToken(s, tok) \in TargetStates(N)
           /\ UpdateResumeToken(s, tok).out = s.out
           /\ Sane(s, known) => Sane(UpdateResumeToken(s, tok), known)
<1>1. CASE tok = NoToken
  BY <1>1 DEF UpdateResumeToken
<1>2. CASE tok # NoToken
  <2> DEFINE r == [s EXCEPT !.changed = TRUE, !.token = tok]
  <2>1. r \in TargetStates(N) /\ r.out = s.out /\ r.docs = s.docs /\ r.changed
    BY DEF TargetStates
  <2>2. UpdateResumeToken(s, tok) = r
    BY <1>2 DEF UpdateResumeToken
  <2> HIDE DEF r
  <2> QED BY <2>1, <2>2 DEF Sane, Fits, Marked
<1> QED BY <1>1, <1>2

\* A mark that fits is one more that fits.
LEMMA ChangeStaysSane ==
    ASSUME NEW N, NEW s \in TargetStates(N), NEW k \in Keys, NEW type \in Marks, NEW known,
           type = "added" => k \notin known,
           type \in {"modified", "removed"} => k \in known
    PROVE  /\ AddDocumentChange(s, k, type) \in TargetStates(N)
           /\ AddDocumentChange(s, k, type).out = s.out
           /\ Sane(s, known) => Sane(AddDocumentChange(s, k, type), known)
<1> DEFINE r == AddDocumentChange(s, k, type)
<1>1. /\ r.docs = [s.docs EXCEPT ![k] = type] /\ r.changed /\ r.out = s.out
      /\ r \in TargetStates(N)
  BY DEF AddDocumentChange, TargetStates
<1>2. s.docs \in [Keys -> Marks]
  BY DEF TargetStates
<1> HIDE DEF r
<1>3. \A j \in Keys : r.docs[j] = IF j = k THEN type ELSE s.docs[j]
  BY <1>1, <1>2
<1>4. ASSUME Fits(s, known) PROVE Fits(r, known)
  BY <1>3, <1>4 DEF Fits, Marked
<1> QED BY <1>1, <1>4 DEF Sane, r

\* The marks of HandleDocumentChange fit.
LEMMA TypesFit ==
    ASSUME NEW known, NEW t, NEW k, NEW updated
    PROVE  LET type == Types(known, t, k, updated)
           IN  /\ type \in Marks
               /\ type = "added" => k \notin known[t]
               /\ type \in {"modified", "removed"} => k \in known[t]
BY DEF Types, Marks

----------------------------------------------------------------------------
(* What the messages make of the aggregator.                               *)

\* b is what a message makes of a: only targets that listen have heard it, and
\* what they collect still fits.
Heard(a, b, L, known, N) ==
    /\ b \in Aggregators(N)
    /\ \A t \in Targets :
           /\ b.targets[t].out = a.targets[t].out
           /\ ~IsActive(a, L, t) => b.targets[t] = a.targets[t]
           /\ IsActive(a, L, t) /\ Sane(a.targets[t], known[t]) =>
                  Sane(b.targets[t], known[t])

\* A message nobody hears.
LEMMA HeardNothing ==
    ASSUME NEW N, NEW a \in Aggregators(N), NEW L, NEW known
    PROVE  Heard(a, a, L, known, N)
BY DEF Heard

\* A target that looks a document up is of a document.
LEMMA LimboKey == \A n \in LimboIds : KeyOf(n) \in Keys
BY DEF LimboIds, KeyOf

\* A token for all.
LEMMA NoTargetChangeHeard ==
    ASSUME NEW N, NEW a \in Aggregators(N), NEW L, NEW known, NEW tok \in 0..N
    PROVE  Heard(a, NoTargetChange(a, L, tok), L, known, N)
<1> DEFINE b == NoTargetChange(a, L, tok)
           new == [t \in Targets |-> IF IsActive(a, L, t)
                                     THEN UpdateResumeToken(a.targets[t], tok)
                                     ELSE a.targets[t]]
<1>1. b = [a EXCEPT !.targets = new]
  BY DEF NoTargetChange
<1>2. a.targets \in [Targets -> TargetStates(N)]
  BY DEF Aggregators
<1>3. new \in [Targets -> TargetStates(N)]
  BY <1>2, TokenStaysSane
<1>4. b \in Aggregators(N) /\ b.targets = new
  <2> HIDE DEF new, b
  <2> QED BY <1>1, <1>3 DEF Aggregators
<1>5. ASSUME NEW t \in Targets
      PROVE  /\ new[t].out = a.targets[t].out
             /\ ~IsActive(a, L, t) => new[t] = a.targets[t]
             /\ IsActive(a, L, t) /\ Sane(a.targets[t], known[t]) => Sane(new[t], known[t])
  BY <1>2, TokenStaysSane
<1> HIDE DEF new, b
<1> QED BY <1>4, <1>5 DEF Heard, b

\* A target that is current.
LEMMA TargetCurrentHeard ==
    ASSUME NEW N, NEW a \in Aggregators(N), NEW L, NEW known, NEW t \in Targets,
           NEW tok \in 0..N
    PROVE  Heard(a, TargetCurrent(a, L, t, tok), L, known, N)
<1>1. CASE ~IsActive(a, L, t)
  BY <1>1, HeardNothing DEF TargetCurrent
<1>2. CASE IsActive(a, L, t)
  <2> DEFINE s == a.targets[t]
             r == [s EXCEPT !.changed = TRUE, !.current = TRUE]
             u == UpdateResumeToken(r, tok)
             b == [a EXCEPT !.targets[t] = u]
  <2>1. TargetCurrent(a, L, t, tok) = b
    BY <1>2 DEF TargetCurrent
  <2>2. s \in TargetStates(N) /\ a.targets \in [Targets -> TargetStates(N)]
    BY DEF Aggregators
  <2>3. r \in TargetStates(N) /\ r.out = s.out /\ (Sane(s, known[t]) => Sane(r, known[t]))
    <3>1. r \in TargetStates(N) /\ r.out = s.out /\ r.docs = s.docs /\ r.changed
      BY <2>2 DEF TargetStates
    <3> HIDE DEF r, s
    <3> QED BY <3>1 DEF Sane, Fits, Marked
  <2>4. u \in TargetStates(N) /\ u.out = s.out /\ (Sane(s, known[t]) => Sane(u, known[t]))
    <3> HIDE DEF r, s
    <3> QED BY <2>3, TokenStaysSane
  <2>5. b \in Aggregators(N) /\ b.targets = [a.targets EXCEPT ![t] = u]
    <3> HIDE DEF u
    <3> QED BY <2>4 DEF Aggregators
  <2> HIDE DEF u, b, r
  <2> QED BY <1>2, <2>1, <2>2, <2>4, <2>5 DEF Heard
<1> QED BY <1>1, <1>2

\* A document.
LEMMA DocumentChangeHeard ==
    ASSUME NEW N, NEW a \in Aggregators(N), NEW L, NEW known, NEW updated, NEW removed,
           NEW k \in Keys, NEW doc \in Documents
    PROVE  Heard(a, HandleDocumentChange(a, L, known, updated, removed, k, doc), L, known, N)
<1> DEFINE heard == {t \in updated \cup removed : IsActive(a, L, t)}
           new == [t \in Targets |->
                      IF t \in heard
                      THEN AddDocumentChange(a.targets[t], k, Types(known, t, k, updated))
                      ELSE a.targets[t]]
           docs == [a.docs EXCEPT ![k] = IF heard = {} \/ doc = None THEN @ ELSE doc]
           b == [a EXCEPT !.targets = new, !.docs = docs]
<1>1. HandleDocumentChange(a, L, known, updated, removed, k, doc) = b
  BY DEF HandleDocumentChange
<1>2. a.targets \in [Targets -> TargetStates(N)] /\ a.docs \in [Keys -> Documents]
  BY DEF Aggregators
<1>3. ASSUME NEW t \in Targets
      PROVE  /\ new[t] \in TargetStates(N)
             /\ new[t].out = a.targets[t].out
             /\ ~IsActive(a, L, t) => new[t] = a.targets[t]
             /\ IsActive(a, L, t) /\ Sane(a.targets[t], known[t]) => Sane(new[t], known[t])
  <2>1. CASE t \notin heard
    BY <1>2, <2>1
  <2>2. CASE t \in heard
    <3> DEFINE type == Types(known, t, k, updated)
    <3>1. /\ type \in Marks
          /\ type = "added" => k \notin known[t]
          /\ type \in {"modified", "removed"} => k \in known[t]
      BY TypesFit
    <3>2. new[t] = AddDocumentChange(a.targets[t], k, type)
      BY <2>2
    <3>3. a.targets[t] \in TargetStates(N)
      BY <1>2
    <3> HIDE DEF type, new
    <3> QED BY <2>2, <3>1, <3>2, <3>3, ChangeStaysSane
  <2> QED BY <2>1, <2>2
<1>4. docs \in [Keys -> Documents]
  BY <1>2
<1>5. new \in [Targets -> TargetStates(N)]
  BY <1>3
<1>6. b \in Aggregators(N) /\ b.targets = new
  <2> HIDE DEF new, docs
  <2> QED BY <1>4, <1>5 DEF Aggregators
<1> HIDE DEF new, b
<1> QED BY <1>1, <1>3, <1>6 DEF Heard

\* A count.
LEMMA ExistenceFilterHeard ==
    ASSUME NEW N \in Nat, NEW a \in Aggregators(N), NEW L, NEW known, NEW t \in Targets, NEW count
    PROVE  Heard(a, HandleExistenceFilter(a, L, known, t, count), L, known, N)
<1>1. CASE ~IsActive(a, L, t)
  BY <1>1, HeardNothing DEF HandleExistenceFilter
<1>2. CASE IsActive(a, L, t) /\ IsDocumentQuery(t)
  <2>1. KeyOf(t) \in Keys /\ NoDocument(0) \in Documents
    BY <1>2, LimboKey DEF IsDocumentQuery, NoDocument, Doc, Documents, Data
  <2>2. Heard(a, Absent(a, L, known, t), L, known, N)
    BY <2>1, DocumentChangeHeard DEF Absent
  <2> QED BY <1>2, <2>2, HeardNothing DEF HandleExistenceFilter
<1>3. CASE IsActive(a, L, t) /\ ~IsDocumentQuery(t)
  <2> DEFINE s == [NewTarget EXCEPT !.docs = [k \in Keys |->
                       IF k \in known[t] THEN "removed" ELSE "same"]]
             b == [ResetTarget(a, known, t) EXCEPT !.resets = @ \cup {t}]
  <2>1. /\ s \in TargetStates(N) /\ s.out = 0 /\ s.changed
        /\ s.docs = [k \in Keys |-> IF k \in known[t] THEN "removed" ELSE "same"]
    <3>1. NewTarget \in TargetStates(N) /\ NewTarget.out = 0 /\ NewTarget.changed
      BY NewTargetIsBlank DEF NewTarget
    <3>2. [k \in Keys |-> IF k \in known[t] THEN "removed" ELSE "same"] \in [Keys -> Marks]
      BY DEF Marks
    <3> QED BY <3>1, <3>2 DEF TargetStates
  <2>2. Sane(s, known[t])
    <3> HIDE DEF s
    <3> QED BY <2>1 DEF Sane, Fits, Marked
  <2>3. t \in Queries
    BY <1>3 DEF IsDocumentQuery, Targets
  <2>4. b \in Aggregators(N) /\ b.targets = [a.targets EXCEPT ![t] = s]
    <3> DEFINE c == [a EXCEPT !.targets[t] = s]
    <3>1. ResetTarget(a, known, t) = c
      BY DEF ResetTarget
    <3> HIDE DEF s
    <3>2. c \in Aggregators(N) /\ c.targets = [a.targets EXCEPT ![t] = s]
      BY <2>1 DEF Aggregators
    <3> HIDE DEF c
    <3>3. b = [c EXCEPT !.resets = @ \cup {t}]
      BY <3>1
    <3> HIDE DEF b
    <3> QED BY <2>3, <3>2, <3>3 DEF Aggregators
  <2>5. a.targets[t].out = 0 /\ a.targets \in [Targets -> TargetStates(N)]
    BY <1>3 DEF IsActive, Aggregators
  <2>6. Heard(a, b, L, known, N)
    <3> HIDE DEF s, b
    <3> QED BY <1>3, <2>1, <2>2, <2>4, <2>5 DEF Heard
  <2>7. HandleExistenceFilter(a, L, known, t, count) \in {a, b}
    BY <1>3 DEF HandleExistenceFilter
  <2> QED BY <2>6, <2>7, HeardNothing
<1> QED BY <1>1, <1>2, <1>3

\* What an event takes for deleted.
LEMMA WithDeletesHeard ==
    ASSUME NEW N, NEW a \in Aggregators(N), NEW L, NEW known, NEW ver \in Nat
    PROVE  Heard(a, WithDeletes(a, L, known, ver), L, known, N)
<1> DEFINE missing == Missing(a, L, known)
           new == [t \in Targets |->
                      IF t \in missing THEN AddDocumentChange(a.targets[t], KeyOf(t), "same")
                      ELSE a.targets[t]]
           docs == [k \in Keys |->
                      IF \E t \in missing : KeyOf(t) = k THEN NoDocument(ver) ELSE a.docs[k]]
           b == [a EXCEPT !.targets = new, !.docs = docs]
<1>1. WithDeletes(a, L, known, ver) = b
  BY DEF WithDeletes
<1>2. a.targets \in [Targets -> TargetStates(N)] /\ a.docs \in [Keys -> Documents]
  BY DEF Aggregators
<1>3. ASSUME NEW t \in Targets
      PROVE  /\ new[t] \in TargetStates(N)
             /\ new[t].out = a.targets[t].out
             /\ ~IsActive(a, L, t) => new[t] = a.targets[t]
             /\ IsActive(a, L, t) /\ Sane(a.targets[t], known[t]) => Sane(new[t], known[t])
  <2>1. CASE t \notin missing
    BY <1>2, <2>1
  <2>2. CASE t \in missing
    <3>1. KeyOf(t) \in Keys /\ IsActive(a, L, t)
      BY <2>2, LimboKey DEF Missing, IsDocumentQuery
    <3>2. new[t] = AddDocumentChange(a.targets[t], KeyOf(t), "same")
      BY <2>2
    <3>3. a.targets[t] \in TargetStates(N) /\ "same" \in Marks
      BY <1>2 DEF Marks
    <3> HIDE DEF new, missing
    <3> QED BY <3>1, <3>2, <3>3, ChangeStaysSane
  <2> QED BY <2>1, <2>2
<1>4. docs \in [Keys -> Documents]
  <2>1. NoDocument(ver) \in Documents
    BY DEF NoDocument, Doc, Documents, Data
  <2> HIDE DEF missing
  <2> QED BY <1>2, <2>1
<1>5. new \in [Targets -> TargetStates(N)]
  BY <1>3
<1>6. b \in Aggregators(N) /\ b.targets = new
  <2> HIDE DEF new, docs
  <2> QED BY <1>4, <1>5 DEF Aggregators
<1> HIDE DEF new, b
<1> QED BY <1>1, <1>3, <1>6 DEF Heard

----------------------------------------------------------------------------
(* What the client does with one target.                                   *)

\* What a target has to fit depends on the target alone.
LEMMA SameTarget ==
    ASSUME NEW c, NEW d, NEW syn, NEW new, NEW t \in Targets, TargetSound(c, syn, t),
           d.agg.targets[t] = c.agg.targets[t],
           Pending(d.up, t) = Pending(c.up, t),
           t \in d.received <=> t \in c.received,
           t \in d.listens <=> t \in c.listens,
           t \in Queries => new[t] = syn[t]
    PROVE  TargetSound(d, new, t)
<1>1. RemoteKeys(d, new)[t] = RemoteKeys(c, syn)[t]
  BY DEF RemoteKeys, IsDocumentQuery, Targets
<1> QED BY <1>1 DEF TargetSound

\* A target with nothing collected fits whatever keys the client has.
LEMMA BlankTarget ==
    ASSUME NEW d, NEW new, NEW t \in Targets,
           d.agg.targets[t].out = Pending(d.up, t),
           d.agg.targets[t].out = 0 => Blank(d.agg.targets[t]),
           t \in LimboIds \cap d.listens => d.agg.targets[t].out <= 1
    PROVE  TargetSound(d, new, t)
BY BlankIsSane DEF TargetSound, Sane

\* What a request leaves of the client.
LEMMA SendFields ==
    ASSUME NEW N \in Nat, NEW c \in Clients(N), NEW r \in Requests(N)
    PROVE  LET d == Send(c, r)
           IN  /\ d \in Clients(N)
               /\ d.up = Append(c.up, r)
               /\ ~d.idle
               /\ d.listens = c.listens /\ d.tokens = c.tokens /\ d.refs = c.refs
               /\ d.active = c.active /\ d.resolving = c.resolving
               /\ d.received = c.received /\ d.waiting = c.waiting
               /\ d.agg.resets = c.agg.resets
               /\ d.agg.targets[r.target].out = c.agg.targets[r.target].out + 1
               /\ \A t \in Targets \ {r.target} : d.agg.targets[t] = c.agg.targets[t]
<1> DEFINE u == r.target
           s == c.agg.targets[u]
           q == [s EXCEPT !.out = @ + 1]
           b == RecordPendingTargetRequest(c.agg, u)
           d == Send(c, r)
<1>1. u \in Targets /\ c.agg \in Aggregators(N) /\ c.up \in Seq(Requests(N))
  BY DEF Requests, Clients
<1>2. c.agg.targets \in [Targets -> TargetStates(N)] /\ s \in TargetStates(N)
  BY <1>1 DEF Aggregators
<1>3. q \in TargetStates(N) /\ q.out = s.out + 1
  <2> HIDE DEF s
  <2> QED BY <1>2 DEF TargetStates
<1>4. b = [c.agg EXCEPT !.targets[u] = q]
  BY DEF RecordPendingTargetRequest
<1> HIDE DEF q, s, u
<1>5. /\ b \in Aggregators(N) /\ b.targets = [c.agg.targets EXCEPT ![u] = q]
      /\ b.resets = c.agg.resets
  BY <1>1, <1>3, <1>4 DEF Aggregators
<1>6. d = [c EXCEPT !.agg = b, !.up = Append(c.up, r), !.idle = FALSE]
  BY DEF Send, u
<1>7. Append(c.up, r) \in Seq(Requests(N))
  BY <1>1
<1> HIDE DEF b
<1>8. /\ d \in Clients(N) /\ d.agg = b /\ d.up = Append(c.up, r) /\ ~d.idle
      /\ d.listens = c.listens /\ d.tokens = c.tokens /\ d.refs = c.refs
      /\ d.active = c.active /\ d.resolving = c.resolving
      /\ d.received = c.received /\ d.waiting = c.waiting
  BY <1>5, <1>6, <1>7 DEF Clients
<1>9. /\ b.targets[u].out = c.agg.targets[u].out + 1
      /\ \A t \in Targets \ {u} : b.targets[t] = c.agg.targets[t]
  BY <1>1, <1>2, <1>3, <1>5 DEF s
<1> HIDE DEF d
<1> QED BY <1>5, <1>6, <1>8, <1>9 DEF d, u, b

\* ... and of the documents collected.
LEMMA SendDocs ==
    ASSUME NEW N, NEW c \in Clients(N), NEW r \in Requests(N)
    PROVE  Send(c, r).agg.docs = c.agg.docs
<1> DEFINE a == c.agg
           b == RecordPendingTargetRequest(a, r.target)
<1>1. a \in Aggregators(N)
  BY DEF Clients
<1>2. b.docs = a.docs
  <2> HIDE DEF a
  <2> QED BY <1>1 DEF RecordPendingTargetRequest, Aggregators
<1>3. Send(c, r) = [c EXCEPT !.agg = b, !.up = Append(c.up, r), !.idle = FALSE]
  BY DEF Send
<1> HIDE DEF b
<1>4. Send(c, r).agg = b
  BY <1>3 DEF Clients
<1> QED BY <1>2, <1>4

\* A request makes its target deaf and leaves the others as they are; a document
\* is looked up by one request.
LEMMA SendCore ==
    ASSUME NEW N \in Nat, NEW c, NEW On, NEW syn, ClientCore(c, On, syn, N),
           NEW r \in Requests(N),
           r.target \in LimboIds \cap c.listens => c.agg.targets[r.target].out = 0
    PROVE  ClientCore(Send(c, r), On, syn, N)
<1> DEFINE d == Send(c, r)
           u == r.target
<1>1. c \in Clients(N) /\ c.up \in Seq(Requests(N)) /\ u \in Targets
  BY DEF ClientCore, Clients, Requests
<1>2. /\ d \in Clients(N) /\ d.up = Append(c.up, r)
      /\ d.listens = c.listens /\ d.active = c.active /\ d.resolving = c.resolving
      /\ d.received = c.received
      /\ d.agg.targets[u].out = c.agg.targets[u].out + 1
      /\ \A t \in Targets \ {u} : d.agg.targets[t] = c.agg.targets[t]
  BY <1>1, SendFields
<1> HIDE DEF d
<1>3. \A t \in Targets : Pending(d.up, t) = Pending(c.up, t) + (IF u = t THEN 1 ELSE 0)
  BY <1>1, <1>2, PendingAppend
<1>4. ASSUME NEW t \in Targets PROVE TargetSound(d, syn, t)
  <2>1. TargetSound(c, syn, t) /\ Pending(c.up, t) \in Nat
    BY <1>1, PendingIsCount DEF ClientCore
  <2>2. CASE t = u
    <3>1. d.agg.targets[t].out = Pending(d.up, t) /\ d.agg.targets[t].out # 0
      BY <1>2, <1>3, <2>1, <2>2 DEF TargetSound
    <3>2. t \in LimboIds \cap d.listens => d.agg.targets[t].out <= 1
      BY <1>2, <2>2
    <3> QED BY <3>1, <3>2 DEF TargetSound
  <2>3. CASE t # u
    <3>1. Pending(d.up, t) = Pending(c.up, t)
      BY <1>3, <2>1, <2>3
    <3> QED BY <1>2, <2>1, <2>3, <3>1, SameTarget
  <2> QED BY <2>2, <2>3
<1> QED BY <1>2, <1>4 DEF ClientCore, d

\* What the aggregator hears.
LEMMA HeardCore ==
    ASSUME NEW N \in Nat, NEW c, NEW On, NEW syn, ClientCore(c, On, syn, N), NEW b,
           Heard(c.agg, b, c.listens, RemoteKeys(c, syn), N)
    PROVE  ClientCore([c EXCEPT !.agg = b], On, syn, N)
<1> DEFINE d == [c EXCEPT !.agg = b]
<1>1. c \in Clients(N) /\ b \in Aggregators(N)
  BY DEF ClientCore, Heard
<1>2. /\ d \in Clients(N) /\ d.agg = b /\ d.up = c.up
      /\ d.listens = c.listens /\ d.active = c.active /\ d.resolving = c.resolving
      /\ d.received = c.received
  BY <1>1 DEF Clients
<1> HIDE DEF d
<1>3. ASSUME NEW t \in Targets PROVE TargetSound(d, syn, t)
  <2>1. TargetSound(c, syn, t)
    BY DEF ClientCore
  <2>2. CASE ~IsActive(c.agg, c.listens, t)
    <3>1. b.targets[t] = c.agg.targets[t]
      BY <2>2 DEF Heard
    <3> QED BY <1>2, <2>1, <3>1, SameTarget
  <2>3. CASE IsActive(c.agg, c.listens, t)
    <3>1. Sane(c.agg.targets[t], RemoteKeys(c, syn)[t]) /\ c.agg.targets[t].out = 0
      BY <2>1, <2>3 DEF TargetSound, Sane, IsActive
    <3>2. Sane(b.targets[t], RemoteKeys(c, syn)[t]) /\ b.targets[t].out = 0
      BY <2>3, <3>1 DEF Heard
    <3>3. RemoteKeys(d, syn) = RemoteKeys(c, syn)
      BY <1>2 DEF RemoteKeys
    <3>4. t \in c.listens
      BY <2>3 DEF IsActive
    <3> QED BY <1>2, <2>1, <3>1, <3>2, <3>3, <3>4 DEF TargetSound, Sane
  <2> QED BY <2>2, <2>3
<1> QED BY <1>2, <1>3 DEF ClientCore, d

----------------------------------------------------------------------------
(* Listening and stopping.                                                 *)

\* d is what a step that leaves limbo as it is makes of c.
Keeps(c, d, open, On, syn, N) ==
    /\ ClientInv(d, open, On, syn, N)
    /\ d.active = c.active /\ d.refs = c.refs

\* A listen of a view that is opened: whatever keys the view starts from.
LEMMA ListenKeeps ==
    ASSUME NEW N \in Nat, NEW c, NEW open \in BOOLEAN, NEW On \in SUBSET Queries, NEW syn,
           ClientInv(c, open, On, syn, N),
           NEW q \in Queries \ On, NEW tok \in 0..N, NEW new,
           \A p \in Queries \ {q} : new[p] = syn[p]
    PROVE  Keeps(c, RemoteListen(c, open, q, tok), open, On \cup {q}, new, N)
<1> DEFINE d == [c EXCEPT !.listens = @ \cup {q}, !.tokens[q] = tok]
           r == Request("watch", q, tok)
<1>1. c \in Clients(N) /\ ClientCore(c, On, syn, N)
  BY DEF ClientInv, ClientCore
<1>2. q \in Targets /\ q \notin LimboIds
  BY WatchAssumption DEF Targets
<1>3. /\ d \in Clients(N) /\ d.agg = c.agg /\ d.up = c.up /\ d.idle = c.idle
      /\ d.listens = c.listens \cup {q} /\ d.active = c.active /\ d.refs = c.refs
      /\ d.resolving = c.resolving /\ d.received = c.received
  BY <1>1, <1>2 DEF Clients
<1> HIDE DEF d
<1>4. q \notin c.listens
  <2>1. c.resolving \subseteq LimboIds
    BY <1>1 DEF Clients
  <2> QED BY <1>1, <1>2, <2>1 DEF ClientCore
<1>5. ASSUME NEW t \in Targets PROVE TargetSound(d, new, t)
  <2>1. TargetSound(c, syn, t)
    BY <1>1 DEF ClientCore
  <2>2. CASE t = q
    <3>1. d.agg.targets[t].out = Pending(d.up, t)
      BY <1>3, <2>1 DEF TargetSound
    <3>2. d.agg.targets[t].out = 0 => Blank(d.agg.targets[t])
      BY <1>3, <1>4, <2>1, <2>2 DEF TargetSound
    <3> QED BY <1>2, <2>2, <3>1, <3>2, BlankTarget
  <2>3. CASE t # q
    <3>1. t \in d.listens <=> t \in c.listens
      BY <1>3, <2>3
    <3>2. t \in Queries => new[t] = syn[t]
      BY <2>3
    <3> QED BY <1>3, <2>1, <3>1, <3>2, SameTarget
  <2> QED BY <2>2, <2>3
<1>6. ClientCore(d, On \cup {q}, new, N)
  BY <1>1, <1>3, <1>5 DEF ClientCore
<1>7. CASE open
  <2>1. r \in Requests(N) /\ r.target = q
    BY <1>2 DEF Request, Requests
  <2>2. RemoteListen(c, open, q, tok) = Send(d, r)
    BY <1>7 DEF RemoteListen, Watch, d
  <2>3. ClientCore(Send(d, r), On \cup {q}, new, N)
    BY <1>2, <1>6, <2>1, SendCore
  <2>4. /\ ~Send(d, r).idle
        /\ Send(d, r).active = d.active /\ Send(d, r).refs = d.refs
    BY <1>3, <2>1, SendFields
  <2> QED BY <1>3, <1>7, <2>2, <2>3, <2>4 DEF Keeps, ClientInv
<1>8. CASE ~open
  <2>1. RemoteListen(c, open, q, tok) = d
    BY <1>8 DEF RemoteListen, d
  <2>2. Unheard(d)
    BY <1>3, <1>8 DEF ClientInv, Unheard
  <2> QED BY <1>3, <1>6, <1>8, <2>1, <2>2 DEF Keeps, ClientInv, Unheard
<1> QED BY <1>7, <1>8

\* d is what a stop of target t leaves of c, but for the bookkeeping of its caller.
Halted(c, d, open, t, N) ==
    /\ d \in Clients(N)
    /\ d.listens = c.listens \ {t}
    /\ d.refs = c.refs /\ d.active = c.active /\ d.resolving = c.resolving
    /\ d.received = c.received /\ d.waiting = c.waiting
    /\ d.tokens = [c.tokens EXCEPT ![t] = NoToken] /\ d.agg.docs = c.agg.docs
    /\ open => /\ d.up = Append(c.up, Request("unwatch", t, NoToken))
               /\ d.idle = (d.listens = {})
               /\ d.agg.targets[t].out = c.agg.targets[t].out + 1
               /\ \A u \in Targets \ {t} : d.agg.targets[u] = c.agg.targets[u]
    /\ ~open => d.agg = c.agg /\ d.up = c.up /\ d.idle = c.idle

\* What a stop leaves.
LEMMA StopFields ==
    ASSUME NEW N \in Nat, NEW c \in Clients(N), NEW open \in BOOLEAN, NEW t \in Targets
    PROVE  Halted(c, RemoteStop(c, open, t), open, t, N)
<1> DEFINE e == [c EXCEPT !.listens = @ \ {t}, !.tokens[t] = NoToken]
           r == Request("unwatch", t, NoToken)
           f == Send(e, r)
           d == RemoteStop(c, open, t)
<1>1. /\ e \in Clients(N) /\ e.listens = c.listens \ {t} /\ e.agg = c.agg /\ e.up = c.up
      /\ e.refs = c.refs /\ e.active = c.active /\ e.resolving = c.resolving
      /\ e.received = c.received /\ e.waiting = c.waiting /\ e.idle = c.idle
      /\ e.emptied = c.emptied /\ e.tokens = [c.tokens EXCEPT ![t] = NoToken]
  <2>1. NoToken \in 0..N
    BY DEF NoToken
  <2> QED BY <2>1 DEF Clients
<1>2. r \in Requests(N) /\ r.target = t
  BY DEF Request, Requests, NoToken
<1> HIDE DEF e, r
<1>3. CASE open
  <2>1. d = [f EXCEPT !.idle = (e.listens = {})]
    BY <1>3 DEF RemoteStop, Unwatch, e, r
  <2>2. /\ f \in Clients(N) /\ f.up = Append(e.up, r) /\ f.listens = e.listens
        /\ f.refs = e.refs /\ f.active = e.active /\ f.resolving = e.resolving
        /\ f.received = e.received /\ f.waiting = e.waiting
        /\ f.tokens = e.tokens /\ f.agg.docs = e.agg.docs
        /\ f.agg.targets[t].out = e.agg.targets[t].out + 1
        /\ \A u \in Targets \ {t} : f.agg.targets[u] = e.agg.targets[u]
    <3>0. e \in Clients(N) /\ r \in Requests(N)
      BY <1>1, <1>2
    <3>1. \A u \in Targets \ {r.target} : f.agg.targets[u] = e.agg.targets[u]
      BY <3>0, SendFields
    <3>2. f.agg.targets[r.target].out = e.agg.targets[r.target].out + 1
      BY <3>0, SendFields
    <3>3. /\ f \in Clients(N) /\ f.up = Append(e.up, r) /\ f.listens = e.listens
          /\ f.refs = e.refs
          /\ f.active = e.active /\ f.resolving = e.resolving
          /\ f.received = e.received /\ f.waiting = e.waiting
          /\ f.tokens = e.tokens
      BY <1>1, <1>2, SendFields
    <3>4. f.agg.docs = e.agg.docs
      BY <1>1, <1>2, SendDocs
    <3> HIDE DEF f
    <3> QED BY <1>2, <3>1, <3>2, <3>3, <3>4
  <2> HIDE DEF f
  <2>3. /\ d \in Clients(N) /\ d.up = f.up /\ d.listens = f.listens /\ d.agg = f.agg
        /\ d.refs = f.refs /\ d.active = f.active /\ d.resolving = f.resolving
        /\ d.received = f.received /\ d.waiting = f.waiting /\ d.idle = (e.listens = {})
        /\ d.tokens = f.tokens
    BY <2>1, <2>2 DEF Clients
  <2> HIDE DEF d
  <2> QED BY <1>1, <1>3, <2>2, <2>3 DEF Halted, d, r
<1>4. CASE ~open
  <2>1. d = [e EXCEPT !.emptied = @ \/ e.listens = {}]
    BY <1>4 DEF RemoteStop, e
  <2>2. /\ d \in Clients(N) /\ d.up = e.up /\ d.listens = e.listens /\ d.agg = e.agg
        /\ d.refs = e.refs /\ d.active = e.active /\ d.resolving = e.resolving
        /\ d.received = e.received /\ d.waiting = e.waiting /\ d.idle = e.idle
        /\ d.tokens = e.tokens
    BY <1>1, <2>1 DEF Clients
  <2> HIDE DEF d
  <2> QED BY <1>1, <1>4, <2>2 DEF Halted, d
<1> QED BY <1>3, <1>4

\* A target that is stopped is deaf until the backend has answered, if there is
\* one, and the others hear as before.
LEMMA StopTargets ==
    ASSUME NEW N \in Nat, NEW c, NEW open \in BOOLEAN, NEW On, NEW syn,
           ClientInv(c, open, On, syn, N), NEW t \in Targets, NEW d, NEW new,
           d.agg = RemoteStop(c, open, t).agg,
           d.up = RemoteStop(c, open, t).up,
           d.listens = c.listens \ {t},
           d.received \in {c.received, c.received \ {t}},
           \A p \in Queries \ {t} : new[p] = syn[p]
    PROVE  /\ \A u \in Targets : TargetSound(d, new, u)
           /\ ~open => d.agg = NewAggregator /\ d.up = <<>>
<1> DEFINE r == Request("unwatch", t, NoToken)
<1>1. c \in Clients(N) /\ c.up \in Seq(Requests(N)) /\ ClientCore(c, On, syn, N)
  BY DEF ClientInv, ClientCore, Clients
<1>2. /\ open => /\ d.up = Append(c.up, r)
                 /\ d.agg.targets[t].out = c.agg.targets[t].out + 1
                 /\ \A u \in Targets \ {t} : d.agg.targets[u] = c.agg.targets[u]
      /\ ~open => d.agg = c.agg /\ d.up = c.up
  <2>1. Halted(c, RemoteStop(c, open, t), open, t, N)
    BY <1>1, StopFields
  <2> QED BY <2>1 DEF Halted
<1>3. r \in Requests(N) /\ r.target = t
  BY DEF Request, Requests, NoToken
<1> HIDE DEF r
<1>4. ASSUME NEW u \in Targets PROVE TargetSound(d, new, u)
  <2>1. TargetSound(c, syn, u) /\ Pending(c.up, u) \in Nat
    BY <1>1, PendingIsCount DEF ClientCore
  <2>2. open => Pending(d.up, u) = Pending(c.up, u) + (IF t = u THEN 1 ELSE 0)
    <3>1. Pending(Append(c.up, r), u) = Pending(c.up, u) + (IF t = u THEN 1 ELSE 0)
      BY <1>1, <1>3, PendingAppend
    <3> QED BY <1>2, <3>1
  <2>3. CASE u # t
    <3>1. d.agg.targets[u] = c.agg.targets[u] /\ Pending(d.up, u) = Pending(c.up, u)
      BY <1>2, <2>1, <2>2, <2>3
    <3>2. /\ u \in d.received <=> u \in c.received
          /\ u \in d.listens <=> u \in c.listens
          /\ u \in Queries => new[u] = syn[u]
      BY <2>3
    <3> QED BY <2>1, <3>1, <3>2, SameTarget
  <2>4. CASE u = t
    <3>1. t \notin d.listens
      OBVIOUS
    <3>2. d.agg.targets[u].out = Pending(d.up, u)
      BY <1>2, <2>1, <2>2, <2>4 DEF TargetSound
    <3>3. d.agg.targets[u].out = 0 => Blank(d.agg.targets[u])
      <4>1. CASE open
        <5>1. c.agg.targets[u].out \in Nat
          BY <2>1 DEF TargetSound
        <5>2. d.agg.targets[u].out = c.agg.targets[u].out + 1
          BY <1>2, <2>4, <4>1
        <5>3. c.agg.targets[u].out + 1 # 0
          BY <5>1
        <5> QED BY <5>2, <5>3
      <4>2. CASE ~open
        <5>1. d.agg.targets[u] = NewTarget
          BY <1>2, <4>2 DEF ClientInv, Unheard, NewAggregator
        <5> QED BY <5>1, NewTargetIsBlank
      <4> QED BY <4>1, <4>2
    <3> QED BY <2>4, <3>1, <3>2, <3>3, BlankTarget
  <2> QED BY <2>3, <2>4
<1>5. ~open => d.agg = NewAggregator /\ d.up = <<>>
  BY <1>2 DEF ClientInv, Unheard
<1> QED BY <1>4, <1>5

\* A view that is closed.
LEMMA StopKeeps ==
    ASSUME NEW N \in Nat, NEW c, NEW open \in BOOLEAN, NEW On \in SUBSET Queries, NEW syn,
           ClientInv(c, open, On, syn, N), NEW q \in On, NEW new,
           \A p \in Queries \ {q} : new[p] = syn[p]
    PROVE  Keeps(c, RemoteStop(c, open, q), open, On \ {q}, new, N)
<1> DEFINE d == RemoteStop(c, open, q)
<1>1. c \in Clients(N) /\ ClientCore(c, On, syn, N)
  BY DEF ClientInv, ClientCore
<1>2. q \in Targets /\ q \notin LimboIds /\ c.resolving \subseteq LimboIds
  BY <1>1, WatchAssumption DEF Targets, Clients
<1>3. /\ d \in Clients(N) /\ d.listens = c.listens \ {q} /\ d.refs = c.refs
      /\ d.active = c.active /\ d.resolving = c.resolving /\ d.received = c.received
      /\ open => d.idle = (d.listens = {})
      /\ ~open => d.idle = c.idle
  <2>1. Halted(c, RemoteStop(c, open, q), open, q, N)
    BY <1>1, <1>2, StopFields
  <2> QED BY <2>1 DEF Halted
<1>4. /\ \A u \in Targets : TargetSound(d, new, u)
      /\ ~open => d.agg = NewAggregator /\ d.up = <<>>
  <2> HIDE DEF d
  <2>1. d.agg = RemoteStop(c, open, q).agg /\ d.up = RemoteStop(c, open, q).up
    BY DEF d
  <2> QED BY <1>2, <1>3, <2>1, StopTargets
<1> HIDE DEF d
<1>5. d.listens = d.resolving \cup (On \ {q})
  BY <1>1, <1>2, <1>3 DEF ClientCore
<1>6. ClientCore(d, On \ {q}, new, N)
  BY <1>1, <1>3, <1>4, <1>5 DEF ClientCore
<1>7. ~open => ~d.idle
  BY <1>3 DEF ClientInv, Unheard
<1>8. d.idle => d.listens = {}
  BY <1>3, <1>7
<1> QED BY <1>3, <1>4, <1>6, <1>7, <1>8 DEF Keeps, ClientInv, Unheard, d

----------------------------------------------------------------------------
(* The queue of lookups.                                                   *)

\* One turn of PumpEnqueuedLimboResolutions.
PumpOne(d, open) ==
    IF Cardinality({j \in Keys : d.active[j] # None}) < MaxResolutions
    THEN StartResolution([d EXCEPT !.waiting = Tail(@)], open, Head(d.waiting))
    ELSE d

\* An empty queue starts nothing.
LEMMA PumpNothing ==
    ASSUME NEW c, NEW open, c.waiting = <<>>
    PROVE  Pump(c, open) = c
<1> DEFINE Step(it, s) == IF s = {} THEN c ELSE PumpOne(it[s \ {Max(s)}], open)
           IsIter(it) == it = [s \in SUBSET (DOMAIN c.waiting) |-> Step(it, s)]
           iter == CHOOSE it : IsIter(it)
           g == [s \in SUBSET (DOMAIN c.waiting) |-> c]
<1>1. Pump(c, open) = iter[DOMAIN c.waiting]
  BY Zenon DEF Pump, FoldLeft, MapThenFoldSet, PumpOne
<1>2. DOMAIN c.waiting = {}
  OBVIOUS
<1>3. IsIter(g)
  <2>1. \A s \in SUBSET (DOMAIN c.waiting) : s = {}
    BY <1>2
  <2>2. \A s \in SUBSET (DOMAIN c.waiting) : g[s] = Step(g, s)
    BY <2>1
  <2> QED BY <2>2
<1>4. IsIter(iter)
  <2> HIDE DEF IsIter, g
  <2> QED BY <1>3, Zenon
<1>5. iter[{}] = c
  <2> HIDE DEF iter
  <2> QED BY <1>2, <1>4
<1> QED BY <1>1, <1>2, <1>5

\* One document in the queue is looked up, if there is room.
LEMMA PumpFirst ==
    ASSUME NEW c, NEW open, NEW k, c.waiting = <<k>>,
           Cardinality({j \in Keys : c.active[j] # None}) < MaxResolutions
    PROVE  Pump(c, open) = StartResolution([c EXCEPT !.waiting = <<>>], open, k)
<1> DEFINE Step(it, s) == IF s = {} THEN c ELSE PumpOne(it[s \ {Max(s)}], open)
           IsIter(it) == it = [s \in SUBSET (DOMAIN c.waiting) |-> Step(it, s)]
           iter == CHOOSE it : IsIter(it)
           g == [s \in SUBSET (DOMAIN c.waiting) |-> IF s = {} THEN c ELSE PumpOne(c, open)]
<1>1. Pump(c, open) = iter[DOMAIN c.waiting]
  BY Zenon DEF Pump, FoldLeft, MapThenFoldSet, PumpOne
<1>2. DOMAIN c.waiting = {1} /\ Head(c.waiting) = k /\ Tail(c.waiting) = <<>>
  OBVIOUS
<1>3. Max({1}) = 1
  BY DEF Max
<1>4. \A s \in SUBSET {1} : s = {} \/ s = {1}
  OBVIOUS
<1>5. IsIter(g)
  <2>1. g[{}] = c
    BY <1>2
  <2>2. \A s \in SUBSET (DOMAIN c.waiting) : g[s] = Step(g, s)
    <3> TAKE s \in SUBSET (DOMAIN c.waiting)
    <3>1. CASE s = {}
      BY <3>1
    <3>2. CASE s = {1}
      <4>1. s \ {Max(s)} = {}
        BY <1>3, <3>2
      <4> HIDE DEF g
      <4>2. Step(g, s) = PumpOne(c, open)
        BY <2>1, <3>2, <4>1
      <4> QED BY <3>2, <4>2 DEF g
    <3> QED BY <1>2, <1>4, <3>1, <3>2
  <2> QED BY <2>2
<1>6. IsIter(iter)
  <2> HIDE DEF IsIter, g
  <2> QED BY <1>5, Zenon
<1>7. iter[{1}] = PumpOne(c, open)
  <2> HIDE DEF iter
  <2>1. iter[{}] = c
    BY <1>2, <1>6
  <2>2. {1} \ {Max({1})} = {}
    BY <1>3
  <2>3. iter[{1}] = Step(iter, {1})
    BY <1>2, <1>6
  <2> QED BY <2>1, <2>2, <2>3
<1>8. PumpOne(c, open) = StartResolution([c EXCEPT !.waiting = <<>>], open, k)
  BY <1>2 DEF PumpOne
<1> QED BY <1>1, <1>2, <1>7, <1>8

----------------------------------------------------------------------------
(* The last request on its way for a target.                               *)

\* Of the requests on their way for a target that is listened to, the last is
\* its listen, from its token.
Asked(c) ==
    \A i \in DOMAIN c.up :
        LET t == c.up[i].target
        IN  t \in c.listens /\ (\A j \in DOMAIN c.up : j > i => c.up[j].target # t) =>
                c.up[i].op = "watch" /\ c.up[i].token = c.tokens[t]

\* With one more request, which stops a target or is its listen.
LEMMA AskedAppend ==
    ASSUME NEW c, NEW d, NEW N, c.up \in Seq(Requests(N)), NEW r \in Requests(N),
           d.up = Append(c.up, r),
           \A t \in d.listens \ {r.target} : t \in c.listens /\ d.tokens[t] = c.tokens[t],
           r.target \in d.listens => r.op = "watch" /\ r.token = d.tokens[r.target],
           Asked(c)
    PROVE  Asked(d)
<1> DEFINE n == Len(c.up) + 1
<1>1. DOMAIN d.up = 1..n /\ DOMAIN c.up = 1..Len(c.up) /\ Len(c.up) \in Nat
  OBVIOUS
<1>2. d.up[n] = r /\ \A i \in 1..Len(c.up) : d.up[i] = c.up[i]
  OBVIOUS
<1> SUFFICES ASSUME NEW i \in DOMAIN d.up, d.up[i].target \in d.listens,
                    \A j \in DOMAIN d.up : j > i => d.up[j].target # d.up[i].target
             PROVE  d.up[i].op = "watch" /\ d.up[i].token = d.tokens[d.up[i].target]
  BY DEF Asked
<1>3. CASE i = n
  BY <1>2, <1>3
<1>4. CASE i # n
  <2>1. i \in DOMAIN c.up /\ n \in DOMAIN d.up /\ n > i
    BY <1>1, <1>4
  <2>2. c.up[i] = d.up[i] /\ d.up[i].target # r.target
    BY <1>1, <1>2, <2>1
  <2>3. \A j \in DOMAIN c.up : j > i => c.up[j].target # c.up[i].target
    BY <1>1, <1>2, <2>1, <2>2
  <2> QED BY <2>1, <2>2, <2>3 DEF Asked
<1> QED BY <1>3, <1>4

\* With the same requests, for targets with their tokens.
LEMMA AskedSame ==
    ASSUME NEW c, NEW d, d.up = c.up,
           \A i \in DOMAIN c.up :
               c.up[i].target \in d.listens =>
                   /\ c.up[i].target \in c.listens
                   /\ d.tokens[c.up[i].target] = c.tokens[c.up[i].target],
           Asked(c)
    PROVE  Asked(d)
BY DEF Asked

\* With the same of all that matters.
LEMMA AskedAlike ==
    ASSUME NEW c, NEW d, d.up = c.up, d.listens = c.listens, d.tokens = c.tokens
    PROVE  Asked(c) => Asked(d)
BY DEF Asked

\* With the first request answered.
LEMMA AskedTail ==
    ASSUME NEW c, NEW d, NEW N, c.up \in Seq(Requests(N)), c.up # <<>>, d.up = Tail(c.up),
           \A t \in d.listens : t \in c.listens /\ d.tokens[t] = c.tokens[t],
           Asked(c)
    PROVE  Asked(d)
<1>1. /\ DOMAIN c.up = 1..Len(c.up) /\ Len(c.up) \in Nat \ {0}
      /\ DOMAIN d.up = 1..(Len(c.up) - 1)
  OBVIOUS
<1>2. \A i \in DOMAIN d.up : d.up[i] = c.up[i + 1]
  OBVIOUS
<1> SUFFICES ASSUME NEW i \in DOMAIN d.up, d.up[i].target \in d.listens,
                    \A j \in DOMAIN d.up : j > i => d.up[j].target # d.up[i].target
             PROVE  d.up[i].op = "watch" /\ d.up[i].token = d.tokens[d.up[i].target]
  BY DEF Asked
<1>3. i + 1 \in DOMAIN c.up /\ c.up[i + 1] = d.up[i]
  BY <1>1, <1>2
<1>4. ASSUME NEW j \in DOMAIN c.up, j > i + 1 PROVE c.up[j].target # d.up[i].target
  <2>1. j - 1 \in DOMAIN d.up /\ j - 1 > i /\ (j - 1) + 1 = j
    BY <1>1, <1>4
  <2> QED BY <1>2, <2>1
<1> QED BY <1>3, <1>4 DEF Asked

\* ... and nothing else changed.
LEMMA AskedAnswered ==
    ASSUME NEW c, NEW d, NEW N, c \in Clients(N), c.up # <<>>,
           d.up = Tail(c.up), d.listens = c.listens, d.tokens = c.tokens, Asked(c)
    PROVE  Asked(d)
<1>1. c.up \in Seq(Requests(N))
  BY DEF Clients
<1>2. \A t \in d.listens : t \in c.listens /\ d.tokens[t] = c.tokens[t]
  OBVIOUS
<1> QED BY <1>1, <1>2, AskedTail

\* The last request of a target is answered.
LEMMA AskedLast ==
    ASSUME NEW c, NEW N, c \in Clients(N), c.up # <<>>, Asked(c),
           Head(c.up).target \in c.listens, Pending(Tail(c.up), Head(c.up).target) = 0
    PROVE  Head(c.up).op = "watch" /\ Head(c.up).token = c.tokens[Head(c.up).target]
<1> DEFINE t == Head(c.up).target
           tail == Tail(c.up)
<1>1. c.up \in Seq(Requests(N))
  BY DEF Clients
<1>2. /\ tail \in Seq(Requests(N)) /\ c.up[1] = Head(c.up) /\ 1 \in DOMAIN c.up
      /\ DOMAIN c.up = 1..Len(c.up) /\ DOMAIN tail = 1..(Len(c.up) - 1)
      /\ Len(c.up) \in Nat
      /\ \A i \in DOMAIN tail : tail[i] = c.up[i + 1]
  BY <1>1
<1>3. \A i \in DOMAIN tail : tail[i].target # t
  <2> HIDE DEF tail, t
  <2>1. Pending(tail, t) = 0
    BY DEF tail, t
  <2> QED BY <1>2, <2>1, NonePending
<1>4. ASSUME NEW j \in DOMAIN c.up, j > 1 PROVE c.up[j].target # t
  <2>1. j - 1 \in DOMAIN tail /\ (j - 1) + 1 = j
    BY <1>2, <1>4
  <2>2. tail[j - 1] = c.up[j]
    BY <1>2, <2>1
  <2> QED BY <1>3, <2>1, <2>2
<1> QED BY <1>2, <1>4 DEF Asked

\* The client goes from c to d by looking documents up and stopping to: the
\* queries stay as they are, and a lookup that hears was there with its token.
Steady(c, d, open) ==
    /\ Asked(c) => Asked(d)
    /\ d.agg.docs = c.agg.docs
    /\ \A q \in Queries : /\ d.agg.targets[q] = c.agg.targets[q]
                          /\ d.tokens[q] = c.tokens[q]
                          /\ q \in d.listens <=> q \in c.listens
    /\ \A n \in LimboIds :
           /\ open /\ n \in d.listens /\ d.agg.targets[n].out = 0 =>
                  /\ n \in c.listens
                  /\ d.agg.targets[n] = c.agg.targets[n]
                  /\ n \in c.received => n \in d.received
           /\ \/ d.tokens[n] = NoToken
              \/ /\ d.tokens[n] = c.tokens[n]
                 /\ n \in d.resolving => /\ n \in c.resolving
                                         /\ n \in c.received => n \in d.received

\* Nothing happens, or one thing after the other.
LEMMA SteadyStays == \A c, open : Steady(c, c, open)
BY DEF Steady

\* Of two things, one after the other.
LEMMA SteadyTwice ==
    ASSUME NEW c, NEW d, NEW e, NEW open, Steady(c, d, open), Steady(d, e, open)
    PROVE  Steady(c, e, open)
BY DEF Steady

----------------------------------------------------------------------------
(* Lookups.                                                                *)

\* A target id that may look up document k.
IdsFor(c, k) == \E n \in LimboIds : KeyOf(n) = k /\ IsFresh(c, n)

\* A document whose lookup starts gets a new target of its own.
LEMMA StartKeeps ==
    ASSUME NEW N \in Nat, NEW c, NEW open \in BOOLEAN, NEW On \in SUBSET Queries, NEW syn,
           ClientInv(c, open, On, syn, N),
           NEW k \in Keys, c.active[k] = None, IdsFor(c, k)
    PROVE  LET d == StartResolution(c, open, k)
           IN  /\ ClientInv(d, open, On, syn, N)
               /\ d.refs = c.refs
               /\ \E n \in LimboIds : d.active = [c.active EXCEPT ![k] = n]
               /\ \A j \in Keys \ {k} : IdsFor(c, j) => IdsFor(d, j)
<1> DEFINE n == CHOOSE m \in LimboIds : KeyOf(m) = k /\ IsFresh(c, m)
           b == [c EXCEPT !.resolving = @ \cup {n},
                          !.active[k] = IF @ = None THEN n ELSE @]
           e == [b EXCEPT !.listens = @ \cup {n}, !.tokens[n] = NoToken]
           r == Request("watch", n, NoToken)
           d == StartResolution(c, open, k)
<1>1. n \in LimboIds /\ KeyOf(n) = k /\ IsFresh(c, n)
  BY DEF IdsFor
<1>2. d = RemoteListen(b, open, n, NoToken)
  BY DEF StartResolution
<1> HIDE DEF n
<1>3. c \in Clients(N) /\ ClientCore(c, On, syn, N) /\ n \in Targets /\ n \notin Queries
      /\ n # None
  BY <1>1, WatchAssumption DEF ClientInv, ClientCore, Targets
<1>4. /\ b \in Clients(N) /\ b.agg = c.agg /\ b.up = c.up /\ b.idle = c.idle
      /\ b.listens = c.listens /\ b.active = [c.active EXCEPT ![k] = n] /\ b.refs = c.refs
      /\ b.resolving = c.resolving \cup {n} /\ b.received = c.received
      /\ b.tokens = c.tokens
  BY <1>1, <1>3 DEF Clients
<1> HIDE DEF b
<1>5. /\ e \in Clients(N) /\ e.agg = c.agg /\ e.up = c.up /\ e.idle = c.idle
      /\ e.listens = c.listens \cup {n} /\ e.active = [c.active EXCEPT ![k] = n]
      /\ e.refs = c.refs
      /\ e.resolving = c.resolving \cup {n} /\ e.received = c.received
  <2>1. NoToken \in 0..N
    BY DEF NoToken
  <2> QED BY <1>3, <1>4, <2>1 DEF Clients
<1> HIDE DEF e
<1>6. n \notin c.listens /\ n \notin c.resolving /\ c.agg.targets[n].out = 0
  BY <1>1, <1>3 DEF IsFresh, ClientCore
<1>7. ASSUME NEW t \in Targets PROVE TargetSound(e, syn, t)
  <2>1. TargetSound(c, syn, t)
    BY <1>3 DEF ClientCore
  <2>2. CASE t = n
    <3>1. e.agg.targets[t].out = Pending(e.up, t)
      BY <1>5, <2>1 DEF TargetSound
    <3>2. Blank(e.agg.targets[t])
      BY <1>5, <1>6, <2>1, <2>2 DEF TargetSound
    <3>3. e.agg.targets[t].out <= 1
      BY <1>5, <1>6, <2>2
    <3> QED BY <3>1, <3>2, <3>3, BlankTarget
  <2>3. CASE t # n
    <3>1. t \in e.listens <=> t \in c.listens
      BY <1>5, <2>3
    <3> QED BY <1>5, <2>1, <3>1, SameTarget
  <2> QED BY <2>2, <2>3
<1>8. c.active \in [Keys -> LimboIds \cup {None}]
  BY <1>3 DEF Clients
<1>9. ClientCore(e, On, syn, N)
  <2>1. \A j \in Keys : e.active[j] # None => KeyOf(e.active[j]) = j
    BY <1>1, <1>3, <1>5, <1>8 DEF ClientCore
  <2>2. e.resolving = {e.active[j] : j \in Keys} \ {None}
    <3>1. c.resolving = {c.active[j] : j \in Keys} \ {None}
      BY <1>3 DEF ClientCore
    <3>2. \A j \in Keys : e.active[j] = IF j = k THEN n ELSE c.active[j]
      BY <1>5, <1>8
    <3> QED BY <1>3, <1>5, <3>1, <3>2
  <2>3. e.listens = e.resolving \cup On /\ e.received \subseteq e.resolving
    BY <1>3, <1>5 DEF ClientCore
  <2> QED BY <1>5, <1>7, <2>1, <2>2, <2>3 DEF ClientCore
<1>10. /\ ClientInv(d, open, On, syn, N) /\ d.refs = e.refs /\ d.active = e.active
       /\ d.resolving = e.resolving
       /\ \A t \in Targets \ {n} : d.agg.targets[t] = e.agg.targets[t]
  <2>1. CASE open
    <3>1. r \in Requests(N) /\ r.target = n
      BY <1>3 DEF Request, Requests, NoToken
    <3>2. d = Send(e, r)
      BY <1>2, <2>1 DEF RemoteListen, Watch, e
    <3> HIDE DEF r
    <3>3. ClientCore(Send(e, r), On, syn, N)
      BY <1>5, <1>6, <1>9, <3>1, SendCore
    <3>4. /\ ~Send(e, r).idle /\ Send(e, r).active = e.active
          /\ Send(e, r).refs = e.refs /\ Send(e, r).resolving = e.resolving
      BY <1>5, <3>1, SendFields
    <3>5. \A t \in Targets \ {r.target} : Send(e, r).agg.targets[t] = e.agg.targets[t]
      BY <1>5, <3>1, SendFields
    <3> HIDE DEF d
    <3> QED BY <2>1, <3>1, <3>2, <3>3, <3>4, <3>5 DEF ClientInv
  <2>2. CASE ~open
    <3>1. d = e
      BY <1>2, <2>2 DEF RemoteListen, e
    <3>2. Unheard(e)
      BY <1>5, <2>2 DEF ClientInv, Unheard
    <3> HIDE DEF d
    <3> QED BY <1>9, <2>2, <3>1, <3>2 DEF ClientInv, Unheard
  <2> QED BY <2>1, <2>2
<1> HIDE DEF d
<1>11. ASSUME NEW j \in Keys \ {k}, IdsFor(c, j) PROVE IdsFor(d, j)
  <2>1. PICK m \in LimboIds : KeyOf(m) = j /\ IsFresh(c, m)
    BY <1>11 DEF IdsFor
  <2>2. m # n /\ m \in Targets
    BY <1>1, <2>1 DEF Targets
  <2>3. IsFresh(d, m)
    BY <1>5, <1>10, <2>1, <2>2 DEF IsFresh
  <2> QED BY <2>1, <2>3 DEF IdsFor
<1>12. d.refs = c.refs /\ d.active = [c.active EXCEPT ![k] = n]
  BY <1>5, <1>10
<1> QED BY <1>1, <1>10, <1>11, <1>12 DEF d

\* It does so beside the others, and waits for the backend.
LEMMA StartSteady ==
    ASSUME NEW N \in Nat, NEW c, NEW open \in BOOLEAN, NEW On \in SUBSET Queries, NEW syn,
           ClientInv(c, open, On, syn, N),
           NEW k \in Keys, c.active[k] = None, IdsFor(c, k)
    PROVE  Steady(c, StartResolution(c, open, k), open)
<1> DEFINE n == CHOOSE m \in LimboIds : KeyOf(m) = k /\ IsFresh(c, m)
           b == [c EXCEPT !.resolving = @ \cup {n},
                          !.active[k] = IF @ = None THEN n ELSE @]
           e == [b EXCEPT !.listens = @ \cup {n}, !.tokens[n] = NoToken]
           r == Request("watch", n, NoToken)
           d == StartResolution(c, open, k)
<1>1. n \in LimboIds /\ KeyOf(n) = k /\ IsFresh(c, n)
  BY DEF IdsFor
<1>2. d = RemoteListen(b, open, n, NoToken)
  BY DEF StartResolution
<1> HIDE DEF n
<1>3. c \in Clients(N) /\ ClientCore(c, On, syn, N) /\ n \in Targets /\ n \notin Queries
      /\ n # None
  BY <1>1, WatchAssumption DEF ClientInv, ClientCore, Targets
<1>4. /\ b \in Clients(N) /\ b.agg = c.agg /\ b.up = c.up
      /\ b.listens = c.listens /\ b.received = c.received /\ b.tokens = c.tokens
      /\ b.resolving = c.resolving \cup {n}
  BY <1>1, <1>3 DEF Clients
<1> HIDE DEF b
<1>5. /\ e \in Clients(N) /\ e.agg = c.agg /\ e.up = c.up
      /\ e.listens = c.listens \cup {n} /\ e.received = c.received
      /\ e.tokens = [c.tokens EXCEPT ![n] = NoToken] /\ e.resolving = c.resolving \cup {n}
  <2>1. NoToken \in 0..N
    BY DEF NoToken
  <2> QED BY <1>3, <1>4, <2>1 DEF Clients
<1> HIDE DEF e
<1>6. c.tokens \in [Targets -> 0..N] /\ c.up \in Seq(Requests(N)) /\ c.agg \in Aggregators(N)
  BY <1>3 DEF Clients
<1>7. /\ e.tokens[n] = NoToken
      /\ \A t \in Targets \ {n} : e.tokens[t] = c.tokens[t]
      /\ \A t \in Targets \ {n} : t \in e.listens <=> t \in c.listens
  BY <1>3, <1>5, <1>6
<1>8. CASE ~open
  <2>1. d = e
    BY <1>2, <1>8 DEF RemoteListen, e
  <2>2. Asked(e)
    BY <1>5, <1>8 DEF Asked, ClientInv, Unheard
  <2> HIDE DEF d
  <2>3. ASSUME NEW q \in Queries
        PROVE  /\ e.agg.targets[q] = c.agg.targets[q]
               /\ e.tokens[q] = c.tokens[q]
               /\ q \in e.listens <=> q \in c.listens
    BY <1>3, <1>5, <1>7 DEF Targets
  <2>4. ASSUME NEW m \in LimboIds
        PROVE  \/ e.tokens[m] = NoToken
               \/ /\ e.tokens[m] = c.tokens[m]
                  /\ m \in e.resolving => /\ m \in c.resolving
                                          /\ m \in c.received => m \in e.received
    BY <1>5, <1>7 DEF Targets
  <2> QED BY <1>5, <1>8, <2>1, <2>2, <2>3, <2>4 DEF Steady, d
<1>9. CASE open
  <2>1. r \in Requests(N) /\ r.target = n /\ r.op = "watch" /\ r.token = NoToken
    BY <1>3 DEF Request, Requests, NoToken
  <2>2. d = Send(e, r)
    BY <1>2, <1>9 DEF RemoteListen, Watch, e
  <2> HIDE DEF r, d
  <2>3. /\ d.listens = e.listens /\ d.tokens = e.tokens /\ d.resolving = e.resolving
        /\ d.received = e.received /\ d.up = Append(e.up, r)
    BY <1>5, <2>1, <2>2, SendFields
  <2>4. d.agg.docs = c.agg.docs
    BY <1>5, <2>1, <2>2, SendDocs
  <2>5. d.agg.targets[n].out # 0
    <3>0. e \in Clients(N) /\ r \in Requests(N)
      BY <1>5, <2>1
    <3>1. d.agg.targets[r.target].out = e.agg.targets[r.target].out + 1
      BY <2>2, <3>0, SendFields
    <3>2. e.agg.targets[n].out \in Nat
      BY <1>3, <1>5, <1>6 DEF Aggregators, TargetStates
    <3> QED BY <2>1, <3>1, <3>2
  <2>6. \A t \in Targets \ {n} : d.agg.targets[t] = c.agg.targets[t]
    <3>1. \A t \in Targets \ {r.target} : d.agg.targets[t] = e.agg.targets[t]
      BY <1>5, <2>1, <2>2, SendFields
    <3> QED BY <1>5, <2>1, <3>1
  <2>7. ASSUME Asked(c) PROVE Asked(d)
    <3>1. \A t \in d.listens \ {r.target} : t \in c.listens /\ d.tokens[t] = c.tokens[t]
      <4>1. d.listens \subseteq Targets
        BY <1>5, <2>3 DEF Clients
      <4> QED BY <1>5, <1>7, <2>1, <2>3, <4>1
    <3>2. d.tokens[r.target] = r.token
      BY <1>7, <2>1, <2>3
    <3>3. d.up = Append(c.up, r)
      BY <1>5, <2>3
    <3> QED BY <1>6, <2>1, <2>7, <3>1, <3>2, <3>3, AskedAppend
  <2>8. ASSUME NEW q \in Queries
        PROVE  /\ d.agg.targets[q] = c.agg.targets[q]
               /\ d.tokens[q] = c.tokens[q]
               /\ q \in d.listens <=> q \in c.listens
    BY <1>3, <1>7, <2>3, <2>6 DEF Targets
  <2>9. ASSUME NEW m \in LimboIds
        PROVE  /\ m \in d.listens /\ d.agg.targets[m].out = 0 =>
                      /\ m \in c.listens
                      /\ d.agg.targets[m] = c.agg.targets[m]
                      /\ m \in c.received => m \in d.received
               /\ \/ d.tokens[m] = NoToken
                  \/ /\ d.tokens[m] = c.tokens[m]
                     /\ m \in d.resolving => /\ m \in c.resolving
                                             /\ m \in c.received => m \in d.received
    <3>1. CASE m = n
      BY <1>7, <2>3, <2>5, <3>1
    <3>2. CASE m # n
      BY <1>5, <1>7, <2>3, <2>6, <3>2 DEF Targets
    <3> QED BY <3>1, <3>2
  <2> QED BY <2>4, <2>7, <2>8, <2>9 DEF Steady, d
<1> QED BY <1>8, <1>9

\* A lookup that is stopped and forgotten leaves the others as they are.
LEMMA ForgottenSteady ==
    ASSUME NEW N \in Nat, NEW c \in Clients(N), NEW open \in BOOLEAN, ~open => c.up = <<>>,
           NEW m \in LimboIds, NEW b, b = RemoteStop(c, open, m), NEW e,
           e.listens = b.listens, e.tokens = b.tokens, e.agg = b.agg, e.up = b.up,
           e.resolving = c.resolving \ {m}, e.received = c.received \ {m}
    PROVE  Steady(c, e, open)
<1> DEFINE r == Request("unwatch", m, NoToken)
<1>1. m \in Targets /\ m \notin Queries
  BY WatchAssumption DEF Targets
<1>2. /\ b.listens = c.listens \ {m} /\ b.tokens = [c.tokens EXCEPT ![m] = NoToken]
      /\ b.agg.docs = c.agg.docs
      /\ open => /\ b.up = Append(c.up, r)
                 /\ b.agg.targets[m].out = c.agg.targets[m].out + 1
                 /\ \A u \in Targets \ {m} : b.agg.targets[u] = c.agg.targets[u]
      /\ ~open => b.agg = c.agg /\ b.up = c.up
  BY <1>1, StopFields DEF Halted
<1>3. c.tokens \in [Targets -> 0..N] /\ c.up \in Seq(Requests(N)) /\ c.listens \subseteq Targets
  BY DEF Clients
<1>4. /\ e.tokens[m] = NoToken /\ m \notin e.listens
      /\ \A t \in Targets \ {m} : e.tokens[t] = c.tokens[t]
      /\ \A t \in Targets \ {m} : t \in e.listens <=> t \in c.listens
      /\ \A t \in Targets \ {m} : e.agg.targets[t] = c.agg.targets[t]
  BY <1>1, <1>2, <1>3
<1>5. r \in Requests(N) /\ r.target = m
  BY <1>1 DEF Request, Requests, NoToken
<1> HIDE DEF r
<1>6. ASSUME Asked(c) PROVE Asked(e)
  <2>1. CASE open
    <3>1. e.up = Append(c.up, r)
      BY <1>2, <2>1
    <3>2. \A t \in e.listens \ {r.target} : t \in c.listens /\ e.tokens[t] = c.tokens[t]
      BY <1>2, <1>3, <1>4, <1>5
    <3> QED BY <1>3, <1>4, <1>5, <1>6, <3>1, <3>2, AskedAppend
  <2>2. CASE ~open
    BY <1>2, <2>2 DEF Asked
  <2> QED BY <2>1, <2>2
<1>7. ASSUME NEW q \in Queries
      PROVE  /\ e.agg.targets[q] = c.agg.targets[q]
             /\ e.tokens[q] = c.tokens[q]
             /\ q \in e.listens <=> q \in c.listens
  BY <1>1, <1>4 DEF Targets
<1>8. ASSUME NEW n \in LimboIds
      PROVE  /\ n \in e.listens /\ e.agg.targets[n].out = 0 =>
                    /\ n \in c.listens
                    /\ e.agg.targets[n] = c.agg.targets[n]
                    /\ n \in c.received => n \in e.received
             /\ \/ e.tokens[n] = NoToken
                \/ /\ e.tokens[n] = c.tokens[n]
                   /\ n \in e.resolving => /\ n \in c.resolving
                                           /\ n \in c.received => n \in e.received
  <2>1. CASE n = m
    BY <1>4, <2>1
  <2>2. CASE n # m
    <3>1. n \in Targets \ {m}
      BY <2>2 DEF Targets
    <3> QED BY <1>4, <2>2, <3>1
  <2> QED BY <2>1, <2>2
<1> QED BY <1>2, <1>6, <1>7, <1>8 DEF Steady

\* d is c without the lookup of document k.
Untracked(c, d, open, On, syn, N, k) ==
    /\ ClientInv(d, open, On, syn, N)
    /\ d.refs = c.refs
    /\ d.active = [c.active EXCEPT ![k] = None]
    /\ \A j \in Keys : IdsFor(c, j) => IdsFor(d, j)
    /\ Steady(c, d, open)

\* A document that is not looked up any more.
LEMMA RemoveKeeps ==
    ASSUME NEW N \in Nat, NEW c, NEW open \in BOOLEAN, NEW On \in SUBSET Queries, NEW syn,
           ClientInv(c, open, On, syn, N), NEW k \in Keys
    PROVE  Untracked(c, RemoveLimboTarget(c, open, k), open, On, syn, N, k)
<1> DEFINE m == c.active[k]
           b == RemoteStop(c, open, m)
           e == Forgotten(b, m)
           d == RemoveLimboTarget(c, open, k)
<1>1. c \in Clients(N) /\ ClientCore(c, On, syn, N)
  BY DEF ClientInv, ClientCore
<1>2. c.active \in [Keys -> LimboIds \cup {None}] /\ c.waiting = <<>>
  BY <1>1 DEF Clients
<1>3. CASE m = None
  <2>1. d = c
    BY <1>3 DEF RemoveLimboTarget
  <2>2. [c.active EXCEPT ![k] = None] = c.active
    BY <1>2, <1>3
  <2> HIDE DEF d
  <2> QED BY <2>1, <2>2, SteadyStays DEF Untracked, d
<1>4. CASE m # None
  <2>1. m \in LimboIds /\ m \in Targets /\ KeyOf(m) = k /\ m \notin Queries
    BY <1>1, <1>2, <1>4, WatchAssumption DEF ClientCore, Targets
  <2>2. /\ b \in Clients(N) /\ b.listens = c.listens \ {m}
        /\ b.refs = c.refs /\ b.active = c.active /\ b.resolving = c.resolving
        /\ b.received = c.received /\ b.waiting = c.waiting
        /\ open => b.idle = (b.listens = {})
        /\ ~open => b.idle = c.idle
    <3>1. Halted(c, RemoteStop(c, open, m), open, m, N)
      BY <1>1, <2>1, StopFields
    <3> QED BY <3>1 DEF Halted
  <2>3. /\ open => b.agg.targets[m].out = c.agg.targets[m].out + 1
        /\ open => \A u \in Targets \ {m} : b.agg.targets[u] = c.agg.targets[u]
        /\ ~open => b.agg = c.agg
    <3>1. Halted(c, RemoteStop(c, open, m), open, m, N)
      BY <1>1, <2>1, StopFields
    <3> QED BY <3>1 DEF Halted
  <2>b. /\ b = RemoteStop(c, open, m)
        /\ b.agg = RemoteStop(c, open, m).agg /\ b.up = RemoteStop(c, open, m).up
    OBVIOUS
  <2> HIDE DEF m, b
  <2>4. e = [b EXCEPT !.active[k] = None, !.resolving = @ \ {m}, !.received = @ \ {m}]
    BY <2>1 DEF Forgotten
  <2> HIDE DEF e
  <2>5. /\ e \in Clients(N) /\ e.listens = c.listens \ {m} /\ e.refs = c.refs
        /\ e.active = [c.active EXCEPT ![k] = None]
        /\ e.resolving = c.resolving \ {m} /\ e.received = c.received \ {m}
        /\ e.waiting = <<>> /\ e.idle = b.idle /\ e.agg = b.agg /\ e.up = b.up
        /\ e.listens = b.listens /\ e.tokens = b.tokens
    BY <1>2, <2>2, <2>4 DEF Clients
  <2>6. /\ \A u \in Targets : TargetSound(e, syn, u)
        /\ ~open => e.agg = NewAggregator /\ e.up = <<>>
    BY <2>1, <2>5, <2>b, StopTargets
  <2>7. ClientCore(e, On, syn, N)
    <3>1. \A j \in Keys : e.active[j] = IF j = k THEN None ELSE c.active[j]
      BY <1>2, <2>5
    <3>2. \A j \in Keys : e.active[j] # None => KeyOf(e.active[j]) = j
      BY <1>1, <3>1 DEF ClientCore
    <3>3. \A j \in Keys : j # k => c.active[j] # m
      BY <1>1, <1>4, <2>1 DEF ClientCore, m
    <3>4. e.resolving = {e.active[j] : j \in Keys} \ {None}
      <4>1. c.resolving = {c.active[j] : j \in Keys} \ {None}
        BY <1>1 DEF ClientCore
      <4> QED BY <2>5, <3>1, <3>3, <4>1 DEF m
    <3>5. e.listens = e.resolving \cup On
      BY <1>1, <2>1, <2>5 DEF ClientCore
    <3>6. e.received \subseteq e.resolving
      BY <1>1, <2>5 DEF ClientCore
    <3> QED BY <2>5, <2>6, <3>2, <3>4, <3>5, <3>6 DEF ClientCore
  <2>8. ~open => ~e.idle
    BY <2>2, <2>5 DEF ClientInv, Unheard
  <2>9. ClientInv(e, open, On, syn, N)
    <3>1. e.idle => e.listens = {}
      BY <2>2, <2>5, <2>8
    <3> QED BY <2>6, <2>7, <2>8, <3>1 DEF ClientInv, Unheard
  <2>10. d = e
    BY <1>4, <2>5, PumpNothing DEF RemoveLimboTarget, e, b, m
  <2>11. ASSUME NEW j \in Keys, IdsFor(c, j) PROVE IdsFor(e, j)
    <3>1. PICK n \in LimboIds : KeyOf(n) = j /\ IsFresh(c, n)
      BY <2>11 DEF IdsFor
    <3>2. n \notin c.resolving /\ c.agg.targets[n].out = 0 /\ n \in Targets
      BY <3>1 DEF IsFresh, Targets
    <3>3. m \in c.resolving
      BY <1>1, <1>4 DEF ClientCore, m
    <3>4. e.agg.targets[n] = c.agg.targets[n]
      BY <2>3, <2>5, <3>2, <3>3
    <3>5. IsFresh(e, n)
      BY <2>5, <3>2, <3>4 DEF IsFresh
    <3> QED BY <3>1, <3>5 DEF IdsFor
  <2>12. Steady(c, e, open)
    <3>1. ~open => c.up = <<>>
      BY DEF ClientInv, Unheard
    <3> QED BY <1>1, <2>1, <2>b, <2>5, <3>1, ForgottenSteady
  <2> HIDE DEF d
  <2> QED BY <2>5, <2>9, <2>10, <2>11, <2>12 DEF Untracked, d
<1> QED BY <1>3, <1>4

\* There is room for one more lookup.
LEMMA RoomForOne ==
    ASSUME FewKeys, NEW c, NEW k \in Keys, c.active[k] = None
    PROVE  Cardinality({j \in Keys : c.active[j] # None}) < MaxResolutions
<1> DEFINE A == {j \in Keys : c.active[j] # None}
<1>1. IsFiniteSet(Keys) /\ A \in SUBSET (Keys \ {k})
  BY WatchAssumption
<1>2. /\ IsFiniteSet(Keys \ {k}) /\ Cardinality(Keys \ {k}) = Cardinality(Keys) - 1
      /\ Cardinality(Keys) \in Nat
  BY <1>1, FS_RemoveElement, FS_CardinalityType
<1> HIDE DEF A
<1>3. IsFiniteSet(A) /\ Cardinality(A) <= Cardinality(Keys \ {k})
  BY <1>1, <1>2, FS_Subset
<1>4. Cardinality(A) \in Nat
  BY <1>3, FS_CardinalityType
<1> QED BY <1>2, <1>3, <1>4, ClientAssumption DEF FewKeys, A

\* d is c with document k looked up.
LookedUp(c, d, open, On, syn, N, k) ==
    /\ ClientInv(d, open, On, syn, N)
    /\ d.refs = c.refs
    /\ d.active[k] # None
    /\ \A j \in Keys \ {k} : d.active[j] = c.active[j]
    /\ \A j \in Keys \ {k} : IdsFor(c, j) => IdsFor(d, j)
    /\ Steady(c, d, open)

\* A document in limbo is looked up, once.
LEMMA TrackKeeps ==
    ASSUME FewKeys, NEW N \in Nat, NEW c, NEW open \in BOOLEAN, NEW On \in SUBSET Queries,
           NEW syn, ClientInv(c, open, On, syn, N),
           NEW k \in Keys, c.active[k] = None => IdsFor(c, k)
    PROVE  LookedUp(c, TrackLimboChange(c, open, k), open, On, syn, N, k)
<1>1. c \in Clients(N)
  BY DEF ClientInv, ClientCore
<1>2. c.active \in [Keys -> LimboIds \cup {None}] /\ c.waiting = <<>>
  BY <1>1 DEF Clients
<1>3. CASE c.active[k] # None
  <2>1. TrackLimboChange(c, open, k) = c
    BY <1>3 DEF TrackLimboChange
  <2> QED BY <1>3, <2>1, SteadyStays DEF LookedUp
<1>4. CASE c.active[k] = None
  <2> DEFINE b == [c EXCEPT !.waiting = Append(@, k)]
             d == TrackLimboChange(c, open, k)
  <2>1. b.waiting = <<k>> /\ b.active = c.active /\ [b EXCEPT !.waiting = <<>>] = c
    <3>1. "waiting" \in DOMAIN c /\ "active" \in DOMAIN c /\ c = [x \in DOMAIN c |-> c[x]]
      BY <1>1 DEF Clients
    <3>2. b.waiting = Append(c.waiting, k) /\ b.active = c.active
      BY <3>1
    <3>3. [b EXCEPT !.waiting = <<>>] = [c EXCEPT !.waiting = <<>>]
      BY <3>1
    <3>4. [c EXCEPT !.waiting = <<>>] = c
      BY <1>2, <3>1
    <3>5. Append(<<>>, k) = <<k>>
      OBVIOUS
    <3> QED BY <1>2, <3>2, <3>3, <3>4, <3>5
  <2>2. d = Pump(b, open)
    BY <1>4 DEF TrackLimboChange
  <2>3. Cardinality({j \in Keys : b.active[j] # None}) < MaxResolutions
    <3> HIDE DEF b
    <3> QED BY <1>4, <2>1, RoomForOne
  <2>4. d = StartResolution(c, open, k)
    <3> HIDE DEF b, d
    <3> QED BY <2>1, <2>2, <2>3, PumpFirst
  <2>5. /\ ClientInv(d, open, On, syn, N)
        /\ d.refs = c.refs
        /\ \E n \in LimboIds : d.active = [c.active EXCEPT ![k] = n]
        /\ \A j \in Keys \ {k} : IdsFor(c, j) => IdsFor(d, j)
    BY <1>4, <2>4, StartKeeps
  <2>s. Steady(c, d, open)
    BY <1>4, <2>4, StartSteady
  <2> HIDE DEF d
  <2>6. PICK n \in LimboIds : d.active = [c.active EXCEPT ![k] = n]
    BY <2>5
  <2>7. d.active[k] # None /\ \A j \in Keys \ {k} : d.active[j] = c.active[j]
    BY <1>2, <2>6, WatchAssumption
  <2> QED BY <2>5, <2>7, <2>s DEF LookedUp, d
<1> QED BY <1>3, <1>4

----------------------------------------------------------------------------
(* Folds.  What each fold of the client makes of one more element.         *)

\* Removed and Added of UpdateTrackedLimboDocuments.
LimboOut(d, open, q, k) ==
    LET e == [d EXCEPT !.refs[q] = @ \ {k}]
    IN  IF IsReferenced(e, k) THEN e ELSE RemoveLimboTarget(e, open, k)

\* Document k enters the limbo of q.
LimboIn(d, open, q, k) == TrackLimboChange([d EXCEPT !.refs[q] = @ \cup {k}], open, k)

\* One turn of each of the loops of the client.
Turn(fold, open, q, limbo, d, x) ==
    CASE fold = "out"      -> LimboOut(d, open, q, x)
      [] fold = "in"       -> LimboIn(d, open, q, x)
      [] fold = "emit"     -> UpdateTrackedLimboDocuments(d, TRUE, x, limbo[x])
      [] fold = "resend"   -> Watch(d, x, d.tokens[x])
      [] fold = "relisten" -> Relisten(d, x)

\* f[1..i] is what the fold of seq leaves after i turns.
Folds(f, n, fold, open, q, limbo, base, seq) ==
    f = [s \in SUBSET (1..n) |->
            IF s = {} THEN base
            ELSE Turn(fold, open, q, limbo, f[s \ {Max(s)}], seq[Max(s)])]

\* The greatest of the first numbers is the last of them.
LEMMA MaxOfFirst ==
    ASSUME NEW i \in Nat
    PROVE  Max(1..(i + 1)) = i + 1 /\ (1..(i + 1)) \ {i + 1} = 1..i
<1> DEFINE S == 1..(i + 1)
<1>1. i + 1 \in S /\ \A y \in S : i + 1 >= y
  OBVIOUS
<1>2. \A x \in S : (\A y \in S : x >= y) => x = i + 1
  BY <1>1
<1>3. Max(S) = i + 1
  BY <1>1, <1>2 DEF Max
<1>4. S \ {i + 1} = 1..i
  OBVIOUS
<1> QED BY <1>3, <1>4

\* What a fold has after each of its turns.
Turns(f, n, fold, open, q, limbo, base, seq) ==
    /\ f[1..0] = base
    /\ \A i \in 0..(n - 1) :
           f[1..(i + 1)] = Turn(fold, open, q, limbo, f[1..i], seq[i + 1])

\* Turn by turn.
LEMMA FoldTurns ==
    ASSUME NEW n \in Nat, NEW fold, NEW open, NEW q, NEW limbo, NEW base, NEW seq, NEW f,
           Folds(f, n, fold, open, q, limbo, base, seq)
    PROVE  Turns(f, n, fold, open, q, limbo, base, seq)
<1>1. f[1..0] = base
  <2>1. 1..0 = {} /\ {} \in SUBSET (1..n)
    OBVIOUS
  <2> QED BY <2>1 DEF Folds
<1>2. ASSUME NEW i \in 0..(n - 1)
      PROVE  f[1..(i + 1)] = Turn(fold, open, q, limbo, f[1..i], seq[i + 1])
  <2> DEFINE s == 1..(i + 1)
  <2>1. s \in SUBSET (1..n) /\ s # {}
    <3>1. i + 1 \in s /\ \A x \in s : x \in 1..n
      OBVIOUS
    <3> HIDE DEF s
    <3> QED BY <3>1
  <2>2. Max(s) = i + 1 /\ s \ {Max(s)} = 1..i
    <3>1. i \in Nat
      OBVIOUS
    <3>2. Max(1..(i + 1)) = i + 1 /\ (1..(i + 1)) \ {i + 1} = 1..i
      BY <3>1, MaxOfFirst
    <3> QED BY Zenon, <3>2
  <2>3. f[s] = Turn(fold, open, q, limbo, f[s \ {Max(s)}], seq[Max(s)])
    <3> HIDE DEF s
    <3> QED BY <2>1 DEF Folds
  <2> QED BY <2>2, <2>3
<1> QED BY <1>1, <1>2 DEF Turns

\* There is such a function, built up from the first indices.
LEMMA FoldExists ==
    ASSUME NEW n \in Nat, NEW fold, NEW open, NEW q, NEW limbo, NEW base, NEW seq
    PROVE  \E f : Folds(f, n, fold, open, q, limbo, base, seq)
<1> DEFINE Is(f, m) == Folds(f, m, fold, open, q, limbo, base, seq)
           Next1(g, s) == IF s = {} THEN base
                          ELSE Turn(fold, open, q, limbo, g[s \ {Max(s)}], seq[Max(s)])
           X == {m \in 0..n : \E f : Is(f, m)}
<1>1. 0 \in X
  <2> DEFINE g == [s \in SUBSET (1..0) |-> base]
  <2>1. \A s \in SUBSET (1..0) : s = {}
    OBVIOUS
  <2>2. g = [s \in SUBSET (1..0) |-> Next1(g, s)]
    BY <2>1
  <2>3. Is(g, 0)
    <3> HIDE DEF g
    <3> QED BY <2>2 DEF Folds
  <2> HIDE DEF Is
  <2> QED BY <2>3
<1>2. ASSUME NEW m \in 0..(n - 1), m \in X PROVE m + 1 \in X
  <2>1. PICK f : Is(f, m)
    BY <1>2
  <2> DEFINE g == [s \in SUBSET (1..(m + 1)) |-> Next1(f, s)]
  <2>2. \A s \in SUBSET (1..m) : g[s] = f[s]
    <3>1. 1..m \subseteq 1..(m + 1)
      OBVIOUS
    <3>2. f = [s \in SUBSET (1..m) |-> Next1(f, s)]
      BY <2>1, Zenon DEF Folds
    <3> HIDE DEF Next1
    <3> QED BY <3>1, <3>2
  <2>3. \A s \in SUBSET (1..(m + 1)) : s # {} => s \ {Max(s)} \in SUBSET (1..m)
    <3> SUFFICES ASSUME NEW s \in SUBSET (1..(m + 1)), s # {}, s \ {Max(s)} \notin SUBSET (1..m)
                 PROVE  FALSE
      OBVIOUS
    <3>1. \A y \in s : y \in 1..(m + 1)
      OBVIOUS
    <3>2. PICK x \in s : x # Max(s) /\ x \notin 1..m
      OBVIOUS
    <3>3. x = m + 1
      BY <3>1, <3>2
    <3>4. \A y \in s : m + 1 >= y
      BY <3>1
    <3>5. Max(s) \in s /\ \A y \in s : Max(s) >= y
      <4>1. \E z \in s : \A y \in s : z >= y
        BY <3>2, <3>3, <3>4
      <4> QED BY <4>1 DEF Max
    <3>6. Max(s) >= m + 1 /\ Max(s) \in 1..(m + 1)
      BY <3>1, <3>3, <3>5
    <3>7. Max(s) = m + 1
      BY <3>6
    <3> QED BY <3>2, <3>3, <3>7
  <2>4. \A s \in SUBSET (1..(m + 1)) : Next1(f, s) = Next1(g, s)
    <3> TAKE s \in SUBSET (1..(m + 1))
    <3>1. CASE s = {}
      BY <3>1
    <3>2. CASE s # {}
      <4>1. g[s \ {Max(s)}] = f[s \ {Max(s)}]
        BY <2>2, <2>3, <3>2
      <4> HIDE DEF g
      <4> QED BY <4>1
    <3> QED BY <3>1, <3>2
  <2>5. g = [s \in SUBSET (1..(m + 1)) |-> Next1(g, s)]
    <3> HIDE DEF Next1
    <3> QED BY <2>4
  <2>6. Is(g, m + 1)
    <3> HIDE DEF g
    <3> QED BY <2>5 DEF Folds
  <2>7. m + 1 \in 0..n
    OBVIOUS
  <2> HIDE DEF Is, g
  <2> QED BY <2>6, <2>7
<1>3. n \in X
  <2> HIDE DEF X
  <2> QED BY <1>1, <1>2, IndexInduction
<1> HIDE DEF Is
<1> QED BY <1>3 DEF Is

\* What the folds leave.
OutAll(c, open, q, seq) ==
    LET Removed(d, k) == LimboOut(d, open, q, k) IN FoldLeft(Removed, c, seq)

InAll(c, open, q, seq) ==
    LET Added(d, k) == LimboIn(d, open, q, k) IN FoldLeft(Added, c, seq)

RelistenAll(c, seq) == FoldLeft(Relisten, c, seq)

EmitAll(c, limbo, seq) ==
    LET Emit(d, q) == UpdateTrackedLimboDocuments(d, TRUE, q, limbo[q])
    IN  FoldLeft(Emit, c, seq)

ResendAll(c, seq) ==
    LET Resend(d, t) == Watch(d, t, d.tokens[t]) IN FoldLeft(Resend, c, seq)

\* f goes through the turns of the fold of seq, whose result is res.
Unfolds(f, n, fold, open, q, limbo, base, seq, res) ==
    Folds(f, n, fold, open, q, limbo, base, seq) /\ res = f[1..n]

\* The loop over the documents that leave limbo takes its turns.
LEMMA OutFold ==
    ASSUME NEW n \in Nat, NEW c, NEW open, NEW q, NEW limbo, NEW seq, DOMAIN seq = 1..n
    PROVE  \E f : Unfolds(f, n, "out", open, q, limbo, c, seq, OutAll(c, open, q, seq))
<1> DEFINE IsIter(it) == it = [s \in SUBSET (DOMAIN seq) |->
                                 IF s = {} THEN c
                                 ELSE LimboOut(it[s \ {Max(s)}], open, q, seq[Max(s)])]
           iter == CHOOSE it : IsIter(it)
<1>1. OutAll(c, open, q, seq) = iter[DOMAIN seq]
  BY Zenon DEF OutAll, FoldLeft, MapThenFoldSet
<1>2. \A d, x : Turn("out", open, q, limbo, d, x) = LimboOut(d, open, q, x)
  BY DEF Turn
<1>3. \A f : IsIter(f) <=> Folds(f, n, "out", open, q, limbo, c, seq)
  BY <1>2, Zenon DEF Folds
<1>4. IsIter(iter)
  <2>1. \E f : IsIter(f)
    BY <1>3, FoldExists
  <2> HIDE DEF IsIter
  <2> QED BY <2>1, Zenon
<1> HIDE DEF IsIter, iter
<1> QED BY <1>1, <1>3, <1>4 DEF Unfolds

\* The loop over the documents that enter limbo takes its turns.
LEMMA InFold ==
    ASSUME NEW n \in Nat, NEW c, NEW open, NEW q, NEW limbo, NEW seq, DOMAIN seq = 1..n
    PROVE  \E f : Unfolds(f, n, "in", open, q, limbo, c, seq, InAll(c, open, q, seq))
<1> DEFINE IsIter(it) == it = [s \in SUBSET (DOMAIN seq) |->
                                 IF s = {} THEN c
                                 ELSE LimboIn(it[s \ {Max(s)}], open, q, seq[Max(s)])]
           iter == CHOOSE it : IsIter(it)
<1>1. InAll(c, open, q, seq) = iter[DOMAIN seq]
  BY Zenon DEF InAll, FoldLeft, MapThenFoldSet
<1>2. \A d, x : Turn("in", open, q, limbo, d, x) = LimboIn(d, open, q, x)
  BY DEF Turn
<1>3. \A f : IsIter(f) <=> Folds(f, n, "in", open, q, limbo, c, seq)
  BY <1>2, Zenon DEF Folds
<1>4. IsIter(iter)
  <2>1. \E f : IsIter(f)
    BY <1>3, FoldExists
  <2> HIDE DEF IsIter
  <2> QED BY <2>1, Zenon
<1> HIDE DEF IsIter, iter
<1> QED BY <1>1, <1>3, <1>4 DEF Unfolds

\* The loop over the targets in mismatch takes its turns.
LEMMA RelistenFold ==
    ASSUME NEW n \in Nat, NEW c, NEW seq, DOMAIN seq = 1..n
    PROVE  \E f : Unfolds(f, n, "relisten", TRUE, None, None, c, seq, RelistenAll(c, seq))
<1> DEFINE IsIter(it) == it = [s \in SUBSET (DOMAIN seq) |->
                                 IF s = {} THEN c
                                 ELSE Relisten(it[s \ {Max(s)}], seq[Max(s)])]
           iter == CHOOSE it : IsIter(it)
<1>1. RelistenAll(c, seq) = iter[DOMAIN seq]
  BY Zenon DEF RelistenAll, FoldLeft, MapThenFoldSet
<1>2. \A d, x : Turn("relisten", TRUE, None, None, d, x) = Relisten(d, x)
  BY DEF Turn
<1>3. \A f : IsIter(f) <=> Folds(f, n, "relisten", TRUE, None, None, c, seq)
  BY <1>2, Zenon DEF Folds
<1>4. IsIter(iter)
  <2>1. \E f : IsIter(f)
    BY <1>3, FoldExists
  <2> HIDE DEF IsIter
  <2> QED BY <2>1, Zenon
<1> HIDE DEF IsIter, iter
<1> QED BY <1>1, <1>3, <1>4 DEF Unfolds

\* The loop over the views takes its turns.
LEMMA EmitFold ==
    ASSUME NEW n \in Nat, NEW c, NEW limbo, NEW seq, DOMAIN seq = 1..n
    PROVE  \E f : Unfolds(f, n, "emit", TRUE, None, limbo, c, seq, EmitAll(c, limbo, seq))
<1> DEFINE IsIter(it) == it = [s \in SUBSET (DOMAIN seq) |->
                                 IF s = {} THEN c
                                 ELSE UpdateTrackedLimboDocuments(it[s \ {Max(s)}], TRUE,
                                          seq[Max(s)], limbo[seq[Max(s)]])]
           iter == CHOOSE it : IsIter(it)
<1>1. EmitAll(c, limbo, seq) = iter[DOMAIN seq]
  BY Zenon DEF EmitAll, FoldLeft, MapThenFoldSet
<1>2. \A d, x : Turn("emit", TRUE, None, limbo, d, x)
                    = UpdateTrackedLimboDocuments(d, TRUE, x, limbo[x])
  BY DEF Turn
<1>3. \A f : IsIter(f) <=> Folds(f, n, "emit", TRUE, None, limbo, c, seq)
  BY <1>2, Zenon DEF Folds
<1>4. IsIter(iter)
  <2>1. \E f : IsIter(f)
    BY <1>3, FoldExists
  <2> HIDE DEF IsIter
  <2> QED BY <2>1, Zenon
<1> HIDE DEF IsIter, iter
<1> QED BY <1>1, <1>3, <1>4 DEF Unfolds

\* The loop over the listens takes its turns.
LEMMA ResendFold ==
    ASSUME NEW n \in Nat, NEW c, NEW seq, DOMAIN seq = 1..n
    PROVE  \E f : Unfolds(f, n, "resend", TRUE, None, None, c, seq, ResendAll(c, seq))
<1> DEFINE IsIter(it) == it = [s \in SUBSET (DOMAIN seq) |->
                                 IF s = {} THEN c
                                 ELSE Watch(it[s \ {Max(s)}], seq[Max(s)],
                                            it[s \ {Max(s)}].tokens[seq[Max(s)]])]
           iter == CHOOSE it : IsIter(it)
<1>1. ResendAll(c, seq) = iter[DOMAIN seq]
  BY Zenon DEF ResendAll, FoldLeft, MapThenFoldSet
<1>2. \A d, x : Turn("resend", TRUE, None, None, d, x) = Watch(d, x, d.tokens[x])
  BY DEF Turn
<1>3. \A f : IsIter(f) <=> Folds(f, n, "resend", TRUE, None, None, c, seq)
  BY <1>2, Zenon DEF Folds
<1>4. IsIter(iter)
  <2>1. \E f : IsIter(f)
    BY <1>3, FoldExists
  <2> HIDE DEF IsIter
  <2> QED BY <2>1, Zenon
<1> HIDE DEF IsIter, iter
<1> QED BY <1>1, <1>3, <1>4 DEF Unfolds

\* The operators of the client are these folds.
LEMMA FoldsOfClient ==
    /\ \A c, open, q, limbo :
           UpdateTrackedLimboDocuments(c, open, q, limbo)
             = InAll(OutAll(c, open, q, SetToSeq(c.refs[q] \ limbo)), open, q,
                     SetToSeq(limbo \ c.refs[q]))
    /\ \A c : Resent(c) = ResendAll(c, SetToSeq(c.listens))
    /\ \A c, limbo :
           LimboTracked(c, limbo) = EmitAll(c, limbo, SetToSeq({q \in Queries : views[q].on}))
    /\ \A c, changes :
           TakeEvent(c, changes)
             = RelistenAll([c EXCEPT !.tokens = Tokens(c, changes),
                                     !.agg = AfterEvent(c.agg, c.listens)],
                           SetToSeq(c.agg.resets \cap c.listens))
<1>1. ASSUME NEW c, NEW open, NEW q, NEW limbo
      PROVE  UpdateTrackedLimboDocuments(c, open, q, limbo)
               = InAll(OutAll(c, open, q, SetToSeq(c.refs[q] \ limbo)), open, q,
                       SetToSeq(limbo \ c.refs[q]))
  BY ZenonT(120) DEF UpdateTrackedLimboDocuments, InAll, OutAll, LimboIn, LimboOut, FoldLeft,
                     MapThenFoldSet
<1>2. \A c : Resent(c) = ResendAll(c, SetToSeq(c.listens))
  BY Zenon DEF Resent, ResendAll, FoldLeft, MapThenFoldSet
<1>3. \A c, limbo :
          LimboTracked(c, limbo) = EmitAll(c, limbo, SetToSeq({q \in Queries : views[q].on}))
  BY Zenon DEF LimboTracked, EmitAll, FoldLeft, MapThenFoldSet
<1>4. \A c, changes :
          TakeEvent(c, changes)
            = RelistenAll([c EXCEPT !.tokens = Tokens(c, changes),
                                    !.agg = AfterEvent(c.agg, c.listens)],
                          SetToSeq(c.agg.resets \cap c.listens))
  BY Zenon DEF TakeEvent, RelistenAll, FoldLeft, MapThenFoldSet
<1> QED BY <1>1, <1>2, <1>3, <1>4

\* The order a fold goes through a set in.
LEMMA OrderOfSet ==
    ASSUME NEW S, IsFiniteSet(S)
    PROVE  LET seq == SetToSeq(S) IN
           \E n \in Nat : /\ seq \in [1..n -> S]
                          /\ DOMAIN seq = 1..n
                          /\ \A i, j \in 1..n : seq[i] = seq[j] => i = j
                          /\ S = {seq[i] : i \in 1..n}
<1> DEFINE n == Cardinality(S)
           seq == SetToSeq(S)
<1>1. n \in Nat /\ ExistsBijection(1..n, S)
  BY FS_CardinalityType
<1>2. PICK g \in [1..n -> S] : IsInjective(g)
  BY <1>1 DEF ExistsBijection, Bijection, Injection
<1>3. seq \in [1..n -> S] /\ IsInjective(seq)
  BY <1>2 DEF SetToSeq
<1> HIDE DEF n, seq
<1>4. seq \in Surjection(1..n, S)
  <2>1. seq \in Injection(1..n, S)
    BY <1>3 DEF Injection
  <2>2. Cardinality(1..n) = n
    BY <1>1, FS_Interval
  <2> QED BY <2>1, <2>2, FS_Injection DEF n
<1>5. S = {seq[i] : i \in 1..n}
  BY <1>3, <1>4 DEF Surjection
<1> QED BY <1>1, <1>3, <1>5 DEF IsInjective, seq

----------------------------------------------------------------------------
(* What is looked up follows the limbo of the views.                       *)

\* An id is left for every document, unless its lookup was started for a view
\* whose turn is over.
Served(c, Done) ==
    \A k \in Keys : IdsFor(c, k) \/ (c.active[k] # None /\ \E p \in Done : k \in c.refs[p])

\* Since b, no document has come into limbo without being looked up, or stayed
\* there while its lookup went.
NoNewOrphans(b, c) ==
    \A q \in Queries : \A k \in c.refs[q] :
        c.active[k] # None \/ (k \in b.refs[q] /\ b.active[k] = None)

Tracked(b, c, open, On, syn, N, Done) ==
    /\ ClientInv(c, open, On, syn, N)
    /\ Lookups(c)
    /\ Served(c, Done)
    /\ NoNewOrphans(b, c)
    /\ Steady(b, c, open)

\* e is c but for what the view of q has in limbo.
Relimboed(c, e, open, On, syn, N, q, r) ==
    /\ ClientInv(e, open, On, syn, N)
    /\ e.refs = [c.refs EXCEPT ![q] = r]
    /\ e.active = c.active
    /\ \A k \in Keys : IdsFor(c, k) <=> IdsFor(e, k)
    /\ Steady(c, e, open)

\* Which view has a document in limbo does not matter to the targets.
LEMMA RefsKeep ==
    ASSUME NEW N \in Nat, NEW c, NEW open \in BOOLEAN, NEW On, NEW syn,
           ClientInv(c, open, On, syn, N), NEW q \in Queries, NEW r \in SUBSET Keys, NEW e,
           e = [c EXCEPT !.refs[q] = r]
    PROVE  Relimboed(c, e, open, On, syn, N, q, r)
<1>1. c \in Clients(N) /\ ClientCore(c, On, syn, N)
  BY DEF ClientInv, ClientCore
<1>2. /\ e \in Clients(N)
      /\ e.refs = [c.refs EXCEPT ![q] = r]
      /\ e.listens = c.listens /\ e.agg = c.agg /\ e.up = c.up /\ e.idle = c.idle
      /\ e.active = c.active /\ e.resolving = c.resolving /\ e.received = c.received
      /\ e.tokens = c.tokens
  BY <1>1 DEF Clients
<1>3. \A t \in Targets : TargetSound(e, syn, t)
  <2> TAKE t \in Targets
  <2>1. TargetSound(c, syn, t)
    BY <1>1 DEF ClientCore
  <2> QED BY <1>2, <2>1, SameTarget
<1>4. ClientCore(e, On, syn, N)
  BY <1>1, <1>2, <1>3 DEF ClientCore
<1>5. ClientInv(e, open, On, syn, N)
  BY <1>2, <1>4 DEF ClientInv, Unheard
<1>6. \A k \in Keys : IdsFor(c, k) <=> IdsFor(e, k)
  BY <1>2 DEF IdsFor, IsFresh
<1>7. Steady(c, e, open)
  BY <1>2 DEF Steady, Asked
<1> QED BY <1>2, <1>5, <1>6, <1>7 DEF Relimboed

\* d is what is left of c when the documents of T have left the limbo of q ...
Left(b, c, d, open, On, syn, N, Done, q, T) ==
    /\ Tracked(b, d, open, On, syn, N, Done)
    /\ d.refs = [c.refs EXCEPT ![q] = c.refs[q] \ T]

\* ... and come into it.
Entered(b, c, d, open, On, syn, N, Done, q, T) ==
    /\ Tracked(b, d, open, On, syn, N, Done)
    /\ d.refs = [c.refs EXCEPT ![q] = c.refs[q] \cup T]

\* Removed: a document leaves the limbo of a view whose turn it is.
LEMMA OutKeeps ==
    ASSUME NEW N \in Nat, NEW b, NEW c, NEW open \in BOOLEAN, NEW On \in SUBSET Queries,
           NEW syn, NEW Done \in SUBSET Queries, Tracked(b, c, open, On, syn, N, Done),
           NEW q \in Queries \ Done, NEW k \in Keys
    PROVE  Left(b, c, LimboOut(c, open, q, k), open, On, syn, N, Done, q, {k})
<1> DEFINE e == [c EXCEPT !.refs[q] = @ \ {k}]
           d == LimboOut(c, open, q, k)
<1>1. c \in Clients(N) /\ ClientInv(c, open, On, syn, N)
  BY DEF Tracked, ClientInv, ClientCore
<1>2. c.refs \in [Queries -> SUBSET Keys] /\ c.active \in [Keys -> LimboIds \cup {None}]
  BY <1>1 DEF Clients
<1>3. /\ e = [c EXCEPT !.refs[q] = c.refs[q] \ {k}]
      /\ c.refs[q] \ {k} \in SUBSET Keys /\ q \in Queries
  BY <1>2
<1>4. d = IF IsReferenced(e, k) THEN e ELSE RemoveLimboTarget(e, open, k)
  BY DEF LimboOut
<1> HIDE DEF e, d
<1>5. /\ ClientInv(e, open, On, syn, N)
      /\ e.refs = [c.refs EXCEPT ![q] = c.refs[q] \ {k}]
      /\ e.active = c.active
      /\ \A j \in Keys : IdsFor(c, j) <=> IdsFor(e, j)
      /\ Steady(b, e, open)
  <2>1. Relimboed(c, e, open, On, syn, N, q, c.refs[q] \ {k})
    BY <1>1, <1>3, RefsKeep
  <2>2. Steady(b, e, open)
    BY <2>1, SteadyTwice DEF Relimboed, Tracked
  <2> QED BY <2>1, <2>2 DEF Relimboed
<1>6. \A p \in Queries : e.refs[p] = IF p = q THEN c.refs[p] \ {k} ELSE c.refs[p]
  BY <1>2, <1>5
<1>7. Served(e, Done)
  <2>1. \A p \in Done : e.refs[p] = c.refs[p]
    BY <1>6
  <2> QED BY <1>5, <2>1 DEF Tracked, Served
<1>8. NoNewOrphans(b, e)
  BY <1>5, <1>6 DEF Tracked, NoNewOrphans
<1>9. \A j \in Keys \ {k} : e.active[j] # None => IsReferenced(e, j)
  BY <1>5, <1>6 DEF Tracked, Lookups, IsReferenced
<1>10. CASE IsReferenced(e, k)
  <2>1. Lookups(e)
    BY <1>9, <1>10 DEF Lookups
  <2> QED BY <1>4, <1>5, <1>7, <1>8, <1>10, <2>1 DEF Left, Tracked, d
<1>11. CASE ~IsReferenced(e, k)
  <2>a. d = RemoveLimboTarget(e, open, k)
    BY <1>4, <1>11
  <2>1. /\ ClientInv(d, open, On, syn, N)
        /\ d.refs = e.refs
        /\ d.active = [e.active EXCEPT ![k] = None]
        /\ \A j \in Keys : IdsFor(e, j) => IdsFor(d, j)
        /\ Steady(b, d, open)
    <3>1. Untracked(e, d, open, On, syn, N, k)
      BY <1>5, <2>a, RemoveKeeps
    <3>2. Steady(b, d, open)
      BY <1>5, <3>1, SteadyTwice DEF Untracked
    <3> QED BY <3>1, <3>2 DEF Untracked
  <2>2. \A j \in Keys : d.active[j] = IF j = k THEN None ELSE e.active[j]
    BY <1>2, <1>5, <2>1
  <2>3. \A p \in Queries : k \notin e.refs[p]
    BY <1>11 DEF IsReferenced
  <2>4. Lookups(d)
    BY <1>9, <2>1, <2>2 DEF Lookups, IsReferenced
  <2>5. Served(d, Done)
    BY <1>7, <2>1, <2>2, <2>3 DEF Served
  <2>6. NoNewOrphans(b, d)
    <3>1. \A p \in Queries : e.refs[p] \subseteq Keys
      BY <1>2, <1>6
    <3> QED BY <1>8, <2>1, <2>2, <2>3, <3>1 DEF NoNewOrphans
  <2> QED BY <1>5, <2>1, <2>4, <2>5, <2>6 DEF Left, Tracked, d
<1> QED BY <1>10, <1>11

\* Added: a document comes into the limbo of a view whose turn it is.
LEMMA InKeeps ==
    ASSUME FewKeys, NEW N \in Nat, NEW b, NEW c, NEW open \in BOOLEAN, NEW On \in SUBSET Queries,
           NEW syn, NEW Done \in SUBSET Queries, Tracked(b, c, open, On, syn, N, Done),
           NEW q \in Done, NEW k \in Keys
    PROVE  Entered(b, c, LimboIn(c, open, q, k), open, On, syn, N, Done, q, {k})
<1> DEFINE e == [c EXCEPT !.refs[q] = @ \cup {k}]
           d == LimboIn(c, open, q, k)
<1>1. c \in Clients(N) /\ ClientInv(c, open, On, syn, N)
  BY DEF Tracked, ClientInv, ClientCore
<1>2. c.refs \in [Queries -> SUBSET Keys] /\ c.active \in [Keys -> LimboIds \cup {None}]
  BY <1>1 DEF Clients
<1>3. /\ e = [c EXCEPT !.refs[q] = c.refs[q] \cup {k}]
      /\ c.refs[q] \cup {k} \in SUBSET Keys /\ q \in Queries
  BY <1>2
<1>4. d = TrackLimboChange(e, open, k)
  BY DEF LimboIn
<1> HIDE DEF e, d
<1>5. /\ ClientInv(e, open, On, syn, N)
      /\ e.refs = [c.refs EXCEPT ![q] = c.refs[q] \cup {k}]
      /\ e.active = c.active
      /\ \A j \in Keys : IdsFor(c, j) <=> IdsFor(e, j)
      /\ Steady(b, e, open)
  <2>1. Relimboed(c, e, open, On, syn, N, q, c.refs[q] \cup {k})
    BY <1>1, <1>3, RefsKeep
  <2>2. Steady(b, e, open)
    BY <2>1, SteadyTwice DEF Relimboed, Tracked
  <2> QED BY <2>1, <2>2 DEF Relimboed
<1>6. \A p \in Queries : e.refs[p] = IF p = q THEN c.refs[p] \cup {k} ELSE c.refs[p]
  BY <1>2, <1>5
<1>7. e.active[k] = None => IdsFor(e, k)
  BY <1>5 DEF Tracked, Served
<1>8. /\ ClientInv(d, open, On, syn, N)
      /\ d.refs = e.refs
      /\ d.active[k] # None
      /\ \A j \in Keys \ {k} : d.active[j] = e.active[j]
      /\ \A j \in Keys \ {k} : IdsFor(e, j) => IdsFor(d, j)
      /\ Steady(b, d, open)
  <2>1. LookedUp(e, d, open, On, syn, N, k)
    BY <1>4, <1>5, <1>7, TrackKeeps
  <2>2. Steady(b, d, open)
    BY <1>5, <2>1, SteadyTwice DEF LookedUp
  <2> QED BY <2>1, <2>2 DEF LookedUp
<1>9. Lookups(d)
  <2>1. IsReferenced(d, k)
    BY <1>6, <1>8 DEF IsReferenced
  <2>2. \A j \in Keys \ {k} : d.active[j] # None => IsReferenced(d, j)
    BY <1>5, <1>6, <1>8 DEF Tracked, Lookups, IsReferenced
  <2> QED BY <2>1, <2>2 DEF Lookups
<1>10. Served(d, Done)
  <2>1. d.active[k] # None /\ k \in d.refs[q]
    BY <1>6, <1>8
  <2>2. ASSUME NEW j \in Keys \ {k}
        PROVE  IdsFor(d, j) \/ (d.active[j] # None /\ \E p \in Done : j \in d.refs[p])
    <3>1. IdsFor(c, j) \/ (c.active[j] # None /\ \E p \in Done : j \in c.refs[p])
      BY DEF Tracked, Served
    <3> QED BY <1>5, <1>6, <1>8, <3>1
  <2> QED BY <2>1, <2>2 DEF Served
<1>11. NoNewOrphans(b, d)
  <2> SUFFICES ASSUME NEW p \in Queries, NEW j \in d.refs[p], j # k
               PROVE  d.active[j] # None \/ (j \in b.refs[p] /\ b.active[j] = None)
    BY <1>8 DEF NoNewOrphans
  <2>1. j \in c.refs[p] /\ j \in Keys
    BY <1>2, <1>6, <1>8
  <2>2. d.active[j] = c.active[j]
    BY <1>5, <1>8, <2>1
  <2> QED BY <2>1, <2>2 DEF Tracked, NoNewOrphans
<1> QED BY <1>5, <1>8, <1>9, <1>10, <1>11 DEF Entered, Tracked, d

\* The first i elements in the order of a fold.
First(seq, i) == {seq[j] : j \in 1..i}

\* The elements a loop has seen.
LEMMA FirstNext ==
    ASSUME NEW seq, NEW i \in Nat
    PROVE  /\ First(seq, 0) = {}
           /\ First(seq, i + 1) = First(seq, i) \cup {seq[i + 1]}
<1>1. 1..0 = {} /\ 1..(i + 1) = (1..i) \cup {i + 1}
  OBVIOUS
<1>2. First(seq, 0) = {}
  BY <1>1 DEF First
<1>3. {seq[j] : j \in (1..i) \cup {i + 1}} = {seq[j] : j \in 1..i} \cup {seq[i + 1]}
  OBVIOUS
<1> QED BY <1>1, <1>2, <1>3 DEF First

\* Documents leave the limbo of q one after the other.
LEMMA OutAllKeeps ==
    ASSUME NEW N \in Nat, NEW b, NEW c, NEW open \in BOOLEAN, NEW On \in SUBSET Queries,
           NEW syn, NEW Done \in SUBSET Queries, Tracked(b, c, open, On, syn, N, Done),
           NEW q \in Queries \ Done, NEW S \in SUBSET Keys
    PROVE  Left(b, c, OutAll(c, open, q, SetToSeq(S)), open, On, syn, N, Done, q, S)
<1> DEFINE seq == SetToSeq(S)
<1>1. IsFiniteSet(S)
  BY WatchAssumption, FS_Subset
<1>2. PICK n \in Nat : /\ seq \in [1..n -> S] /\ DOMAIN seq = 1..n
                       /\ S = {seq[i] : i \in 1..n}
  BY <1>1, OrderOfSet
<1> HIDE DEF seq
<1>3. PICK f : Unfolds(f, n, "out", open, q, None, c, seq, OutAll(c, open, q, seq))
  BY <1>2, OutFold
<1>4. /\ OutAll(c, open, q, seq) = f[1..n]
      /\ f[1..0] = c
      /\ \A i \in 0..(n - 1) : f[1..(i + 1)] = Turn("out", open, q, None, f[1..i], seq[i + 1])
  <2>1. Folds(f, n, "out", open, q, None, c, seq) /\ OutAll(c, open, q, seq) = f[1..n]
    BY <1>3 DEF Unfolds
  <2>2. Turns(f, n, "out", open, q, None, c, seq)
    BY <2>1, FoldTurns
  <2> QED BY <2>1, <2>2 DEF Turns
<1>5. \A i \in 0..(n - 1) : f[1..(i + 1)] = LimboOut(f[1..i], open, q, seq[i + 1])
  <2>1. \A d, x : Turn("out", open, q, None, d, x) = LimboOut(d, open, q, x)
    BY DEF Turn
  <2> QED BY <1>4, <2>1
<1> DEFINE Ok(i) == Left(b, c, f[1..i], open, On, syn, N, Done, q, First(seq, i))
           X == {i \in 0..n : Ok(i)}
<1>6. c.refs \in [Queries -> SUBSET Keys]
  BY DEF Tracked, ClientInv, ClientCore, Clients
<1>7. 0 \in X
  <2>1. c.refs = [c.refs EXCEPT ![q] = c.refs[q] \ {}]
    BY <1>6
  <2>2. First(seq, 0) = {}
    BY FirstNext
  <2>3. 0 \in 0..n
    OBVIOUS
  <2>4. Left(b, c, c, open, On, syn, N, Done, q, {})
    BY <2>1 DEF Left
  <2> QED BY <1>4, <2>2, <2>3, <2>4
<1>8. ASSUME NEW i \in 0..(n - 1), i \in X PROVE i + 1 \in X
  <2> DEFINE d == f[1..i]
             k == seq[i + 1]
             e == f[1..(i + 1)]
  <2>1. i + 1 \in 1..n /\ i + 1 \in 0..n /\ i \in Nat
    OBVIOUS
  <2>2. k \in Keys
    BY <1>2, <2>1
  <2>3. /\ Tracked(b, d, open, On, syn, N, Done)
        /\ d.refs = [c.refs EXCEPT ![q] = c.refs[q] \ First(seq, i)]
    BY <1>8 DEF Left
  <2>4. e = LimboOut(d, open, q, k)
    BY <1>5
  <2> HIDE DEF d, k, e
  <2>5. /\ Tracked(b, e, open, On, syn, N, Done)
        /\ e.refs = [d.refs EXCEPT ![q] = d.refs[q] \ {k}]
    <3>1. Left(b, d, e, open, On, syn, N, Done, q, {k})
      BY <2>2, <2>3, <2>4, OutKeeps
    <3> QED BY <3>1 DEF Left
  <2>6. First(seq, i + 1) = First(seq, i) \cup {k}
    BY <2>1, FirstNext DEF k
  <2>7. e.refs = [c.refs EXCEPT ![q] = c.refs[q] \ First(seq, i + 1)]
    <3>1. d.refs[q] = c.refs[q] \ First(seq, i)
      BY <1>6, <2>3
    <3>2. d.refs[q] \ {k} = c.refs[q] \ First(seq, i + 1)
      BY <2>6, <3>1
    <3> QED BY <1>6, <2>3, <2>5, <3>2
  <2>8. Ok(i + 1)
    BY <2>5, <2>7 DEF Left, e
  <2> QED BY <2>1, <2>8
<1>9. n \in X
  <2> HIDE DEF X
  <2> QED BY <1>7, <1>8, IndexInduction
<1>10. First(seq, n) = S
  BY <1>2 DEF First
<1> QED BY <1>4, <1>9, <1>10 DEF seq

\* Documents enter the limbo of q one after the other.
LEMMA InAllKeeps ==
    ASSUME FewKeys, NEW N \in Nat, NEW b, NEW c, NEW open \in BOOLEAN, NEW On \in SUBSET Queries,
           NEW syn, NEW Done \in SUBSET Queries, Tracked(b, c, open, On, syn, N, Done),
           NEW q \in Done, NEW S \in SUBSET Keys
    PROVE  Entered(b, c, InAll(c, open, q, SetToSeq(S)), open, On, syn, N, Done, q, S)
<1> DEFINE seq == SetToSeq(S)
<1>1. IsFiniteSet(S)
  BY WatchAssumption, FS_Subset
<1>2. PICK n \in Nat : /\ seq \in [1..n -> S] /\ DOMAIN seq = 1..n
                       /\ S = {seq[i] : i \in 1..n}
  BY <1>1, OrderOfSet
<1> HIDE DEF seq
<1>3. PICK f : Unfolds(f, n, "in", open, q, None, c, seq, InAll(c, open, q, seq))
  BY <1>2, InFold
<1>4. /\ InAll(c, open, q, seq) = f[1..n]
      /\ f[1..0] = c
      /\ \A i \in 0..(n - 1) : f[1..(i + 1)] = Turn("in", open, q, None, f[1..i], seq[i + 1])
  <2>1. Folds(f, n, "in", open, q, None, c, seq) /\ InAll(c, open, q, seq) = f[1..n]
    BY <1>3 DEF Unfolds
  <2>2. Turns(f, n, "in", open, q, None, c, seq)
    BY <2>1, FoldTurns
  <2> QED BY <2>1, <2>2 DEF Turns
<1>5. \A i \in 0..(n - 1) : f[1..(i + 1)] = LimboIn(f[1..i], open, q, seq[i + 1])
  <2>1. \A d, x : Turn("in", open, q, None, d, x) = LimboIn(d, open, q, x)
    BY DEF Turn
  <2> QED BY <1>4, <2>1
<1> DEFINE Ok(i) == Entered(b, c, f[1..i], open, On, syn, N, Done, q, First(seq, i))
           X == {i \in 0..n : Ok(i)}
<1>6. c.refs \in [Queries -> SUBSET Keys] /\ q \in Queries
  BY DEF Tracked, ClientInv, ClientCore, Clients
<1>7. 0 \in X
  <2>1. c.refs = [c.refs EXCEPT ![q] = c.refs[q] \cup {}]
    BY <1>6
  <2>2. First(seq, 0) = {}
    BY FirstNext
  <2>3. 0 \in 0..n
    OBVIOUS
  <2>4. Entered(b, c, c, open, On, syn, N, Done, q, {})
    BY <2>1 DEF Entered
  <2> QED BY <1>4, <2>2, <2>3, <2>4
<1>8. ASSUME NEW i \in 0..(n - 1), i \in X PROVE i + 1 \in X
  <2> DEFINE d == f[1..i]
             k == seq[i + 1]
             e == f[1..(i + 1)]
  <2>1. i + 1 \in 1..n /\ i + 1 \in 0..n /\ i \in Nat
    OBVIOUS
  <2>2. k \in Keys
    BY <1>2, <2>1
  <2>3. /\ Tracked(b, d, open, On, syn, N, Done)
        /\ d.refs = [c.refs EXCEPT ![q] = c.refs[q] \cup First(seq, i)]
    BY <1>8 DEF Entered
  <2>4. e = LimboIn(d, open, q, k)
    BY <1>5
  <2> HIDE DEF d, k, e
  <2>5. /\ Tracked(b, e, open, On, syn, N, Done)
        /\ e.refs = [d.refs EXCEPT ![q] = d.refs[q] \cup {k}]
    <3>1. Entered(b, d, e, open, On, syn, N, Done, q, {k})
      BY <2>2, <2>3, <2>4, InKeeps
    <3> QED BY <3>1 DEF Entered
  <2>6. First(seq, i + 1) = First(seq, i) \cup {k}
    BY <2>1, FirstNext DEF k
  <2>7. e.refs = [c.refs EXCEPT ![q] = c.refs[q] \cup First(seq, i + 1)]
    <3>1. d.refs[q] = c.refs[q] \cup First(seq, i)
      BY <1>6, <2>3
    <3>2. d.refs[q] \cup {k} = c.refs[q] \cup First(seq, i + 1)
      BY <2>6, <3>1
    <3> QED BY <1>6, <2>3, <2>5, <3>2
  <2>8. Ok(i + 1)
    BY <2>5, <2>7 DEF Entered, e
  <2> QED BY <2>1, <2>8
<1>9. n \in X
  <2> HIDE DEF X
  <2> QED BY <1>7, <1>8, IndexInduction
<1>10. First(seq, n) = S
  BY <1>2 DEF First
<1> QED BY <1>4, <1>9, <1>10 DEF seq

\* More views that have had their turn serve no less.
LEMMA MoreDone ==
    ASSUME NEW b, NEW c, NEW open, NEW On, NEW syn, NEW N, NEW Done, NEW q,
           Tracked(b, c, open, On, syn, N, Done)
    PROVE  Tracked(b, c, open, On, syn, N, Done \cup {q})
BY DEF Tracked, Served

\* d is what is left of c when q has had its turn with the documents in limbo.
Settled(b, c, d, open, On, syn, N, Done, q, limbo) ==
    /\ Tracked(b, d, open, On, syn, N, Done \cup {q})
    /\ d.refs = [c.refs EXCEPT ![q] = limbo]

\* UpdateTrackedLimboDocuments makes limbo the limbo of q.
LEMMA UpdateKeeps ==
    ASSUME FewKeys, NEW N \in Nat, NEW b, NEW c, NEW open \in BOOLEAN, NEW On \in SUBSET Queries,
           NEW syn, NEW Done \in SUBSET Queries, Tracked(b, c, open, On, syn, N, Done),
           NEW q \in Queries \ Done, NEW limbo \in SUBSET Keys
    PROVE  Settled(b, c, UpdateTrackedLimboDocuments(c, open, q, limbo), open, On, syn, N,
                   Done, q, limbo)
<1> DEFINE out == c.refs[q] \ limbo
           in  == limbo \ c.refs[q]
           e == OutAll(c, open, q, SetToSeq(out))
           d == InAll(e, open, q, SetToSeq(in))
           D == Done \cup {q}
<1>1. c.refs \in [Queries -> SUBSET Keys]
  BY DEF Tracked, ClientInv, ClientCore, Clients
<1>2. out \in SUBSET Keys /\ in \in SUBSET Keys /\ q \in D /\ D \in SUBSET Queries
  BY <1>1
<1>3. UpdateTrackedLimboDocuments(c, open, q, limbo) = d
  BY FoldsOfClient
<1> HIDE DEF out, in, D
<1>4. Left(b, c, e, open, On, syn, N, Done, q, out)
  BY <1>2, OutAllKeeps
<1> HIDE DEF e
<1>5. Tracked(b, e, open, On, syn, N, D) /\ e.refs = [c.refs EXCEPT ![q] = c.refs[q] \ out]
  BY <1>4, MoreDone DEF Left, D
<1>6. Entered(b, e, d, open, On, syn, N, D, q, in)
  BY <1>2, <1>5, InAllKeeps
<1> HIDE DEF d
<1>7. Tracked(b, d, open, On, syn, N, D) /\ d.refs = [e.refs EXCEPT ![q] = e.refs[q] \cup in]
  BY <1>6 DEF Entered
<1>8. (c.refs[q] \ out) \cup in = limbo
  BY DEF out, in
<1>9. d.refs = [c.refs EXCEPT ![q] = limbo]
  <2>1. e.refs[q] = c.refs[q] \ out
    BY <1>1, <1>5
  <2> QED BY <1>1, <1>5, <1>7, <1>8, <2>1
<1> QED BY <1>3, <1>7, <1>9 DEF Settled, D

\* d is what is left of c when the views of S have had their turn.
Emitted(b, c, d, On, syn, N, S, limbo) ==
    /\ Tracked(b, d, TRUE, On, syn, N, S)
    /\ d.refs = [q \in Queries |-> IF q \in S THEN limbo[q] ELSE c.refs[q]]

\* EmitNewSnapshotsAndNotifyLocalStore does so for the views in S.
LEMMA EmitAllKeeps ==
    ASSUME FewKeys, NEW N \in Nat, NEW b, NEW c, NEW On \in SUBSET Queries, NEW syn,
           Tracked(b, c, TRUE, On, syn, N, {}),
           NEW limbo \in [Queries -> SUBSET Keys], NEW S \in SUBSET Queries
    PROVE  Emitted(b, c, EmitAll(c, limbo, SetToSeq(S)), On, syn, N, S, limbo)
<1> DEFINE seq == SetToSeq(S)
<1>1. IsFiniteSet(S)
  BY WatchAssumption, FS_Subset
<1>2. PICK n \in Nat : /\ seq \in [1..n -> S] /\ DOMAIN seq = 1..n
                       /\ \A i, j \in 1..n : seq[i] = seq[j] => i = j
                       /\ S = {seq[i] : i \in 1..n}
  BY <1>1, OrderOfSet
<1> HIDE DEF seq
<1>3. PICK f : Unfolds(f, n, "emit", TRUE, None, limbo, c, seq, EmitAll(c, limbo, seq))
  BY <1>2, EmitFold
<1>4. /\ EmitAll(c, limbo, seq) = f[1..n]
      /\ f[1..0] = c
      /\ \A i \in 0..(n - 1) : f[1..(i + 1)] = Turn("emit", TRUE, None, limbo, f[1..i], seq[i + 1])
  <2>1. Folds(f, n, "emit", TRUE, None, limbo, c, seq) /\ EmitAll(c, limbo, seq) = f[1..n]
    BY <1>3 DEF Unfolds
  <2>2. Turns(f, n, "emit", TRUE, None, limbo, c, seq)
    BY <2>1, FoldTurns
  <2> QED BY <2>1, <2>2 DEF Turns
<1>5. \A i \in 0..(n - 1) :
          f[1..(i + 1)] = UpdateTrackedLimboDocuments(f[1..i], TRUE, seq[i + 1], limbo[seq[i + 1]])
  <2>1. \A d, x : Turn("emit", TRUE, None, limbo, d, x)
                    = UpdateTrackedLimboDocuments(d, TRUE, x, limbo[x])
    BY DEF Turn
  <2> QED BY <1>4, <2>1
<1> DEFINE Ok(i) == Emitted(b, c, f[1..i], On, syn, N, First(seq, i), limbo)
           X == {i \in 0..n : Ok(i)}
<1>6. c.refs \in [Queries -> SUBSET Keys]
  BY DEF Tracked, ClientInv, ClientCore, Clients
<1>7. 0 \in X
  <2>1. c.refs = [q \in Queries |-> IF q \in {} THEN limbo[q] ELSE c.refs[q]]
    BY <1>6
  <2>2. First(seq, 0) = {}
    BY FirstNext
  <2>3. 0 \in 0..n
    OBVIOUS
  <2>4. Emitted(b, c, c, On, syn, N, {}, limbo)
    BY <2>1 DEF Emitted
  <2> QED BY <1>4, <2>2, <2>3, <2>4
<1>8. ASSUME NEW i \in 0..(n - 1), i \in X PROVE i + 1 \in X
  <2> DEFINE d == f[1..i]
             q == seq[i + 1]
             e == f[1..(i + 1)]
             D == First(seq, i)
             lim == limbo[q]
  <2>1. i + 1 \in 1..n /\ i + 1 \in 0..n /\ i \in Nat
    OBVIOUS
  <2>2. q \in Queries \ D /\ D \in SUBSET Queries
    <3>1. \A j \in 1..i : j \in 1..n /\ j # i + 1
      OBVIOUS
    <3>2. \A j \in 1..i : seq[j] # seq[i + 1] /\ seq[j] \in S
      BY <1>2, <2>1, <3>1
    <3>3. q \in Queries
      BY <1>2, <2>1
    <3> QED BY <3>2, <3>3 DEF First
  <2>3. /\ Tracked(b, d, TRUE, On, syn, N, D)
        /\ d.refs = [p \in Queries |-> IF p \in D THEN limbo[p] ELSE c.refs[p]]
    BY <1>8 DEF Emitted
  <2>4. e = UpdateTrackedLimboDocuments(d, TRUE, q, lim)
    BY <1>5
  <2>5. lim \in SUBSET Keys
    BY <2>2
  <2>6. First(seq, i + 1) = D \cup {q}
    BY <2>1, FirstNext
  <2> HIDE DEF d, q, e, D
  <2>7. Settled(b, d, e, TRUE, On, syn, N, D, q, lim)
    <3> HIDE DEF lim
    <3> QED BY <2>2, <2>3, <2>4, <2>5, UpdateKeeps
  <2>8. /\ Tracked(b, e, TRUE, On, syn, N, D \cup {q})
        /\ e.refs = [d.refs EXCEPT ![q] = limbo[q]]
    BY <2>7 DEF Settled
  <2>9. e.refs = [p \in Queries |-> IF p \in D \cup {q} THEN limbo[p] ELSE c.refs[p]]
    BY <2>2, <2>3, <2>8
  <2>10. Ok(i + 1)
    BY <2>6, <2>8, <2>9 DEF Emitted, e
  <2> QED BY <2>1, <2>10
<1>9. n \in X
  <2> HIDE DEF X
  <2> QED BY <1>7, <1>8, IndexInduction
<1>10. First(seq, n) = S
  BY <1>2 DEF First
<1> QED BY <1>4, <1>9, <1>10 DEF seq

----------------------------------------------------------------------------
(* The stream opens, closes and answers.                                   *)

\* d is what is left of c when the listens of T have been sent.
Sent(c, d, On, syn, N, T) ==
    /\ ClientCore(d, On, syn, N)
    /\ ~d.idle
    /\ d.listens = c.listens /\ d.refs = c.refs /\ d.active = c.active
    /\ d.resolving = c.resolving /\ d.received = c.received /\ d.tokens = c.tokens
    /\ d.agg.docs = c.agg.docs
    /\ Asked(d)
    /\ \A t \in Targets : d.agg.targets[t].out = IF t \in T THEN 1 ELSE 0

\* One more listen is sent.
LEMMA ResendOne ==
    ASSUME NEW N \in Nat, NEW c, NEW d, NEW On, NEW syn, NEW T, Sent(c, d, On, syn, N, T),
           NEW t \in Targets \ T
    PROVE  Sent(c, Watch(d, t, d.tokens[t]), On, syn, N, T \cup {t})
<1> DEFINE r == Request("watch", t, d.tokens[t])
           e == Watch(d, t, d.tokens[t])
<1>1. d \in Clients(N) /\ ClientCore(d, On, syn, N) /\ d.agg.targets[t].out = 0
  BY DEF Sent, ClientCore
<1>a. r.op = "watch" /\ r.token = d.tokens[t]
  BY DEF Request
<1>2. r \in Requests(N) /\ r.target = t
  <2>1. d.tokens[t] \in 0..N
    BY <1>1 DEF Clients
  <2> QED BY <2>1 DEF Request, Requests
<1>3. e = Send(d, r)
  BY DEF Watch
<1> HIDE DEF e, r
<1>4. ClientCore(e, On, syn, N)
  BY <1>1, <1>2, <1>3, SendCore
<1>5. /\ ~e.idle
      /\ e.listens = d.listens /\ e.refs = d.refs /\ e.active = d.active
      /\ e.resolving = d.resolving /\ e.received = d.received /\ e.tokens = d.tokens
      /\ e.agg.targets[t].out = d.agg.targets[t].out + 1
      /\ \A u \in Targets \ {t} : e.agg.targets[u] = d.agg.targets[u]
      /\ e.up = Append(d.up, r)
  <2>1. d \in Clients(N) /\ r \in Requests(N)
    BY <1>1, <1>2
  <2> QED BY <1>2, <1>3, <2>1, SendFields
<1>7. e.agg.docs = d.agg.docs
  BY <1>1, <1>2, <1>3, SendDocs
<1>8. Asked(e)
  <2>1. d.up \in Seq(Requests(N)) /\ Asked(d)
    BY <1>1 DEF Clients, Sent
  <2>2. \A u \in e.listens \ {r.target} : u \in d.listens /\ e.tokens[u] = d.tokens[u]
    BY <1>5
  <2>3. r.target \in e.listens => r.op = "watch" /\ r.token = e.tokens[r.target]
    BY <1>a, <1>2, <1>5
  <2> QED BY <1>2, <1>5, <2>1, <2>2, <2>3, AskedAppend
<1>6. ASSUME NEW u \in Targets
      PROVE  e.agg.targets[u].out = IF u \in T \cup {t} THEN 1 ELSE 0
  <2>1. CASE u = t
    BY <1>1, <1>5, <2>1
  <2>2. CASE u # t
    BY <1>5, <2>2 DEF Sent
  <2> QED BY <2>1, <2>2
<1> QED BY <1>4, <1>5, <1>6, <1>7, <1>8 DEF Sent, e

\* Each listen is sent once when the stream opens.
LEMMA ResentKeeps ==
    ASSUME NEW N \in Nat, NEW c, NEW On \in SUBSET Queries, NEW syn,
           ClientInv(c, FALSE, On, syn, N)
    PROVE  Sent(c, Resent(c), On, syn, N, c.listens)
<1> DEFINE S == c.listens
           seq == SetToSeq(S)
<1>1. c \in Clients(N) /\ S \in SUBSET Targets /\ ClientCore(c, On, syn, N) /\ Unheard(c)
  BY DEF ClientInv, ClientCore, Clients
<1>2. IsFiniteSet(S)
  <2>1. IsFiniteSet(LimboIds)
    <3>1. IsFiniteSet(Keys) /\ IsFiniteSet(1..Attempts)
      BY WatchAssumption, FS_Interval
    <3> QED BY <3>1, FS_Product DEF LimboIds
  <2>2. IsFiniteSet(Targets)
    BY <2>1, WatchAssumption, FS_Union DEF Targets
  <2> HIDE DEF S
  <2> QED BY <1>1, <2>2, FS_Subset
<1> HIDE DEF S
<1>3. PICK n \in Nat : /\ seq \in [1..n -> S] /\ DOMAIN seq = 1..n
                       /\ \A i, j \in 1..n : seq[i] = seq[j] => i = j
                       /\ S = {seq[i] : i \in 1..n}
  BY <1>2, OrderOfSet
<1> HIDE DEF seq
<1>4. PICK f : Unfolds(f, n, "resend", TRUE, None, None, c, seq, ResendAll(c, seq))
  BY <1>3, ResendFold
<1>5. /\ ResendAll(c, seq) = f[1..n]
      /\ f[1..0] = c
      /\ \A i \in 0..(n - 1) : f[1..(i + 1)] = Turn("resend", TRUE, None, None, f[1..i], seq[i + 1])
  <2>1. Folds(f, n, "resend", TRUE, None, None, c, seq) /\ ResendAll(c, seq) = f[1..n]
    BY <1>4 DEF Unfolds
  <2>2. Turns(f, n, "resend", TRUE, None, None, c, seq)
    BY <2>1, FoldTurns
  <2> QED BY <2>1, <2>2 DEF Turns
<1>6. \A i \in 0..(n - 1) : f[1..(i + 1)] = Watch(f[1..i], seq[i + 1], f[1..i].tokens[seq[i + 1]])
  <2>1. \A d, x : Turn("resend", TRUE, None, None, d, x) = Watch(d, x, d.tokens[x])
    BY DEF Turn
  <2> QED BY <1>5, <2>1
<1> DEFINE Ok(i) == Sent(c, f[1..i], On, syn, N, First(seq, i))
           X == {i \in 0..n : Ok(i)}
<1>7. 0 \in X
  <2>1. \A t \in Targets : c.agg.targets[t].out = 0
    BY <1>1 DEF Unheard, NewAggregator, NewTarget
  <2>a. Asked(c)
    BY <1>1 DEF Unheard, Asked
  <2>2. Sent(c, c, On, syn, N, {})
    BY <1>1, <2>1, <2>a DEF Sent, Unheard
  <2>3. First(seq, 0) = {} /\ 0 \in 0..n
    BY FirstNext
  <2> QED BY <1>5, <2>2, <2>3
<1>8. ASSUME NEW i \in 0..(n - 1), i \in X PROVE i + 1 \in X
  <2> DEFINE d == f[1..i]
             t == seq[i + 1]
             e == f[1..(i + 1)]
             D == First(seq, i)
  <2>1. i + 1 \in 1..n /\ i + 1 \in 0..n /\ i \in Nat
    OBVIOUS
  <2>2. t \in Targets \ D
    <3>1. \A j \in 1..i : j \in 1..n /\ j # i + 1
      OBVIOUS
    <3>2. \A j \in 1..i : seq[j] # seq[i + 1]
      BY <1>3, <2>1, <3>1
    <3>3. t \in Targets
      BY <1>1, <1>3, <2>1
    <3> QED BY <3>2, <3>3 DEF First
  <2>3. Sent(c, d, On, syn, N, D)
    BY <1>8
  <2>4. e = Watch(d, t, d.tokens[t])
    BY <1>6
  <2>5. First(seq, i + 1) = D \cup {t}
    BY <2>1, FirstNext
  <2> HIDE DEF d, t, e, D
  <2>6. Sent(c, e, On, syn, N, D \cup {t})
    BY <2>2, <2>3, <2>4, ResendOne
  <2>7. Ok(i + 1)
    BY <2>5, <2>6 DEF e
  <2> QED BY <2>1, <2>7
<1>9. n \in X
  <2> HIDE DEF X
  <2> QED BY <1>7, <1>8, IndexInduction
<1>10. First(seq, n) = S
  BY <1>3 DEF First
<1>11. Resent(c) = ResendAll(c, seq)
  BY FoldsOfClient DEF seq, S
<1> QED BY <1>5, <1>9, <1>10, <1>11 DEF S

\* What is left of a call that ends.
LEMMA DisconnectedKeeps ==
    ASSUME NEW N \in Nat, NEW c, NEW open, NEW On, NEW syn, ClientInv(c, open, On, syn, N)
    PROVE  /\ Keeps(c, Disconnected(c), FALSE, On, syn, N)
           /\ Disconnected(c).listens = c.listens
           /\ Disconnected(c).agg = NewAggregator
           /\ Disconnected(c).tokens = c.tokens
           /\ Disconnected(c).resolving = c.resolving
           /\ Disconnected(c).received = c.received
           /\ Asked(Disconnected(c))
<1> DEFINE d == Disconnected(c)
<1>1. c \in Clients(N) /\ ClientCore(c, On, syn, N)
  BY DEF ClientInv, ClientCore
<1>2. NewAggregator \in Aggregators(N)
  <2>1. NewTarget \in TargetStates(N)
    BY NewTargetIsBlank
  <2> QED BY <2>1 DEF NewAggregator, Aggregators, Documents
<1>a. d = [c EXCEPT !.agg = NewAggregator, !.up = <<>>, !.idle = FALSE]
  BY DEF Disconnected
<1> HIDE DEF d
<1>b. <<>> \in Seq(Requests(N))
  OBVIOUS
<1>3. /\ d \in Clients(N) /\ d.agg = NewAggregator /\ d.up = <<>> /\ ~d.idle
      /\ d.listens = c.listens /\ d.active = c.active /\ d.refs = c.refs
      /\ d.resolving = c.resolving /\ d.received = c.received /\ d.tokens = c.tokens
  BY <1>1, <1>2, <1>a, <1>b DEF Clients
<1>4. \A t \in Targets : TargetSound(d, syn, t)
  <2> TAKE t \in Targets
  <2>1. d.agg.targets[t] = NewTarget
    BY <1>3 DEF NewAggregator
  <2>2. NewTarget.out = 0 /\ Blank(NewTarget)
    BY NewTargetIsBlank
  <2>3. Pending(d.up, t) = 0
    BY <1>3, PendingIsCount DEF Clients
  <2> QED BY <2>1, <2>2, <2>3, BlankTarget
<1>5. ClientCore(d, On, syn, N)
  BY <1>1, <1>3, <1>4 DEF ClientCore
<1>6. Asked(d)
  BY <1>3 DEF Asked
<1> QED BY <1>3, <1>5, <1>6 DEF Keeps, ClientInv, Unheard, d

----------------------------------------------------------------------------
\* d is what an answer makes of c.
AnswerHeard(c, d, On, syn, N) ==
    /\ ClientInv(d, TRUE, On, syn, N)
    /\ d.listens = c.listens /\ d.refs = c.refs /\ d.active = c.active
    /\ d.resolving = c.resolving /\ d.received = c.received /\ d.tokens = c.tokens
    /\ d.agg.docs = c.agg.docs
    /\ \A u \in Targets \ {Head(c.up).target} : d.agg.targets[u] = c.agg.targets[u]
    /\ d.agg.targets[Head(c.up).target].out = Pending(Tail(c.up), Head(c.up).target)
    /\ d.agg.targets[Head(c.up).target].out = 0 => Blank(d.agg.targets[Head(c.up).target])
    /\ Asked(c) => Asked(d)

\* The head of up is answered, and its target becomes s.
LEMMA AnswerKeeps ==
    ASSUME NEW N \in Nat, NEW c, NEW On, NEW syn, ClientInv(c, TRUE, On, syn, N),
           c.up # <<>>, NEW t, t = Head(c.up).target, NEW s \in TargetStates(N),
           s.out = Pending(Tail(c.up), t), s.out = 0 => Blank(s),
           NEW d, d = [c EXCEPT !.up = Tail(c.up), !.agg = [c.agg EXCEPT !.targets[t] = s]]
    PROVE  AnswerHeard(c, d, On, syn, N)
<1>1. c \in Clients(N) /\ ClientCore(c, On, syn, N)
  BY DEF ClientInv, ClientCore
<1>2. /\ c.up \in Seq(Requests(N)) /\ c.agg \in Aggregators(N)
      /\ c.agg.targets \in [Targets -> TargetStates(N)]
  BY <1>1 DEF Clients, Aggregators
<1>3. Head(c.up) \in Requests(N) /\ Tail(c.up) \in Seq(Requests(N)) /\ t \in Targets
  <2>1. Head(c.up) \in Requests(N) /\ Tail(c.up) \in Seq(Requests(N))
    BY <1>2
  <2> QED BY <2>1 DEF Requests
<1> DEFINE b == [c.agg EXCEPT !.targets[t] = s]
<1>4. /\ b \in Aggregators(N) /\ b.targets = [c.agg.targets EXCEPT ![t] = s]
      /\ b.docs = c.agg.docs
  BY <1>2, <1>3 DEF Aggregators
<1>5. d = [c EXCEPT !.up = Tail(c.up), !.agg = b]
  OBVIOUS
<1> HIDE DEF b
<1>6. /\ d \in Clients(N) /\ d.agg = b /\ d.up = Tail(c.up) /\ d.idle = c.idle
      /\ d.listens = c.listens /\ d.active = c.active /\ d.refs = c.refs
      /\ d.resolving = c.resolving /\ d.received = c.received /\ d.tokens = c.tokens
  BY <1>1, <1>3, <1>4, <1>5 DEF Clients
<1>7. \A u \in Targets : /\ Pending(c.up, u) = Pending(d.up, u) + (IF t = u THEN 1 ELSE 0)
                         /\ Pending(d.up, u) \in Nat
  <2> TAKE u \in Targets
  <2>1. Pending(c.up, u) = Pending(Tail(c.up), u) + (IF Head(c.up).target = u THEN 1 ELSE 0)
    BY <1>2, PendingTail
  <2>2. Pending(Tail(c.up), u) \in Nat
    BY <1>3, PendingIsCount
  <2> QED BY <1>6, <2>1, <2>2
<1>8. \A u \in Targets : TargetSound(d, syn, u)
  <2> TAKE u \in Targets
  <2>1. TargetSound(c, syn, u) /\ c.agg.targets[u].out = Pending(c.up, u)
    BY <1>1 DEF ClientCore, TargetSound
  <2>2. CASE u = t
    <3>1. d.agg.targets[u] = s
      BY <1>2, <1>3, <1>4, <1>6, <2>2
    <3>2. s.out = Pending(d.up, u)
      BY <1>6, <2>2
    <3>3. u \in LimboIds \cap d.listens => s.out <= 1
      BY <1>6, <1>7, <2>1, <2>2, <3>2 DEF TargetSound
    <3> QED BY <3>1, <3>2, <3>3, BlankTarget
  <2>3. CASE u # t
    <3>1. d.agg.targets[u] = c.agg.targets[u]
      BY <1>2, <1>3, <1>4, <1>6, <2>3
    <3>2. Pending(d.up, u) = Pending(c.up, u)
      BY <1>7, <2>3
    <3> QED BY <1>6, <2>1, <3>1, <3>2, SameTarget
  <2> QED BY <2>2, <2>3
<1>9. ClientCore(d, On, syn, N)
  BY <1>1, <1>6, <1>8 DEF ClientCore
<1>10. d.agg.targets[t] = s /\ \A u \in Targets \ {t} : d.agg.targets[u] = c.agg.targets[u]
  BY <1>2, <1>3, <1>4, <1>6
<1>11. Asked(c) => Asked(d)
  <2>1. d.up = Tail(c.up) /\ d.listens = c.listens /\ d.tokens = c.tokens
    BY <1>6
  <2> QED BY <1>1, <2>1, AskedAnswered
<1>12. ClientInv(d, TRUE, On, syn, N)
  BY <1>6, <1>9 DEF ClientInv
<1> QED BY <1>4, <1>6, <1>10, <1>11, <1>12 DEF AnswerHeard

\* What is still to come for the target of the head of up.
LEMMA HeadPending ==
    ASSUME NEW N \in Nat, NEW c, NEW On, NEW syn, ClientInv(c, TRUE, On, syn, N),
           c.up # <<>>, NEW t, t = Head(c.up).target
    PROVE  /\ t \in Targets
           /\ c.agg.targets[t] \in TargetStates(N)
           /\ c.agg.targets[t].out = Pending(Tail(c.up), t) + 1
           /\ Pending(Tail(c.up), t) \in Nat
<1>1. c \in Clients(N) /\ ClientCore(c, On, syn, N)
  BY DEF ClientInv, ClientCore
<1>2. /\ c.up \in Seq(Requests(N)) /\ c.agg \in Aggregators(N)
      /\ c.agg.targets \in [Targets -> TargetStates(N)]
  BY <1>1 DEF Clients, Aggregators
<1>3. Tail(c.up) \in Seq(Requests(N)) /\ t \in Targets
  <2>1. Head(c.up) \in Requests(N) /\ Tail(c.up) \in Seq(Requests(N))
    BY <1>2
  <2> QED BY <2>1 DEF Requests
<1>4. Pending(c.up, t) = Pending(Tail(c.up), t) + 1 /\ Pending(Tail(c.up), t) \in Nat
  BY <1>2, <1>3, PendingTail, PendingIsCount
<1> QED BY <1>1, <1>2, <1>3, <1>4 DEF ClientCore, TargetSound

\* TargetAdded and TargetRemoved.
LEMMA AddedKeeps ==
    ASSUME NEW N \in Nat, NEW c, NEW On, NEW syn, ClientInv(c, TRUE, On, syn, N),
           c.up # <<>>, NEW t, t = Head(c.up).target
    PROVE  AnswerHeard(c, [Answered(c) EXCEPT !.agg = TargetAdded(@, t)], On, syn, N)
<1> DEFINE o == c.agg.targets[t]
           r == [o EXCEPT !.out = @ - 1]
           s == IF r.out = 0 THEN ClearPendingChanges(r) ELSE r
           d == [Answered(c) EXCEPT !.agg = TargetAdded(@, t)]
<1>1. /\ t \in Targets /\ o \in TargetStates(N)
      /\ o.out = Pending(Tail(c.up), t) + 1 /\ Pending(Tail(c.up), t) \in Nat
  BY HeadPending
<1> HIDE DEF o
<1>2. r \in TargetStates(N) /\ r.out = o.out - 1
  BY <1>1 DEF TargetStates
<1> HIDE DEF r
<1>3. s \in TargetStates(N) /\ s.out = Pending(Tail(c.up), t) /\ (s.out = 0 => Blank(s))
  BY <1>1, <1>2, ClearedIsBlank
<1>4. d = [c EXCEPT !.up = Tail(c.up), !.agg = [c.agg EXCEPT !.targets[t] = s]]
  <2>1. Answered(c) = [c EXCEPT !.up = Tail(c.up)]
    BY DEF Answered
  <2>2. TargetAdded(c.agg, t) = [c.agg EXCEPT !.targets[t] = s]
    BY Zenon DEF TargetAdded, s, r, o
  <2> HIDE DEF s
  <2>3. c \in Clients(N)
    BY DEF ClientInv, ClientCore
  <2>4. Answered(c).agg = c.agg
    BY <2>1, <2>3 DEF Clients
  <2>5. d = [Answered(c) EXCEPT !.agg = [c.agg EXCEPT !.targets[t] = s]]
    BY <2>2, <2>4
  <2> QED BY <2>1, <2>3, <2>5 DEF Clients
<1> HIDE DEF d, s
<1> QED BY <1>1, <1>3, <1>4, AnswerKeeps DEF d, o

\* The answer to an unwatch.
LEMMA RemovedKeeps ==
    ASSUME NEW N \in Nat, NEW c, NEW On, NEW syn, ClientInv(c, TRUE, On, syn, N),
           c.up # <<>>, NEW t, t = Head(c.up).target
    PROVE  AnswerHeard(c, [Answered(c) EXCEPT !.agg = TargetRemoved(@, t)], On, syn, N)
<1> DEFINE o == c.agg.targets[t]
           s == IF o.out = 1 THEN NewTarget ELSE [o EXCEPT !.out = @ - 1]
           d == [Answered(c) EXCEPT !.agg = TargetRemoved(@, t)]
<1>1. /\ t \in Targets /\ o \in TargetStates(N)
      /\ o.out = Pending(Tail(c.up), t) + 1 /\ Pending(Tail(c.up), t) \in Nat
  BY HeadPending
<1> HIDE DEF o
<1>2. s \in TargetStates(N) /\ s.out = Pending(Tail(c.up), t) /\ (s.out = 0 => Blank(s))
  <2>1. CASE o.out = 1
    BY <1>1, <2>1, NewTargetIsBlank
  <2>2. CASE o.out # 1
    BY <1>1, <2>2 DEF TargetStates
  <2> QED BY <2>1, <2>2
<1>4. d = [c EXCEPT !.up = Tail(c.up), !.agg = [c.agg EXCEPT !.targets[t] = s]]
  <2>1. Answered(c) = [c EXCEPT !.up = Tail(c.up)]
    BY DEF Answered
  <2>3. c \in Clients(N) /\ c.agg \in Aggregators(N)
    BY DEF ClientInv, ClientCore, Clients
  <2>2. TargetRemoved(c.agg, t) = [c.agg EXCEPT !.targets[t] = s]
    BY Zenon DEF TargetRemoved, s, o
  <2> HIDE DEF s
  <2>4. Answered(c).agg = c.agg
    BY <2>1, <2>3 DEF Clients
  <2>5. d = [Answered(c) EXCEPT !.agg = [c.agg EXCEPT !.targets[t] = s]]
    BY <2>2, <2>4
  <2> QED BY <2>1, <2>3, <2>5 DEF Clients
<1> HIDE DEF d, s
<1> QED BY <1>1, <1>2, <1>4, AnswerKeeps DEF d, o

----------------------------------------------------------------------------
(* The event is taken.                                                     *)

\* Nothing is collected for a target that is heard.
Emptied(d) == \A t \in Targets : d.agg.targets[t].out = 0 => Blank(d.agg.targets[t])

\* A target that hears in d does so in c, and has been told the same.
HeardBefore(c, d, t) ==
    d.agg.targets[t].out = 0 =>
        c.agg.targets[t].out = 0 /\ d.agg.targets[t].current = c.agg.targets[t].current

\* The token of t once the event of a is taken.
EventToken(c, a, t) ==
    IF t \in Raised(a, c.listens) /\ a.targets[t].token # NoToken THEN a.targets[t].token
                                                              ELSE c.tokens[t]

\* A query may lose it again.
TokenTaken(c, d, t) ==
    \/ t \in Queries /\ d.tokens[t] = NoToken
    \/ d.tokens[t] = EventToken(c, c.agg, t)

\* d is what is left of c when its event has been taken.
Taken(c, d, On, syn, N) ==
    /\ ClientCore(d, On, syn, N)
    /\ Emptied(d)
    /\ d.idle => d.listens = {}
    /\ d.listens = c.listens /\ d.refs = c.refs /\ d.active = c.active
    /\ d.resolving = c.resolving /\ d.received = c.received
    /\ \A n \in LimboIds : d.agg.targets[n].out = c.agg.targets[n].out
    /\ d.agg.docs = [k \in Keys |-> None]
    /\ \A t \in Targets : HeardBefore(c, d, t) /\ TokenTaken(c, d, t)

\* ... and what was asked for is.
TakenAsked(c, d, On, syn, N) == Taken(c, d, On, syn, N) /\ (Asked(c) => Asked(d))

\* What the aggregator keeps.
LEMMA AfterEventBlank ==
    ASSUME NEW N, NEW c, NEW On, NEW syn, ClientCore(c, On, syn, N), NEW a,
           a = AfterEvent(c.agg, c.listens)
    PROVE  /\ a \in Aggregators(N)
           /\ \A t \in Targets : /\ a.targets[t].out = c.agg.targets[t].out
                                 /\ a.targets[t].out = 0 => Blank(a.targets[t])
                                 /\ a.targets[t].current = c.agg.targets[t].current
           /\ a.docs = [k \in Keys |-> None]
<1> DEFINE R == Raised(c.agg, c.listens)
           new == [t \in Targets |-> IF t \in R THEN ClearPendingChanges(c.agg.targets[t])
                                                ELSE c.agg.targets[t]]
           docs == [k \in Keys |-> None]
<1>1. c.agg.targets \in [Targets -> TargetStates(N)]
  BY DEF ClientCore, Clients, Aggregators
<1>2. ASSUME NEW t \in Targets
      PROVE  /\ new[t] \in TargetStates(N)
             /\ new[t].out = c.agg.targets[t].out
             /\ new[t].out = 0 => Blank(new[t])
             /\ new[t].current = c.agg.targets[t].current
  <2> DEFINE s == c.agg.targets[t]
  <2>1. s \in TargetStates(N)
    BY <1>1
  <2>2. CASE t \in R
    <3>1. new[t] = ClearPendingChanges(s)
      BY <2>2
    <3> HIDE DEF new, s
    <3>2. ClearPendingChanges(s).current = s.current
      BY <2>1 DEF ClearPendingChanges, TargetStates
    <3> QED BY <2>1, <3>1, <3>2, ClearedIsBlank DEF s
  <2>3. CASE t \notin R
    <3>1. new[t] = s
      BY <2>3
    <3>2. TargetSound(c, syn, t)
      BY DEF ClientCore
    <3>3. s.out = 0 => ~s.changed \/ t \notin c.listens
      BY <2>3 DEF Raised, IsActive
    <3>4. s.out = 0 => Blank(s)
      BY <3>2, <3>3 DEF TargetSound
    <3> HIDE DEF new
    <3> QED BY <2>1, <3>1, <3>4
  <2> QED BY <2>2, <2>3
<1>3. a = [targets |-> new, docs |-> docs, resets |-> {}]
  BY DEF AfterEvent
<1>4. new \in [Targets -> TargetStates(N)] /\ docs \in [Keys -> Documents]
  BY <1>2 DEF Documents
<1> HIDE DEF new
<1>5. a \in Aggregators(N) /\ a.targets = new /\ a.docs = docs
  <2> HIDE DEF docs
  <2> QED BY <1>3, <1>4 DEF Aggregators
<1> QED BY <1>2, <1>5

\* The tokens of the event.
LEMMA TokensOk ==
    ASSUME NEW N \in Nat, NEW c \in Clients(N), NEW ver
    PROVE  /\ Tokens(c, RemoteEvent(c.agg, c.listens, ver).changes) \in [Targets -> 0..N]
           /\ \A t \in Targets : Tokens(c, RemoteEvent(c.agg, c.listens, ver).changes)[t]
                                  = EventToken(c, c.agg, t)
<1> DEFINE changes == RemoteEvent(c.agg, c.listens, ver).changes
<1>1. changes = [t \in Raised(c.agg, c.listens) |-> TargetChange(c.agg.targets[t])]
  BY DEF RemoteEvent
<1> HIDE DEF changes
<1>2. /\ c.agg.targets \in [Targets -> TargetStates(N)]
      /\ c.tokens \in [Targets -> 0..N] /\ c.listens \subseteq Targets
  BY DEF Clients, Aggregators
<1>3. DOMAIN changes \subseteq Targets
  BY <1>1, <1>2 DEF Raised
<1>4. \A t \in DOMAIN changes : changes[t].token \in 0..N
  <2> TAKE t \in DOMAIN changes
  <2>1. changes[t] = TargetChange(c.agg.targets[t]) /\ t \in Targets
    BY <1>1, <1>3
  <2>2. changes[t].token = c.agg.targets[t].token
    BY <2>1 DEF TargetChange
  <2>3. c.agg.targets[t] \in TargetStates(N)
    BY <1>2, <2>1
  <2> QED BY <2>2, <2>3 DEF TargetStates
<1>5. \A t \in DOMAIN changes : /\ t \in Raised(c.agg, c.listens)
                                /\ changes[t].token = c.agg.targets[t].token
  BY <1>1 DEF TargetChange
<1>6. \A t \in Targets : Tokens(c, changes)[t] = EventToken(c, c.agg, t)
  <2> TAKE t \in Targets
  <2>1. t \in DOMAIN changes <=> t \in Raised(c.agg, c.listens)
    BY <1>1
  <2> QED BY <1>5, <2>1 DEF Tokens, EventToken
<1> QED BY <1>2, <1>4, <1>6 DEF Tokens, changes

\* The event is taken before anything is listened to anew.
LEMMA TakeBase ==
    ASSUME NEW N \in Nat, NEW c, NEW On, NEW syn, ClientInv(c, TRUE, On, syn, N), NEW ver,
           NEW d, d = [c EXCEPT !.tokens = Tokens(c, RemoteEvent(c.agg, c.listens, ver).changes),
                                !.agg = AfterEvent(c.agg, c.listens)]
    PROVE  TakenAsked(c, d, On, syn, N)
<1> DEFINE a == AfterEvent(c.agg, c.listens)
           tokens == Tokens(c, RemoteEvent(c.agg, c.listens, ver).changes)
<1>1. c \in Clients(N) /\ ClientCore(c, On, syn, N)
  BY DEF ClientInv, ClientCore
<1>2. /\ tokens \in [Targets -> 0..N]
      /\ \A t \in Targets : tokens[t] = EventToken(c, c.agg, t)
  BY <1>1, TokensOk
<1>3. /\ a \in Aggregators(N)
      /\ \A t \in Targets : /\ a.targets[t].out = c.agg.targets[t].out
                            /\ a.targets[t].out = 0 => Blank(a.targets[t])
                            /\ a.targets[t].current = c.agg.targets[t].current
      /\ a.docs = [k \in Keys |-> None]
  BY <1>1, AfterEventBlank
<1>4. d = [c EXCEPT !.tokens = tokens, !.agg = a]
  OBVIOUS
<1> HIDE DEF a, tokens
<1>5. /\ d \in Clients(N) /\ d.agg = a /\ d.up = c.up /\ d.idle = c.idle
      /\ d.listens = c.listens /\ d.active = c.active /\ d.refs = c.refs
      /\ d.resolving = c.resolving /\ d.received = c.received /\ d.tokens = tokens
  BY <1>1, <1>2, <1>3, <1>4 DEF Clients
<1>6. \A t \in Targets : TargetSound(d, syn, t)
  <2> TAKE t \in Targets
  <2>1. TargetSound(c, syn, t)
    BY <1>1 DEF ClientCore
  <2>2. /\ d.agg.targets[t].out = Pending(d.up, t)
        /\ d.agg.targets[t].out = 0 => Blank(d.agg.targets[t])
        /\ t \in LimboIds \cap d.listens => d.agg.targets[t].out <= 1
    BY <1>3, <1>5, <2>1 DEF TargetSound
  <2> QED BY <2>2, BlankTarget
<1>7. ClientCore(d, On, syn, N)
  BY <1>1, <1>5, <1>6 DEF ClientCore
<1>8. Emptied(d)
  BY <1>3, <1>5 DEF Emptied
<1>9. \A n \in LimboIds : d.agg.targets[n].out = c.agg.targets[n].out
  BY <1>3, <1>5 DEF Targets
<1>10. \A t \in Targets : HeardBefore(c, d, t) /\ TokenTaken(c, d, t)
  BY <1>2, <1>3, <1>5 DEF HeardBefore, TokenTaken
<1>11. ASSUME Asked(c) PROVE Asked(d)
  <2>1. c.up \in Seq(Requests(N))
    BY <1>1 DEF Clients
  <2>2. ASSUME NEW i \in DOMAIN c.up PROVE tokens[c.up[i].target] = c.tokens[c.up[i].target]
    <3> DEFINE t == c.up[i].target
    <3>1. t \in Targets
      BY <2>1, TargetOnItsWay
    <3>2. t \in Raised(c.agg, c.listens) => Pending(c.up, t) = 0
      BY <1>1, <3>1 DEF Raised, IsActive, ClientCore, TargetSound
    <3>3. t \notin Raised(c.agg, c.listens)
      BY <2>1, <3>2, NonePending
    <3> QED BY <1>2, <3>1, <3>3 DEF EventToken
  <2> QED BY <1>5, <1>11, <2>2 DEF Asked
<1>12. Taken(c, d, On, syn, N)
  BY <1>3, <1>5, <1>7, <1>8, <1>9, <1>10 DEF Taken, ClientInv
<1> QED BY <1>11, <1>12 DEF TakenAsked

\* A request to a query leaves the event taken.
LEMMA TakenSend ==
    ASSUME NEW N \in Nat, NEW c, NEW d, NEW On, NEW syn, Taken(c, d, On, syn, N),
           NEW r \in Requests(N), r.target \in Queries
    PROVE  Taken(c, Send(d, r), On, syn, N)
<1> DEFINE e == Send(d, r)
<1>1. ClientCore(d, On, syn, N) /\ d \in Clients(N)
  BY DEF Taken, ClientCore
<1>2. r.target \notin LimboIds /\ r.target \in Targets
  BY WatchAssumption DEF Targets
<1>3. ClientCore(e, On, syn, N)
  BY <1>1, <1>2, SendCore
<1>4. /\ ~e.idle
      /\ e.listens = d.listens /\ e.refs = d.refs /\ e.active = d.active
      /\ e.resolving = d.resolving /\ e.received = d.received /\ e.tokens = d.tokens
      /\ e.agg.targets[r.target].out = d.agg.targets[r.target].out + 1
      /\ \A t \in Targets \ {r.target} : e.agg.targets[t] = d.agg.targets[t]
  BY <1>1, SendFields
<1>a. e.agg.docs = d.agg.docs
  BY <1>1, SendDocs
<1> HIDE DEF e
<1>5. d.agg.targets[r.target].out \in Nat
  <2>1. d.agg.targets[r.target] \in TargetStates(N)
    BY <1>1, <1>2 DEF Clients, Aggregators
  <2> QED BY <2>1 DEF TargetStates
<1>6. Emptied(e)
  <2> SUFFICES ASSUME NEW t \in Targets, e.agg.targets[t].out = 0
               PROVE  Blank(e.agg.targets[t])
    BY DEF Emptied
  <2>1. t # r.target
    BY <1>4, <1>5
  <2> QED BY <1>4, <2>1 DEF Taken, Emptied
<1>7. \A n \in LimboIds : e.agg.targets[n] = d.agg.targets[n]
  BY <1>2, <1>4 DEF Targets
<1>8. ASSUME NEW t \in Targets PROVE HeardBefore(c, e, t) /\ TokenTaken(c, e, t)
  <2>1. HeardBefore(c, d, t) /\ TokenTaken(c, d, t)
    BY DEF Taken
  <2>2. t = r.target => e.agg.targets[t].out # 0
    BY <1>4, <1>5
  <2>3. HeardBefore(c, e, t)
    BY <1>4, <2>1, <2>2 DEF HeardBefore
  <2>4. TokenTaken(c, e, t)
    BY <1>4, <2>1 DEF TokenTaken
  <2> QED BY <2>3, <2>4
<1> QED BY <1>a, <1>3, <1>4, <1>6, <1>7, <1>8 DEF Taken, e

\* A token matters to nothing.
LEMMA TakenToken ==
    ASSUME NEW N \in Nat, NEW c, NEW d, NEW On, NEW syn, Taken(c, d, On, syn, N),
           NEW t \in Queries
    PROVE  Taken(c, [d EXCEPT !.tokens[t] = NoToken], On, syn, N)
<1> DEFINE e == [d EXCEPT !.tokens[t] = NoToken]
<1>1. ClientCore(d, On, syn, N) /\ d \in Clients(N)
  BY DEF Taken, ClientCore
<1>2. NoToken \in 0..N /\ t \in Targets
  BY DEF NoToken, Targets
<1>3. /\ e \in Clients(N) /\ e.agg = d.agg /\ e.up = d.up /\ e.idle = d.idle
      /\ e.listens = d.listens /\ e.active = d.active /\ e.refs = d.refs
      /\ e.resolving = d.resolving /\ e.received = d.received
      /\ \A u \in Targets : e.tokens[u] = IF u = t THEN NoToken ELSE d.tokens[u]
  BY <1>1, <1>2 DEF Clients
<1> HIDE DEF e
<1>4. \A u \in Targets : TargetSound(e, syn, u)
  <2> TAKE u \in Targets
  <2>1. TargetSound(d, syn, u)
    BY <1>1 DEF ClientCore
  <2> QED BY <1>3, <2>1, SameTarget
<1>5. ClientCore(e, On, syn, N)
  BY <1>1, <1>3, <1>4 DEF ClientCore
<1>6. Emptied(e)
  BY <1>3 DEF Taken, Emptied
<1>7. ASSUME NEW u \in Targets PROVE HeardBefore(c, e, u) /\ TokenTaken(c, e, u)
  <2>1. HeardBefore(c, d, u) /\ TokenTaken(c, d, u)
    BY DEF Taken
  <2> QED BY <1>3, <2>1 DEF HeardBefore, TokenTaken
<1> QED BY <1>3, <1>5, <1>6, <1>7 DEF Taken, e

\* A query in mismatch is unwatched and watched anew.
LEMMA RelistenOne ==
    ASSUME NEW N \in Nat, NEW c, NEW d, NEW On, NEW syn, TakenAsked(c, d, On, syn, N),
           NEW q \in Queries
    PROVE  TakenAsked(c, Relisten(d, q), On, syn, N)
<1> DEFINE e == [d EXCEPT !.tokens[q] = NoToken]
           r == Request("unwatch", q, NoToken)
           w == Request("watch", q, NoToken)
           f == Send(e, r)
<1>1. q \in Targets /\ NoToken \in 0..N
  BY DEF Targets, NoToken
<1>2. r \in Requests(N) /\ w \in Requests(N) /\ r.target = q /\ w.target = q
  BY <1>1 DEF Request, Requests
<1>3. Relisten(d, q) = Send(f, w)
  BY DEF Relisten, Watch, Unwatch
<1>4. Taken(c, e, On, syn, N)
  BY TakenToken DEF TakenAsked
<1>7. d \in Clients(N)
  BY DEF TakenAsked, Taken, ClientCore
<1>8. e.up = d.up /\ e.listens = d.listens /\ e.tokens = [d.tokens EXCEPT ![q] = NoToken]
  BY <1>7 DEF Clients
<1>9. w.op = "watch" /\ w.token = NoToken
  BY DEF Request
<1> HIDE DEF e, r, w
<1>5. Taken(c, f, On, syn, N)
  BY <1>2, <1>4, TakenSend
<1>10. f.up = Append(e.up, r) /\ f.listens = e.listens /\ f.tokens = e.tokens
  <2>1. e \in Clients(N)
    BY <1>4 DEF Taken, ClientCore
  <2> QED BY <1>2, <2>1, SendFields
<1> HIDE DEF f
<1> DEFINE g == Send(f, w)
<1>6. Taken(c, g, On, syn, N)
  BY <1>2, <1>5, TakenSend
<1>11. g.up = Append(f.up, w) /\ g.listens = f.listens /\ g.tokens = f.tokens
  <2>1. f \in Clients(N)
    BY <1>5 DEF Taken, ClientCore
  <2> QED BY <1>2, <2>1, SendFields
<1> HIDE DEF g
<1>12. ASSUME Asked(d) PROVE Asked(g)
  <2> DEFINE x == [up |-> d.up, listens |-> d.listens \ {q}, tokens |-> e.tokens]
             y == [up |-> f.up, listens |-> d.listens \ {q}, tokens |-> e.tokens]
  <2>0. /\ x.up = d.up /\ x.listens = d.listens \ {q} /\ x.tokens = e.tokens
        /\ y.up = f.up /\ y.listens = d.listens \ {q} /\ y.tokens = e.tokens
    OBVIOUS
  <2> HIDE DEF x, y
  <2>1. /\ d.tokens \in [Targets -> 0..N] /\ d.listens \subseteq Targets
        /\ d.up \in Seq(Requests(N)) /\ q \in Targets
    BY <1>1, <1>7 DEF Clients
  <2>2. e.tokens[q] = NoToken /\ \A t \in Targets \ {q} : e.tokens[t] = d.tokens[t]
    BY <1>8, <2>1
  <2>3. Asked(x)
    <3>1. \A i \in DOMAIN d.up : d.up[i].target \in x.listens =>
              /\ d.up[i].target \in d.listens
              /\ x.tokens[d.up[i].target] = d.tokens[d.up[i].target]
      BY <2>0, <2>1, <2>2
    <3> QED BY <1>12, <2>0, <3>1, AskedSame
  <2>4. Asked(y)
    <3>1. x.up \in Seq(Requests(N)) /\ y.up = Append(x.up, r)
      BY <1>8, <1>10, <2>0, <2>1
    <3>2. \A t \in y.listens \ {r.target} : t \in x.listens /\ y.tokens[t] = x.tokens[t]
      BY <2>0
    <3>3. r.target \notin y.listens
      BY <1>2, <2>0
    <3> QED BY <1>2, <2>3, <3>1, <3>2, <3>3, AskedAppend
  <2>5. y.up \in Seq(Requests(N)) /\ g.up = Append(y.up, w)
    BY <1>2, <1>8, <1>10, <1>11, <2>0, <2>1
  <2>6. \A t \in g.listens \ {w.target} : t \in y.listens /\ g.tokens[t] = y.tokens[t]
    BY <1>2, <1>8, <1>10, <1>11, <2>0
  <2>7. w.op = "watch" /\ w.token = g.tokens[w.target]
    BY <1>2, <1>9, <1>10, <1>11, <2>2
  <2> QED BY <1>2, <2>4, <2>5, <2>6, <2>7, AskedAppend
<1> QED BY <1>3, <1>6, <1>12 DEF TakenAsked, g

\* The event is taken, and what is in mismatch is listened to anew.
LEMMA TakeEventKeeps ==
    ASSUME NEW N \in Nat, NEW c, NEW On, NEW syn, ClientInv(c, TRUE, On, syn, N), NEW ver
    PROVE  TakenAsked(c, TakeEvent(c, RemoteEvent(c.agg, c.listens, ver).changes), On, syn, N)
<1> DEFINE changes == RemoteEvent(c.agg, c.listens, ver).changes
           base == [c EXCEPT !.tokens = Tokens(c, changes), !.agg = AfterEvent(c.agg, c.listens)]
           S == c.agg.resets \cap c.listens
           seq == SetToSeq(S)
<1>1. S \in SUBSET Queries
  BY DEF ClientInv, ClientCore, Clients, Aggregators
<1>2. IsFiniteSet(S)
  <2> HIDE DEF S
  <2> QED BY <1>1, WatchAssumption, FS_Subset
<1>3. TakeEvent(c, changes) = RelistenAll(base, seq)
  BY FoldsOfClient
<1>4. TakenAsked(c, base, On, syn, N)
  BY TakeBase
<1> HIDE DEF S, changes, base
<1>5. PICK n \in Nat : /\ seq \in [1..n -> S] /\ DOMAIN seq = 1..n
  BY <1>2, OrderOfSet
<1> HIDE DEF seq
<1>6. PICK f : Unfolds(f, n, "relisten", TRUE, None, None, base, seq, RelistenAll(base, seq))
  BY <1>5, RelistenFold
<1>7. /\ RelistenAll(base, seq) = f[1..n]
      /\ f[1..0] = base
      /\ \A i \in 0..(n - 1) :
             f[1..(i + 1)] = Turn("relisten", TRUE, None, None, f[1..i], seq[i + 1])
  <2>1. /\ Folds(f, n, "relisten", TRUE, None, None, base, seq)
        /\ RelistenAll(base, seq) = f[1..n]
    BY <1>6 DEF Unfolds
  <2>2. Turns(f, n, "relisten", TRUE, None, None, base, seq)
    BY <2>1, FoldTurns
  <2> QED BY <2>1, <2>2 DEF Turns
<1>8. \A i \in 0..(n - 1) : f[1..(i + 1)] = Relisten(f[1..i], seq[i + 1])
  <2>1. \A d, x : Turn("relisten", TRUE, None, None, d, x) = Relisten(d, x)
    BY DEF Turn
  <2> QED BY <1>7, <2>1
<1> DEFINE X == {i \in 0..n : TakenAsked(c, f[1..i], On, syn, N)}
<1>9. 0 \in X
  BY <1>4, <1>7
<1>10. ASSUME NEW i \in 0..(n - 1), i \in X PROVE i + 1 \in X
  <2> DEFINE d == f[1..i]
             q == seq[i + 1]
             e == f[1..(i + 1)]
  <2>1. i + 1 \in 1..n /\ i + 1 \in 0..n
    OBVIOUS
  <2>2. q \in Queries
    BY <1>1, <1>5, <2>1
  <2>3. TakenAsked(c, d, On, syn, N)
    BY <1>10
  <2>4. e = Relisten(d, q)
    BY <1>8
  <2> HIDE DEF d, q, e
  <2>5. TakenAsked(c, e, On, syn, N)
    BY <2>2, <2>3, <2>4, RelistenOne
  <2> QED BY <2>1, <2>5 DEF e
<1>11. n \in X
  <2> HIDE DEF X
  <2> QED BY <1>9, <1>10, IndexInduction
<1> QED BY <1>3, <1>7, <1>11 DEF changes

\* The client keeps what it looks up, and the ids it needs.
Fitted(c, e, On, new, N) ==
    /\ Keeps(c, e, TRUE, On, new, N)
    /\ \A k \in Keys : IdsFor(c, k) => IdsFor(e, k)

\* Once the event is taken, views and lookups may have received anything.
LEMMA TakenFits ==
    ASSUME NEW N \in Nat, NEW c, NEW d, NEW On, NEW syn, Taken(c, d, On, syn, N),
           NEW R \in SUBSET d.resolving, NEW new, NEW e, e = [d EXCEPT !.received = R]
    PROVE  Fitted(c, e, On, new, N)
<1>1. ClientCore(d, On, syn, N) /\ d \in Clients(N)
  BY DEF Taken, ClientCore
<1>2. R \in SUBSET LimboIds
  BY <1>1 DEF Clients
<1>3. /\ e \in Clients(N) /\ e.agg = d.agg /\ e.up = d.up /\ e.idle = d.idle
      /\ e.listens = d.listens /\ e.active = d.active /\ e.refs = d.refs
      /\ e.resolving = d.resolving /\ e.received = R
  BY <1>1, <1>2 DEF Clients
<1>4. \A u \in Targets : TargetSound(e, new, u)
  <2> TAKE t \in Targets
  <2>1. TargetSound(d, syn, t)
    BY <1>1 DEF ClientCore
  <2>2. /\ e.agg.targets[t].out = Pending(e.up, t)
        /\ t \in LimboIds \cap e.listens => e.agg.targets[t].out <= 1
    BY <1>3, <2>1 DEF TargetSound
  <2>3. e.agg.targets[t].out = 0 => Blank(e.agg.targets[t])
    BY <1>3 DEF Taken, Emptied
  <2> QED BY <2>2, <2>3, BlankTarget
<1>5. ClientCore(e, On, new, N)
  BY <1>1, <1>3, <1>4 DEF ClientCore
<1>6. ClientInv(e, TRUE, On, new, N)
  BY <1>3, <1>5 DEF ClientInv, Taken
<1>7. e.refs = c.refs /\ e.active = c.active
  BY <1>3 DEF Taken
<1>8. \A k \in Keys : IdsFor(c, k) => IdsFor(e, k)
  BY <1>3 DEF IdsFor, IsFresh, Taken
<1> QED BY <1>6, <1>7, <1>8 DEF Keeps, Fitted

----------------------------------------------------------------------------
(* A lookup is refused.                                                    *)

\* ProcessTargetError forgets the listen of n.
Refused(c, n) == [Answered(c) EXCEPT !.listens = @ \ {n}, !.tokens[n] = NoToken,
                                     !.agg.targets[n] = NewTarget]

\* d is what is left of c when the lookup n is refused.
LookupLost(c, d, On, syn, N, n) ==
    /\ ClientInv(d, TRUE, On, syn, N)
    /\ d.refs = c.refs
    /\ d.active = [c.active EXCEPT ![KeyOf(n)] = None]
    /\ \A k \in Keys : IdsFor(c, k) => IdsFor(d, k)
    /\ Steady(c, d, TRUE)

\* HandleRejectedListen forgets the lookup n, and nothing waits for its turn.
LEMMA RefusedKeeps ==
    ASSUME NEW N \in Nat, NEW c, NEW On \in SUBSET Queries, NEW syn,
           ClientInv(c, TRUE, On, syn, N), c.up # <<>>,
           NEW n \in c.listens \cap LimboIds, n = Head(c.up).target
    PROVE  LookupLost(c, Pump(Forgotten(Refused(c, n), n), TRUE), On, syn, N, n)
<1> DEFINE b == Refused(c, n)
           e == Forgotten(b, n)
           k == KeyOf(n)
           a == [c.agg EXCEPT !.targets[n] = NewTarget]
           tokens == [c.tokens EXCEPT ![n] = NoToken]
<1>1. c \in Clients(N) /\ ClientCore(c, On, syn, N)
  BY DEF ClientInv, ClientCore
<1>2. /\ c.active \in [Keys -> LimboIds \cup {None}] /\ c.waiting = <<>>
      /\ c.up \in Seq(Requests(N)) /\ c.agg \in Aggregators(N)
      /\ c.agg.targets \in [Targets -> TargetStates(N)]
      /\ c.tokens \in [Targets -> 0..N]
  BY <1>1 DEF Clients, Aggregators
<1>3. /\ n \in Targets /\ n \in LimboIds /\ n \notin Queries /\ k \in Keys
      /\ Tail(c.up) \in Seq(Requests(N))
  <2>1. n \in Targets /\ n \in LimboIds /\ n \notin Queries
    BY WatchAssumption DEF Targets
  <2>2. Tail(c.up) \in Seq(Requests(N))
    BY <1>2
  <2> QED BY <2>1, <2>2, LimboKey
<1>4. n \in c.resolving
  BY <1>1, <1>3 DEF ClientCore
<1>5. c.active[k] = n /\ \A j \in Keys : c.active[j] = n => j = k
  BY <1>1, <1>4 DEF ClientCore
<1>6. /\ a \in Aggregators(N) /\ a.targets = [c.agg.targets EXCEPT ![n] = NewTarget]
      /\ a.docs = c.agg.docs
  <2>1. NewTarget \in TargetStates(N)
    BY NewTargetIsBlank
  <2> QED BY <1>2, <1>3, <2>1 DEF Aggregators
<1>7. tokens \in [Targets -> 0..N]
  <2>1. NoToken \in 0..N
    BY DEF NoToken
  <2> QED BY <1>2, <2>1
<1>8. b = [c EXCEPT !.up = Tail(c.up), !.listens = c.listens \ {n}, !.tokens = tokens, !.agg = a]
  <2>1. Answered(c) = [c EXCEPT !.up = Tail(c.up)]
    BY DEF Answered
  <2> DEFINE w == Answered(c)
  <2>2. w.agg = c.agg /\ w.listens = c.listens /\ w.tokens = c.tokens
    BY <1>1, <2>1 DEF Clients
  <2>3. b = [w EXCEPT !.listens = @ \ {n}, !.tokens[n] = NoToken, !.agg.targets[n] = NewTarget]
    BY DEF Refused
  <2> HIDE DEF w, b
  <2>4. b = [w EXCEPT !.listens = c.listens \ {n}, !.tokens = tokens, !.agg = a]
    BY <2>2, <2>3
  <2> HIDE DEF tokens, a
  <2> QED BY <1>1, <2>1, <2>4 DEF Clients, w
<1>9. e = [b EXCEPT !.active[k] = None, !.resolving = @ \ {n}, !.received = @ \ {n}]
  BY DEF Forgotten
<1> HIDE DEF a, tokens, b, e
<1>10. /\ b \in Clients(N) /\ b.listens = c.listens \ {n} /\ b.refs = c.refs
       /\ b.active = c.active /\ b.resolving = c.resolving /\ b.received = c.received
       /\ b.waiting = <<>> /\ b.idle = c.idle /\ b.agg = a /\ b.up = Tail(c.up)
       /\ b.tokens = tokens
  BY <1>1, <1>2, <1>3, <1>6, <1>7, <1>8 DEF Clients
<1>11. /\ e \in Clients(N) /\ e.listens = c.listens \ {n} /\ e.refs = c.refs
       /\ e.active = [c.active EXCEPT ![k] = None]
       /\ e.resolving = c.resolving \ {n} /\ e.received = c.received \ {n}
       /\ e.waiting = <<>> /\ e.idle = c.idle /\ e.agg = a /\ e.up = Tail(c.up)
       /\ e.tokens = tokens
  BY <1>2, <1>3, <1>9, <1>10 DEF Clients
<1>12. ASSUME NEW u \in Targets PROVE TargetSound(e, syn, u)
  <2>1. TargetSound(c, syn, u)
    BY <1>1 DEF ClientCore
  <2>2. Pending(c.up, u) = Pending(e.up, u) + (IF Head(c.up).target = u THEN 1 ELSE 0)
    BY <1>2, <1>11, PendingTail
  <2>3. Pending(e.up, u) \in Nat
    BY <1>3, <1>11, PendingIsCount
  <2>4. CASE u = n
    <3>1. c.agg.targets[u].out = Pending(c.up, u) /\ c.agg.targets[u].out <= 1
      BY <2>1, <2>4 DEF TargetSound
    <3>2. Pending(c.up, u) = Pending(e.up, u) + 1
      BY <2>2, <2>4
    <3>3. Pending(e.up, u) = 0
      BY <2>3, <3>1, <3>2
    <3>4. e.agg.targets[u] = NewTarget
      BY <1>2, <1>3, <1>6, <1>11, <2>4
    <3>5. NewTarget.out = 0 /\ Blank(NewTarget)
      BY NewTargetIsBlank
    <3> QED BY <3>3, <3>4, <3>5, BlankTarget
  <2>5. CASE u # n
    <3>1. e.agg.targets[u] = c.agg.targets[u]
      BY <1>2, <1>3, <1>6, <1>11, <2>5
    <3>2. Pending(e.up, u) = Pending(c.up, u)
      BY <2>2, <2>3, <2>5
    <3> QED BY <1>11, <2>1, <2>5, <3>1, <3>2, SameTarget
  <2> QED BY <2>4, <2>5
<1>13. ClientCore(e, On, syn, N)
  <2>1. \A j \in Keys : e.active[j] = IF j = k THEN None ELSE c.active[j]
    BY <1>2, <1>3, <1>11
  <2>2. \A j \in Keys : e.active[j] # None => KeyOf(e.active[j]) = j
    BY <1>1, <2>1 DEF ClientCore
  <2>3. e.resolving = {e.active[j] : j \in Keys} \ {None}
    <3>1. c.resolving = {c.active[j] : j \in Keys} \ {None}
      BY <1>1 DEF ClientCore
    <3> QED BY <1>5, <1>11, <2>1, <3>1
  <2>4. e.listens = e.resolving \cup On
    BY <1>1, <1>3, <1>11 DEF ClientCore
  <2>5. e.received \subseteq e.resolving
    BY <1>1, <1>11 DEF ClientCore
  <2> QED BY <1>11, <1>12, <2>2, <2>3, <2>4, <2>5 DEF ClientCore
<1>14. ClientInv(e, TRUE, On, syn, N)
  <2>1. ~e.idle
    BY <1>11 DEF ClientInv
  <2> QED BY <1>13, <2>1 DEF ClientInv
<1>15. Pump(e, TRUE) = e
  BY <1>11, PumpNothing
<1>16. ASSUME NEW j \in Keys, IdsFor(c, j) PROVE IdsFor(e, j)
  <2>1. PICK m \in LimboIds : KeyOf(m) = j /\ IsFresh(c, m)
    BY <1>16 DEF IdsFor
  <2>2. m \notin c.resolving /\ c.agg.targets[m].out = 0 /\ m \in Targets /\ m # n
    BY <1>4, <2>1 DEF IsFresh, Targets
  <2>3. e.agg.targets[m] = c.agg.targets[m]
    BY <1>2, <1>6, <1>11, <2>2
  <2>4. IsFresh(e, m)
    BY <1>11, <2>2, <2>3 DEF IsFresh
  <2> QED BY <2>1, <2>4 DEF IdsFor
<1>17. tokens[n] = NoToken /\ \A t \in Targets \ {n} : tokens[t] = c.tokens[t]
  BY <1>2, <1>3 DEF tokens
<1>18. \A t \in Targets \ {n} : a.targets[t] = c.agg.targets[t]
  BY <1>2, <1>3, <1>6
<1>19. ASSUME Asked(c) PROVE Asked(e)
  <2>1. c.listens \subseteq Targets
    BY <1>1 DEF Clients
  <2>2. \A t \in e.listens : t \in c.listens /\ e.tokens[t] = c.tokens[t]
    BY <1>11, <1>17, <2>1
  <2>3. c.up \in Seq(Requests(N)) /\ c.up # <<>> /\ e.up = Tail(c.up)
    BY <1>2, <1>11
  <2> QED BY <1>19, <2>2, <2>3, AskedTail
<1>20. Steady(c, e, TRUE)
  <2>1. ASSUME NEW q \in Queries
        PROVE  /\ e.agg.targets[q] = c.agg.targets[q]
               /\ e.tokens[q] = c.tokens[q]
               /\ q \in e.listens <=> q \in c.listens
    <3>1. q \in Targets \ {n}
      BY <1>3 DEF Targets
    <3> QED BY <1>11, <1>17, <1>18, <3>1
  <2>2. ASSUME NEW m \in LimboIds
        PROVE  /\ m \in e.listens /\ e.agg.targets[m].out = 0 =>
                      /\ m \in c.listens
                      /\ e.agg.targets[m] = c.agg.targets[m]
                      /\ m \in c.received => m \in e.received
               /\ \/ e.tokens[m] = NoToken
                  \/ /\ e.tokens[m] = c.tokens[m]
                     /\ m \in e.resolving => /\ m \in c.resolving
                                             /\ m \in c.received => m \in e.received
    <3>1. CASE m = n
      BY <1>11, <1>17, <3>1
    <3>2. CASE m # n
      <4>1. m \in Targets \ {n}
        BY <3>2 DEF Targets
      <4> QED BY <1>11, <1>17, <1>18, <3>2, <4>1
    <3> QED BY <3>1, <3>2
  <2> QED BY <1>6, <1>11, <1>19, <2>1, <2>2 DEF Steady
<1> QED BY <1>11, <1>14, <1>15, <1>16, <1>20 DEF LookupLost, e, b

----------------------------------------------------------------------------
(* The steps of the client, the views and the disk.                        *)

\* There is a version of the data.
LEMMA NowIsNat == Typed => Now \in Nat /\ Now # 0
BY DEF Typed, Histories, Now

\* A listen goes to the backend, or waits for the stream that it starts.
LEMMA ListenWatch ==
    ASSUME WatchInv, ConnectionInv, NEW q \in Queries, Listen(q)
    PROVE  WatchInv'
<1> DEFINE t == disk.targets[q]
           new == [on |-> TRUE, shown |-> ExecuteQuery(q), synced |-> t.keys,
                   current |-> FALSE, token |-> t.token, free |-> t.free,
                   misled |-> FALSE, flawed |-> FALSE]
<1>1. /\ ~views[q].on
      /\ views' = [views EXCEPT ![q] = new]
      /\ client' = RemoteListen(client, IsOpen(stream), q, t.token)
      /\ UNCHANGED <<disk, server>>
  BY DEF Listen
<1>2. Typed /\ Now \in Nat
  BY NowIsNat DEF WatchInv
<1>3. t \in [token : 0..Now, keys : SUBSET Keys, free : 0..Now]
  BY <1>2 DEF Typed, Disks
<1>4. new \in Views(Now)
  <2>1. ExecuteQuery(q) \in SUBSET Keys
    BY DEF ExecuteQuery
  <2> QED BY <1>3, <2>1 DEF Views
<1> HIDE DEF t
<1>5. Typed'
  <2>1. Now' = Now /\ history' = history
    BY <1>1 DEF Now, history
  <2>2. views' \in [Queries -> Views(Now)]
    BY <1>1, <1>2, <1>4 DEF Typed
  <2>3. \A p \in Queries : views'[p].current => views'[p].on
    BY <1>1, <1>2 DEF Typed
  <2> QED BY <1>1, <1>2, <2>1, <2>2, <2>3 DEF Typed
<1>6. /\ OnViews' = OnViews \cup {q} /\ q \in Queries \ OnViews
      /\ \A p \in Queries \ {q} : SyncedKeys'[p] = SyncedKeys[p]
  BY <1>1, <1>2 DEF OnViews, SyncedKeys, Typed
<1>7. /\ IsOpen(stream)' = IsOpen(stream)
      /\ IsStarted(stream)'
  BY DEF Listen, IsOpen, IsStarted, Start, ConnectionInv, Connection, StreamStatus
<1>8. PICK c, open, N, On, syn, nsyn, tok :
          /\ c = client /\ open = IsOpen(stream) /\ N = Now /\ On = OnViews
          /\ syn = SyncedKeys /\ nsyn = SyncedKeys' /\ tok = t.token
  OBVIOUS
<1>9. /\ open \in BOOLEAN /\ N \in Nat /\ On \in SUBSET Queries /\ tok \in 0..N
      /\ ClientInv(c, open, On, syn, N)
  BY <1>2, <1>3, <1>8 DEF WatchInv, IsOpen, OnViews
<1>10. q \in Queries \ On /\ \A p \in Queries \ {q} : nsyn[p] = syn[p]
  BY <1>6, <1>8
<1>11. Keeps(c, RemoteListen(c, open, q, tok), open, On \cup {q}, nsyn, N)
  BY <1>9, <1>10, ListenKeeps
<1>12. client' = RemoteListen(c, open, q, tok)
  BY <1>1, <1>8
<1>13. Now' = Now
  BY <1>1 DEF Now, history
<1>14. ClientInv(client', IsOpen(stream)', OnViews', SyncedKeys', Now')
  BY <1>6, <1>7, <1>8, <1>11, <1>12, <1>13 DEF Keeps
<1>15. Lookups(client')
  BY <1>8, <1>11, <1>12 DEF Keeps, WatchInv, Lookups, IsReferenced
<1> QED BY <1>5, <1>7, <1>14, <1>15 DEF WatchInv

\* More versions are no harm.
LEMMA WiderClient ==
    ASSUME NEW N \in Nat, NEW M \in Nat, N <= M, NEW c, NEW open, NEW On, NEW syn,
           ClientInv(c, open, On, syn, N)
    PROVE  ClientInv(c, open, On, syn, M)
<1>1. 0..N \subseteq 0..M
  OBVIOUS
<1>2. TargetStates(N) \subseteq TargetStates(M)
  BY <1>1 DEF TargetStates
<1>3. [Targets -> TargetStates(N)] \subseteq [Targets -> TargetStates(M)]
  BY <1>2
<1>4. Aggregators(N) \subseteq Aggregators(M)
  BY <1>3 DEF Aggregators
<1>5. Requests(N) \subseteq Requests(M)
  BY <1>1 DEF Requests
<1>6. Seq(Requests(N)) \subseteq Seq(Requests(M)) /\ [Targets -> 0..N] \subseteq [Targets -> 0..M]
  BY <1>1, <1>5
<1>7. c \in Clients(M)
  BY <1>4, <1>6 DEF ClientInv, ClientCore, Clients
<1> QED BY <1>7 DEF ClientInv, ClientCore

\* Views and disk stay what they are.
LEMMA WiderTypes ==
    ASSUME NEW N \in Nat, NEW M \in Nat, N <= M
    PROVE  Views(N) \subseteq Views(M) /\ Disks(N) \subseteq Disks(M)
<1>1. 0..N \subseteq 0..M
  OBVIOUS
<1>2. Views(N) \subseteq Views(M)
  BY <1>1 DEF Views
<1>3. [token : 0..N, keys : SUBSET Keys, free : 0..N]
        \subseteq [token : 0..M, keys : SUBSET Keys, free : 0..M]
  BY <1>1
<1>4. Disks(N) \subseteq Disks(M)
  BY <1>1, <1>3 DEF Disks
<1> QED BY <1>2, <1>4

\* A step that leaves limbo as it is leaves the lookups.
LEMMA SameLimbo ==
    ASSUME client'.refs = client.refs, client'.active = client.active
    PROVE  (Lookups(client) => Lookups(client')) /\ LookupsFollowLimbo
BY DEF Lookups, IsReferenced, LookupsFollowLimbo

\* What happens behind the backend.
LEMMA ChangeWatch ==
    ASSUME WatchInv, NEW k \in Keys, Change(k)
    PROVE  WatchInv'
<1> DEFINE N == Now
<1>1. Typed /\ N \in Nat /\ N # 0
  BY NowIsNat DEF WatchInv
<1>2. PICK d \in Data :
          server' = [server EXCEPT !.history =
                        Append(history, [history[Now] EXCEPT ![k] = Doc(d, Now + 1)])]
  BY DEF Change, history
<1> DEFINE doc == Doc(d, Now + 1)
           last == [history[Now] EXCEPT ![k] = doc]
<1>3. doc \in [val : Data, ver : Nat]
  BY <1>1 DEF Doc
<1>4. last \in [Keys -> [val : Data, ver : Nat]]
  <2>1. history[Now] \in [Keys -> [val : Data, ver : Nat]]
    BY <1>1 DEF Typed, Histories, Now
  <2> HIDE DEF doc
  <2> QED BY <1>3, <2>1
<1> HIDE DEF doc, last
<1>5. "history" \in DOMAIN server' /\ history' = Append(history, last)
  BY <1>1, <1>2 DEF Typed, history, last, doc
<1>6. history' \in Histories /\ Now' = N + 1
  BY <1>1, <1>4, <1>5 DEF Typed, Histories, Now
<1>7. UNCHANGED <<stream, online, client, views, disk>>
  BY DEF Change
<1> HIDE DEF N
<1>8. views \in [Queries -> Views(N)] /\ disk \in Disks(N)
  BY <1>1 DEF Typed, N
<1>9. views' \in [Queries -> Views(N + 1)] /\ disk' \in Disks(N + 1)
  <2>1. N <= N + 1 /\ N + 1 \in Nat
    BY <1>1
  <2>2. Views(N) \subseteq Views(N + 1) /\ Disks(N) \subseteq Disks(N + 1)
    BY <1>1, <2>1, WiderTypes
  <2> QED BY <1>7, <1>8, <2>2
<1>10. Typed'
  BY <1>1, <1>5, <1>6, <1>7, <1>9 DEF Typed
<1>11. ClientInv(client, IsOpen(stream), OnViews, SyncedKeys, N + 1)
  <2>1. PICK c, open, On, syn : /\ c = client /\ open = IsOpen(stream)
                                /\ On = OnViews /\ syn = SyncedKeys
    OBVIOUS
  <2>2. ClientInv(c, open, On, syn, N)
    BY <2>1 DEF WatchInv, N
  <2>3. N <= N + 1 /\ N + 1 \in Nat
    BY <1>1
  <2>4. ClientInv(c, open, On, syn, N + 1)
    BY <1>1, <2>2, <2>3, WiderClient
  <2> QED BY <2>1, <2>4
<1>12. ClientInv(client', IsOpen(stream'), OnViews', SyncedKeys', Now')
  BY <1>6, <1>7, <1>11 DEF OnViews, SyncedKeys
<1> QED BY <1>7, <1>10, <1>12 DEF WatchInv

\* A step that leaves client, views and disk, and the stream as it was.
LEMMA QuietWatch ==
    ASSUME WatchInv, UNCHANGED <<client, views, disk>>,
           "history" \in DOMAIN server', UNCHANGED history,
           IsOpen(stream') = IsOpen(stream), IsStarted(stream) => IsStarted(stream')
    PROVE  WatchInv'
<1>1. Now' = Now /\ OnViews' = OnViews /\ SyncedKeys' = SyncedKeys
  BY DEF Now, OnViews, SyncedKeys
<1>2. Typed'
  BY <1>1 DEF WatchInv, Typed
<1>3. ClientInv(client', IsOpen(stream'), OnViews', SyncedKeys', Now')
  BY <1>1 DEF WatchInv
<1> QED BY <1>2, <1>3 DEF WatchInv

\* The views that are told of the online state stay what they are.
LEMMA ToldTyped ==
    ASSUME Typed, NEW o, UNCHANGED <<disk, history>>, "history" \in DOMAIN server',
           views' = ToldOnline(o)
    PROVE  Typed' /\ OnViews' = OnViews /\ SyncedKeys' = SyncedKeys /\ Now' = Now
<1>1. Now' = Now
  BY DEF Now
<1>2. ASSUME NEW q \in Queries
      PROVE  /\ views'[q] \in Views(Now)
             /\ views'[q].on = views[q].on /\ views'[q].synced = views[q].synced
             /\ views'[q].current => views'[q].on
  <2> DEFINE v == views[q]
             w == [v EXCEPT !.current = FALSE]
  <2>1. v \in Views(Now) /\ (v.current => v.on)
    BY DEF Typed
  <2>2. w \in Views(Now) /\ w.on = v.on /\ w.synced = v.synced /\ ~w.current
    <3> HIDE DEF v
    <3> QED BY <2>1 DEF Views
  <2>3. views'[q] = v \/ views'[q] = w
    BY DEF ToldOnline
  <2> HIDE DEF v, w
  <2> QED BY <2>1, <2>2, <2>3 DEF v
<1>3. views' \in [Queries -> Views(Now)]
  <2>1. views' = [q \in Queries |-> views'[q]]
    BY DEF Typed, ToldOnline
  <2> QED BY <1>2, <2>1
<1>4. OnViews' = OnViews /\ SyncedKeys' = SyncedKeys
  BY <1>2 DEF OnViews, SyncedKeys
<1> QED BY <1>1, <1>2, <1>3, <1>4 DEF Typed

\* The call ends: nothing is heard of the targets any more.
LEMMA HangupWatch ==
    ASSUME WatchInv, Hangup, UNCHANGED disk, \E o : views' = ToldOnline(o),
           ~IsOpen(stream'), client.listens # {} => IsStarted(stream')
    PROVE  WatchInv' /\ LookupsFollowLimbo
<1>1. /\ client' = Disconnected(client)
      /\ server' = [server EXCEPT !.session = NoSessions]
  BY DEF Hangup
<1>2. "history" \in DOMAIN server' /\ history' = history
  BY <1>1 DEF WatchInv, Typed, history
<1>3. Typed' /\ OnViews' = OnViews /\ SyncedKeys' = SyncedKeys /\ Now' = Now
  BY <1>2, ToldTyped DEF WatchInv
<1>4. PICK c, open, N, On, syn :
          /\ c = client /\ open = IsOpen(stream) /\ N = Now /\ On = OnViews /\ syn = SyncedKeys
  OBVIOUS
<1>5. N \in Nat /\ ClientInv(c, open, On, syn, N)
  BY <1>4, NowIsNat DEF WatchInv
<1>6. Keeps(c, Disconnected(c), FALSE, On, syn, N) /\ Disconnected(c).listens = c.listens
  BY <1>5, DisconnectedKeeps
<1>7. Keeps(client, client', FALSE, OnViews', SyncedKeys', Now') /\ client'.listens = client.listens
  BY <1>1, <1>3, <1>4, <1>6
<1>8. ClientInv(client', IsOpen(stream'), OnViews', SyncedKeys', Now')
  <2>1. IsOpen(stream') = FALSE
    BY DEF IsOpen
  <2> QED BY <1>7, <2>1 DEF Keeps
<1>9. Lookups(client') /\ LookupsFollowLimbo
  BY <1>7, SameLimbo DEF Keeps, WatchInv
<1> QED BY <1>3, <1>7, <1>8, <1>9 DEF WatchInv

\* The call fails.
LEMMA StreamFailsWatch ==
    ASSUME WatchInv, ConnectionInv, StreamFails
    PROVE  WatchInv' /\ LookupsFollowLimbo
<1>1. Hangup /\ UNCHANGED disk /\ \E o : views' = ToldOnline(o)
  BY DEF StreamFails
<1>2. \/ stream' = Start(Ended(stream, FALSE))
      \/ client.listens = {} /\ stream' = Ended(stream, FALSE)
  BY DEF StreamFails
<1>3. ~IsOpen(stream') /\ (client.listens # {} => IsStarted(stream'))
  BY <1>2 DEF Start, Ended, Closed, IsOpen, IsStarted
<1> QED BY <1>1, <1>3, HangupWatch

\* Views that are not told are as if they were told of the state there is.
LEMMA ToldNothing == ToldOnline(online) = views
BY DEF ToldOnline

\* The call ends while nothing is listened to.
LEMMA IdleTimeoutWatch ==
    ASSUME WatchInv, ConnectionInv, IdleTimeout
    PROVE  WatchInv' /\ LookupsFollowLimbo
<1>1. Hangup /\ UNCHANGED disk /\ \E o : views' = ToldOnline(o)
  BY ToldNothing DEF IdleTimeout
<1>2. stream' = Ended(stream, TRUE) /\ client.idle
  BY DEF IdleTimeout
<1>3. ~IsOpen(stream') /\ client.listens = {}
  BY <1>2 DEF Ended, Closed, IsOpen, WatchInv, ClientInv
<1> QED BY <1>1, <1>3, HangupWatch

\* The network is restarted.
LEMMA RestartNetworkWatch ==
    ASSUME WatchInv, ConnectionInv, RestartNetwork
    PROVE  WatchInv' /\ LookupsFollowLimbo
<1>1. Hangup /\ UNCHANGED disk /\ \E o : views' = ToldOnline(o)
  BY ToldNothing DEF RestartNetwork
<1>2. \/ stream' = Start(Inhibited(stream))
      \/ client.listens = {} /\ stream' = Inhibited(stream)
  BY DEF RestartNetwork
<1>3. ~IsOpen(stream') /\ (client.listens # {} => IsStarted(stream'))
  BY <1>2 DEF Start, Inhibited, IsOpen, IsStarted, ConnectionInv, Connection
<1> QED BY <1>1, <1>3, HangupWatch

\* The stream opens: what is listened to is sent.
LEMMA StreamOpensWatch ==
    ASSUME WatchInv, ConnectionInv, StreamOpens
    PROVE  WatchInv' /\ LookupsFollowLimbo
<1>1. /\ stream.st = "Starting" /\ stream' = Opened(stream, NoCred)
      /\ client' = Resent(client)
      /\ UNCHANGED <<online, views, disk, server>>
  BY DEF StreamOpens
<1>2. ~IsOpen(stream) /\ IsOpen(stream') /\ IsStarted(stream')
  BY <1>1 DEF IsOpen, IsStarted, Opened, ConnectionInv, Connection
<1>3. Typed' /\ OnViews' = OnViews /\ SyncedKeys' = SyncedKeys /\ Now' = Now
  BY <1>1 DEF WatchInv, Typed, OnViews, SyncedKeys, Now, history
<1>4. PICK c, N, On, syn :
          /\ c = client /\ N = Now /\ On = OnViews /\ syn = SyncedKeys
  OBVIOUS
<1>5. N \in Nat /\ On \in SUBSET Queries
  BY <1>4, NowIsNat DEF WatchInv, OnViews
<1>6. ClientInv(c, FALSE, On, syn, N)
  <2>1. IsOpen(stream) = FALSE
    BY <1>2 DEF IsOpen
  <2> QED BY <1>4, <2>1 DEF WatchInv
<1>7. Sent(c, Resent(c), On, syn, N, c.listens)
  BY <1>5, <1>6, ResentKeeps
<1> DEFINE d == Resent(c)
<1>8. ClientInv(d, TRUE, On, syn, N) /\ d.refs = c.refs /\ d.active = c.active
  <2> HIDE DEF d
  <2>1. Sent(c, d, On, syn, N, c.listens)
    BY <1>7 DEF d
  <2> QED BY <2>1 DEF Sent, ClientInv
<1>9. client' = d
  BY <1>1, <1>4
<1> HIDE DEF d
<1>10. ClientInv(client', IsOpen(stream'), OnViews', SyncedKeys', Now')
  <2>1. IsOpen(stream') = TRUE
    BY <1>2 DEF IsOpen
  <2> QED BY <1>3, <1>4, <1>8, <1>9, <2>1
<1>11. Lookups(client') /\ LookupsFollowLimbo
  <2>1. client'.refs = client.refs /\ client'.active = client.active
    BY <1>4, <1>8, <1>9
  <2> QED BY <2>1, SameLimbo DEF WatchInv
<1> QED BY <1>2, <1>3, <1>10, <1>11 DEF WatchInv

\* The views are told that the client is Offline.
LEMMA TimerFiresWatch ==
    ASSUME WatchInv, TimerFires
    PROVE  WatchInv'
<1>1. views' = ToldOnline(TimedOut(online)) /\ UNCHANGED <<stream, client, disk, server>>
  BY DEF TimerFires
<1>2. UNCHANGED history /\ "history" \in DOMAIN server'
  BY <1>1 DEF history, WatchInv, Typed
<1>3. Typed' /\ OnViews' = OnViews /\ SyncedKeys' = SyncedKeys /\ Now' = Now
  BY <1>1, <1>2, ToldTyped DEF WatchInv
<1>4. ClientInv(client', IsOpen(stream'), OnViews', SyncedKeys', Now')
  BY <1>1, <1>3 DEF WatchInv
<1> QED BY <1>1, <1>3, <1>4 DEF WatchInv

\* A client that has just started.
LEMMA HereIsWatch ==
    ASSUME NEW N \in Nat, NEW syn
    PROVE  /\ ClientInv(NewClient, FALSE, {}, syn, N)
           /\ Lookups(NewClient)
           /\ NoView \in Views(N)
<1> DEFINE c == NewClient
<1>1. NewTarget \in TargetStates(N) /\ NewTarget.out = 0 /\ Blank(NewTarget)
  BY NewTargetIsBlank
<1>2. NewAggregator \in Aggregators(N)
  BY <1>1 DEF NewAggregator, Aggregators, Documents
<1>3. <<>> \in Seq(Requests(N)) /\ NoToken \in 0..N
  BY DEF NoToken
<1>4. c \in Clients(N)
  <2> HIDE DEF c
  <2>1. /\ c = NewClient
    BY DEF c
  <2> QED BY <1>2, <1>3, <2>1 DEF NewClient, Clients
<1>5. /\ c.listens = {} /\ c.resolving = {} /\ c.received = {} /\ c.up = <<>> /\ ~c.idle
      /\ c.agg = NewAggregator /\ c.refs = [q \in Queries |-> {}]
      /\ c.active = [k \in Keys |-> None]
  BY DEF NewClient
<1> HIDE DEF c
<1>6. ASSUME NEW t \in Targets
      PROVE  TargetSound(c, syn, t)
  <2>1. Pending(c.up, t) = 0
    BY <1>3, <1>5, PendingIsCount
  <2>2. c.agg.targets[t] = NewTarget
    BY <1>5 DEF NewAggregator
  <2> QED BY <1>1, <1>5, <2>1, <2>2, BlankTarget
<1>7. ClientCore(c, {}, syn, N)
  BY <1>4, <1>5, <1>6 DEF ClientCore
<1>8. ClientInv(c, FALSE, {}, syn, N) /\ Lookups(c)
  BY <1>5, <1>7 DEF ClientInv, Lookups, Unheard
<1>9. NoView \in Views(N)
  BY <1>3 DEF NoView, Views
<1> QED BY <1>8, <1>9 DEF c

\* At the start no query is listened to.
LEMMA NoViewsWatch ==
    ASSUME Now \in Nat, views = [q \in Queries |-> NoView]
    PROVE  /\ views \in [Queries -> Views(Now)]
           /\ \A q \in Queries : ~views[q].on /\ ~views[q].current
           /\ OnViews = {}
           /\ ClientInv(NewClient, FALSE, OnViews, SyncedKeys, Now)
<1>1. \A q \in Queries : ~views[q].on /\ ~views[q].current
  BY DEF NoView
<1>2. NoView \in Views(Now)
  BY HereIsWatch
<1>3. OnViews = {}
  BY <1>1 DEF OnViews
<1> QED BY <1>1, <1>2, <1>3, HereIsWatch

\* The invariant holds at first.
LEMMA InitWatch == Init => WatchInv
<1> SUFFICES ASSUME Init PROVE WatchInv
  OBVIOUS
<1>1. /\ stream = NewStream /\ client = NewClient /\ views = [q \in Queries |-> NoView]
      /\ disk = [cache   |-> [k \in Keys |-> None],
                 targets |-> [q \in Queries |-> [token |-> NoToken, keys |-> {}, free |-> 0]],
                 last    |-> 0]
  BY DEF Init
<1>2. PICK d \in [Keys -> Data] :
          server = [history |-> <<[k \in Keys |-> Doc(d[k], 1)]>>, horizon |-> 0,
                    session |-> NoSessions]
  BY DEF Init
<1>3. [k \in Keys |-> Doc(d[k], 1)] \in [Keys -> [val : Data, ver : Nat]]
  BY DEF Doc
<1>4. /\ "history" \in DOMAIN server /\ history \in Histories /\ Now = 1
  BY <1>2, <1>3 DEF history, Histories, Now
<1>5. disk \in Disks(Now)
  BY <1>1, <1>4 DEF Disks, Cached, NoToken
<1>6. ~IsOpen(stream) /\ IsOpen(stream) = FALSE
  BY <1>1 DEF NewStream, IsOpen
<1>7. Typed
  BY <1>1, <1>4, <1>5, NoViewsWatch DEF Typed
<1>8. ClientInv(client, IsOpen(stream), OnViews, SyncedKeys, Now)
  BY <1>1, <1>4, <1>6, NoViewsWatch
<1>9. Lookups(client) /\ client.listens = {}
  BY <1>1, <1>4, HereIsWatch DEF NewClient
<1> QED BY <1>7, <1>8, <1>9 DEF WatchInv

\* A new process looks nothing up and has nothing in limbo.
LEMMA CrashWatch ==
    ASSUME WatchInv, Crash
    PROVE  WatchInv' /\ LookupsFollowLimbo
<1>1. /\ stream' = NewStream /\ client' = NewClient /\ views' = [q \in Queries |-> NoView]
      /\ server' = [server EXCEPT !.session = NoSessions] /\ disk' = disk
  BY DEF Crash
<1>2. "history" \in DOMAIN server' /\ history' = history /\ Now' = Now /\ Now \in Nat
  BY <1>1, NowIsNat DEF WatchInv, Typed, history, Now
<1>3. NoView \in Views(Now)
  BY <1>2, HereIsWatch
<1>4. Typed' /\ OnViews' = {}
  BY <1>1, <1>2, <1>3 DEF Typed, WatchInv, OnViews, NoView
<1>5. IsOpen(stream') = FALSE
  BY <1>1 DEF NewStream, IsOpen
<1>6. ClientInv(client', IsOpen(stream'), OnViews', SyncedKeys', Now') /\ Lookups(client')
  BY <1>1, <1>2, <1>4, <1>5, HereIsWatch
<1>7. LookupsFollowLimbo
  BY <1>1 DEF LookupsFollowLimbo, IsReferenced, NewClient
<1> QED BY <1>1, <1>4, <1>6, <1>7 DEF WatchInv, NewClient

\* The steps that reach neither client nor views.
LEMMA QuietStepsWatch ==
    ASSUME WatchInv, ConnectionInv,
           BackoffElapses \/ Forget \/ UNCHANGED vars
    PROVE  WatchInv' /\ LookupsFollowLimbo
<1>1. UNCHANGED <<client, views, disk>>
  BY DEF BackoffElapses, Forget, vars
<1>2. "history" \in DOMAIN server' /\ UNCHANGED history
  BY DEF BackoffElapses, Forget, vars, history, WatchInv, Typed
<1>3. IsOpen(stream') = IsOpen(stream) /\ (IsStarted(stream) => IsStarted(stream'))
  BY DEF BackoffElapses, Forget, vars, BackoffOver, IsOpen, IsStarted, ConnectionInv, Connection
<1> QED BY <1>1, <1>2, <1>3, QuietWatch, SameLimbo

\* A message that completes no snapshot: only the aggregator changes.
LEMMA HearsWatch ==
    ASSUME WatchInv, NEW a, Hears(a),
           Heard(client.agg, a, client.listens, Known, Now),
           "history" \in DOMAIN server', UNCHANGED history
    PROVE  WatchInv' /\ LookupsFollowLimbo
<1>1. /\ IsOpen(stream) /\ client' = [client EXCEPT !.agg = a]
      /\ UNCHANGED <<stream, views, disk>>
  BY DEF Hears
<1>2. Typed' /\ OnViews' = OnViews /\ SyncedKeys' = SyncedKeys /\ Now' = Now /\ Now \in Nat
  BY <1>1, NowIsNat DEF WatchInv, Typed, OnViews, SyncedKeys, Now
<1>3. PICK c, N, On, syn : /\ c = client /\ N = Now /\ On = OnViews /\ syn = SyncedKeys
  OBVIOUS
<1>4. ClientCore(c, On, syn, N) /\ N \in Nat /\ (c.idle => c.listens = {}) /\ c \in Clients(N)
  BY <1>2, <1>3 DEF WatchInv, ClientInv, ClientCore
<1>5. Heard(c.agg, a, c.listens, RemoteKeys(c, syn), N)
  BY <1>3 DEF Known, SyncedKeys
<1> DEFINE d == [c EXCEPT !.agg = a]
<1>6. ClientCore(d, On, syn, N)
  BY <1>4, <1>5, HeardCore
<1>7. d.idle = c.idle /\ d.listens = c.listens /\ d.refs = c.refs /\ d.active = c.active
  BY <1>4 DEF Clients
<1>8. client' = d
  BY <1>1, <1>3
<1> HIDE DEF d
<1>9. IsOpen(stream') = TRUE
  BY <1>1 DEF IsOpen
<1>10. ClientInv(d, TRUE, On, syn, N)
  BY <1>4, <1>6, <1>7 DEF ClientInv
<1>11. ClientInv(client', IsOpen(stream'), OnViews', SyncedKeys', Now')
  BY <1>2, <1>3, <1>8, <1>9, <1>10
<1>12. Lookups(client') /\ LookupsFollowLimbo
  BY <1>3, <1>7, <1>8, SameLimbo DEF WatchInv
<1> QED BY <1>1, <1>2, <1>3, <1>7, <1>8, <1>11, <1>12 DEF WatchInv

\* HandleDocumentChange collects what fits the keys known.
LEMMA SendDocumentWatch ==
    ASSUME WatchInv, NEW k \in Keys, SendDocument(k)
    PROVE  WatchInv' /\ LookupsFollowLimbo
<1> DEFINE told == {t \in Targets : News(t, k)}
           updated == {t \in told : k \in Content(t, Now)}
<1>1. PICK doc \in {history[Now][k], None} :
          Hears(HandleDocumentChange(client.agg, client.listens, Known,
                                     updated, told \ updated, k, doc))
  BY Zenon DEF SendDocument
<1>2. "history" \in DOMAIN server' /\ UNCHANGED history
  BY DEF SendDocument, history, WatchInv, Typed
<1>3. Typed /\ Now \in Nat /\ Now # 0
  BY NowIsNat DEF WatchInv
<1>4. doc \in Documents
  <2>1. history[Now] \in [Keys -> [val : Data, ver : Nat]]
    BY <1>3 DEF Typed, Histories, Now
  <2> QED BY <2>1 DEF Documents
<1>5. client.agg \in Aggregators(Now)
  BY DEF WatchInv, ClientInv, ClientCore, Clients
<1> DEFINE a == HandleDocumentChange(client.agg, client.listens, Known, updated, told \ updated,
                                     k, doc)
<1>6. Heard(client.agg, a, client.listens, Known, Now)
  <2> HIDE DEF updated, told
  <2> QED BY <1>4, <1>5, DocumentChangeHeard
<1>7. Hears(a)
  BY <1>1
<1> HIDE DEF a
<1> QED BY <1>2, <1>6, <1>7, HearsWatch

\* A target is told that it is current.
LEMMA SendCurrentWatch ==
    ASSUME WatchInv, NEW t \in Targets, SendCurrent(t)
    PROVE  WatchInv' /\ LookupsFollowLimbo
<1> DEFINE a == TargetCurrent(client.agg, client.listens, t, Now)
<1>1. Hears(a)
  BY DEF SendCurrent
<1>2. "history" \in DOMAIN server' /\ UNCHANGED history
  BY DEF SendCurrent, history, WatchInv, Typed
<1>3. client.agg \in Aggregators(Now) /\ Now \in 0..Now
  BY NowIsNat DEF WatchInv, ClientInv, ClientCore, Clients
<1>4. Heard(client.agg, a, client.listens, Known, Now)
  BY <1>3, TargetCurrentHeard
<1> HIDE DEF a
<1> QED BY <1>1, <1>2, <1>4, HearsWatch

\* HandleExistenceFilter resets a target in mismatch, and what it collects fits.
LEMMA SendFilterWatch ==
    ASSUME WatchInv, NEW t \in Targets, SendFilter(t)
    PROVE  WatchInv' /\ LookupsFollowLimbo
<1> DEFINE a == HandleExistenceFilter(client.agg, client.listens, Known, t,
                                      Cardinality(Content(t, Now)))
<1>1. Hears(a)
  BY DEF SendFilter
<1>2. "history" \in DOMAIN server' /\ UNCHANGED history
  BY DEF SendFilter, history, WatchInv, Typed
<1>3. client.agg \in Aggregators(Now) /\ Now \in Nat
  BY NowIsNat DEF WatchInv, ClientInv, ClientCore, Clients
<1>4. Heard(client.agg, a, client.listens, Known, Now)
  BY <1>3, ExistenceFilterHeard
<1> HIDE DEF a
<1> QED BY <1>1, <1>2, <1>4, HearsWatch

\* What an answer leaves
LEMMA AnsweredWatch ==
    ASSUME WatchInv, UNCHANGED <<stream, disk>>, IsOpen(stream),
           "history" \in DOMAIN server', UNCHANGED history,
           views' \in [Queries -> Views(Now)],
           \A q \in Queries : /\ views'[q].on = views[q].on
                              /\ views'[q].synced = views[q].synced
                              /\ views'[q].current = views[q].current,
           NEW c, c = client,
           AnswerHeard(c, client', OnViews, SyncedKeys, Now)
    PROVE  WatchInv' /\ LookupsFollowLimbo
<1>1. Now' = Now /\ OnViews' = OnViews /\ SyncedKeys' = SyncedKeys
  BY DEF Now, OnViews, SyncedKeys
<1>2. Typed'
  BY <1>1 DEF WatchInv, Typed
<1>3. IsOpen(stream') = TRUE
  BY DEF IsOpen
<1>4. ClientInv(client', IsOpen(stream'), OnViews', SyncedKeys', Now')
  BY <1>1, <1>3 DEF AnswerHeard
<1>5. Lookups(client') /\ LookupsFollowLimbo
  BY SameLimbo DEF AnswerHeard, WatchInv
<1> QED BY <1>2, <1>4, <1>5 DEF AnswerHeard, WatchInv

\* The backend takes up a listen.
LEMMA AnswerWatchWatch ==
    ASSUME WatchInv, AnswerWatch
    PROVE  WatchInv' /\ LookupsFollowLimbo
<1>1. PICK t : t = Head(client.up).target
  OBVIOUS
<1>2. /\ client.up # <<>> /\ IsOpen(stream)
      /\ client' = [Answered(client) EXCEPT !.agg = TargetAdded(@, t)]
      /\ UNCHANGED <<stream, disk>>
  BY <1>1 DEF AnswerWatch, HeadRequest
<1>3. views' = [q \in Queries |->
                   IF q = t THEN [views[q] EXCEPT !.misled = Misleading(Head(client.up)),
                                                  !.flawed = @ \/ Flawing(Head(client.up))]
                   ELSE views[q]]
  BY <1>1 DEF AnswerWatch, HeadRequest
<1>4. "history" \in DOMAIN server' /\ UNCHANGED history
  BY DEF AnswerWatch, history, WatchInv, Typed
<1>5. ASSUME NEW q \in Queries
      PROVE  /\ views'[q] \in Views(Now)
             /\ views'[q].on = views[q].on
             /\ views'[q].synced = views[q].synced
             /\ views'[q].current = views[q].current
  <2> DEFINE v == views[q]
             m == Misleading(Head(client.up))
             n == v.flawed \/ Flawing(Head(client.up))
  <2>1. m \in BOOLEAN /\ n \in BOOLEAN
    BY DEF Misleading
  <2>2. v \in Views(Now)
    BY DEF WatchInv, Typed
  <2>3. views'[q] \in {v, [v EXCEPT !.misled = m, !.flawed = n]}
    BY <1>3
  <2> HIDE DEF m, n
  <2> QED BY <2>1, <2>2, <2>3 DEF Views
<1>6. views' \in [Queries -> Views(Now)]
  <2>1. views' = [q \in Queries |-> views'[q]]
    BY <1>3
  <2> QED BY <1>5, <2>1
<1>7. PICK c, N, On, syn : /\ c = client /\ N = Now /\ On = OnViews /\ syn = SyncedKeys
  OBVIOUS
<1>8. N \in Nat /\ ClientInv(c, TRUE, On, syn, N)
  <2>1. IsOpen(stream) = TRUE
    BY <1>2 DEF IsOpen
  <2> QED BY <1>7, <2>1, NowIsNat DEF WatchInv
<1>9. AnswerHeard(c, client', On, syn, N)
  <2>1. c.up # <<>> /\ t = Head(c.up).target
    BY <1>1, <1>2, <1>7
  <2>2. AnswerHeard(c, [Answered(c) EXCEPT !.agg = TargetAdded(@, t)], On, syn, N)
    BY <1>8, <2>1, AddedKeeps
  <2> QED BY <1>2, <1>7, <2>2
<1>10. AnswerHeard(c, client', OnViews, SyncedKeys, Now)
  BY <1>7, <1>9
<1> QED BY <1>2, <1>4, <1>5, <1>6, <1>7, <1>10, AnsweredWatch

\* The backend ends a listen.
LEMMA AnswerUnwatchWatch ==
    ASSUME WatchInv, AnswerUnwatch
    PROVE  WatchInv' /\ LookupsFollowLimbo
<1>1. PICK t : t = Head(client.up).target
  OBVIOUS
<1>2. /\ client.up # <<>> /\ IsOpen(stream)
      /\ client' = [Answered(client) EXCEPT !.agg = TargetRemoved(@, t)]
      /\ UNCHANGED <<stream, views, disk>>
  BY <1>1 DEF AnswerUnwatch, HeadRequest
<1>3. "history" \in DOMAIN server' /\ UNCHANGED history
  BY DEF AnswerUnwatch, history, WatchInv, Typed
<1>4. views' \in [Queries -> Views(Now)]
  BY <1>2 DEF WatchInv, Typed
<1>5. PICK c, N, On, syn : /\ c = client /\ N = Now /\ On = OnViews /\ syn = SyncedKeys
  OBVIOUS
<1>6. N \in Nat /\ ClientInv(c, TRUE, On, syn, N)
  <2>1. IsOpen(stream) = TRUE
    BY <1>2 DEF IsOpen
  <2> QED BY <1>5, <2>1, NowIsNat DEF WatchInv
<1>7. AnswerHeard(c, client', On, syn, N)
  <2>1. c.up # <<>> /\ t = Head(c.up).target
    BY <1>1, <1>2, <1>5
  <2>2. AnswerHeard(c, [Answered(c) EXCEPT !.agg = TargetRemoved(@, t)], On, syn, N)
    BY <1>6, <2>1, RemovedKeeps
  <2> QED BY <1>2, <1>5, <2>2
<1>8. AnswerHeard(c, client', OnViews, SyncedKeys, Now)
  BY <1>5, <1>7
<1> QED BY <1>2, <1>3, <1>4, <1>5, <1>8, AnsweredWatch

\* The lookups of a client that nothing new is tracked for.
LEMMA TrackedAtFirst ==
    ASSUME NEW c, NEW open, NEW On, NEW syn, NEW N, ClientInv(c, open, On, syn, N),
           Lookups(c), \A k \in Keys : IdsFor(c, k)
    PROVE  Tracked(c, c, open, On, syn, N, {})
BY SteadyStays DEF Tracked, Served, NoNewOrphans

\* What follows of the lookups of a step from b to d.
LEMMA NothingOrphaned ==
    ASSUME NEW b, NEW d, NoNewOrphans(b, d),
           b.refs = client.refs, b.active = client.active,
           d.refs = client'.refs, d.active = client'.active
    PROVE  LookupsFollowLimbo
BY DEF NoNewOrphans, LookupsFollowLimbo, IsReferenced

\* The flag that the last listen went is read at once.
LEMMA FlagKeeps ==
    ASSUME NEW d, NEW open, NEW On, NEW syn, NEW N, ClientInv(d, open, On, syn, N),
           NEW e, e = [d EXCEPT !.emptied = FALSE]
    PROVE  Keeps(d, e, open, On, syn, N)
<1>1. d \in Clients(N)
  BY DEF ClientInv, ClientCore
<1>2. e \in Clients(N)
  BY <1>1 DEF Clients
<1>3. /\ e.listens = d.listens /\ e.agg = d.agg /\ e.up = d.up /\ e.idle = d.idle
      /\ e.refs = d.refs /\ e.active = d.active /\ e.resolving = d.resolving
      /\ e.received = d.received
  BY <1>1 DEF Clients
<1>4. \A t \in Targets : TargetSound(e, syn, t)
  BY <1>3, SameTarget DEF ClientInv, ClientCore
<1> QED BY <1>2, <1>3, <1>4 DEF Keeps, ClientInv, ClientCore, Unheard

\* d is what c leaves when q stops.
LimboStopped(c, d, open, On, syn, N, q) ==
    /\ ClientInv(d, open, On, syn, N)
    /\ Lookups(d)
    /\ NoNewOrphans(c, d)
    /\ d.refs = [c.refs EXCEPT ![q] = {}]
    /\ Steady(RemoteStop(c, open, q), d, open)

\* A query stops, and with it what was looked up for it alone.
LEMMA StopAll ==
    ASSUME FewKeys, NEW N \in Nat, NEW c, NEW open \in BOOLEAN, NEW On \in SUBSET Queries,
           NEW syn, ClientInv(c, open, On, syn, N), Lookups(c), IdsLeft(c),
           NEW q \in On, NEW new, \A p \in Queries \ {q} : new[p] = syn[p]
    PROVE  LimboStopped(c, UpdateTrackedLimboDocuments(RemoteStop(c, open, q), open, q, {}),
                   open, On \ {q}, new, N, q)
<1> DEFINE d == RemoteStop(c, open, q)
           e == UpdateTrackedLimboDocuments(d, open, q, {})
<1>1. Keeps(c, d, open, On \ {q}, new, N)
  <2> HIDE DEF d
  <2> QED BY StopKeeps DEF d
<1>2. c \in Clients(N) /\ q \in Targets
  BY DEF ClientInv, ClientCore, Targets
<1>3. /\ d.resolving = c.resolving
      /\ \A n \in LimboIds : d.agg.targets[n] = c.agg.targets[n]
  <2>1. /\ d.resolving = c.resolving
        /\ open => \A u \in Targets \ {q} : d.agg.targets[u] = c.agg.targets[u]
        /\ ~open => d.agg = c.agg
    <3>1. Halted(c, RemoteStop(c, open, q), open, q, N)
      BY <1>2, StopFields
    <3> QED BY <3>1 DEF Halted
  <2>2. LimboIds \subseteq Targets \ {q}
    BY WatchAssumption DEF Targets
  <2> HIDE DEF d
  <2> QED BY <2>1, <2>2
<1> HIDE DEF d
<1>4. \A k \in Keys : IdsFor(d, k)
  BY <1>3 DEF IdsLeft, IdsFor, IsFresh
<1>5. ClientInv(d, open, On \ {q}, new, N) /\ Lookups(d) /\ d.refs = c.refs /\ d.active = c.active
  BY <1>1 DEF Keeps, Lookups, IsReferenced
<1>6. Tracked(d, d, open, On \ {q}, new, N, {})
  BY <1>4, <1>5, TrackedAtFirst
<1>7. Settled(d, d, e, open, On \ {q}, new, N, {}, q, {})
  <2> HIDE DEF e
  <2>1. On \ {q} \in SUBSET Queries /\ {} \in SUBSET Queries /\ q \in Queries \ {}
        /\ {} \in SUBSET Keys
    OBVIOUS
  <2> QED BY <1>6, <2>1, UpdateKeeps DEF e
<1> HIDE DEF e
<1>8. LimboStopped(c, e, open, On \ {q}, new, N, q)
  <2>1. Steady(RemoteStop(c, open, q), e, open)
    BY <1>7 DEF Settled, Tracked, d
  <2> QED BY <1>5, <1>7, <2>1 DEF Settled, Tracked, LimboStopped, NoNewOrphans
<1> QED BY <1>8 DEF e, d

\* A query stops; only it had in limbo what is no longer looked up.
LEMMA StopListeningWatch ==
    ASSUME FewKeys, WatchInv, NEW q \in Queries, StopListening(q)
    PROVE  WatchInv' /\ LookupsFollowLimbo
<1> DEFINE d == UpdateTrackedLimboDocuments(RemoteStop(client, IsOpen(stream), q),
                                            IsOpen(stream), q, {})
<1>1. /\ views[q].on /\ IdsLeft(client)
      /\ client' = [d EXCEPT !.emptied = FALSE]
      /\ views' = [views EXCEPT ![q] = NoView]
      /\ disk' = [disk EXCEPT !.targets[q].token = views[q].token,
                              !.targets[q].free = views[q].free]
      /\ UNCHANGED <<stream, server>>
  BY DEF StopListening
<1>2. Typed /\ Now \in Nat /\ Now' = Now /\ history' = history
  BY <1>1, NowIsNat DEF WatchInv, Now, history
<1>3. views' \in [Queries -> Views(Now)] /\ \A p \in Queries : views'[p].current => views'[p].on
  <2>1. NoView \in Views(Now) /\ ~NoView.current
    BY <1>2, HereIsWatch DEF NoView
  <2> QED BY <1>1, <1>2, <2>1 DEF Typed
<1>4. disk' \in Disks(Now)
  <2>1. views[q].token \in 0..Now /\ views[q].free \in 0..Now
    BY <1>2 DEF Typed, Views
  <2>2. PICK N, tok, free : N = Now /\ tok = views[q].token /\ free = views[q].free
    OBVIOUS
  <2>3. disk \in Disks(N) /\ tok \in 0..N /\ free \in 0..N
    BY <1>2, <2>1, <2>2 DEF Typed
  <2>4. [disk EXCEPT !.targets[q].token = tok, !.targets[q].free = free] \in Disks(N)
    BY <2>3 DEF Disks
  <2> QED BY <1>1, <2>2, <2>4
<1>5. Typed'
  BY <1>1, <1>2, <1>3, <1>4 DEF Typed
<1>6. /\ OnViews' = OnViews \ {q} /\ q \in OnViews
      /\ \A p \in Queries \ {q} : SyncedKeys'[p] = SyncedKeys[p]
  BY <1>1, <1>2 DEF OnViews, SyncedKeys, Typed, NoView
<1>7. PICK c, open, N, On, syn, new :
          /\ c = client /\ open = IsOpen(stream) /\ N = Now /\ On = OnViews
          /\ syn = SyncedKeys /\ new = SyncedKeys'
  OBVIOUS
<1>8. /\ open \in BOOLEAN /\ N \in Nat /\ On \in SUBSET Queries
      /\ ClientInv(c, open, On, syn, N) /\ Lookups(c) /\ IdsLeft(c) /\ q \in On
      /\ \A p \in Queries \ {q} : new[p] = syn[p]
  BY <1>1, <1>2, <1>6, <1>7 DEF WatchInv, IsOpen, OnViews
<1>9. LimboStopped(c, d, open, On \ {q}, new, N, q)
  <2>1. LimboStopped(c, UpdateTrackedLimboDocuments(RemoteStop(c, open, q), open, q, {}),
                open, On \ {q}, new, N, q)
    BY <1>8, StopAll
  <2> QED BY <1>7, <2>1
<1> HIDE DEF d
<1>10. Keeps(d, client', open, On \ {q}, new, N)
  BY <1>1, <1>9, FlagKeeps DEF LimboStopped
<1>11. ClientInv(client', IsOpen(stream'), OnViews', SyncedKeys', Now')
  BY <1>1, <1>2, <1>6, <1>7, <1>10 DEF Keeps
<1>12. Lookups(client')
  BY <1>9, <1>10 DEF Keeps, LimboStopped, Lookups, IsReferenced
<1>13. LookupsFollowLimbo
  BY <1>7, <1>9, <1>10, NothingOrphaned DEF Keeps, LimboStopped
<1>14. client'.listens # {} => IsStarted(stream')
  <2>1. client'.listens = client'.resolving \cup OnViews'
    BY <1>11 DEF ClientInv, ClientCore
  <2>2. CASE client.listens # {}
    BY <1>1, <2>2 DEF WatchInv
  <2>3. q \in client.listens
    BY <1>6 DEF WatchInv, ClientInv, ClientCore
  <2> QED BY <2>2, <2>3
<1> QED BY <1>5, <1>11, <1>12, <1>13, <1>14 DEF WatchInv

----------------------------------------------------------------------------
(* What an event leaves. *)

\* The changes of a target, as an event has them.
Changes(N) == [token : 0..N, current : BOOLEAN, added : SUBSET Keys, modified : SUBSET Keys,
               removed : SUBSET Keys]

\* An event as RaiseWatchSnapshot and HandleRejectedListen make it.
EventOK(event, N) ==
    /\ event.docs \in [Keys -> Documents]
    /\ event.ver \in 0..N
    /\ \A q \in Queries : q \in DOMAIN event.changes => event.changes[q] \in Changes(N)

\* The cache takes documents.
LEMMA CacheTyped ==
    ASSUME Typed, NEW docs \in [Keys -> Documents], NEW ver \in Nat
    PROVE  CacheAfter(docs, ver) \in [Keys -> Cached]
<1>1. disk.cache \in [Keys -> Cached]
  BY DEF Typed, Disks
<1>2. ASSUME NEW k \in Keys
      PROVE  (IF k \notin Applied(docs) THEN disk.cache[k]
              ELSE IF docs[k] = NoDocument(0) THEN None
              ELSE [val |-> docs[k].val, ver |-> docs[k].ver, read |-> ver]) \in Cached
  <2>1. CASE k \notin Applied(docs)
    BY <1>1, <2>1
  <2>2. CASE k \in Applied(docs)
    <3>1. docs[k] \in [val : Data, ver : Nat]
      BY <2>2 DEF Applied, Documents
    <3> QED BY <2>2, <3>1 DEF Cached
  <2> QED BY <2>1, <2>2
<1> QED BY <1>2 DEF CacheAfter

\* What a view is after its part of the event.
Shaped(v, w, N) ==
    /\ w \in Views(N)
    /\ w.on = v.on
    /\ w.current => w.on

\* w is the view v of q after the event.
TellsView(q, v, w, event, cache, N) ==
    /\ Shaped(v, w, N)
    /\ w.synced = IF q \in DOMAIN event.changes
                  THEN (v.synced \cup event.changes[q].added) \ event.changes[q].removed
                  ELSE v.synced
    /\ w.shown = {k \in Keys : IF k \in Applied(event.docs) THEN Matches(cache[k], q)
                               ELSE k \in v.shown}

\* ViewAfter leaves a view, and open ones open.
LEMMA ViewShaped ==
    ASSUME Typed, NEW N, N = Now, NEW event, EventOK(event, N), NEW q \in Queries, views[q].on,
           NEW cache
    PROVE  TellsView(q, views[q], ViewAfter(q, event, cache), event, cache, N)
<1> DEFINE v == views[q]
           shown == {k \in Keys : IF k \in Applied(event.docs) THEN Matches(cache[k], q)
                                  ELSE k \in v.shown}
<1>1. v \in Views(N) /\ shown \in SUBSET Keys /\ v.on
  BY DEF Typed
<1>2. CASE q \notin DOMAIN event.changes
  <2> DEFINE lost == v.flawed \/ (event.ver = 0 /\ Applied(event.docs) \cap v.synced # {})
             w == [v EXCEPT !.shown = shown, !.flawed = lost]
  <2>1. ViewAfter(q, event, cache) = w
    BY <1>2 DEF ViewAfter
  <2>4. lost \in BOOLEAN
    OBVIOUS
  <2> HIDE DEF v, shown, lost
  <2>2. w \in Views(N)
    BY <1>1, <2>4 DEF Views
  <2>3. w.on = v.on /\ w.synced = v.synced /\ w.shown = shown
    BY <1>1 DEF Views
  <2> HIDE DEF w
  <2> QED BY <1>1, <1>2, <2>1, <2>2, <2>3 DEF Shaped, TellsView, v, shown
<1>3. CASE q \in DOMAIN event.changes
  <2> DEFINE change == event.changes[q]
             synced == (v.synced \cup change.added) \ change.removed
             tok == IF change.token # NoToken THEN change.token ELSE v.token
             w == [v EXCEPT !.shown = shown, !.synced = synced, !.current = change.current,
                            !.token = tok]
  <2>1. ViewAfter(q, event, cache) = w
    BY <1>3 DEF ViewAfter
  <2>2. change \in Changes(N)
    BY <1>3 DEF EventOK
  <2>3. synced \in SUBSET Keys /\ tok \in 0..N /\ change.current \in BOOLEAN
    <3> HIDE DEF change, v
    <3> QED BY <1>1, <2>2 DEF Changes, Views
  <2> HIDE DEF v, shown, synced, tok
  <2>4. w \in Views(N) /\ w.on = v.on /\ w.synced = synced /\ w.shown = shown
    BY <1>1, <2>3 DEF Views
  <2> HIDE DEF w
  <2>5. Shaped(v, w, N)
    BY <1>1, <2>4 DEF Shaped
  <2> QED BY <1>3, <2>1, <2>4, <2>5 DEF TellsView, v, shown, synced
<1> QED BY <1>2, <1>3

\* NotifyLocalViewChanges only notes the version without limbo.
LEMMA NotifiedShaped ==
    ASSUME NEW N, NEW v, NEW w \in Views(N), Shaped(v, w, N), NEW q, NEW limbo, NEW cache,
           NEW changed
    PROVE  LET x == Notified(q, w, limbo, cache, changed)
           IN  /\ Shaped(v, x, N)
               /\ x.synced = w.synced /\ x.shown = w.shown /\ x.current = w.current
<1> DEFINE x == [w EXCEPT !.free = w.token]
<1>1. Notified(q, w, limbo, cache, changed) \in {w, x}
  BY DEF Notified
<1>2. /\ x \in Views(N) /\ x.on = w.on /\ x.synced = w.synced /\ x.shown = w.shown
      /\ x.current = w.current
  BY DEF Views
<1> HIDE DEF x
<1> QED BY <1>1, <1>2 DEF Shaped

\* ApplyRemoteEvent leaves targets in the target cache.
LEMMA TargetTyped ==
    ASSUME Typed, NEW N, N = Now, NEW event, EventOK(event, N), NEW q \in Queries, NEW slow
    PROVE  TargetAfter(q, event, slow) \in [token : 0..N, keys : SUBSET Keys, free : 0..N]
<1> DEFINE t == disk.targets[q]
           v == views[q]
<1>1. t \in [token : 0..N, keys : SUBSET Keys, free : 0..N] /\ v \in Views(N)
  BY DEF Typed, Disks
<1>2. CASE ~v.on \/ q \notin DOMAIN event.changes
  BY <1>1, <1>2 DEF TargetAfter
<1>3. CASE v.on /\ q \in DOMAIN event.changes
  <2> DEFINE change == event.changes[q]
             keys == (t.keys \ change.removed) \cup change.added
  <2>1. change \in Changes(N)
    BY <1>3 DEF EventOK
  <2>2. TargetAfter(q, event, slow)
           \in {[token |-> change.token, keys |-> keys, free |-> v.free], [t EXCEPT !.keys = keys]}
    BY <1>3 DEF TargetAfter
  <2>3. keys \in SUBSET Keys /\ change.token \in 0..N /\ v.free \in 0..N
    <3> HIDE DEF change, t, v
    <3> QED BY <1>1, <2>1 DEF Changes, Views
  <2> HIDE DEF change, t, v, keys
  <2> QED BY <1>1, <2>2, <2>3
<1> QED BY <1>2, <1>3

\* What the views have as synced after the event.
SyncedAfter(event) ==
    [q \in Queries |-> IF views[q].on /\ q \in DOMAIN event.changes
                       THEN (views[q].synced \cup event.changes[q].added)
                                \ event.changes[q].removed
                       ELSE views[q].synced]

\* The views after the event, and their limbo.
NewViews(event, cache) ==
    [q \in Queries |-> IF views[q].on THEN ViewAfter(q, event, cache) ELSE views[q]]

NewLimbo(c, new) == [q \in Queries |-> LimboAfter(new[q], c.refs[q])]

\* The step of an event, with its parts by name.
Parted(c, event, slow, cache, new, limbo) ==
    /\ client' = LimboTracked([c EXCEPT !.received = Received(c, event.changes)], limbo)
    /\ views' = [q \in Queries |->
                    Notified(q, new[q], limbo[q], cache, Applied(event.docs))]
    /\ disk' = [cache   |-> cache,
                targets |-> [q \in Queries |-> TargetAfter(q, event, slow)],
                last    |-> IF event.ver = 0 THEN disk.last ELSE event.ver]

\* ApplyRemoteEvent is these assignments.
LEMMA EventParts ==
    ASSUME NEW c, NEW event, NEW slow, ApplyRemoteEvent(c, event, slow),
           NEW cache, cache = CacheAfter(event.docs, event.ver),
           NEW new, new = NewViews(event, cache),
           NEW limbo, limbo = NewLimbo(c, new)
    PROVE  Parted(c, event, slow, cache, new, limbo)
<1>1. \E k \in {CacheAfter(event.docs, event.ver)} :
      \E n \in {NewViews(event, k)} : \E l \in {NewLimbo(c, n)} :
          Parted(c, event, slow, k, n, l)
  BY Zenon DEF ApplyRemoteEvent, NewViews, NewLimbo, Parted
<1> QED BY <1>1, Zenon

\* The limbo an event leaves of each view.
LimboOf(c, event) == NewLimbo(c, NewViews(event, CacheAfter(event.docs, event.ver)))

\* The types an event leaves; a document it deletes is in limbo of no current view.
Shown(c, event) ==
    /\ Typed'
    /\ OnViews' = OnViews
    /\ SyncedKeys' = SyncedAfter(event)
    /\ LimboOf(c, event) \in [Queries -> SUBSET Keys]
    /\ \A k \in Keys, q \in Queries :
           event.docs[k] = NoDocument(0) /\ views'[q].current =>
               views[q].on /\ k \notin LimboOf(c, event)[q]

\* Every event leaves types as they are.
LEMMA EventTyped ==
    ASSUME Typed, UNCHANGED server, NEW c, NEW event, NEW slow,
           ApplyRemoteEvent(c, event, slow), EventOK(event, Now),
           c.refs \in [Queries -> SUBSET Keys]
    PROVE  Shown(c, event)
<1> DEFINE cache == CacheAfter(event.docs, event.ver)
           new == NewViews(event, cache)
           limbo == NewLimbo(c, new)
<1>1. /\ views' = [q \in Queries |->
                      Notified(q, new[q], limbo[q], cache, Applied(event.docs))]
      /\ disk' = [cache   |-> cache,
                  targets |-> [q \in Queries |-> TargetAfter(q, event, slow)],
                  last    |-> IF event.ver = 0 THEN disk.last ELSE event.ver]
  <2>1. PICK k, n, l : k = cache /\ n = new /\ l = limbo
    OBVIOUS
  <2>2. /\ k = CacheAfter(event.docs, event.ver) /\ n = NewViews(event, k)
        /\ l = NewLimbo(c, n)
    BY <2>1
  <2> HIDE DEF cache, new, limbo
  <2>3. Parted(c, event, slow, k, n, l)
    BY <2>2, EventParts
  <2> QED BY <2>1, <2>3 DEF Parted
<1>2. PICK N : N = Now
  OBVIOUS
<1>3. N \in Nat /\ Now' = N /\ history' = history
  BY <1>2, NowIsNat DEF Now, history
<1>4. EventOK(event, N) /\ event.docs \in [Keys -> Documents] /\ event.ver \in 0..N
  BY <1>2 DEF EventOK
<1>5. cache \in [Keys -> Cached]
  BY <1>3, <1>4, CacheTyped
<1>6. \A k \in Keys : event.docs[k] = NoDocument(0) => k \in Applied(event.docs) /\ cache[k] = None
  BY WatchAssumption DEF CacheAfter, Applied
<1> HIDE DEF cache
<1>7. ASSUME NEW q \in Queries
      PROVE  /\ Shaped(views[q], new[q], N) /\ new[q] \in Views(N)
             /\ new[q].synced = SyncedAfter(event)[q]
             /\ \A k \in Keys : event.docs[k] = NoDocument(0) /\ new[q].current
                                    => k \notin new[q].shown
  <2>1. CASE views[q].on
    <3>1. new[q] = ViewAfter(q, event, cache)
      BY <2>1 DEF NewViews
    <3> HIDE DEF new
    <3>2. TellsView(q, views[q], new[q], event, cache, N)
      BY <1>2, <1>4, <2>1, <3>1, ViewShaped
    <3>3. ASSUME NEW k \in Keys, event.docs[k] = NoDocument(0)
          PROVE  k \notin new[q].shown
      BY <1>6, <3>2, <3>3 DEF Matches, TellsView
    <3> QED BY <2>1, <3>2, <3>3 DEF SyncedAfter, Shaped, TellsView
  <2>2. CASE ~views[q].on
    <3>1. new[q] = views[q]
      BY <2>2 DEF NewViews
    <3>2. views[q] \in Views(N) /\ ~views[q].current
      BY <1>2, <2>2 DEF Typed
    <3> HIDE DEF new
    <3> QED BY <2>2, <3>1, <3>2 DEF SyncedAfter, Shaped
  <2> QED BY <2>1, <2>2
<1> HIDE DEF new
<1>8. ASSUME NEW q \in Queries
      PROVE  /\ Shaped(views[q], views'[q], N)
             /\ views'[q].synced = SyncedAfter(event)[q]
             /\ limbo[q] \in SUBSET Keys
             /\ \A k \in Keys : event.docs[k] = NoDocument(0) /\ views'[q].current
                                    => views[q].on /\ k \notin limbo[q]
  <2>1. views'[q] = Notified(q, new[q], limbo[q], cache, Applied(event.docs))
    BY <1>1
  <2>2. PICK v, w, l, ch, x : /\ v = views[q] /\ w = new[q] /\ l = limbo[q]
                              /\ ch = Applied(event.docs) /\ x = Notified(q, w, l, cache, ch)
    OBVIOUS
  <2>3. w \in Views(N) /\ Shaped(v, w, N)
    BY <1>7, <2>2
  <2>4. Shaped(v, x, N) /\ x.synced = w.synced /\ x.shown = w.shown /\ x.current = w.current
    BY <2>2, <2>3, NotifiedShaped
  <2>5. limbo[q] = IF w.current THEN w.shown \ w.synced ELSE c.refs[q]
    BY <2>2 DEF NewLimbo, LimboAfter
  <2> HIDE DEF limbo
  <2>6. c.refs[q] \in SUBSET Keys /\ w.shown \in SUBSET Keys
    BY <2>3 DEF Views
  <2>7. limbo[q] \in SUBSET Keys
    BY <2>5, <2>6
  <2>8. views'[q].current => views[q].on /\ w.current
    BY <2>1, <2>2, <2>4 DEF Shaped
  <2> QED BY <1>7, <2>1, <2>2, <2>4, <2>5, <2>7, <2>8
<1>9. views' \in [Queries -> Views(N)] /\ \A q \in Queries : views'[q].current => views'[q].on
  <2>1. views' = [q \in Queries |-> views'[q]]
    BY <1>1
  <2> QED BY <1>8, <2>1 DEF Shaped
<1>10. OnViews' = OnViews
  BY <1>8 DEF OnViews, Shaped
<1>11. SyncedKeys' = SyncedAfter(event)
  BY <1>8 DEF SyncedKeys, SyncedAfter
<1>12. disk' \in Disks(N)
  <2>1. \A q \in Queries : TargetAfter(q, event, slow)
                              \in [token : 0..N, keys : SUBSET Keys, free : 0..N]
    BY <1>2, <1>4, TargetTyped
  <2>2. disk.last \in 0..N
    BY <1>2 DEF Typed, Disks
  <2>3. [q \in Queries |-> TargetAfter(q, event, slow)]
           \in [Queries -> [token : 0..N, keys : SUBSET Keys, free : 0..N]]
    BY <2>1
  <2> QED BY <1>1, <1>4, <1>5, <2>2, <2>3 DEF Disks
<1>13. Typed'
  BY <1>3, <1>9, <1>12 DEF Typed
<1>14. limbo = LimboOf(c, event) /\ limbo \in [Queries -> SUBSET Keys]
  <2>1. limbo = LimboOf(c, event)
    BY DEF LimboOf, new, cache
  <2>2. limbo = [q \in Queries |-> limbo[q]]
    BY DEF NewLimbo
  <2> HIDE DEF limbo
  <2> QED BY <1>8, <2>1, <2>2
<1> HIDE DEF limbo
<1> QED BY <1>8, <1>10, <1>11, <1>13, <1>14 DEF Shown

\* What an event leaves of the client, with b the client before its limbo is.
Emptying(b, c, event) ==
    /\ ClientInv(client', TRUE, OnViews', SyncedKeys', Now')
    /\ Lookups(client')
    /\ NoNewOrphans(b, client')
    /\ Steady(b, client', TRUE)
    /\ \A q \in Queries : views[q].on => client'.refs[q] = LimboOf(c, event)[q]

\* ApplyRemoteEvent has what enters limbo looked up, and drops what no view needs.
LEMMA EventTracked ==
    ASSUME FewKeys, Typed, UNCHANGED server, NEW b, NEW c, NEW event, NEW slow,
           ApplyRemoteEvent(c, event, slow), Shown(c, event),
           NEW e, e = [c EXCEPT !.received = Received(c, event.changes)],
           Tracked(b, e, TRUE, OnViews, SyncedAfter(event), Now, {})
    PROVE  Emptying(b, c, event)
<1>1. PICK k, n, l : k = CacheAfter(event.docs, event.ver) /\ n = NewViews(event, k)
                     /\ l = NewLimbo(c, n)
  OBVIOUS
<1>2. Parted(c, event, slow, k, n, l)
  BY <1>1, EventParts
<1>3. l = LimboOf(c, event) /\ l \in [Queries -> SUBSET Keys]
  BY <1>1 DEF LimboOf, Shown
<1>4. PICK On, syn, N : On = OnViews /\ syn = SyncedAfter(event) /\ N = Now
  OBVIOUS
<1>5. On \in SUBSET Queries /\ N \in Nat
  BY <1>4, NowIsNat DEF OnViews
<1>6. client' = EmitAll(e, l, SetToSeq(On))
  BY <1>2, <1>4, FoldsOfClient DEF Parted, OnViews
<1>7. Tracked(b, e, TRUE, On, syn, N, {})
  BY <1>4
<1>8. Emitted(b, e, EmitAll(e, l, SetToSeq(On)), On, syn, N, On, l)
  BY <1>3, <1>5, <1>7, EmitAllKeeps
<1>9. Emitted(b, e, client', On, syn, N, On, l)
  BY <1>6, <1>8
<1>10. OnViews' = On /\ SyncedKeys' = syn /\ Now' = N
  BY <1>4 DEF Shown, Now, history
<1>11. ClientInv(client', TRUE, OnViews', SyncedKeys', Now')
       /\ Lookups(client') /\ NoNewOrphans(b, client') /\ Steady(b, client', TRUE)
  BY <1>9, <1>10 DEF Emitted, Tracked
<1>12. \A q \in Queries : views[q].on => client'.refs[q] = l[q]
  BY <1>4, <1>9 DEF Emitted, OnViews
<1> QED BY <1>3, <1>11, <1>12 DEF Emptying

\* What RaiseWatchSnapshot hands over is an event.
LEMMA SnapshotOK ==
    ASSUME NEW N \in Nat, NEW a \in Aggregators(N), NEW L \in SUBSET Targets
    PROVE  EventOK(RemoteEvent(a, L, N), N)
<1> DEFINE event == RemoteEvent(a, L, N)
<1>1. event.docs \in [Keys -> Documents] /\ event.ver \in 0..N
  BY DEF RemoteEvent, Aggregators
<1>2. ASSUME NEW q \in Queries, q \in DOMAIN event.changes
      PROVE  event.changes[q] \in Changes(N)
  <2> DEFINE s == a.targets[q]
  <2>1. event.changes[q] = TargetChange(s)
    BY <1>2 DEF RemoteEvent
  <2>2. s \in TargetStates(N)
    BY DEF Aggregators, Targets
  <2> HIDE DEF s, event
  <2>3. TargetChange(s) \in Changes(N)
    BY <2>2 DEF TargetChange, Changes, TargetStates, Marked
  <2> QED BY <2>1, <2>3
<1> QED BY <1>1, <1>2 DEF EventOK

\* e is the client c once it took the event of a, as d, and noted what came.
SnapshotLeft(c, a, d, e, On, new, N) ==
    /\ Tracked(e, e, TRUE, On, new, N, {})
    /\ a \in Aggregators(N)
    /\ d.refs = c.refs /\ e.refs = c.refs /\ e.active = c.active
    /\ e.listens = c.listens /\ e.resolving = c.resolving
    /\ e.received = Received(c, RemoteEvent(a, c.listens, N).changes)
    /\ e.agg.docs = [k \in Keys |-> None]
    /\ \A t \in Targets :
           /\ a.targets[t].out = c.agg.targets[t].out
           /\ e.agg.targets[t].out = 0 =>
                  /\ a.targets[t].out = 0 /\ e.agg.targets[t].current = a.targets[t].current
                  /\ Blank(e.agg.targets[t])
           /\ \/ t \in Queries /\ e.tokens[t] = NoToken
              \/ e.tokens[t] = EventToken(c, a, t)
    /\ Asked(c) => Asked(e)

\* The client that takes the event of a snapshot.
LEMMA SnapshotTaken ==
    ASSUME NEW N \in Nat, NEW c, NEW On, NEW syn, ClientInv(c, TRUE, On, syn, N),
           Lookups(c), IdsLeft(c),
           NEW a, a = WithDeletes(NoTargetChange(c.agg, c.listens, N), c.listens,
                                  RemoteKeys(c, syn), N),
           NEW changes, changes = RemoteEvent(a, c.listens, N).changes,
           NEW d, d = TakeEvent([c EXCEPT !.agg = a], changes),
           NEW e, e = [d EXCEPT !.received = Received(d, changes)], NEW new
    PROVE  SnapshotLeft(c, a, d, e, On, new, N)
<1> DEFINE a0 == NoTargetChange(c.agg, c.listens, N)
           known == RemoteKeys(c, syn)
           b == [c EXCEPT !.agg = a]
<1>1. ClientCore(c, On, syn, N) /\ c \in Clients(N) /\ c.agg \in Aggregators(N) /\ N \in 0..N
  BY DEF ClientInv, ClientCore, Clients
<1>2. Heard(c.agg, a0, c.listens, known, N)
  BY <1>1, NoTargetChangeHeard
<1>3. Heard(a0, a, c.listens, known, N)
  <2> HIDE DEF a0, known
  <2>1. a0 \in Aggregators(N)
    BY <1>2 DEF Heard
  <2> QED BY <2>1, WithDeletesHeard DEF a0, known
<1> HIDE DEF a0, known
<1>4. Heard(c.agg, a, c.listens, known, N)
  BY <1>2, <1>3 DEF Heard, IsActive
<1>5. ClientCore(b, On, syn, N)
  BY <1>1, <1>4, HeardCore DEF known
<1>6. /\ b.agg = a /\ b.listens = c.listens /\ b.refs = c.refs /\ b.active = c.active
      /\ b.resolving = c.resolving /\ b.received = c.received /\ b.idle = c.idle
      /\ b.up = c.up /\ b.tokens = c.tokens
  BY <1>1 DEF Clients
<1>7. a \in Aggregators(N) /\ \A t \in Targets : a.targets[t].out = c.agg.targets[t].out
  BY <1>4 DEF Heard
<1>8. ClientInv(b, TRUE, On, syn, N)
  BY <1>5, <1>6 DEF ClientInv
<1>9. d = TakeEvent(b, RemoteEvent(b.agg, b.listens, N).changes)
  BY <1>6
<1> HIDE DEF b
<1>a. TakenAsked(b, d, On, syn, N)
  BY <1>8, <1>9, TakeEventKeeps
<1>10. Taken(b, d, On, syn, N)
  BY <1>a DEF TakenAsked
<1>11. Received(d, changes) \in SUBSET d.resolving
  BY DEF Received
<1>12. Fitted(b, e, On, new, N)
  BY <1>10, <1>11, TakenFits
<1>13. e.refs = c.refs /\ e.active = c.active /\ ClientInv(e, TRUE, On, new, N)
  BY <1>6, <1>12 DEF Keeps, Fitted
<1>14. \A k \in Keys : IdsFor(e, k)
  <2>1. \A n \in LimboIds : n \in Targets
    BY DEF Targets
  <2>2. \A k \in Keys : IdsFor(b, k)
    BY <1>6, <1>7, <2>1 DEF IdsLeft, IdsFor, IsFresh
  <2> QED BY <1>12, <2>2 DEF Fitted
<1>15. Tracked(e, e, TRUE, On, new, N, {})
  <2>1. Lookups(e)
    BY <1>13 DEF Lookups, IsReferenced
  <2> QED BY <1>13, <1>14, <2>1, TrackedAtFirst
<1>16. /\ d.refs = c.refs /\ d.listens = c.listens /\ d.resolving = c.resolving
       /\ d.received = c.received /\ d.agg.docs = [k \in Keys |-> None]
  BY <1>6, <1>10 DEF Taken
<1>17. /\ e.listens = d.listens /\ e.resolving = d.resolving /\ e.agg = d.agg
       /\ e.tokens = d.tokens /\ e.up = d.up /\ e.received = Received(d, changes)
  <2>1. d \in Clients(N)
    BY <1>10 DEF Taken, ClientCore
  <2>2. PICK R : R = Received(d, changes)
    OBVIOUS
  <2>3. e = [d EXCEPT !.received = R]
    BY <2>2
  <2> QED BY <2>1, <2>2, <2>3 DEF Clients
<1>18. e.received = Received(c, RemoteEvent(a, c.listens, N).changes)
  BY <1>16, <1>17 DEF Received
<1>19. ASSUME NEW t \in Targets
       PROVE  /\ e.agg.targets[t].out = 0 =>
                     /\ a.targets[t].out = 0 /\ e.agg.targets[t].current = a.targets[t].current
                     /\ Blank(e.agg.targets[t])
              /\ \/ t \in Queries /\ e.tokens[t] = NoToken
                 \/ e.tokens[t] = EventToken(c, a, t)
  <2>1. HeardBefore(b, d, t) /\ TokenTaken(b, d, t)
    BY <1>10 DEF Taken
  <2>2. e.agg.targets[t].out = 0 => Blank(e.agg.targets[t])
    BY <1>10, <1>17 DEF Taken, Emptied
  <2>3. EventToken(b, b.agg, t) = EventToken(c, a, t)
    BY <1>6 DEF EventToken
  <2> QED BY <1>6, <1>17, <2>1, <2>2, <2>3 DEF HeardBefore, TokenTaken
<1>20. Asked(c) => Asked(e)
  <2>1. Asked(c) => Asked(b)
    BY <1>6 DEF Asked
  <2>2. Asked(b) => Asked(d)
    BY <1>a DEF TakenAsked
  <2>3. Asked(d) => Asked(e)
    <3>1. e.up = d.up /\ e.listens = d.listens /\ e.tokens = d.tokens
      BY <1>17
    <3> QED BY ONLY <3>1, AskedAlike
  <2> QED BY <2>1, <2>2, <2>3
<1>21. \A t \in Targets : a.targets[t].out = c.agg.targets[t].out
  BY <1>7
<1>22. e.listens = c.listens /\ e.resolving = c.resolving /\ e.agg.docs = [k \in Keys |-> None]
  BY <1>16, <1>17
<1> QED BY <1>7, <1>13, <1>15, <1>16, <1>18, <1>19, <1>20, <1>21, <1>22 DEF SnapshotLeft

\* A snapshot is raised: the aggregator a, its event, the client d that took it,
\* and e that noted what lookups received.
SnapshotParts(a, event, d, slow, e) ==
    /\ a = WithDeletes(NoTargetChange(client.agg, client.listens, Now), client.listens,
                       Known, Now)
    /\ event = RemoteEvent(a, client.listens, Now)
    /\ EventOK(event, Now)
    /\ e = [d EXCEPT !.received = Received(d, event.changes)]
    /\ ApplyRemoteEvent(d, event, slow)
    /\ SnapshotLeft(client, a, d, e, OnViews, SyncedAfter(event), Now)
    /\ Shown(d, event)
    /\ Emptying(e, d, event)

\* Every snapshot has these parts.
LEMMA SnapshotRaised ==
    ASSUME FewKeys, WatchInv, SendSnapshot
    PROVE  \E a, event, d, slow, e : SnapshotParts(a, event, d, slow, e)
<1>1. PICK c, N, On, syn : /\ c = client /\ N = Now /\ On = OnViews /\ syn = SyncedKeys
  OBVIOUS
<1>2. /\ IsOpen(stream) /\ IdsLeft(c) /\ UNCHANGED <<stream, server>>
  BY <1>1 DEF SendSnapshot
<1>3. \E a \in {WithDeletes(NoTargetChange(c.agg, c.listens, N), c.listens,
                            RemoteKeys(c, syn), N)} :
      \E event \in {RemoteEvent(a, c.listens, N)} :
      \E d \in {TakeEvent([c EXCEPT !.agg = a], event.changes)} :
      \E slow : ApplyRemoteEvent(d, event, slow)
  <2>1. RemoteKeys(c, syn) = Known
    BY <1>1 DEF Known, SyncedKeys
  <2> QED BY <1>1, <2>1, Zenon DEF SendSnapshot
<1>4. PICK a : /\ a = WithDeletes(NoTargetChange(c.agg, c.listens, N), c.listens,
                                  RemoteKeys(c, syn), N)
               /\ \E event \in {RemoteEvent(a, c.listens, N)} :
                  \E d \in {TakeEvent([c EXCEPT !.agg = a], event.changes)} :
                  \E slow : ApplyRemoteEvent(d, event, slow)
  BY <1>3, Zenon
<1>5. PICK event : /\ event = RemoteEvent(a, c.listens, N)
                   /\ \E d \in {TakeEvent([c EXCEPT !.agg = a], event.changes)} :
                      \E slow : ApplyRemoteEvent(d, event, slow)
  BY <1>4, Zenon
<1>6. PICK d, slow : /\ d = TakeEvent([c EXCEPT !.agg = a], event.changes)
                     /\ ApplyRemoteEvent(d, event, slow)
  BY <1>5, Zenon
<1>7. PICK changes, new, e : /\ changes = event.changes /\ new = SyncedAfter(event)
                             /\ e = [d EXCEPT !.received = Received(d, changes)]
  OBVIOUS
<1>8. N \in Nat /\ ClientInv(c, TRUE, On, syn, N) /\ Lookups(c)
  <2>1. IsOpen(stream) = TRUE
    BY <1>2 DEF IsOpen
  <2> QED BY <1>1, <2>1, NowIsNat DEF WatchInv
<1>9. SnapshotLeft(c, a, d, e, On, new, N)
  <2>1. changes = RemoteEvent(a, c.listens, N).changes
    BY <1>5, <1>7
  <2>2. d = TakeEvent([c EXCEPT !.agg = a], changes)
    BY <1>6, <1>7
  <2> QED BY <1>2, <1>4, <1>7, <1>8, <2>1, <2>2, SnapshotTaken
<1>10. c \in Clients(N)
  BY <1>8 DEF ClientInv, ClientCore
<1>11. EventOK(event, N) /\ d.refs \in [Queries -> SUBSET Keys]
  <2>1. c.listens \in SUBSET Targets /\ c.refs \in [Queries -> SUBSET Keys]
    BY <1>10 DEF Clients
  <2> QED BY <1>5, <1>8, <1>9, <2>1, SnapshotOK DEF SnapshotLeft
<1>12. Shown(d, event)
  BY <1>1, <1>2, <1>6, <1>11, EventTyped DEF WatchInv
<1>13. Tracked(e, e, TRUE, OnViews, SyncedAfter(event), Now, {})
  BY <1>1, <1>7, <1>9 DEF SnapshotLeft
<1>14. Emptying(e, d, event)
  <2>1. e = [d EXCEPT !.received = Received(d, event.changes)]
    BY <1>7
  <2> QED BY <1>2, <1>6, <1>12, <1>13, <2>1, EventTracked DEF WatchInv
<1>15. RemoteKeys(c, syn) = Known
  BY <1>1 DEF Known, SyncedKeys
<1>16. SnapshotParts(a, event, d, slow, e)
  BY <1>1, <1>4, <1>5, <1>6, <1>7, <1>9, <1>11, <1>12, <1>14, <1>15 DEF SnapshotParts
<1> QED BY <1>16

\* A snapshot keeps the invariant.
LEMMA SendSnapshotWatch ==
    ASSUME FewKeys, WatchInv, SendSnapshot
    PROVE  WatchInv' /\ LookupsFollowLimbo
<1>1. PICK a, event, d, slow, e : SnapshotParts(a, event, d, slow, e)
  BY SnapshotRaised
<1>2. Shown(d, event) /\ Emptying(e, d, event) /\ e.refs = client.refs /\ e.active = client.active
  BY <1>1 DEF SnapshotParts, SnapshotLeft
<1>3. IsOpen(stream') = TRUE /\ IsStarted(stream')
  BY DEF IsOpen, IsStarted, SendSnapshot
<1>4. ClientInv(client', IsOpen(stream'), OnViews', SyncedKeys', Now') /\ Lookups(client')
  BY <1>2, <1>3 DEF Emptying
<1>5. LookupsFollowLimbo
  BY <1>2, NothingOrphaned DEF Emptying
<1> QED BY <1>2, <1>3, <1>4, <1>5 DEF WatchInv, Shown

\* The lookup n is refused, and its document taken for deleted: the event, and the
\* client d that has forgotten the lookup.
RefusalParts(n, event, d) ==
    /\ n = Head(client.up).target /\ n \in client.listens \cap LimboIds
    /\ event.ver = 0
    /\ event.changes = [t \in {} |-> 0]
    /\ event.docs = [k \in Keys |-> IF k = KeyOf(n) THEN NoDocument(0) ELSE None]
    /\ EventOK(event, Now)
    /\ ApplyRemoteEvent(d, event, {})
    /\ LookupLost(client, d, OnViews, SyncedKeys, Now, n)
    /\ Shown(d, event)
    /\ Emptying(d, d, event)

\* Every refusal has these parts.
LEMMA LookupRefused ==
    ASSUME FewKeys, WatchInv, RejectLookup
    PROVE  \E n, event, d : RefusalParts(n, event, d)
<1>1. PICK c, N, On, syn, n : /\ c = client /\ N = Now /\ On = OnViews /\ syn = SyncedKeys
                              /\ n = HeadRequest.target
  OBVIOUS
<1>2. /\ IsOpen(stream) /\ IdsLeft(c) /\ UNCHANGED <<stream, server>>
      /\ c.up # <<>> /\ n = Head(c.up).target /\ n \in c.listens \cap LimboIds
  BY <1>1 DEF RejectLookup, HeadRequest
<1>3. PICK event : event = [ver     |-> 0, changes |-> [t \in {} |-> 0],
                            docs    |-> [k \in Keys |-> IF k = KeyOf(n) THEN NoDocument(0)
                                                        ELSE None]]
  OBVIOUS
<1>4. PICK d : d = Pump(Forgotten(Refused(c, n), n), TRUE)
  OBVIOUS
<1>5. ApplyRemoteEvent(d, event, {})
  BY <1>1, <1>3, <1>4, Zenon DEF RejectLookup, Refused
<1>6. N \in Nat /\ ClientInv(c, TRUE, On, syn, N) /\ Lookups(c) /\ On \in SUBSET Queries
  <2>1. IsOpen(stream) = TRUE
    BY <1>2 DEF IsOpen
  <2> QED BY <1>1, <2>1, NowIsNat DEF WatchInv, OnViews
<1>7. LookupLost(c, d, On, syn, N, n)
  BY <1>2, <1>4, <1>6, RefusedKeeps
<1>8. ClientInv(d, TRUE, On, syn, N) /\ ClientCore(d, On, syn, N) /\ d \in Clients(N)
      /\ c \in Clients(N) /\ ClientCore(c, On, syn, N)
  BY <1>6, <1>7 DEF LookupLost, ClientInv, ClientCore
<1>9. /\ d.refs = c.refs
      /\ c.active \in [Keys -> LimboIds \cup {None}] /\ c.refs \in [Queries -> SUBSET Keys]
      /\ d.active = [c.active EXCEPT ![KeyOf(n)] = None]
      /\ \A k \in Keys : IdsFor(d, k)
  BY <1>2, <1>7, <1>8 DEF LookupLost, Clients, IdsLeft, IdsFor
<1>10. Lookups(d)
  BY <1>6, <1>9 DEF Lookups, IsReferenced
<1>11. [d EXCEPT !.received = Received(d, event.changes)] = d
  <2>1. Received(d, event.changes) = d.received
    <3>1. d.received \subseteq d.resolving
      BY <1>8 DEF ClientCore
    <3>2. DOMAIN event.changes = {}
      BY <1>3
    <3> QED BY <3>1, <3>2 DEF Received
  <2> QED BY <1>8, <2>1 DEF Clients
<1>12. SyncedAfter(event) = syn
  BY <1>1, <1>3 DEF SyncedAfter, SyncedKeys
<1>13. EventOK(event, N)
  <2>1. \A k \in Keys : event.docs[k] \in Documents
    BY <1>3 DEF Documents, NoDocument, Doc, Data
  <2> QED BY <1>3, <1>6, <2>1 DEF EventOK
<1>14. Shown(d, event)
  BY <1>1, <1>2, <1>5, <1>9, <1>13, EventTyped DEF WatchInv
<1>15. Tracked(d, d, TRUE, On, syn, N, {})
  BY <1>8, <1>9, <1>10, TrackedAtFirst
<1>16. Emptying(d, d, event)
  <2>1. PICK e : e = [d EXCEPT !.received = Received(d, event.changes)]
    OBVIOUS
  <2>2. Tracked(d, e, TRUE, OnViews, SyncedAfter(event), Now, {})
    BY <1>1, <1>11, <1>12, <1>15, <2>1
  <2> QED BY <1>2, <1>5, <1>14, <2>1, <2>2, EventTracked DEF WatchInv
<1>17. /\ event.ver = 0 /\ event.changes = [t \in {} |-> 0]
       /\ event.docs = [k \in Keys |-> IF k = KeyOf(n) THEN NoDocument(0) ELSE None]
  BY <1>3
<1>18. RefusalParts(n, event, d)
  BY <1>1, <1>2, <1>5, <1>7, <1>13, <1>14, <1>16, <1>17 DEF RefusalParts
<1> QED BY <1>18

\* A refusal keeps the invariant.
LEMMA RejectLookupWatch ==
    ASSUME FewKeys, WatchInv, RejectLookup
    PROVE  WatchInv' /\ LookupsFollowLimbo
<1>1. PICK n, event, d : RefusalParts(n, event, d)
  BY LookupRefused
<1>2. PICK c : c = client
  OBVIOUS
<1>3. /\ n = HeadRequest.target /\ n \in c.listens \cap LimboIds
      /\ event.docs = [k \in Keys |-> IF k = KeyOf(n) THEN NoDocument(0) ELSE None]
      /\ LookupLost(c, d, OnViews, SyncedKeys, Now, n)
      /\ Shown(d, event) /\ Emptying(d, d, event)
  BY <1>1, <1>2 DEF RefusalParts, HeadRequest
<1>4. ClientCore(c, OnViews, SyncedKeys, Now) /\ c \in Clients(Now)
  BY <1>2 DEF WatchInv, ClientInv, ClientCore
<1>5. /\ d.refs = c.refs
      /\ c.active \in [Keys -> LimboIds \cup {None}]
      /\ d.active = [c.active EXCEPT ![KeyOf(n)] = None]
  BY <1>3, <1>4 DEF LookupLost, Clients
<1>6. IsOpen(stream') = TRUE /\ IsStarted(stream')
  BY DEF IsOpen, IsStarted, RejectLookup
<1>7. ClientInv(client', IsOpen(stream'), OnViews', SyncedKeys', Now') /\ Lookups(client')
  BY <1>3, <1>6 DEF Emptying
<1>8. c.active[KeyOf(n)] = n /\ KeyOf(n) \in Keys
  <2>1. n \in c.resolving
    BY <1>3, <1>4, WatchAssumption DEF ClientCore, OnViews
  <2>2. PICK k \in Keys : n = c.active[k]
    BY <1>4, <2>1 DEF ClientCore
  <2>3. n # None
    BY <1>3, WatchAssumption
  <2> QED BY <1>4, <2>2, <2>3 DEF ClientCore
<1>9. ASSUME NEW q \in Queries, NEW k \in client'.refs[q] \ client.refs[q]
      PROVE  client'.active[k] # None
  BY <1>2, <1>3, <1>5 DEF Emptying, NoNewOrphans
<1>10. ASSUME NEW k \in Keys, client.active[k] # None, client'.active[k] = None,
              IsReferenced(client', k)
       PROVE  IsRefused(k) /\ \A q \in Queries : views'[q].current => k \notin client'.refs[q]
  <2>1. d.active[k] = None
    BY <1>3, <1>10 DEF Emptying, NoNewOrphans, IsReferenced
  <2>2. k = KeyOf(n)
    BY <1>2, <1>5, <1>10, <2>1
  <2>3. IsRefused(k)
    BY <1>2, <1>3, <1>8, <2>2 DEF IsRefused
  <2>4. event.docs[k] = NoDocument(0)
    BY <1>3, <2>2
  <2> QED BY <1>3, <2>3, <2>4 DEF Shown, Emptying
<1>11. LookupsFollowLimbo
  BY <1>9, <1>10 DEF LookupsFollowLimbo, IsReferenced
<1> QED BY <1>3, <1>6, <1>7, <1>11 DEF WatchInv, Shown

----------------------------------------------------------------------------
\* A listen looks nothing up.
LEMMA ListenFollows ==
    ASSUME WatchInv, NEW q \in Queries, Listen(q)
    PROVE  LookupsFollowLimbo
<1>1. PICK c, open, t, tok : c = client /\ open = IsOpen(stream)
                             /\ t = q /\ tok = disk.targets[q].token
  OBVIOUS
<1>2. client' = RemoteListen(c, open, t, tok)
  BY <1>1 DEF Listen
<1>3. c \in Clients(Now)
  BY <1>1 DEF WatchInv, ClientInv, ClientCore
<1>4. client'.refs = c.refs /\ client'.active = c.active
  BY <1>2, <1>3 DEF RemoteListen, Watch, Send, Clients
<1> QED BY <1>1, <1>4, SameLimbo

\* Each message is one of the cases above.
LEMMA MessagesWatch ==
    ASSUME FewKeys, WatchInv, Messages
    PROVE  WatchInv' /\ LookupsFollowLimbo
<1>1. CASE AnswerWatch
  BY <1>1, AnswerWatchWatch
<1>2. CASE AnswerUnwatch
  BY <1>2, AnswerUnwatchWatch
<1>3. CASE RejectLookup
  BY <1>3, RejectLookupWatch
<1>4. CASE \E k \in Keys : SendDocument(k)
  BY <1>4, SendDocumentWatch
<1>5. CASE \E t \in Targets : SendCurrent(t) \/ SendFilter(t)
  BY <1>5, SendCurrentWatch, SendFilterWatch
<1>6. CASE SendSnapshot
  BY <1>6, SendSnapshotWatch
<1> QED BY <1>1, <1>2, <1>3, <1>4, <1>5, <1>6, Zenon DEF Messages

\* Each action is one of the cases above.
LEMMA WatchNext ==
    ASSUME FewKeys, WatchInv, ConnectionInv, [Next]_vars
    PROVE  WatchInv' /\ [LookupsFollowLimbo]_vars
<1>1. CASE \E q \in Queries : Listen(q)
  BY <1>1, ListenWatch, ListenFollows
<1>2. CASE \E q \in Queries : StopListening(q)
  BY <1>2, StopListeningWatch
<1>3. CASE StreamOpens \/ StreamFails
  BY <1>3, StreamOpensWatch, StreamFailsWatch
<1>4. CASE IdleTimeout \/ RestartNetwork
  BY <1>4, IdleTimeoutWatch, RestartNetworkWatch
<1>5. CASE TimerFires
  <2>1. LookupsFollowLimbo
    BY <1>5, SameLimbo DEF TimerFires
  <2> QED BY <1>5, <2>1, TimerFiresWatch
<1>6. CASE Crash
  BY <1>6, CrashWatch
<1>7. CASE BackoffElapses \/ Forget \/ UNCHANGED vars
  BY <1>7, QuietStepsWatch
<1>8. CASE Messages
  BY <1>8, MessagesWatch
<1>9. CASE \E k \in Keys : Change(k)
  <2>1. LookupsFollowLimbo
    <3>1. client' = client
      BY <1>9, Zenon DEF Change
    <3> QED BY <3>1, SameLimbo
  <2> QED BY <1>9, <2>1, ChangeWatch
<1> QED BY <1>1, <1>2, <1>3, <1>4, <1>5, <1>6, <1>7, <1>8, <1>9, Zenon DEF Next

\* The invariant, with that of the connection.
WatchInvariant == ConnectionInv /\ WatchInv

\* The invariant of the targets listened to, for any queries, versions and bounds,
\* while there are no more documents than may be looked up at a time.
THEOREM WatchInvariance ==
    ASSUME FewKeys
    PROVE  Spec => []WatchInvariant
<1>1. Init => WatchInvariant
  BY InitWatch, ConnectionInit DEF WatchInvariant
<1>2. WatchInvariant /\ [Next]_vars => WatchInvariant'
  BY WatchNext, ConnectionNext DEF WatchInvariant
<1> QED BY <1>1, <1>2, PTL DEF Spec

\* TypeOK of WatchTargets, among it tokens that never run ahead of the backend.
THEOREM WatchTypes ==
    ASSUME FewKeys
    PROVE  Spec => []TypeOK
<1>1. WatchInvariant => TypeOK
  <2> SUFFICES ASSUME WatchInvariant PROVE TypeOK
    OBVIOUS
  <2>1. stream.st \in StreamStatus
        /\ online \in [state : OnlineStates, failures : Nat, timer : BOOLEAN]
    BY DEF WatchInvariant, ConnectionInv, Connection
  <2>2. /\ views \in [Queries -> Views(Now)] /\ disk \in Disks(Now) /\ client \in Clients(Now)
    BY DEF WatchInvariant, WatchInv, Typed, ClientInv, ClientCore
  <2>3. /\ client.listens \subseteq Targets /\ client.tokens \in [Targets -> 0..Now]
        /\ client.resolving \subseteq LimboIds
        /\ client.active \in [Keys -> LimboIds \cup {None}]
        /\ client.agg \in Aggregators(Now)
    BY <2>2 DEF Clients
  <2>4. \A t \in Targets : client.agg.targets[t].out \in Nat
    BY <2>3 DEF Aggregators, TargetStates
  <2> QED BY <2>1, <2>2, <2>3, <2>4 DEF TypeOK, Views, Disks
<1> QED BY <1>1, WatchInvariance, PTL

\* What is collected for a target that hears fits what the client has for it: what is
\* added is new, what is modified or removed is there.  So the HARD_ASSERTs of
\* View::ApplyTargetChange and SyncEngine::ApplyRemoteEvent cannot fail, whatever
\* requests and answers cross, whatever is reset by a count, resumed or refused.
THEOREM WatchChangesFit ==
    ASSUME FewKeys
    PROVE  Spec => []ChangesFitViews
<1>1. WatchInvariant => ChangesFitViews
  <2> SUFFICES ASSUME WatchInvariant PROVE ChangesFitViews
    OBVIOUS
  <2>1. Known = RemoteKeys(client, SyncedKeys)
    BY DEF Known, SyncedKeys
  <2>2. ClientCore(client, OnViews, SyncedKeys, Now)
    BY DEF WatchInvariant, WatchInv, ClientInv
  <2>3. client.listens \subseteq Targets
    BY <2>2 DEF ClientCore, Clients
  <2> QED BY <2>1, <2>2, <2>3 DEF ChangesFitViews, ClientCore, TargetSound, Fits, IsActive
<1> QED BY <1>1, WatchInvariance, PTL

\* What is looked up some view has in limbo, each document by one target, and nothing
\* else is listened to but the queries; what enters limbo is looked up until no
\* view has it in limbo or the backend refuses it (TrackLimboChange,
\* RemoveLimboTarget, HandleRejectedListen, StartWatchStream).
THEOREM WatchLooksUpLimbo ==
    ASSUME FewKeys
    PROVE  Spec => LimboIsLookedUp
<1>1. WatchInvariant => LookupsAreNeeded
  BY DEF WatchInvariant, WatchInv, ClientInv, ClientCore, Lookups, LookupsAreNeeded, OnViews
<1>2. WatchInvariant' => LookupsAreNeeded'
  BY <1>1, PTL
<1>3. WatchInvariant /\ WatchInvariant' /\ [Next]_vars
        => [LookupsAreNeeded' /\ LookupsFollowLimbo]_vars
  BY <1>2, WatchNext DEF WatchInvariant
<1> QED BY <1>3, WatchInvariance, PTL DEF Spec, LimboIsLookedUp
================================================================================
