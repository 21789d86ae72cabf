--------------------------- MODULE WatchResultProofs ---------------------------
(***************************************************************************)
(* That a synced view is the backend's result, for any documents, queries, *)
(* versions and bounds.  What the backend has sent of each target is       *)
(* followed from its session into what the aggregator has collected, from  *)
(* there into the cache and the keys of the view, and into what the view   *)
(* shows; a snapshot comes when all has been sent, so that nothing is      *)
(* missing then.  The targets, their requests and the lookups are those of *)
(* WatchProofs.                                                            *)
(***************************************************************************)
EXTENDS WatchProofs

----------------------------------------------------------------------------
(* What an event leaves of views and cache.                                *)

\* w is the view v of q after the event.
ViewLeft(q, v, w, event) ==
    LET told == v.on /\ q \in DOMAIN event.changes
    IN  /\ w.on = v.on
        /\ w.shown = IF v.on
                     THEN {k \in Keys : IF k \in Applied(event.docs)
                                        THEN Matches(CacheAfter(event.docs, event.ver)[k], q)
                                        ELSE k \in v.shown}
                     ELSE v.shown
        /\ w.synced = SyncedAfter(event)[q]
        /\ w.current = IF told THEN event.changes[q].current ELSE v.current
        /\ w.token = IF told /\ event.changes[q].token # NoToken
                     THEN event.changes[q].token ELSE v.token
        /\ w.flawed <=> \/ v.flawed
                         \/ /\ v.on /\ q \notin DOMAIN event.changes /\ event.ver = 0
                            /\ Applied(event.docs) \cap v.synced # {}

\* The event's share of a step.
EventLeft(c, event) ==
    /\ disk'.cache = CacheAfter(event.docs, event.ver)
    /\ disk'.last = IF event.ver = 0 THEN disk.last ELSE event.ver
    /\ \A q \in Queries :
           /\ ViewLeft(q, views[q], views'[q], event)
           /\ LimboOf(c, event)[q] = IF views'[q].current
                                     THEN views'[q].shown \ views'[q].synced ELSE c.refs[q]
           /\ \/ disk'.targets[q].token = disk.targets[q].token
              \/ /\ views[q].on /\ q \in DOMAIN event.changes
                 /\ event.changes[q].token # NoToken
                 /\ disk'.targets[q].token = event.changes[q].token

\* ViewAfter has the fields of the view.
LEMMA ViewFields ==
    ASSUME NEW N, NEW q \in Queries, views[q] \in Views(N), NEW event,
           NEW w, w = IF views[q].on THEN ViewAfter(q, event, CacheAfter(event.docs, event.ver))
                                     ELSE views[q]
    PROVE  ViewLeft(q, views[q], w, event)
<1> DEFINE v == views[q]
           cache == CacheAfter(event.docs, event.ver)
           ch == Applied(event.docs)
           shown == {k \in Keys : IF k \in ch THEN Matches(cache[k], q) ELSE k \in v.shown}
<1>1. CASE ~v.on
  BY <1>1 DEF ViewLeft, SyncedAfter
<1>2. CASE v.on /\ q \notin DOMAIN event.changes
  <2>1. w = [v EXCEPT !.shown = shown,
                      !.flawed = @ \/ (event.ver = 0 /\ ch \cap v.synced # {})]
    BY <1>2 DEF ViewAfter
  <2> HIDE DEF shown, ch
  <2>2. /\ w.on = v.on /\ w.shown = shown /\ w.synced = v.synced /\ w.current = v.current
        /\ w.token = v.token /\ (w.flawed <=> (v.flawed \/ (event.ver = 0 /\ ch \cap v.synced # {})))
    BY <2>1 DEF Views
  <2> QED BY <1>2, <2>2 DEF ViewLeft, SyncedAfter, shown, ch
<1>3. CASE v.on /\ q \in DOMAIN event.changes
  <2> DEFINE change == event.changes[q]
  <2>1. w = [v EXCEPT !.shown = shown,
                      !.synced = (@ \cup change.added) \ change.removed,
                      !.current = change.current,
                      !.token = IF change.token # NoToken THEN change.token ELSE @]
    BY <1>3 DEF ViewAfter
  <2> HIDE DEF shown, ch, change
  <2>2. /\ w.on = v.on /\ w.shown = shown
        /\ w.synced = (v.synced \cup change.added) \ change.removed
        /\ w.current = change.current
        /\ w.token = IF change.token # NoToken THEN change.token ELSE v.token
        /\ w.flawed = v.flawed
    BY <2>1 DEF Views
  <2> QED BY <1>3, <2>2 DEF ViewLeft, SyncedAfter, shown, ch, change
<1> QED BY <1>1, <1>2, <1>3

\* A snapshot notes the version without limbo, and nothing else.
LEMMA NotifiedFields ==
    ASSUME NEW N, NEW w \in Views(N), NEW q, NEW l, NEW cache, NEW ch
    PROVE  LET x == Notified(q, w, l, cache, ch)
           IN  /\ x.on = w.on /\ x.shown = w.shown /\ x.synced = w.synced
               /\ x.current = w.current /\ x.token = w.token /\ x.flawed = w.flawed
BY DEF Notified, Views

\* ApplyRemoteEvent does its share.
LEMMA EventFields ==
    ASSUME Typed, NEW c, NEW event, NEW slow, ApplyRemoteEvent(c, event, slow),
           EventOK(event, Now)
    PROVE  EventLeft(c, event)
<1>1. PICK k, n, l, ch : /\ k = CacheAfter(event.docs, event.ver) /\ n = NewViews(event, k)
                         /\ l = NewLimbo(c, n) /\ ch = Applied(event.docs)
  OBVIOUS
<1>2. Parted(c, event, slow, k, n, l)
  BY <1>1, EventParts
<1>3. l = LimboOf(c, event)
  BY <1>1 DEF LimboOf
<1>4. /\ disk' = [cache   |-> k,
                  targets |-> [q \in Queries |-> TargetAfter(q, event, slow)],
                  last    |-> IF event.ver = 0 THEN disk.last ELSE event.ver]
      /\ \A q \in Queries : views'[q] = Notified(q, n[q], l[q], k, ch)
  BY <1>1, <1>2 DEF Parted
<1>5. ASSUME NEW q \in Queries
      PROVE  /\ ViewLeft(q, views[q], views'[q], event)
             /\ l[q] = IF views'[q].current
                       THEN views'[q].shown \ views'[q].synced ELSE c.refs[q]
  <2>1. PICK N, v, w, m : N = Now /\ v = views[q] /\ w = n[q] /\ m = l[q]
    OBVIOUS
  <2>2. v \in Views(N) /\ w = IF v.on THEN ViewAfter(q, event, k) ELSE v
    BY <1>1, <2>1 DEF Typed, NewViews
  <2>3. ViewLeft(q, v, w, event)
    BY <1>1, <2>1, <2>2, ViewFields
  <2>4. w \in Views(N)
    <3>1. ASSUME v.on PROVE TellsView(q, v, w, event, k, N)
      BY <2>1, <2>2, <3>1, ViewShaped
    <3> QED BY <2>2, <3>1 DEF TellsView, Shaped
  <2>5. PICK x : x = views'[q] /\ x = Notified(q, w, m, k, ch)
    BY <1>4, <2>1
  <2>6. /\ x.on = w.on /\ x.shown = w.shown /\ x.synced = w.synced
        /\ x.current = w.current /\ x.token = w.token /\ x.flawed = w.flawed
    BY <2>4, <2>5, NotifiedFields
  <2>7. ViewLeft(q, v, x, event)
    BY <2>3, <2>6 DEF ViewLeft
  <2>8. m = IF w.current THEN w.shown \ w.synced ELSE c.refs[q]
    BY <1>1, <2>1 DEF NewLimbo, LimboAfter
  <2> QED BY <2>1, <2>5, <2>6, <2>7, <2>8
<1>6. ASSUME NEW q \in Queries
      PROVE  \/ disk'.targets[q].token = disk.targets[q].token
             \/ /\ views[q].on /\ q \in DOMAIN event.changes
                /\ event.changes[q].token # NoToken
                /\ disk'.targets[q].token = event.changes[q].token
  <2>1. PICK t : t = disk.targets[q] /\ t \in [token : 0..Now, keys : SUBSET Keys, free : 0..Now]
    BY DEF Typed, Disks
  <2>2. disk'.targets[q] = TargetAfter(q, event, slow)
    BY <1>4
  <2> QED BY <2>1, <2>2 DEF TargetAfter
<1> QED BY <1>1, <1>3, <1>4, <1>5, <1>6 DEF EventLeft

\* What RaiseWatchSnapshot makes of the aggregator: a token for every target that
\* hears, and a deletion for every lookup that found nothing.
Raising(agg, a, L, known, N) ==
    LET M == Missing(agg, L, known)
    IN  /\ \A t \in Targets :
               /\ a.targets[t].out = agg.targets[t].out
               /\ a.targets[t].current = agg.targets[t].current
               /\ t \in Raised(a, L) <=> IsActive(agg, L, t)
               /\ IsActive(agg, L, t) => a.targets[t].token = N
               /\ t \notin M => a.targets[t].docs = agg.targets[t].docs
               /\ t \in M => a.targets[t].docs = [agg.targets[t].docs EXCEPT ![KeyOf(t)] = "same"]
        /\ \A k \in Keys : a.docs[k] = IF \E t \in M : KeyOf(t) = k THEN NoDocument(N)
                                                                   ELSE agg.docs[k]

\* NoTargetChange and WithDeletes do that.
LEMMA SnapshotAgg ==
    ASSUME NEW N \in Nat \ {0}, NEW agg \in Aggregators(N), NEW L \in SUBSET Targets,
           NEW known, NEW a, a = WithDeletes(NoTargetChange(agg, L, N), L, known, N)
    PROVE  Raising(agg, a, L, known, N)
<1> DEFINE b == NoTargetChange(agg, L, N)
           new == [t \in Targets |-> IF IsActive(agg, L, t)
                                     THEN UpdateResumeToken(agg.targets[t], N) ELSE agg.targets[t]]
           M == Missing(b, L, known)
           next == [t \in Targets |-> IF t \in M THEN AddDocumentChange(b.targets[t], KeyOf(t), "same")
                                      ELSE b.targets[t]]
           docs == [k \in Keys |-> IF \E t \in M : KeyOf(t) = k THEN NoDocument(N) ELSE b.docs[k]]
<1>1. agg.targets \in [Targets -> TargetStates(N)] /\ agg.docs \in [Keys -> Documents]
  BY DEF Aggregators
<1>2. b = [agg EXCEPT !.targets = new]
  BY DEF NoTargetChange
<1>3. b.targets = new /\ b.docs = agg.docs /\ DOMAIN b = DOMAIN agg
  <2> HIDE DEF new
  <2> QED BY <1>2 DEF Aggregators
<1>4. a = [b EXCEPT !.targets = next, !.docs = docs]
  BY DEF WithDeletes
<1>5. a.targets = next /\ a.docs = docs
  <2> HIDE DEF next, docs, b
  <2> QED BY <1>3, <1>4 DEF Aggregators
<1> HIDE DEF b
<1>6. ASSUME NEW t \in Targets
      PROVE  /\ b.targets[t].out = agg.targets[t].out
             /\ b.targets[t].current = agg.targets[t].current
             /\ b.targets[t].docs = agg.targets[t].docs
             /\ b.targets[t] \in TargetStates(N)
             /\ IsActive(agg, L, t) => b.targets[t].token = N /\ b.targets[t].changed
  <2> DEFINE s == agg.targets[t]
  <2>1. s \in TargetStates(N)
    BY <1>1
  <2>2. b.targets[t] = IF IsActive(agg, L, t)
                       THEN [s EXCEPT !.changed = TRUE, !.token = N] ELSE s
    BY <1>3 DEF UpdateResumeToken, NoToken
  <2> HIDE DEF s
  <2>3. s.out = agg.targets[t].out /\ s.current = agg.targets[t].current /\ s.docs = agg.targets[t].docs
    BY DEF s
  <2> DEFINE w == [s EXCEPT !.changed = TRUE, !.token = N]
  <2>4. N \in 0..N
    OBVIOUS
  <2>5. /\ w \in TargetStates(N) /\ w.out = s.out /\ w.current = s.current
        /\ w.docs = s.docs /\ w.token = N /\ w.changed
    BY <2>1, <2>4 DEF TargetStates
  <2> HIDE DEF w
  <2>6. b.targets[t] = IF IsActive(agg, L, t) THEN w ELSE s
    BY <2>2 DEF w
  <2> QED BY <2>1, <2>3, <2>5, <2>6
<1> HIDE DEF new
<1>7. M = Missing(agg, L, known)
  <2>1. \A t \in L : t \in Targets
    OBVIOUS
  <2> QED BY <1>3, <1>6, <2>1 DEF Missing, IsActive
<1>8. M \subseteq L /\ \A t \in M : IsActive(agg, L, t)
  BY <1>7 DEF Missing
<1>9. \A k \in Keys : a.docs[k] = IF \E t \in M : KeyOf(t) = k THEN NoDocument(N) ELSE agg.docs[k]
  BY <1>3, <1>5
<1> HIDE DEF M, docs
<1>10. ASSUME NEW t \in Targets
       PROVE  /\ a.targets[t].out = agg.targets[t].out
              /\ a.targets[t].current = agg.targets[t].current
              /\ t \in Raised(a, L) <=> IsActive(agg, L, t)
              /\ IsActive(agg, L, t) => a.targets[t].token = N
              /\ t \notin M => a.targets[t].docs = agg.targets[t].docs
              /\ t \in M => a.targets[t].docs = [agg.targets[t].docs EXCEPT ![KeyOf(t)] = "same"]
  <2> DEFINE s == b.targets[t]
             u == a.targets[t]
  <2>1. u = IF t \in M THEN [s EXCEPT !.changed = TRUE, !.docs[KeyOf(t)] = "same"] ELSE s
    BY <1>5 DEF AddDocumentChange
  <2>2. /\ s.out = agg.targets[t].out /\ s.current = agg.targets[t].current
        /\ s.docs = agg.targets[t].docs /\ s \in TargetStates(N)
        /\ IsActive(agg, L, t) => s.token = N /\ s.changed
    BY <1>6
  <2> HIDE DEF s, u
  <2>3. /\ u.out = s.out /\ u.current = s.current /\ u.token = s.token
        /\ IsActive(agg, L, t) => u.changed
        /\ u.docs = IF t \in M THEN [s.docs EXCEPT ![KeyOf(t)] = "same"] ELSE s.docs
    BY <2>1, <2>2 DEF TargetStates
  <2>4. u.out = a.targets[t].out /\ u.changed = a.targets[t].changed
    BY DEF u
  <2>5. t \in Raised(a, L) <=> IsActive(agg, L, t)
    BY <2>2, <2>3, <2>4 DEF Raised, IsActive
  <2> QED BY <2>2, <2>3, <2>5 DEF u
<1> QED BY <1>7, <1>9, <1>10 DEF Raising

----------------------------------------------------------------------------
(* What a listen leaves of the client.                                     *)

\* d is the client c with a listen to q from tok.
Listened(c, d, open, q, tok) ==
    /\ d.listens = c.listens \cup {q}
    /\ \A t \in Targets : d.tokens[t] = IF t = q THEN tok ELSE c.tokens[t]
    /\ d.refs = c.refs /\ d.resolving = c.resolving /\ d.received = c.received
    /\ d.agg.docs = c.agg.docs
    /\ \A t \in Targets \ {q} : d.agg.targets[t] = c.agg.targets[t]
    /\ open => d.agg.targets[q].out # 0
    /\ Asked(c) => Asked(d)

\* RemoteListen does that.
LEMMA ListenFields ==
    ASSUME NEW N \in Nat, NEW c \in Clients(N), NEW open \in BOOLEAN,
           ~open => c.up = <<>>, NEW q \in Queries, NEW tok \in 0..N
    PROVE  Listened(c, RemoteListen(c, open, q, tok), open, q, tok)
<1> DEFINE d == [c EXCEPT !.listens = @ \cup {q}, !.tokens[q] = tok]
           r == Request("watch", q, tok)
<1>1. q \in Targets
  BY DEF Targets
<1>2. /\ d \in Clients(N) /\ d.agg = c.agg /\ d.up = c.up
      /\ d.listens = c.listens \cup {q} /\ d.refs = c.refs
      /\ d.resolving = c.resolving /\ d.received = c.received
      /\ d.tokens[q] = tok /\ \A t \in Targets \ {q} : d.tokens[t] = c.tokens[t]
  BY <1>1 DEF Clients
<1>3. RemoteListen(c, open, q, tok) = IF open THEN Send(d, r) ELSE d
  BY DEF RemoteListen, Watch
<1>4. r.target = q /\ r.op = "watch" /\ r.token = tok
  BY DEF Request
<1>5. r \in Requests(N)
  BY <1>1 DEF Request, Requests
<1> HIDE DEF d, r
<1>6. CASE ~open
  <2>1. Asked(d)
    BY <1>2, <1>6 DEF Asked
  <2> QED BY <1>2, <1>3, <1>6, <2>1 DEF Listened
<1>7. CASE open
  <2> DEFINE e == Send(d, r)
  <2>1. d \in Clients(N) /\ r \in Requests(N)
    BY <1>2, <1>5
  <2>2. /\ e.up = Append(d.up, r) /\ e.listens = d.listens /\ e.tokens = d.tokens
        /\ e.refs = d.refs /\ e.resolving = d.resolving /\ e.received = d.received
        /\ e.agg.targets[r.target].out = d.agg.targets[r.target].out + 1
        /\ \A t \in Targets \ {r.target} : e.agg.targets[t] = d.agg.targets[t]
    BY <2>1, SendFields
  <2>3. e.agg.docs = d.agg.docs
    BY <2>1, SendDocs
  <2> HIDE DEF e
  <2>4. e.agg.targets[q].out # 0
    <3>1. c.agg.targets[q].out \in Nat
      BY <1>1 DEF Clients, Aggregators, TargetStates
    <3> QED BY <1>2, <1>4, <2>2, <3>1
  <2>5. ASSUME Asked(c) PROVE Asked(e)
    <3>1. c.up \in Seq(Requests(N)) /\ e.up = Append(c.up, r)
      BY <1>2, <2>2 DEF Clients
    <3>2. \A t \in e.listens \ {r.target} : t \in c.listens /\ e.tokens[t] = c.tokens[t]
      <4>1. c.listens \subseteq Targets
        BY DEF Clients
      <4> QED BY <1>2, <1>4, <2>2, <4>1
    <3>3. r.op = "watch" /\ r.token = e.tokens[r.target]
      BY <1>2, <1>4, <2>2
    <3> QED BY <1>5, <2>5, <3>1, <3>2, <3>3, AskedAppend
  <2>6. Listened(c, e, open, q, tok)
    BY <1>2, <1>4, <2>2, <2>3, <2>4, <2>5 DEF Listened
  <2> QED BY <1>3, <1>7, <2>6 DEF e
<1> QED BY <1>6, <1>7

----------------------------------------------------------------------------
(* The result of a query.  What the backend has sent of a target is        *)
(* followed into the changes collected for it, the documents on their way  *)
(* to the cache, the cache, and the view.                                  *)

\* The backend's side of the targets, with versions up to N.
Sessions(N) == [on : BOOLEAN, cur : BOOLEAN, due : BOOLEAN, sent : [Keys -> 0..N]]

ServerTyped ==
    server \in [history : Histories, horizon : Nat, session : [Targets -> Sessions(Now)]]

\* A document has the version it was last changed in.
Dated(h) ==
    \A v \in 1..Len(h) : \A k \in Keys :
        /\ h[v][k].ver \in 1..v
        /\ \A w \in v..Len(h) : h[w][k].ver <= v => h[w][k] = h[v][k]

\* d is not from after now: the backend's document is now, or d is an older one.
TrueDoc(d, now) ==
    d.ver >= now.ver => d.val = now.val /\ (d.ver = now.ver \/ d.val = Gone)

CacheTrue(cache, last, now) ==
    \A k \in Keys : cache[k] # None => cache[k].ver <= last /\ TrueDoc(cache[k], now[k])

\* What is collected of a document and not yet in the cache: that it is gone, or
\* a version not from before the last snapshot.
PendingTrue(docs, last, h) ==
    \A k \in Keys :
        /\ docs[k] = NoDocument(0) => h[Len(h)][k].val = Gone \/ h[Len(h)][k].ver > last
        /\ docs[k] \notin {None, NoDocument(0)} =>
               /\ docs[k].ver <= Len(h) /\ TrueDoc(docs[k], h[Len(h)][k])
               /\ last > 0 => docs[k].ver >= h[last][k].ver

\* A token is from no later than the last snapshot, and the cache is not behind it.
GoodToken(t, tok, cache, last, h) ==
    /\ tok <= last
    /\ t \in Queries /\ tok # NoToken =>
           \A k \in Keys : Matches(h[tok][k], t) /\ cache[k] # None =>
               cache[k].ver >= h[tok][k].ver

TokensTrue ==
    /\ \A q \in Queries : /\ GoodToken(q, views[q].token, disk.cache, disk.last, history)
                          /\ GoodToken(q, disk.targets[q].token, disk.cache, disk.last, history)
                          /\ views[q].current => views[q].token # NoToken
    /\ \A t \in Targets : GoodToken(t, client.tokens[t], disk.cache, disk.last, history)

\* A lookup with a token at which the document was there has received it.
LimboToken(c, h) ==
    \A n \in c.resolving :
        c.tokens[n] # NoToken /\ h[c.tokens[n]][KeyOf(n)].val # Gone => n \in c.received

\* A view without flaw that is current at the last snapshot.
ViewTrue(q, v, cache, last, h) ==
    ~v.flawed /\ v.current /\ v.token = last =>
        /\ v.synced = {k \in Keys : Matches(h[last][k], q)}
        /\ \A k \in v.synced : /\ k \in v.shown /\ cache[k] # None
                               /\ cache[k].val = h[last][k].val
                               /\ cache[k].ver = h[last][k].ver

ViewsTrue ==
    \A q \in Queries : /\ ViewTrue(q, views[q], disk.cache, disk.last, history)
                       /\ views[q].current =>
                              client.refs[q] = views[q].shown \ views[q].synced

(* What is collected for a target, and what the backend has sent it. *)

SentKeys(sess) == {k \in Keys : sess.sent[k] # 0}

Collected(s, known) == (known \ Marked(s, "removed")) \cup Marked(s, "added")

\* A count that did not match has reset the target.
Miscounted(s, sess) == ~s.current /\ sess.cur

Complete(s, known, sess) ==
    /\ SentKeys(sess) \subseteq Collected(s, known)
    /\ ~sess.due => Collected(s, known) = SentKeys(sess)

\* A document that enters or changes comes along.
Documented(s, docs) == \A k \in Keys : s.docs[k] \in {"added", "modified"} => docs[k] # None

\* The cache takes doc for old.
Takes(doc, old) == doc # None /\ (doc = NoDocument(0) \/ old = None \/ doc.ver > old.ver)

Upcoming(doc, old) ==
    IF ~Takes(doc, old) THEN old ELSE IF doc = NoDocument(0) THEN None ELSE doc

Latest(d, now) == d # None /\ d.val = now.val /\ d.ver = now.ver

\* A document of the result that was sent is in the cache or on its way there.
Arriving(q, s, v, docs, sess, cache, now) ==
    \A k \in Keys : Matches(now[k], q) /\ sess.sent[k] = now[k].ver =>
        \/ Latest(Upcoming(docs[k], cache[k]), now[k])
        \/ Upcoming(docs[k], cache[k]) = None /\ (v.flawed \/ Miscounted(s, sess))

\* What the cache has of the result is shown.
Showing(q, v, cache, now) ==
    v.flawed \/ \A k \in Keys : Matches(now[k], q) /\ Latest(cache[k], now[k]) => k \in v.shown

QueryTrue(q, s, v, docs, sess, cache, now) ==
    /\ sess.on
    /\ Documented(s, docs)
    /\ v.flawed \/ Miscounted(s, sess) \/ Complete(s, v.synced, sess)
    /\ Arriving(q, s, v, docs, sess, cache, now)
    /\ Showing(q, v, cache, now)

LookupKeys(c, n) == IF n \in c.received THEN {KeyOf(n)} ELSE {}

LookupTrue(s, known, docs, sess) ==
    /\ sess.on
    /\ Documented(s, docs)
    /\ SentKeys(sess) \subseteq Collected(s, known)

\* The targets that hear.
QueriesTrue ==
    \A q \in Queries : IsActive(client.agg, client.listens, q) =>
        QueryTrue(q, client.agg.targets[q], views[q], client.agg.docs, server.session[q],
                  disk.cache, history[Now])

LimboTrue ==
    \A n \in LimboIds : IsActive(client.agg, client.listens, n) =>
        LookupTrue(client.agg.targets[n], LookupKeys(client, n), client.agg.docs,
                   server.session[n])

TargetsTrue == IsOpen(stream) => QueriesTrue /\ LimboTrue

\* The invariant of what is told, taken and shown.
ResultInv ==
    /\ ServerTyped
    /\ Dated(history)
    /\ CacheTrue(disk.cache, disk.last, history[Now])
    /\ PendingTrue(client.agg.docs, disk.last, history)
    /\ TokensTrue
    /\ Asked(client)
    /\ LimboToken(client, history)
    /\ ViewsTrue
    /\ TargetsTrue

----------------------------------------------------------------------------
(* Steps that leave history and cache alone.                               *)

\* No token says nothing.
LEMMA NoTokenGood ==
    ASSUME NEW t, NEW cache, NEW last \in Nat, NEW h
    PROVE  GoodToken(t, NoToken, cache, last, h)
BY DEF GoodToken, NoToken

\* A view is not current, or what it was and no less flawed.
Kept(v, w) ==
    \/ ~w.current
    \/ /\ w.shown = v.shown /\ w.synced = v.synced /\ w.current = v.current
       /\ w.token = v.token /\ (v.flawed => w.flawed)

\* No view shows more and no token is new.
Unmoved ==
    /\ history' = history
    /\ disk'.cache = disk.cache /\ disk'.last = disk.last
    /\ \A q \in Queries :
           /\ Kept(views[q], views'[q])
           /\ views'[q].current => client'.refs[q] = client.refs[q]
           /\ views'[q].token \in {NoToken, views[q].token, disk.targets[q].token}
           /\ disk'.targets[q].token \in {disk.targets[q].token, views[q].token}
    /\ \A t \in Targets : \/ client'.tokens[t] \in {NoToken, client.tokens[t]}
                          \/ t \in Queries /\ client'.tokens[t] = disk.targets[t].token

\* Then the rest of the invariant is what the client has.
LEMMA UnmovedKeeps ==
    ASSUME Typed, ResultInv, Unmoved, ServerTyped',
           PendingTrue(client'.agg.docs, disk.last, history), Asked(client'),
           LimboToken(client', history), TargetsTrue'
    PROVE  ResultInv'
<1>1. disk.last \in Nat /\ Now' = Now
  BY DEF Unmoved, Typed, Disks, Now
<1>2. /\ Dated(history') /\ CacheTrue(disk'.cache, disk'.last, history'[Now'])
      /\ PendingTrue(client'.agg.docs, disk'.last, history')
      /\ LimboToken(client', history')
  BY <1>1 DEF ResultInv, Unmoved
<1>3. TokensTrue'
  <2>1. ASSUME NEW q \in Queries
        PROVE  /\ GoodToken(q, views'[q].token, disk.cache, disk.last, history)
               /\ GoodToken(q, disk'.targets[q].token, disk.cache, disk.last, history)
               /\ views'[q].current => views'[q].token # NoToken
    <3>1. /\ GoodToken(q, views[q].token, disk.cache, disk.last, history)
          /\ GoodToken(q, disk.targets[q].token, disk.cache, disk.last, history)
          /\ views[q].current => views[q].token # NoToken
      BY DEF ResultInv, TokensTrue
    <3>2. /\ views'[q].token \in {NoToken, views[q].token, disk.targets[q].token}
          /\ disk'.targets[q].token \in {disk.targets[q].token, views[q].token}
          /\ Kept(views[q], views'[q])
      BY DEF Unmoved
    <3>3. GoodToken(q, NoToken, disk.cache, disk.last, history)
      BY <1>1, NoTokenGood
    <3> QED BY <3>1, <3>2, <3>3 DEF Kept
  <2>2. ASSUME NEW t \in Targets
        PROVE  GoodToken(t, client'.tokens[t], disk.cache, disk.last, history)
    <3>1. GoodToken(t, NoToken, disk.cache, disk.last, history)
      BY <1>1, NoTokenGood
    <3>2. GoodToken(t, client.tokens[t], disk.cache, disk.last, history)
      BY DEF ResultInv, TokensTrue
    <3>3. t \in Queries => GoodToken(t, disk.targets[t].token, disk.cache, disk.last, history)
      BY DEF ResultInv, TokensTrue
    <3>4. \/ client'.tokens[t] \in {NoToken, client.tokens[t]}
          \/ t \in Queries /\ client'.tokens[t] = disk.targets[t].token
      BY DEF Unmoved
    <3> QED BY <3>1, <3>2, <3>3, <3>4
  <2>3. history' = history /\ disk'.cache = disk.cache /\ disk'.last = disk.last
    BY DEF Unmoved
  <2> QED BY <2>1, <2>2, <2>3 DEF TokensTrue
<1>4. ViewsTrue'
  <2>1. ASSUME NEW q \in Queries
        PROVE  /\ ViewTrue(q, views'[q], disk.cache, disk.last, history)
               /\ views'[q].current => client'.refs[q] = views'[q].shown \ views'[q].synced
    <3>1. PICK v, w, r, s : /\ v = views[q] /\ w = views'[q]
                            /\ r = client.refs[q] /\ s = client'.refs[q]
      OBVIOUS
    <3>2. /\ ViewTrue(q, v, disk.cache, disk.last, history)
          /\ v.current => r = v.shown \ v.synced
      BY <3>1 DEF ResultInv, ViewsTrue
    <3>3. Kept(v, w) /\ (w.current => s = r)
      BY <3>1 DEF Unmoved
    <3>4. ViewTrue(q, w, disk.cache, disk.last, history)
      BY <3>2, <3>3 DEF ViewTrue, Kept
    <3>5. w.current => s = w.shown \ w.synced
      BY <3>2, <3>3 DEF Kept
    <3> QED BY <3>1, <3>4, <3>5
  <2>2. history' = history /\ disk'.cache = disk.cache /\ disk'.last = disk.last
    BY DEF Unmoved
  <2> QED BY <2>1, <2>2 DEF ViewsTrue
<1> QED BY <1>2, <1>3, <1>4 DEF ResultInv

\* A view that shows the same and is no less flawed will do.
LEMMA QueryAlike ==
    ASSUME NEW q, NEW s, NEW v, NEW w, NEW docs, NEW sess, NEW cache, NEW now,
           QueryTrue(q, s, v, docs, sess, cache, now),
           w.shown = v.shown, w.synced = v.synced, v.flawed => w.flawed
    PROVE  QueryTrue(q, s, w, docs, sess, cache, now)
<1>1. Arriving(q, s, w, docs, sess, cache, now)
  BY DEF QueryTrue, Arriving
<1>2. Showing(q, w, cache, now)
  BY DEF QueryTrue, Showing
<1> QED BY <1>1, <1>2 DEF QueryTrue

\* A lookup may have received more.
LEMMA LookupWider ==
    ASSUME NEW s, NEW known, NEW more, NEW docs, NEW sess,
           LookupTrue(s, known, docs, sess), known \subseteq more
    PROVE  LookupTrue(s, more, docs, sess)
BY DEF LookupTrue, Collected

\* What a target that hears after the step was before.
TargetStays(t) ==
    /\ IsActive(client.agg, client.listens, t)
    /\ client'.agg.targets[t] = client.agg.targets[t]
    /\ client'.agg.docs = client.agg.docs
    /\ server'.session[t] = server.session[t]
    /\ t \in client.received => t \in client'.received

\* Nothing is told, and the views stay.
LEMMA TargetsStay ==
    ASSUME IsOpen(stream) => TargetsTrue, IsOpen(stream') => IsOpen(stream),
           history' = history, disk'.cache = disk.cache,
           \A t \in Targets : IsOpen(stream') /\ IsActive(client'.agg, client'.listens, t) =>
               TargetStays(t),
           \A q \in Queries : IsOpen(stream') /\ IsActive(client'.agg, client'.listens, q) =>
               /\ views'[q].shown = views[q].shown /\ views'[q].synced = views[q].synced
               /\ views[q].flawed => views'[q].flawed
    PROVE  TargetsTrue'
<1> SUFFICES ASSUME IsOpen(stream') PROVE QueriesTrue' /\ LimboTrue'
  BY DEF TargetsTrue
<1>1. IsOpen(stream) /\ QueriesTrue /\ LimboTrue
  BY DEF TargetsTrue
<1>2. Now' = Now /\ history'[Now'] = history[Now]
  BY DEF Now
<1>3. QueriesTrue'
  <2>1. ASSUME NEW q \in Queries, IsActive(client'.agg, client'.listens, q)
        PROVE  QueryTrue(q, client'.agg.targets[q], views'[q], client'.agg.docs,
                         server'.session[q], disk'.cache, history'[Now'])
    <3>1. TargetStays(q)
      BY <2>1 DEF Targets
    <3>2. QueryTrue(q, client.agg.targets[q], views[q], client.agg.docs,
                    server.session[q], disk.cache, history[Now])
      BY <1>1, <3>1 DEF QueriesTrue, TargetStays
    <3>3. QueryTrue(q, client.agg.targets[q], views'[q], client.agg.docs,
                    server.session[q], disk.cache, history[Now])
      BY <2>1, <3>2, QueryAlike
    <3> QED BY <1>2, <3>1, <3>3 DEF TargetStays
  <2> QED BY <2>1 DEF QueriesTrue
<1>4. LimboTrue'
  <2>1. ASSUME NEW n \in LimboIds, IsActive(client'.agg, client'.listens, n)
        PROVE  LookupTrue(client'.agg.targets[n], LookupKeys(client', n), client'.agg.docs,
                          server'.session[n])
    <3>1. TargetStays(n)
      BY <2>1 DEF Targets
    <3>2. LookupTrue(client.agg.targets[n], LookupKeys(client, n), client.agg.docs,
                     server.session[n])
      BY <1>1, <3>1 DEF LimboTrue, TargetStays
    <3>3. LookupKeys(client, n) \subseteq LookupKeys(client', n)
      BY <3>1 DEF LookupKeys, TargetStays
    <3>4. LookupTrue(client.agg.targets[n], LookupKeys(client', n), client.agg.docs,
                     server.session[n])
      BY <3>2, <3>3, LookupWider
    <3> QED BY <3>1, <3>4 DEF TargetStays
  <2> QED BY <2>1 DEF LimboTrue
<1> QED BY <1>3, <1>4

\* Nothing is pending, or what was.
LEMMA PendingStays ==
    ASSUME NEW docs, NEW new, NEW last, NEW h, PendingTrue(docs, last, h),
           new = docs \/ new = [k \in Keys |-> None]
    PROVE  PendingTrue(new, last, h)
<1>1. None # NoDocument(0)
  BY WatchAssumption
<1> QED BY <1>1 DEF PendingTrue

\* A listen starts from what the disk has.
LEMMA ListenResult ==
    ASSUME ConnectionInv, WatchInv, ResultInv, NEW q \in Queries, Listen(q)
    PROVE  ResultInv'
<1> DEFINE t == disk.targets[q]
<1>1. /\ ~views[q].on
      /\ views' = [views EXCEPT ![q] =
                      [on |-> TRUE, shown |-> ExecuteQuery(q), synced |-> t.keys,
                       current |-> FALSE, token |-> t.token, free |-> t.free,
                       misled |-> FALSE, flawed |-> FALSE]]
      /\ client' = RemoteListen(client, IsOpen(stream), q, t.token)
      /\ UNCHANGED <<disk, server>>
  BY DEF Listen
<1>2. Typed /\ Now \in Nat /\ views \in [Queries -> Views(Now)]
  BY NowIsNat DEF WatchInv, Typed
<1>3. t.token \in 0..Now
  BY <1>2 DEF Typed, Disks
<1>4. /\ ~views'[q].current /\ views'[q].token = disk.targets[q].token
      /\ \A p \in Queries \ {q} : views'[p] = views[p]
  BY <1>1, <1>2
<1>5. PICK c, open, N, tok : /\ c = client /\ open = IsOpen(stream) /\ N = Now /\ tok = t.token
  OBVIOUS
<1>6. open \in BOOLEAN /\ N \in Nat /\ tok \in 0..N /\ c \in Clients(N) /\ (~open => c.up = <<>>)
  BY <1>2, <1>3, <1>5 DEF WatchInv, ClientInv, ClientCore, Unheard, IsOpen
<1>7. client' = RemoteListen(c, open, q, tok)
  BY <1>1, <1>5
<1> HIDE DEF t
<1>8. Listened(c, client', open, q, tok)
  BY <1>6, <1>7, ListenFields
<1>9. Listened(client, client', IsOpen(stream), q, disk.targets[q].token)
  BY <1>5, <1>8 DEF t
<1>10. IsOpen(stream') => IsOpen(stream)
  BY DEF Listen, IsOpen, IsStarted, Start, ConnectionInv, Connection, StreamStatus
<1>11. history' = history /\ disk' = disk /\ server' = server
  BY <1>1 DEF history
<1>12. Unmoved
  <2>1. ASSUME NEW p \in Queries
        PROVE  /\ Kept(views[p], views'[p])
               /\ views'[p].current => client'.refs[p] = client.refs[p]
               /\ views'[p].token \in {NoToken, views[p].token, disk.targets[p].token}
               /\ disk'.targets[p].token \in {disk.targets[p].token, views[p].token}
    BY <1>4, <1>9, <1>11 DEF Kept, Listened
  <2>2. ASSUME NEW u \in Targets
        PROVE  \/ client'.tokens[u] \in {NoToken, client.tokens[u]}
               \/ u \in Queries /\ client'.tokens[u] = disk.targets[u].token
    BY <1>9 DEF Listened
  <2> QED BY <1>11, <2>1, <2>2 DEF Unmoved
<1>13. LimboToken(client', history)
  <2>1. \A n \in client.resolving : n # q /\ n \in Targets
    <3>1. client.resolving \subseteq LimboIds
      BY <1>5, <1>6 DEF Clients
    <3> QED BY <3>1, WatchAssumption DEF Targets
  <2> QED BY <1>9, <2>1 DEF ResultInv, LimboToken, Listened
<1>14. TargetsTrue'
  <2>1. ASSUME NEW u \in Targets, IsOpen(stream'), IsActive(client'.agg, client'.listens, u)
        PROVE  TargetStays(u) /\ u # q
    <3>1. u # q
      BY <1>9, <1>10, <2>1 DEF Listened, IsActive
    <3> QED BY <1>9, <1>11, <2>1, <3>1 DEF Listened, IsActive, TargetStays
  <2>2. \A p \in Queries : IsOpen(stream') /\ IsActive(client'.agg, client'.listens, p) =>
            views'[p] = views[p]
    BY <1>4, <2>1 DEF Targets
  <2>3. TargetsTrue
    BY DEF ResultInv
  <2> QED BY <1>10, <1>11, <2>1, <2>2, <2>3, TargetsStay
<1>15. PendingTrue(client'.agg.docs, disk.last, history) /\ Asked(client')
  BY <1>9 DEF ResultInv, Listened
<1>16. ServerTyped'
  BY <1>11 DEF ResultInv, ServerTyped, Now
<1> QED BY <1>2, <1>12, <1>13, <1>14, <1>15, <1>16, UnmovedKeeps

\* Looking documents up, and stopping to, keeps the lookups' tokens true.
LEMMA SteadyLimbo ==
    ASSUME NEW c, NEW d, NEW open, NEW h, Steady(c, d, open), LimboToken(c, h),
           d.resolving \subseteq LimboIds
    PROVE  LimboToken(d, h)
BY DEF Steady, LimboToken

\* A query that stops leaves the others alone, and its token on disk.
LEMMA StopListeningResult ==
    ASSUME FewKeys, WatchInv, ResultInv, NEW q \in Queries, StopListening(q)
    PROVE  ResultInv'
<1> DEFINE d == UpdateTrackedLimboDocuments(RemoteStop(client, IsOpen(stream), q),
                                            IsOpen(stream), q, {})
<1>1. /\ views[q].on /\ IdsLeft(client)
      /\ client' = [d EXCEPT !.emptied = FALSE]
      /\ views' = [views EXCEPT ![q] = NoView]
      /\ disk' = [disk EXCEPT !.targets[q].token = views[q].token,
                              !.targets[q].free = views[q].free]
      /\ UNCHANGED <<stream, server>>
  BY DEF StopListening
<1>2. Typed /\ Now \in Nat /\ Now' = Now /\ history' = history
  BY <1>1, NowIsNat DEF WatchInv, Now, history
<1>3. PICK c, open, N, On, syn, new, b :
          /\ c = client /\ open = IsOpen(stream) /\ N = Now /\ On = OnViews
          /\ syn = SyncedKeys /\ new = syn /\ b = RemoteStop(client, IsOpen(stream), q)
  OBVIOUS
<1>4. /\ open \in BOOLEAN /\ N \in Nat /\ On \in SUBSET Queries
      /\ ClientInv(c, open, On, syn, N) /\ Lookups(c) /\ IdsLeft(c) /\ q \in On
      /\ c \in Clients(N) /\ q \in Targets
  <2>1. /\ open \in BOOLEAN /\ N \in Nat /\ On \in SUBSET Queries
        /\ ClientInv(c, open, On, syn, N) /\ Lookups(c) /\ IdsLeft(c) /\ q \in On
    BY <1>1, <1>2, <1>3 DEF WatchInv, IsOpen, OnViews
  <2> QED BY <2>1 DEF ClientInv, ClientCore, Targets
<1>5. LimboStopped(c, d, open, On \ {q}, new, N, q)
  <2>1. \A p \in Queries \ {q} : new[p] = syn[p]
    BY <1>3
  <2>2. LimboStopped(c, UpdateTrackedLimboDocuments(RemoteStop(c, open, q), open, q, {}),
                open, On \ {q}, new, N, q)
    BY <1>4, <2>1, StopAll
  <2> QED BY <1>3, <2>2
<1> HIDE DEF d
<1>6. /\ Halted(c, b, open, q, N) /\ Steady(b, d, open) /\ d \in Clients(N)
      /\ d.refs = [c.refs EXCEPT ![q] = {}]
  <2>1. Halted(c, RemoteStop(c, open, q), open, q, N)
    BY <1>4, StopFields
  <2>2. RemoteStop(c, open, q) = b
    BY <1>3
  <2> QED BY <1>5, <2>1, <2>2 DEF LimboStopped, ClientInv, ClientCore
<1>7. PICK e : e = client'
  OBVIOUS
<1>8. /\ e.listens = d.listens /\ e.tokens = d.tokens /\ e.agg = d.agg /\ e.up = d.up
      /\ e.refs = d.refs /\ e.resolving = d.resolving /\ e.received = d.received
  BY <1>1, <1>6, <1>7 DEF Clients
<1>9. /\ b.listens = c.listens \ {q} /\ b.refs = c.refs /\ b.resolving = c.resolving
      /\ b.received = c.received /\ b.agg.docs = c.agg.docs /\ b.tokens[q] = NoToken
      /\ \A t \in Targets \ {q} : b.tokens[t] = c.tokens[t]
      /\ open => \A t \in Targets \ {q} : b.agg.targets[t] = c.agg.targets[t]
  <2>1. c.tokens \in [Targets -> 0..N]
    BY <1>4 DEF Clients
  <2> QED BY <1>4, <1>6, <2>1 DEF Halted
<1>10. \A n \in LimboIds : n # q /\ n \in Targets
  BY WatchAssumption DEF Targets
<1>11. Asked(client')
  <2>1. Asked(c)
    BY <1>3 DEF ResultInv
  <2>2. Asked(b)
    <3>1. CASE open
      <4> DEFINE r == Request("unwatch", q, NoToken)
      <4>1. b.up = Append(c.up, r) /\ c.up \in Seq(Requests(N))
        BY <1>4, <1>6, <3>1 DEF Halted, Clients
      <4>2. r \in Requests(N) /\ r.target = q
        BY <1>4 DEF Request, Requests, NoToken
      <4> HIDE DEF r
      <4>3. \A t \in b.listens \ {r.target} : t \in c.listens /\ b.tokens[t] = c.tokens[t]
        <5>1. c.listens \subseteq Targets
          BY <1>4 DEF Clients
        <5> QED BY <1>9, <4>2, <5>1
      <4>4. r.target \notin b.listens
        BY <1>9, <4>2
      <4> QED BY <2>1, <4>1, <4>2, <4>3, <4>4, AskedAppend
    <3>2. CASE ~open
      <4>1. b.up = <<>>
        BY <1>4, <1>6, <3>2 DEF Halted, ClientInv, Unheard
      <4> QED BY <4>1 DEF Asked
    <3> QED BY <1>4, <3>1, <3>2
  <2>3. Asked(d)
    BY <1>6, <2>2 DEF Steady
  <2> QED BY <1>7, <1>8, <2>3, AskedAlike
<1>12. LimboToken(client', history)
  <2>1. \A n \in b.resolving : n \in LimboIds
    BY <1>6 DEF Halted, Clients
  <2>2. LimboToken(b, history)
    BY <1>3, <1>9, <1>10, <2>1 DEF ResultInv, LimboToken
  <2>3. LimboToken(d, history)
    <3>1. d.resolving \subseteq LimboIds
      BY <1>6 DEF Clients
    <3> QED BY <1>6, <2>2, <3>1, SteadyLimbo
  <2> QED BY <1>7, <1>8, <2>3 DEF LimboToken
<1>13. /\ ~views'[q].current /\ views'[q].token = NoToken
       /\ \A p \in Queries \ {q} : views'[p] = views[p]
       /\ disk'.cache = disk.cache /\ disk'.last = disk.last
       /\ disk'.targets[q].token = views[q].token
       /\ \A p \in Queries \ {q} : disk'.targets[p] = disk.targets[p]
  <2>1. views \in [Queries -> Views(Now)] /\ disk \in Disks(Now)
    BY <1>2 DEF Typed
  <2> QED BY <1>1, <2>1 DEF NoView, Disks
<1>14. \A p \in Queries \ {q} : client'.refs[p] = client.refs[p]
  <2>1. c.refs \in [Queries -> SUBSET Keys]
    BY <1>4 DEF Clients
  <2> QED BY <1>3, <1>6, <1>7, <1>8, <2>1
<1>15. Unmoved
  <2>1. ASSUME NEW p \in Queries
        PROVE  /\ Kept(views[p], views'[p])
               /\ views'[p].current => client'.refs[p] = client.refs[p]
               /\ views'[p].token \in {NoToken, views[p].token, disk.targets[p].token}
               /\ disk'.targets[p].token \in {disk.targets[p].token, views[p].token}
    BY <1>13, <1>14 DEF Kept
  <2>2. ASSUME NEW u \in Targets
        PROVE  client'.tokens[u] \in {NoToken, client.tokens[u]}
    <3>1. d.tokens[u] \in {NoToken, b.tokens[u]}
      BY <1>6 DEF Steady, Targets
    <3> QED BY <1>3, <1>7, <1>8, <1>9, <3>1
  <2> QED BY <1>2, <1>13, <2>1, <2>2 DEF Unmoved
<1>16. TargetsTrue'
  <2>0. IsOpen(stream') = open
    BY <1>1, <1>3
  <2>1. ASSUME NEW u \in Targets, open, IsActive(client'.agg, client'.listens, u)
        PROVE  TargetStays(u) /\ u # q
    <3>1. u \in d.listens /\ d.agg.targets[u].out = 0
      BY <1>7, <1>8, <2>1 DEF IsActive
    <3>2. /\ u \in b.listens /\ d.agg.targets[u] = b.agg.targets[u]
          /\ d.agg.docs = b.agg.docs
          /\ u \in LimboIds /\ u \in b.received => u \in d.received
      BY <1>6, <2>1, <3>1 DEF Steady, Targets
    <3>3. u # q /\ u \in c.listens /\ b.agg.targets[u] = c.agg.targets[u]
      BY <1>9, <2>1, <3>2
    <3>4. u \in c.received => u \in LimboIds
      BY <1>4 DEF Clients
    <3>5. server'.session[u] = server.session[u]
      BY <1>1
    <3> QED BY <1>3, <1>7, <1>8, <1>9, <3>1, <3>2, <3>3, <3>4, <3>5 DEF TargetStays, IsActive
  <2>2. \A p \in Queries : open /\ IsActive(client'.agg, client'.listens, p) =>
            views'[p] = views[p]
    BY <1>13, <2>1 DEF Targets
  <2>3. TargetsTrue /\ (IsOpen(stream') => IsOpen(stream))
    BY <1>1 DEF ResultInv
  <2> QED BY <1>2, <1>13, <2>0, <2>1, <2>2, <2>3, TargetsStay
<1>17. PendingTrue(client'.agg.docs, disk.last, history)
  <2>1. d.agg.docs = b.agg.docs
    BY <1>6 DEF Steady
  <2>2. client'.agg.docs = client.agg.docs
    BY <1>3, <1>7, <1>8, <1>9, <2>1
  <2> QED BY <2>2 DEF ResultInv
<1>18. ServerTyped'
  BY <1>1, <1>2 DEF ResultInv, ServerTyped
<1> QED BY <1>2, <1>11, <1>12, <1>15, <1>16, <1>17, <1>18, UnmovedKeeps

\* To be told of the connection takes nothing from a view but that it is current.
LEMMA ToldKept ==
    ASSUME Typed, NEW o, NEW q \in Queries
    PROVE  LET w == ToldOnline(o)[q]
           IN  /\ Kept(views[q], w) /\ w.token = views[q].token
               /\ w.shown = views[q].shown /\ w.synced = views[q].synced
               /\ views[q].flawed => w.flawed
<1>1. PICK v : v = views[q] /\ v \in Views(Now)
  BY DEF Typed
<1>2. ToldOnline(o)[q] = v \/ ToldOnline(o)[q] = [v EXCEPT !.current = FALSE]
  BY <1>1 DEF ToldOnline
<1> QED BY <1>1, <1>2 DEF Kept, Views

\* No target hears.
LEMMA ClosedIsTrue == ~IsOpen(stream') => TargetsTrue'
BY DEF TargetsTrue

\* The backend without its sessions.
LEMMA ServerAlone ==
    ASSUME Typed, ServerTyped, server' = [server EXCEPT !.session = NoSessions]
    PROVE  ServerTyped' /\ history' = history
<1>1. PICK N : N = Now /\ N \in Nat
  BY NowIsNat
<1>2. server \in [history : Histories, horizon : Nat, session : [Targets -> Sessions(N)]]
  BY <1>1 DEF ServerTyped
<1>3. NoSessions \in [Targets -> Sessions(N)]
  <2>1. NoSession \in Sessions(N)
    BY <1>1 DEF NoSession, Sessions
  <2> QED BY <2>1 DEF NoSessions
<1>4. history' = history
  BY <1>2 DEF history
<1>5. Now' = N
  BY <1>1, <1>4 DEF Now
<1>6. server' \in [history : Histories, horizon : Nat, session : [Targets -> Sessions(N)]]
  BY <1>2, <1>3
<1> QED BY <1>4, <1>5, <1>6 DEF ServerTyped

\* The call is over.
LEMMA HangupResult ==
    ASSUME WatchInv, ResultInv, Hangup, UNCHANGED disk, \E o : views' = ToldOnline(o),
           ~IsOpen(stream')
    PROVE  ResultInv'
<1>1. /\ client' = Disconnected(client)
      /\ server' = [server EXCEPT !.session = NoSessions]
  BY DEF Hangup
<1>2. Typed /\ ServerTyped
  BY DEF WatchInv, ResultInv
<1>3. ServerTyped' /\ history' = history
  BY <1>1, <1>2, ServerAlone
<1>4. PICK c, open, N, On, syn :
          /\ c = client /\ open = IsOpen(stream) /\ N = Now /\ On = OnViews /\ syn = SyncedKeys
  OBVIOUS
<1>5. N \in Nat /\ ClientInv(c, open, On, syn, N)
  BY <1>4, NowIsNat DEF WatchInv
<1>6. PICK d : d = Disconnected(c)
  OBVIOUS
<1>7. /\ Keeps(c, d, FALSE, On, syn, N) /\ d.agg = NewAggregator
      /\ d.tokens = c.tokens /\ d.resolving = c.resolving /\ d.received = c.received
      /\ Asked(d)
  BY <1>5, <1>6, DisconnectedKeeps
<1>8. client' = d
  BY <1>1, <1>4, <1>6
<1>9. d.refs = c.refs /\ d.agg.docs = [k \in Keys |-> None]
  BY <1>7 DEF Keeps, NewAggregator
<1>10. Unmoved
  <2>1. PICK o : views' = ToldOnline(o)
    OBVIOUS
  <2>2. ASSUME NEW q \in Queries
        PROVE  /\ Kept(views[q], views'[q])
               /\ views'[q].current => client'.refs[q] = client.refs[q]
               /\ views'[q].token \in {NoToken, views[q].token, disk.targets[q].token}
               /\ disk'.targets[q].token \in {disk.targets[q].token, views[q].token}
    BY <1>2, <1>4, <1>8, <1>9, <2>1, ToldKept
  <2>3. \A t \in Targets : client'.tokens[t] = client.tokens[t]
    BY <1>4, <1>7, <1>8
  <2> QED BY <1>3, <2>2, <2>3 DEF Unmoved
<1>11. PendingTrue(client'.agg.docs, disk.last, history)
  BY <1>8, <1>9, PendingStays DEF ResultInv
<1>12. LimboToken(client', history)
  BY <1>4, <1>7, <1>8 DEF ResultInv, LimboToken
<1> QED BY <1>2, <1>3, <1>7, <1>8, <1>10, <1>11, <1>12, ClosedIsTrue, UnmovedKeeps

\* The steps that end the call.
LEMMA HangupsResult ==
    ASSUME WatchInv, ConnectionInv, ResultInv, StreamFails \/ IdleTimeout \/ RestartNetwork
    PROVE  ResultInv'
<1>1. CASE StreamFails
  <2>1. Hangup /\ UNCHANGED disk /\ \E o : views' = ToldOnline(o)
    BY <1>1 DEF StreamFails
  <2>2. \/ stream' = Start(Ended(stream, FALSE))
        \/ client.listens = {} /\ stream' = Ended(stream, FALSE)
    BY <1>1 DEF StreamFails
  <2>3. ~IsOpen(stream')
    BY <2>2 DEF Start, Ended, Closed, IsOpen, IsStarted
  <2> QED BY <2>1, <2>3, HangupResult
<1>2. CASE IdleTimeout
  <2>1. Hangup /\ UNCHANGED disk /\ views' = views /\ stream' = Ended(stream, TRUE)
    BY <1>2 DEF IdleTimeout
  <2>2. ~IsOpen(stream')
    BY <2>1 DEF Ended, Closed, IsOpen
  <2>3. \E o : views' = ToldOnline(o)
    BY <2>1, ToldNothing
  <2> QED BY <2>1, <2>2, <2>3, HangupResult
<1>3. CASE RestartNetwork
  <2>1. /\ Hangup /\ UNCHANGED disk /\ views' = views
        /\ stream' = Start(Inhibited(stream)) \/ stream' = Inhibited(stream)
    BY <1>3 DEF RestartNetwork
  <2>2. ~IsOpen(stream')
    BY <2>1 DEF Inhibited, Start, IsOpen, IsStarted, ConnectionInv, Connection
  <2>3. \E o : views' = ToldOnline(o)
    BY <2>1, ToldNothing
  <2> QED BY <2>1, <2>2, <2>3, HangupResult
<1> QED BY <1>1, <1>2, <1>3

\* When the stream opens all that is listened to is asked for, and nothing heard yet.
LEMMA StreamOpensResult ==
    ASSUME WatchInv, ResultInv, StreamOpens
    PROVE  ResultInv'
<1>1. /\ stream.st = "Starting" /\ client' = Resent(client)
      /\ UNCHANGED <<views, disk, server>>
  BY DEF StreamOpens
<1>2. PICK c, N, On, syn : c = client /\ N = Now /\ On = OnViews /\ syn = SyncedKeys
  OBVIOUS
<1>3. Typed /\ N \in Nat /\ On \in SUBSET Queries /\ ClientInv(c, FALSE, On, syn, N)
  <2>1. IsOpen(stream) = FALSE
    BY <1>1 DEF IsOpen
  <2> QED BY <1>2, <2>1, NowIsNat DEF WatchInv, OnViews
<1>4. PICK d : d = Resent(c)
  OBVIOUS
<1>5. Sent(c, d, On, syn, N, c.listens)
  BY <1>3, <1>4, ResentKeeps
<1>6. client' = d /\ history' = history
  BY <1>1, <1>2, <1>4 DEF history
<1>7. Unmoved
  <2>1. ASSUME NEW q \in Queries
        PROVE  /\ Kept(views[q], views'[q])
               /\ views'[q].current => client'.refs[q] = client.refs[q]
               /\ views'[q].token \in {NoToken, views[q].token, disk.targets[q].token}
               /\ disk'.targets[q].token \in {disk.targets[q].token, views[q].token}
    BY <1>1, <1>2, <1>5, <1>6 DEF Kept, Sent
  <2>2. \A t \in Targets : client'.tokens[t] = client.tokens[t]
    BY <1>2, <1>5, <1>6 DEF Sent
  <2> QED BY <1>1, <1>6, <2>1, <2>2 DEF Unmoved
<1>8. TargetsTrue'
  <2>1. \A t \in Targets : ~IsActive(client'.agg, client'.listens, t)
    BY <1>2, <1>5, <1>6 DEF Sent, IsActive
  <2> QED BY <2>1 DEF TargetsTrue, QueriesTrue, LimboTrue, Targets
<1>9. PendingTrue(client'.agg.docs, disk.last, history)
  BY <1>2, <1>5, <1>6 DEF Sent, ResultInv
<1>10. LimboToken(client', history)
  BY <1>2, <1>5, <1>6 DEF Sent, ResultInv, LimboToken
<1>11. ServerTyped' /\ Asked(client')
  BY <1>1, <1>5, <1>6 DEF ServerTyped, ResultInv, Now, Sent
<1> QED BY <1>3, <1>7, <1>8, <1>9, <1>10, <1>11, UnmovedKeeps

\* Steps that leave client, disk and backend alone.
LEMMA QuietResult ==
    ASSUME WatchInv, ResultInv, UNCHANGED <<client, disk>>, history' = history, ServerTyped',
           server'.session = server.session, \E o : views' = ToldOnline(o),
           IsOpen(stream') => IsOpen(stream)
    PROVE  ResultInv'
<1>1. Typed
  BY DEF WatchInv
<1>2. PICK o : views' = ToldOnline(o)
  OBVIOUS
<1>3. Unmoved
  <2>1. ASSUME NEW q \in Queries
        PROVE  /\ Kept(views[q], views'[q])
               /\ views'[q].token \in {NoToken, views[q].token, disk.targets[q].token}
    BY <1>1, <1>2, ToldKept
  <2> QED BY <2>1 DEF Unmoved
<1>4. TargetsTrue'
  <2>1. \A t \in Targets : IsOpen(stream') /\ IsActive(client'.agg, client'.listens, t) =>
            TargetStays(t)
    BY DEF TargetStays
  <2>2. \A q \in Queries : /\ views'[q].shown = views[q].shown
                           /\ views'[q].synced = views[q].synced
                           /\ views[q].flawed => views'[q].flawed
    BY <1>1, <1>2, ToldKept
  <2>3. TargetsTrue
    BY DEF ResultInv
  <2> QED BY <2>1, <2>2, <2>3, TargetsStay
<1>5. /\ PendingTrue(client'.agg.docs, disk.last, history) /\ Asked(client')
      /\ LimboToken(client', history)
  BY DEF ResultInv
<1> QED BY <1>1, <1>3, <1>4, <1>5, UnmovedKeeps

\* A backoff that elapses, the timer of the online state, and what the backend forgets.
LEMMA QuietStepsResult ==
    ASSUME WatchInv, ResultInv, BackoffElapses \/ TimerFires \/ Forget
    PROVE  ResultInv'
<1>1. /\ UNCHANGED <<client, disk>> /\ \E o : views' = ToldOnline(o)
      /\ IsOpen(stream') => IsOpen(stream)
  <2>1. CASE BackoffElapses
    BY <2>1, ToldNothing DEF BackoffElapses, BackoffOver, IsOpen
  <2>2. CASE TimerFires
    BY <2>2 DEF TimerFires
  <2>3. CASE Forget
    BY <2>3, ToldNothing DEF Forget
  <2> QED BY <2>1, <2>2, <2>3
<1>2. history' = history /\ server'.session = server.session /\ ServerTyped'
  <2>1. ServerTyped /\ Now \in Nat
    BY NowIsNat DEF ResultInv, WatchInv
  <2>2. CASE UNCHANGED server
    BY <2>1, <2>2 DEF ServerTyped, Now, history
  <2>3. CASE server' = [server EXCEPT !.horizon = Now]
    <3>1. PICK N : N = Now /\ N \in Nat
      BY <2>1
    <3>2. server \in [history : Histories, horizon : Nat, session : [Targets -> Sessions(N)]]
      BY <2>1, <3>1 DEF ServerTyped
    <3>3. server' = [server EXCEPT !.horizon = N]
      BY <2>3, <3>1
    <3>4. /\ server'.history = server.history /\ server'.session = server.session
          /\ server' \in [history : Histories, horizon : Nat, session : [Targets -> Sessions(N)]]
      BY <3>1, <3>2, <3>3
    <3>5. history' = history /\ Now' = N
      BY <3>1, <3>4 DEF history, Now
    <3> QED BY <3>4, <3>5 DEF ServerTyped
  <2> QED BY <2>2, <2>3 DEF BackoffElapses, TimerFires, Forget
<1> QED BY <1>1, <1>2, QuietResult

\* After a crash there is what the disk has.
LEMMA CrashResult ==
    ASSUME WatchInv, ResultInv, Crash
    PROVE  ResultInv'
<1>1. /\ stream' = NewStream /\ client' = NewClient /\ views' = [q \in Queries |-> NoView]
      /\ server' = [server EXCEPT !.session = NoSessions] /\ UNCHANGED disk
  BY DEF Crash
<1>2. Typed /\ ServerTyped
  BY DEF WatchInv, ResultInv
<1>3. ServerTyped' /\ history' = history
  BY <1>1, <1>2, ServerAlone
<1>4. /\ \A t \in Targets : client'.tokens[t] = NoToken
      /\ client'.resolving = {} /\ client'.agg.docs = [k \in Keys |-> None]
      /\ client'.up = <<>>
  BY <1>1 DEF NewClient, NewAggregator
<1>5. \A q \in Queries : ~views'[q].current /\ views'[q].token = NoToken
  BY <1>1 DEF NoView
<1>6. Unmoved
  BY <1>1, <1>3, <1>4, <1>5 DEF Unmoved, Kept
<1>7. TargetsTrue'
  <2>1. ~IsOpen(stream')
    BY <1>1 DEF NewStream, IsOpen
  <2> QED BY <2>1, ClosedIsTrue
<1>8. PendingTrue(client'.agg.docs, disk.last, history)
  BY <1>4, PendingStays DEF ResultInv
<1>9. Asked(client') /\ LimboToken(client', history)
  BY <1>4 DEF Asked, LimboToken
<1> QED BY <1>2, <1>3, <1>6, <1>7, <1>8, <1>9, UnmovedKeeps

----------------------------------------------------------------------------
(* Versions.                                                               *)

\* Documents do not get older, and a version is of one document.
LEMMA Versions ==
    ASSUME NEW h, Dated(h), Len(h) \in Nat, NEW v \in 1..Len(h), NEW w \in v..Len(h),
           NEW k \in Keys
    PROVE  /\ h[v][k].ver \in 1..v /\ h[w][k].ver \in 1..w
           /\ h[v][k].ver <= h[w][k].ver
           /\ h[v][k].ver = h[w][k].ver => h[v][k] = h[w][k]
<1>1. w \in 1..Len(h) /\ v \in Nat /\ w \in Nat
  OBVIOUS
<1>2. h[v][k].ver \in 1..v /\ h[w][k].ver \in 1..w
  BY <1>1 DEF Dated
<1>3. h[w][k].ver <= v => h[w][k] = h[v][k]
  BY DEF Dated
<1> QED BY <1>1, <1>2, <1>3

\* The documents of a query.
LEMMA QueryContent ==
    ASSUME NEW q \in Queries, NEW v
    PROVE  Content(q, v) = {k \in Keys : Matches(history[v][k], q)}
BY DEF Content

\* The document of a lookup.
LEMMA LookupContent ==
    ASSUME NEW n \in LimboIds, NEW v
    PROVE  /\ Content(n, v) = {k \in Keys : k = KeyOf(n) /\ history[v][k].val # Gone}
           /\ n \notin Queries /\ KeyOf(n) \in Keys
BY WatchAssumption, LimboKey DEF Content

\* Nothing is collected.
LEMMA BlankCollected ==
    ASSUME NEW s, Blank(s), NEW known
    PROVE  Collected(s, known) = known /\ \A docs : Documented(s, docs)
BY DEF Blank, Collected, Marked, Documented

\* The types of what is told.
LEMMA ToldTypes ==
    ASSUME Typed, ResultInv
    PROVE  /\ Now \in Nat \ {0} /\ Len(history) = Now /\ disk.last \in 0..Now
           /\ Dated(history) /\ history[Now] \in [Keys -> [val : Data, ver : Nat]]
           /\ \A k \in Keys : history[Now][k].ver \in 1..Now
           /\ disk.cache \in [Keys -> Cached]
           /\ \A v \in 1..Now : history[v] \in [Keys -> [val : Data, ver : Nat]]
           /\ \A t \in Targets : server.session[t] \in Sessions(Now)
<1>1. Now \in Nat \ {0} /\ Len(history) = Now
  BY NowIsNat DEF Now
<1>2. \A v \in 1..Now : history[v] \in [Keys -> [val : Data, ver : Nat]]
  BY <1>1 DEF Typed, Histories
<1>3. disk.last \in 0..Now /\ disk.cache \in [Keys -> Cached]
  BY DEF Typed, Disks
<1>4. Dated(history)
  BY DEF ResultInv
<1>5. \A k \in Keys : history[Now][k].ver \in 1..Now
  BY <1>1, <1>4 DEF Dated
<1>6. \A t \in Targets : server.session[t] \in Sessions(Now)
  BY DEF ResultInv, ServerTyped
<1> QED BY <1>1, <1>2, <1>3, <1>4, <1>5, <1>6

\* The keys a listen resumes with, and what is said of them.
ResumedKeys(t, tok) ==
    IF tok = NoToken THEN {}
    ELSE IF tok < server.horizon THEN Content(t, tok) \cap Content(t, Now) ELSE Content(t, tok)

\* The session of a listen that resumes.
LEMMA ResumedSession ==
    ASSUME Typed, ResultInv, NEW t, NEW tok \in 0..Now,
           \A v : Content(t, v) \subseteq Keys
    PROVE  LET sess == Resumed(t, tok)
               had  == ResumedKeys(t, tok)
           IN  /\ sess \in Sessions(Now) /\ sess.on /\ ~sess.cur
               /\ sess.due = (tok # NoToken /\ tok < server.horizon)
               /\ \A k \in Keys : sess.sent[k] = IF k \in had THEN history[tok][k].ver ELSE 0
               /\ SentKeys(sess) = had
<1> DEFINE had == ResumedKeys(t, tok)
           sent == [k \in Keys |-> IF k \in had THEN history[tok][k].ver ELSE 0]
           sess == Resumed(t, tok)
<1>1. sess = [on |-> TRUE, cur |-> FALSE, due |-> (tok # NoToken /\ tok < server.horizon),
              sent |-> sent]
  BY DEF Resumed, ResumedKeys
<1>2. had \subseteq Keys /\ (had # {} => tok # 0)
  BY DEF ResumedKeys, NoToken
<1>3. \A k \in had : history[tok][k].ver \in 1..Now
  <2> TAKE k \in had
  <2>1. tok \in 1..Now /\ k \in Keys
    BY <1>2, ToldTypes
  <2>2. history[tok][k].ver \in 1..tok
    BY <2>1, ToldTypes DEF Dated
  <2> QED BY <2>1, <2>2, ToldTypes
<1>4. Now \in Nat
  BY ToldTypes
<1> HIDE DEF had
<1>5. sent \in [Keys -> 0..Now]
  BY <1>3, <1>4
<1>6. sess.sent = sent
  BY <1>1
<1>7. SentKeys(sess) = had
  BY <1>2, <1>3, <1>6 DEF SentKeys
<1>8. sess \in Sessions(Now)
  <2> HIDE DEF sent, sess
  <2>1. (tok # NoToken /\ tok < server.horizon) \in BOOLEAN
    OBVIOUS
  <2> QED BY <1>1, <1>5, <2>1 DEF Sessions
<1> QED BY <1>1, <1>6, <1>7, <1>8 DEF had

\* What is as new as a document of the result is that document.
LEMMA NewIsLatest ==
    ASSUME NEW q, NEW now, Matches(now, q), NEW d, d # None, TrueDoc(d, now), d.ver >= now.ver
    PROVE  Latest(d, now)
BY DEF Matches, TrueDoc, Latest

\* A listen resumed from the token RemoteStore has for it: what the backend takes
\* the client to have is in the cache or was noted to be missing.
LEMMA ResumedQuery ==
    ASSUME Typed, ResultInv, NEW q \in Queries, NEW tok \in 0..Now,
           GoodToken(q, tok, disk.cache, disk.last, history),
           NEW r, r.target = q, r.token = tok,
           views[q].on, client.agg.targets[q].out = 1, client.agg.docs \in [Keys -> Documents],
           NEW s, Blank(s), NEW w,
           w.shown = views[q].shown, w.synced = views[q].synced,
           w.flawed <=> views[q].flawed \/ Flawing(r)
    PROVE  QueryTrue(q, s, w, client.agg.docs, Resumed(q, tok), disk.cache, history[Now])
<1> DEFINE sess == Resumed(q, tok)
           had == ResumedKeys(q, tok)
           now == history[Now]
           docs == client.agg.docs
           cache == disk.cache
<1>1. \A v : Content(q, v) = {k \in Keys : Matches(history[v][k], q)}
  BY QueryContent
<1>2. /\ sess.on /\ ~sess.cur /\ sess.due = (tok # NoToken /\ tok < server.horizon)
      /\ \A k \in Keys : sess.sent[k] = IF k \in had THEN history[tok][k].ver ELSE 0
      /\ SentKeys(sess) = had
  <2>1. \A v : Content(q, v) \subseteq Keys
    BY <1>1
  <2> QED BY <2>1, ResumedSession
<1> HIDE DEF sess
<1>3. /\ Now \in Nat \ {0} /\ Len(history) = Now /\ disk.last \in 0..Now /\ Dated(history)
      /\ \A k \in Keys : now[k].ver \in 1..Now
  BY ToldTypes
<1>4. /\ had \subseteq TakenFrom(r) /\ (had # {} => tok # NoToken)
      /\ ~sess.due => had = TakenFrom(r)
  BY <1>2 DEF ResumedKeys, TakenFrom
<1>5. ~w.flawed => /\ views[q].synced = TakenFrom(r)
                   /\ \A k \in TakenFrom(r) : history[tok][k] = now[k] => cache[k] # None
                   /\ \A k \in Content(q, Now) \ views[q].shown : ~IsCached(k)
  BY DEF Flawing, Misleading
<1>6. w.flawed \/ Complete(s, w.synced, sess)
  <2>1. Collected(s, w.synced) = w.synced
    BY BlankCollected
  <2> QED BY <1>2, <1>4, <1>5, <2>1 DEF Complete
<1>7. Arriving(q, s, w, docs, sess, cache, now)
  <2> SUFFICES ASSUME NEW k \in Keys, Matches(now[k], q), sess.sent[k] = now[k].ver
               PROVE  \/ Latest(Upcoming(docs[k], cache[k]), now[k])
                      \/ Upcoming(docs[k], cache[k]) = None /\ w.flawed
    BY DEF Arriving
  <2>1. k \in had /\ tok # NoToken
    BY <1>2, <1>3, <1>4
  <2>2. tok \in 1..Now /\ now[k].ver = history[tok][k].ver /\ tok <= disk.last
    BY <1>2, <1>3, <2>1 DEF NoToken, GoodToken
  <2>3. now[k] = history[tok][k] /\ now[k].ver <= tok
    <3>1. Now \in tok..Len(history) /\ tok \in 1..Len(history)
      BY <1>3, <2>2
    <3> QED BY <1>3, <2>2, <3>1, Versions
  <2>4. k \in TakenFrom(r)
    BY <1>4, <2>1
  <2>5. CASE Takes(docs[k], cache[k])
    <3>1. docs[k] # NoDocument(0)
      <4>1. PendingTrue(docs, disk.last, history)
        BY DEF ResultInv
      <4>2. ~(now[k].val = Gone \/ now[k].ver > disk.last)
        BY <1>3, <2>2, <2>3 DEF Matches
      <4> QED BY <1>3, <4>1, <4>2 DEF PendingTrue
    <3>2. /\ TrueDoc(docs[k], now[k]) /\ docs[k].ver >= history[disk.last][k].ver
          /\ docs[k] # None
      <4>1. PendingTrue(docs, disk.last, history)
        BY DEF ResultInv
      <4>2. docs[k] \notin {None, NoDocument(0)} /\ disk.last > 0
        BY <1>3, <2>2, <2>5, <3>1 DEF Takes
      <4> QED BY <1>3, <4>1, <4>2 DEF PendingTrue
    <3>3. history[disk.last][k].ver >= now[k].ver
      <4>1. disk.last \in tok..Len(history) /\ tok \in 1..Len(history)
        BY <1>3, <2>2
      <4>2. history[tok][k].ver <= history[disk.last][k].ver
        BY <1>3, <4>1, Versions
      <4> QED BY <2>2, <4>2
    <3>4. Latest(docs[k], now[k])
      <4>1. docs[k].ver \in Nat /\ history[disk.last][k].ver \in Nat /\ now[k].ver \in Nat
        <5>1. disk.last \in 1..Now
          BY <1>3, <2>2
        <5>2. history[disk.last][k].ver \in 1..disk.last
          BY <1>3, <5>1 DEF Dated
        <5> QED BY <1>3, <3>2, <5>1, <5>2 DEF Documents
      <4>2. docs[k].ver >= now[k].ver
        BY <3>2, <3>3, <4>1
      <4> QED BY <3>2, <4>2, NewIsLatest
    <3> QED BY <2>5, <3>1, <3>4 DEF Upcoming
  <2>6. CASE ~Takes(docs[k], cache[k])
    <3>1. Upcoming(docs[k], cache[k]) = cache[k]
      BY <2>6 DEF Upcoming
    <3>2. CASE cache[k] = None
      BY <1>5, <2>3, <2>4, <3>1, <3>2
    <3>3. CASE cache[k] # None
      <4>1. cache[k].ver >= history[tok][k].ver
        BY <2>1, <2>3, <3>3 DEF GoodToken
      <4>2. TrueDoc(cache[k], now[k])
        BY <3>3 DEF ResultInv, CacheTrue
      <4>3. Latest(cache[k], now[k])
        BY <2>3, <3>3, <4>1, <4>2, NewIsLatest
      <4> QED BY <3>1, <4>3
    <3> QED BY <3>2, <3>3
  <2> QED BY <2>5, <2>6
<1>8. Showing(q, w, cache, now)
  <2>1. ASSUME ~w.flawed, NEW k \in Keys, Matches(now[k], q), Latest(cache[k], now[k])
        PROVE  k \in w.shown
    <3>1. k \in Content(q, Now)
      BY <1>1, <2>1
    <3>2. IsCached(k)
      BY <2>1 DEF IsCached, Latest
    <3> QED BY <1>5, <2>1, <3>1, <3>2
  <2> QED BY <2>1 DEF Showing
<1>9. Documented(s, docs)
  BY BlankCollected
<1> QED BY <1>2, <1>6, <1>7, <1>8, <1>9 DEF QueryTrue, sess

\* A lookup that resumes has received what it is taken to have.
LEMMA ResumedLookup ==
    ASSUME Typed, ResultInv, NEW n \in LimboIds, NEW tok \in 0..Now,
           n \in client.resolving, tok = client.tokens[n],
           NEW s, Blank(s), NEW docs
    PROVE  LookupTrue(s, LookupKeys(client, n), docs, Resumed(n, tok))
<1> DEFINE sess == Resumed(n, tok)
           had == ResumedKeys(n, tok)
<1>1. \A v : Content(n, v) = {k \in Keys : k = KeyOf(n) /\ history[v][k].val # Gone}
  BY LookupContent
<1>2. sess.on /\ SentKeys(sess) = had
  <2>1. \A v : Content(n, v) \subseteq Keys
    BY <1>1
  <2> QED BY <2>1, ResumedSession
<1>3. Collected(s, LookupKeys(client, n)) = LookupKeys(client, n) /\ Documented(s, docs)
  BY BlankCollected
<1>4. had \subseteq LookupKeys(client, n)
  <2> SUFFICES ASSUME NEW k \in had PROVE k \in LookupKeys(client, n) OBVIOUS
  <2>1. tok # NoToken /\ k = KeyOf(n) /\ history[tok][k].val # Gone
    BY <1>1 DEF ResumedKeys
  <2>2. n \in client.received
    BY <2>1 DEF ResultInv, LimboToken
  <2> QED BY <2>1, <2>2 DEF LookupKeys
<1> QED BY <1>2, <1>3, <1>4 DEF LookupTrue

\* A query that stays as it was, and hears, will do.
LEMMA QueryStays ==
    ASSUME QueriesTrue, NEW q \in Queries, TargetStays(q), history' = history,
           disk'.cache = disk.cache, views'[q].shown = views[q].shown,
           views'[q].synced = views[q].synced, views[q].flawed => views'[q].flawed
    PROVE  QueryTrue(q, client'.agg.targets[q], views'[q], client'.agg.docs,
                     server'.session[q], disk'.cache, history'[Now'])
<1>1. Now' = Now /\ history'[Now'] = history[Now]
  BY DEF Now
<1>2. QueryTrue(q, client.agg.targets[q], views[q], client.agg.docs,
                server.session[q], disk.cache, history[Now])
  BY DEF QueriesTrue, TargetStays
<1>3. QueryTrue(q, client.agg.targets[q], views'[q], client.agg.docs,
                server.session[q], disk.cache, history[Now])
  BY <1>2, QueryAlike
<1> QED BY <1>1, <1>3 DEF TargetStays

\* ... and a lookup.
LEMMA LookupStays ==
    ASSUME LimboTrue, NEW n \in LimboIds, TargetStays(n)
    PROVE  LookupTrue(client'.agg.targets[n], LookupKeys(client', n), client'.agg.docs,
                      server'.session[n])
<1>1. LookupTrue(client.agg.targets[n], LookupKeys(client, n), client.agg.docs,
                 server.session[n])
  BY DEF LimboTrue, TargetStays
<1>2. LookupKeys(client, n) \subseteq LookupKeys(client', n)
  BY DEF LookupKeys, TargetStays
<1>3. LookupTrue(client.agg.targets[n], LookupKeys(client', n), client.agg.docs,
                 server.session[n])
  BY <1>1, <1>2, LookupWider
<1> QED BY <1>3 DEF TargetStays

\* An answer is about its target.
LEMMA AnsweredResult ==
    ASSUME WatchInv, ResultInv, IsOpen(stream), UNCHANGED <<stream, disk>>,
           history' = history, ServerTyped', NEW t, t = Head(client.up).target,
           AnswerHeard(client, client', OnViews, SyncedKeys, Now),
           \A u \in Targets \ {t} : server'.session[u] = server.session[u],
           \A q \in Queries : /\ Kept(views[q], views'[q])
                              /\ views'[q].token = views[q].token
                              /\ views'[q].shown = views[q].shown
                              /\ views'[q].synced = views[q].synced
                              /\ views[q].flawed => views'[q].flawed,
           IsActive(client'.agg, client'.listens, t) =>
               /\ t \in Queries =>
                      QueryTrue(t, client'.agg.targets[t], views'[t], client'.agg.docs,
                                server'.session[t], disk'.cache, history'[Now'])
               /\ t \in LimboIds =>
                      LookupTrue(client'.agg.targets[t], LookupKeys(client', t),
                                 client'.agg.docs, server'.session[t])
    PROVE  ResultInv'
<1>1. Typed /\ QueriesTrue /\ LimboTrue
  BY DEF WatchInv, ResultInv, TargetsTrue
<1>2. /\ client'.tokens = client.tokens /\ client'.refs = client.refs
      /\ client'.resolving = client.resolving /\ client'.received = client.received
      /\ client'.listens = client.listens /\ client'.agg.docs = client.agg.docs
      /\ \A u \in Targets \ {t} : client'.agg.targets[u] = client.agg.targets[u]
      /\ Asked(client')
  BY DEF AnswerHeard, ResultInv
<1>3. Unmoved
  BY <1>2 DEF Unmoved
<1>4. \A u \in Targets \ {t} : IsActive(client'.agg, client'.listens, u) => TargetStays(u)
  BY <1>2 DEF IsActive, TargetStays
<1>5. QueriesTrue'
  <2>1. ASSUME NEW q \in Queries, IsActive(client'.agg, client'.listens, q)
        PROVE  QueryTrue(q, client'.agg.targets[q], views'[q], client'.agg.docs,
                         server'.session[q], disk'.cache, history'[Now'])
    <3>1. CASE q = t
      BY <2>1, <3>1
    <3>2. CASE q # t
      <4>1. TargetStays(q)
        BY <1>4, <2>1, <3>2 DEF Targets
      <4> QED BY <1>1, <4>1, QueryStays
    <3> QED BY <3>1, <3>2
  <2> QED BY <2>1 DEF QueriesTrue
<1>6. LimboTrue'
  <2>1. ASSUME NEW n \in LimboIds, IsActive(client'.agg, client'.listens, n)
        PROVE  LookupTrue(client'.agg.targets[n], LookupKeys(client', n), client'.agg.docs,
                          server'.session[n])
    <3>1. CASE n = t
      BY <2>1, <3>1
    <3>2. CASE n # t
      <4>1. TargetStays(n)
        BY <1>4, <2>1, <3>2 DEF Targets
      <4> QED BY <1>1, <4>1, LookupStays
    <3> QED BY <3>1, <3>2
  <2> QED BY <2>1 DEF LimboTrue
<1>7. TargetsTrue'
  BY <1>5, <1>6 DEF TargetsTrue
<1>8. PendingTrue(client'.agg.docs, disk.last, history) /\ LimboToken(client', history)
  BY <1>2 DEF ResultInv, LimboToken
<1> QED BY <1>1, <1>2, <1>3, <1>7, <1>8, UnmovedKeeps

\* The backend with another session for t.
LEMMA ServerResumes ==
    ASSUME Typed, ServerTyped, NEW t \in Targets, NEW sess \in Sessions(Now),
           server' = [server EXCEPT !.session[t] = sess]
    PROVE  /\ ServerTyped' /\ history' = history /\ server'.session[t] = sess
           /\ \A u \in Targets \ {t} : server'.session[u] = server.session[u]
<1>1. PICK N : N = Now /\ N \in Nat
  BY NowIsNat
<1>2. server \in [history : Histories, horizon : Nat, session : [Targets -> Sessions(N)]]
  BY <1>1 DEF ServerTyped
<1>3. /\ server' \in [history : Histories, horizon : Nat, session : [Targets -> Sessions(N)]]
      /\ server'.history = server.history /\ server'.session[t] = sess
      /\ \A u \in Targets \ {t} : server'.session[u] = server.session[u]
  BY <1>1, <1>2
<1>4. history' = history
  BY <1>3 DEF history
<1>5. Now' = N
  BY <1>1, <1>4 DEF Now
<1> QED BY <1>3, <1>4, <1>5 DEF ServerTyped

\* What the last answer of a target leaves of it: the answer was to its listen.
WasLast(c, d, On, N, t) ==
    /\ t \in Targets /\ c.agg.targets[t].out = 1 /\ Blank(d.agg.targets[t])
    /\ Head(c.up).op = "watch" /\ Head(c.up).token = c.tokens[t]
    /\ c.tokens[t] \in 0..N /\ c.agg.docs \in [Keys -> Documents]
    /\ t \in c.resolving \cup On

\* A target that hears after an answer was answered to its last listen.
LEMMA LastAnswer ==
    ASSUME NEW N \in Nat, NEW c, NEW On, NEW syn, ClientInv(c, TRUE, On, syn, N), Asked(c),
           c.up # <<>>, NEW d, AnswerHeard(c, d, On, syn, N),
           NEW t, t = Head(c.up).target, IsActive(d.agg, d.listens, t)
    PROVE  WasLast(c, d, On, N, t)
<1>1. /\ d.agg.targets[t].out = 0 /\ d.agg.targets[t].out = Pending(Tail(c.up), t)
      /\ Blank(d.agg.targets[t]) /\ t \in c.listens
  BY DEF AnswerHeard, IsActive
<1>2. t \in Targets /\ c.agg.targets[t].out = Pending(Tail(c.up), t) + 1
  BY HeadPending
<1>3. c \in Clients(N) /\ c.listens = c.resolving \cup On
  BY DEF ClientInv, ClientCore
<1>4. Head(c.up).op = "watch" /\ Head(c.up).token = c.tokens[t]
  BY <1>1, <1>3, AskedLast
<1>5. c.tokens[t] \in 0..N /\ c.agg.docs \in [Keys -> Documents]
  BY <1>2, <1>3 DEF Clients, Aggregators
<1> QED BY <1>1, <1>2, <1>3, <1>4, <1>5 DEF WasLast

\* The backend takes up a listen.
LEMMA AnswerWatchResult ==
    ASSUME WatchInv, ResultInv, AnswerWatch
    PROVE  ResultInv'
<1>1. PICK r, t : r = Head(client.up) /\ t = r.target
  OBVIOUS
<1>2. /\ client.up # <<>> /\ IsOpen(stream)
      /\ client' = [Answered(client) EXCEPT !.agg = TargetAdded(@, t)]
      /\ server' = [server EXCEPT !.session[t] = Resumed(t, r.token)]
      /\ views' = [q \in Queries |->
                      IF q = t THEN [views[q] EXCEPT !.misled = Misleading(r),
                                                     !.flawed = @ \/ Flawing(r)]
                      ELSE views[q]]
      /\ UNCHANGED <<stream, disk>>
  BY <1>1 DEF AnswerWatch, HeadRequest
<1>3. Typed /\ ServerTyped /\ Asked(client)
  BY DEF WatchInv, ResultInv
<1>4. ASSUME NEW q \in Queries
      PROVE  /\ Kept(views[q], views'[q])
             /\ views'[q].token = views[q].token /\ views'[q].on = views[q].on
             /\ views'[q].shown = views[q].shown /\ views'[q].synced = views[q].synced
             /\ views[q].flawed => views'[q].flawed
             /\ q = t => (views'[q].flawed <=> views[q].flawed \/ Flawing(r))
  <2>1. PICK v, w, m, n : /\ v = views[q] /\ w = views'[q] /\ m = Misleading(r)
                          /\ n = (v.flawed \/ Flawing(r))
    OBVIOUS
  <2>2. v \in Views(Now)
    BY <1>3, <2>1 DEF Typed
  <2>3. w = IF q = t THEN [v EXCEPT !.misled = m, !.flawed = n] ELSE v
    BY <1>2, <2>1
  <2>4. /\ w.shown = v.shown /\ w.synced = v.synced /\ w.current = v.current
        /\ w.token = v.token /\ w.on = v.on /\ w.flawed = IF q = t THEN n ELSE v.flawed
    BY <2>2, <2>3 DEF Views
  <2>5. (v.flawed => w.flawed) /\ (q = t => (w.flawed <=> v.flawed \/ Flawing(r)))
    BY <2>1, <2>4
  <2> QED BY <2>1, <2>4, <2>5 DEF Kept
<1>5. PICK c, N, On, syn : /\ c = client /\ N = Now /\ On = OnViews /\ syn = SyncedKeys
  OBVIOUS
<1>6. N \in Nat /\ ClientInv(c, TRUE, On, syn, N)
  <2>1. IsOpen(stream) = TRUE
    BY <1>2 DEF IsOpen
  <2> QED BY <1>5, <2>1, NowIsNat DEF WatchInv
<1>7. c.up # <<>> /\ t = Head(c.up).target /\ r = Head(c.up) /\ Asked(c)
  BY <1>1, <1>2, <1>3, <1>5
<1>8. AnswerHeard(c, client', On, syn, N)
  <2>1. AnswerHeard(c, [Answered(c) EXCEPT !.agg = TargetAdded(@, t)], On, syn, N)
    BY <1>6, <1>7, AddedKeeps
  <2> QED BY <1>2, <1>5, <2>1
<1>9. AnswerHeard(client, client', OnViews, SyncedKeys, Now)
  BY <1>5, <1>8
<1>10. /\ client'.resolving = client.resolving /\ client'.received = client.received
       /\ client'.agg.docs = client.agg.docs
  BY <1>9 DEF AnswerHeard
<1>11. t \in Targets /\ r.token \in 0..Now /\ c \in Clients(N)
  <2>1. t \in Targets
    BY <1>6, <1>7, HeadPending
  <2>2. c.up \in Seq(Requests(N)) /\ c \in Clients(N)
    BY <1>6 DEF ClientInv, ClientCore, Clients
  <2>3. Head(c.up) \in Requests(N)
    BY <1>7, <2>2
  <2> QED BY <1>5, <1>7, <2>1, <2>2, <2>3 DEF Requests
<1>12. Resumed(t, r.token) \in Sessions(Now)
  <2>1. \A v : Content(t, v) \subseteq Keys
    BY DEF Content
  <2>2. LET sess == Resumed(t, r.token) IN sess \in Sessions(Now)
    BY <1>3, <1>11, <2>1, ResumedSession
  <2> QED BY <2>2
<1>13. /\ ServerTyped' /\ history' = history /\ server'.session[t] = Resumed(t, r.token)
       /\ \A u \in Targets \ {t} : server'.session[u] = server.session[u]
  BY <1>2, <1>3, <1>11, <1>12, ServerResumes
<1>14. ASSUME IsActive(client'.agg, client'.listens, t)
       PROVE  /\ t \in Queries =>
                     QueryTrue(t, client'.agg.targets[t], views'[t], client'.agg.docs,
                               server'.session[t], disk'.cache, history'[Now'])
              /\ t \in LimboIds =>
                     LookupTrue(client'.agg.targets[t], LookupKeys(client', t),
                                client'.agg.docs, server'.session[t])
  <2>1. /\ t \in Targets /\ c.agg.targets[t].out = 1 /\ Blank(client'.agg.targets[t])
        /\ Head(c.up).op = "watch" /\ Head(c.up).token = c.tokens[t]
        /\ c.tokens[t] \in 0..N /\ c.agg.docs \in [Keys -> Documents]
        /\ t \in c.resolving \cup On
    <3>1. WasLast(c, client', On, N, t)
      BY <1>6, <1>7, <1>8, <1>14, LastAnswer
    <3> QED BY <3>1 DEF WasLast
  <2>2. PICK s, tok : s = client'.agg.targets[t] /\ tok = r.token
    OBVIOUS
  <2>3. /\ client.agg.targets[t].out = 1 /\ Blank(s) /\ tok = client.tokens[t]
        /\ tok \in 0..Now /\ client.agg.docs \in [Keys -> Documents]
        /\ t \in client.resolving \cup OnViews
    BY <1>5, <1>7, <1>11, <2>1, <2>2
  <2>4. GoodToken(t, tok, disk.cache, disk.last, history)
    BY <1>11, <2>3 DEF ResultInv, TokensTrue
  <2>5. t \in Queries => t \notin LimboIds
    BY WatchAssumption
  <2>6. ASSUME t \in Queries
        PROVE  QueryTrue(t, s, views'[t], client.agg.docs, Resumed(t, tok), disk.cache,
                         history[Now])
    <3>1. client.resolving \subseteq LimboIds
      BY <1>5, <1>11 DEF Clients
    <3>2. views[t].on
      BY <2>3, <2>5, <2>6, <3>1 DEF OnViews
    <3>3. PICK w : w = views'[t]
      OBVIOUS
    <3>4. /\ w.shown = views[t].shown /\ w.synced = views[t].synced
          /\ w.flawed <=> views[t].flawed \/ Flawing(r)
      BY <1>4, <2>6, <3>3
    <3>5. r.target = t /\ r.token = tok
      BY <1>1, <2>2
    <3>6. QueryTrue(t, s, w, client.agg.docs, Resumed(t, tok), disk.cache, history[Now])
      BY <1>3, <2>3, <2>4, <2>6, <3>2, <3>4, <3>5, ResumedQuery
    <3> QED BY <3>3, <3>6
  <2>7. ASSUME t \in LimboIds
        PROVE  LookupTrue(s, LookupKeys(client, t), client'.agg.docs, Resumed(t, tok))
    <3>1. t \in client.resolving
      BY <2>3, <2>5, <2>7 DEF OnViews
    <3> QED BY <1>3, <2>3, <2>7, <3>1, ResumedLookup
  <2>8. LookupKeys(client', t) = LookupKeys(client, t)
    BY <1>10 DEF LookupKeys
  <2>9. disk'.cache = disk.cache /\ history'[Now'] = history[Now]
    BY <1>2, <1>13 DEF Now
  <2> QED BY <1>10, <1>13, <2>2, <2>6, <2>7, <2>8, <2>9
<1>15. \A q \in Queries : /\ Kept(views[q], views'[q])
                          /\ views'[q].token = views[q].token
                          /\ views'[q].shown = views[q].shown
                          /\ views'[q].synced = views[q].synced
                          /\ views[q].flawed => views'[q].flawed
  BY <1>4
<1>16. IsOpen(stream) /\ UNCHANGED <<stream, disk>> /\ t = Head(client.up).target
  BY <1>1, <1>2
<1> QED BY <1>9, <1>13, <1>14, <1>15, <1>16, AnsweredResult

\* The backend ends a listen.
LEMMA AnswerUnwatchResult ==
    ASSUME WatchInv, ResultInv, AnswerUnwatch
    PROVE  ResultInv'
<1>1. PICK t : t = Head(client.up).target
  OBVIOUS
<1>2. /\ client.up # <<>> /\ IsOpen(stream) /\ Head(client.up).op = "unwatch"
      /\ client' = [Answered(client) EXCEPT !.agg = TargetRemoved(@, t)]
      /\ server' = [server EXCEPT !.session[t] = NoSession]
      /\ UNCHANGED <<stream, views, disk>>
  BY <1>1 DEF AnswerUnwatch, HeadRequest
<1>3. Typed /\ ServerTyped /\ Asked(client)
  BY DEF WatchInv, ResultInv
<1>4. PICK c, N, On, syn : /\ c = client /\ N = Now /\ On = OnViews /\ syn = SyncedKeys
  OBVIOUS
<1>5. N \in Nat /\ ClientInv(c, TRUE, On, syn, N)
  <2>1. IsOpen(stream) = TRUE
    BY <1>2 DEF IsOpen
  <2> QED BY <1>4, <2>1, NowIsNat DEF WatchInv
<1>6. c.up # <<>> /\ t = Head(c.up).target /\ Asked(c) /\ Head(c.up).op = "unwatch"
  BY <1>1, <1>2, <1>3, <1>4
<1>7. AnswerHeard(c, client', On, syn, N)
  <2>1. AnswerHeard(c, [Answered(c) EXCEPT !.agg = TargetRemoved(@, t)], On, syn, N)
    BY <1>5, <1>6, RemovedKeeps
  <2> QED BY <1>2, <1>4, <2>1
<1>8. AnswerHeard(client, client', OnViews, SyncedKeys, Now)
  BY <1>4, <1>7
<1>9. ~IsActive(client'.agg, client'.listens, t)
  <2>1. IsActive(client'.agg, client'.listens, t) => WasLast(c, client', On, N, t)
    BY <1>5, <1>6, <1>7, LastAnswer
  <2> QED BY <1>6, <2>1 DEF WasLast
<1>10. NoSession \in Sessions(Now)
  BY <1>4, <1>5 DEF NoSession, Sessions
<1>11. t \in Targets
  BY <1>5, <1>6, HeadPending
<1>12. /\ ServerTyped' /\ history' = history
       /\ \A u \in Targets \ {t} : server'.session[u] = server.session[u]
  BY <1>2, <1>3, <1>10, <1>11, ServerResumes
<1>13. \A q \in Queries : Kept(views[q], views'[q]) /\ views'[q] = views[q]
  BY <1>2 DEF Kept
<1>14. IsOpen(stream) /\ UNCHANGED <<stream, disk>> /\ t = Head(client.up).target
  BY <1>1, <1>2
<1> QED BY <1>8, <1>9, <1>12, <1>13, <1>14, AnsweredResult

----------------------------------------------------------------------------
(* Steps that tell the targets something.                                  *)

\* A message that leaves the aggregator a.
LEMMA HearsResult ==
    ASSUME WatchInv, ResultInv, NEW a, Hears(a), history' = history, ServerTyped',
           PendingTrue(a.docs, disk.last, history),
           \A q \in Queries : IsActive(a, client.listens, q) =>
               QueryTrue(q, a.targets[q], views[q], a.docs, server'.session[q], disk.cache,
                         history[Now]),
           \A n \in LimboIds : IsActive(a, client.listens, n) =>
               LookupTrue(a.targets[n], LookupKeys(client, n), a.docs, server'.session[n])
    PROVE  ResultInv'
<1>1. Typed /\ UNCHANGED <<stream, views, disk>> /\ client' = [client EXCEPT !.agg = a]
  BY DEF WatchInv, Hears
<1>2. PICK c, d, N : c = client /\ d = client' /\ N = Now
  OBVIOUS
<1>3. c \in Clients(N)
  BY <1>2 DEF WatchInv, ClientInv, ClientCore
<1>4. d = [c EXCEPT !.agg = a]
  BY <1>1, <1>2
<1>5. /\ d.agg = a /\ d.listens = c.listens /\ d.tokens = c.tokens /\ d.up = c.up
      /\ d.refs = c.refs /\ d.resolving = c.resolving /\ d.received = c.received
  BY <1>3, <1>4 DEF Clients
<1>6. Asked(d)
  <2>1. Asked(c)
    BY <1>2 DEF ResultInv
  <2> QED BY <1>5, <2>1, AskedAlike
<1>7. Unmoved
  BY <1>1, <1>2, <1>5 DEF Unmoved, Kept
<1>8. LimboToken(client', history)
  BY <1>2, <1>5 DEF ResultInv, LimboToken
<1>9. Now' = Now /\ history'[Now'] = history[Now]
  BY DEF Now
<1>10. QueriesTrue'
  BY <1>1, <1>2, <1>5, <1>9 DEF QueriesTrue
<1>11. LimboTrue'
  <2>1. \A n : LookupKeys(client', n) = LookupKeys(client, n)
    BY <1>2, <1>5 DEF LookupKeys
  <2> QED BY <1>2, <1>5, <2>1 DEF LimboTrue
<1>12. TargetsTrue'
  BY <1>10, <1>11 DEF TargetsTrue
<1> QED BY <1>1, <1>2, <1>5, <1>6, <1>7, <1>8, <1>12, UnmovedKeeps

\* u is the target s told that k is, or is not, in its result.
Tells(s, u, known, k, in) ==
    /\ u.current = s.current
    /\ \A j \in Keys \ {k} : u.docs[j] = s.docs[j]
    /\ u.docs[k] = IF in THEN IF k \in known THEN "modified" ELSE "added"
                         ELSE IF k \in known THEN "removed" ELSE "same"

\* b is a with a change of k told to the targets that hear.
TellsDocument(a, b, L, known, updated, removed, k, doc) ==
    LET heard == {t \in updated \cup removed : IsActive(a, L, t)}
    IN  /\ \A t \in Targets :
               /\ b.targets[t].out = a.targets[t].out
               /\ t \notin heard => b.targets[t] = a.targets[t]
               /\ t \in heard =>
                      Tells(a.targets[t], b.targets[t], known[t], k, t \in updated)
        /\ \A j \in Keys \ {k} : b.docs[j] = a.docs[j]
        /\ b.docs[k] = IF heard = {} \/ doc = None THEN a.docs[k] ELSE doc

\* HandleDocumentChange does that.
LEMMA DocumentFields ==
    ASSUME NEW N, NEW a \in Aggregators(N), NEW L, NEW known, NEW updated, NEW removed,
           NEW k \in Keys, NEW doc, NEW b,
           b = HandleDocumentChange(a, L, known, updated, removed, k, doc)
    PROVE  TellsDocument(a, b, L, known, updated, removed, k, doc)
<1> DEFINE heard == {t \in updated \cup removed : IsActive(a, L, t)}
           new == [t \in Targets |->
                      IF t \in heard
                      THEN AddDocumentChange(a.targets[t], k, Types(known, t, k, updated))
                      ELSE a.targets[t]]
           docs == [a.docs EXCEPT ![k] = IF heard = {} \/ doc = None THEN @ ELSE doc]
<1>1. b = [a EXCEPT !.targets = new, !.docs = docs]
  BY DEF HandleDocumentChange
<1>2. a.targets \in [Targets -> TargetStates(N)] /\ a.docs \in [Keys -> Documents]
  BY DEF Aggregators
<1>3. b.targets = new /\ b.docs = docs
  <2> HIDE DEF new, docs
  <2> QED BY <1>1 DEF Aggregators
<1>4. ASSUME NEW t \in Targets
      PROVE  /\ b.targets[t].out = a.targets[t].out
             /\ t \notin heard => b.targets[t] = a.targets[t]
             /\ t \in heard =>
                    Tells(a.targets[t], b.targets[t], known[t], k, t \in updated)
  <2>1. PICK s, u, type, kn : /\ s = a.targets[t] /\ u = b.targets[t] /\ kn = known[t]
                              /\ type = Types(known, t, k, updated)
    OBVIOUS
  <2>2. s \in TargetStates(N)
    BY <1>2, <2>1
  <2>3. u = IF t \in heard THEN AddDocumentChange(s, k, type) ELSE s
    BY <1>3, <2>1
  <2>4. type = IF t \in updated THEN IF k \in kn THEN "modified" ELSE "added"
                                ELSE IF k \in kn THEN "removed" ELSE "same"
    BY <2>1 DEF Types
  <2> HIDE DEF heard
  <2>5. CASE t \notin heard
    BY <2>1, <2>3, <2>5
  <2>6. CASE t \in heard
    <3>1. u = [s EXCEPT !.changed = TRUE, !.docs[k] = type]
      BY <2>3, <2>6 DEF AddDocumentChange
    <3>2. /\ u.out = s.out /\ u.current = s.current /\ u.docs[k] = type
          /\ \A j \in Keys \ {k} : u.docs[j] = s.docs[j]
      BY <2>2, <3>1 DEF TargetStates
    <3>3. Tells(s, u, kn, k, t \in updated)
      BY <2>4, <3>2 DEF Tells
    <3> QED BY <2>1, <2>6, <3>2, <3>3
  <2> QED BY <2>5, <2>6
<1>5. /\ \A j \in Keys \ {k} : b.docs[j] = a.docs[j]
      /\ b.docs[k] = IF heard = {} \/ doc = None THEN a.docs[k] ELSE doc
  BY <1>2, <1>3
<1> QED BY <1>4, <1>5 DEF TellsDocument

\* new is the session sess, in which k was sent, or that it is not in the result.
Sends(sess, new, k, in, ver) ==
    /\ new.on = sess.on /\ new.cur = sess.cur /\ new.due = sess.due
    /\ \A j \in Keys \ {k} : new.sent[j] = sess.sent[j]
    /\ new.sent[k] = IF in THEN ver ELSE 0

\* What is told of k is collected as it was sent.
LEMMA TellsCollected ==
    ASSUME NEW k \in Keys, NEW in, NEW ver, ver # 0, NEW s, NEW u, NEW known \in SUBSET Keys,
           NEW sess, NEW new, Tells(s, u, known, k, in), Sends(sess, new, k, in, ver)
    PROVE  /\ SentKeys(sess) \subseteq Collected(s, known) =>
                  SentKeys(new) \subseteq Collected(u, known)
           /\ Complete(s, known, sess) => Complete(u, known, new)
           /\ Miscounted(u, new) = Miscounted(s, sess)
<1>1. \A j \in Keys : j # k => (j \in SentKeys(new) <=> j \in SentKeys(sess))
  BY DEF SentKeys, Sends
<1>2. k \in SentKeys(new) <=> in
  BY DEF SentKeys, Sends
<1>3. \A j \in Keys : j # k => (j \in Collected(u, known) <=> j \in Collected(s, known))
  BY DEF Collected, Marked, Tells
<1>4. k \in Collected(u, known) <=> in
  BY DEF Collected, Marked, Tells
<1>5. /\ Collected(u, known) \subseteq Keys /\ Collected(s, known) \subseteq Keys
      /\ SentKeys(new) \subseteq Keys /\ SentKeys(sess) \subseteq Keys
  BY DEF Collected, Marked, SentKeys
<1>6. new.due = sess.due /\ new.cur = sess.cur /\ u.current = s.current
  BY DEF Sends, Tells
<1>7. SentKeys(sess) \subseteq Collected(s, known) => SentKeys(new) \subseteq Collected(u, known)
  BY <1>1, <1>2, <1>3, <1>4, <1>5
<1>8. Collected(s, known) = SentKeys(sess) => Collected(u, known) = SentKeys(new)
  BY <1>1, <1>2, <1>3, <1>4, <1>5
<1> QED BY <1>6, <1>7, <1>8 DEF Complete, Miscounted

\* The document itself will do, whatever the cache has.
LEMMA NowUpcoming ==
    ASSUME NEW q, NEW now, Matches(now, q), now.ver \in Nat, NEW old,
           old # None => old.ver \in Nat /\ TrueDoc(old, now)
    PROVE  Latest(Upcoming(now, old), now)
<1>1. now # None /\ now # NoDocument(0)
  BY DEF Matches, NoDocument, Doc
<1>2. CASE Takes(now, old)
  BY <1>1, <1>2 DEF Upcoming, Latest
<1>3. CASE ~Takes(now, old)
  <2>1. Upcoming(now, old) = old /\ old # None /\ old.ver >= now.ver
    BY <1>1, <1>3 DEF Upcoming, Takes
  <2> QED BY <2>1, NewIsLatest
<1> QED BY <1>2, <1>3

\* Another target was told of k.
LEMMA QueryUntold ==
    ASSUME NEW q, NEW k \in Keys, NEW s, NEW v, NEW docs, NEW more, NEW sess, NEW cache,
           NEW now, QueryTrue(q, s, v, docs, sess, cache, now), now[k].ver \in Nat,
           now[k] # None, \A j \in Keys \ {k} : more[j] = docs[j], more[k] \in {docs[k], now[k]},
           cache[k] # None => cache[k].ver \in Nat /\ TrueDoc(cache[k], now[k])
    PROVE  QueryTrue(q, s, v, more, sess, cache, now)
<1>1. Documented(s, more)
  BY DEF QueryTrue, Documented
<1>2. Arriving(q, s, v, more, sess, cache, now)
  <2> SUFFICES ASSUME NEW j \in Keys, Matches(now[j], q), sess.sent[j] = now[j].ver
               PROVE  \/ Latest(Upcoming(more[j], cache[j]), now[j])
                      \/ /\ Upcoming(more[j], cache[j]) = None
                         /\ v.flawed \/ Miscounted(s, sess)
    BY DEF Arriving
  <2>1. CASE more[j] = docs[j]
    BY <2>1 DEF QueryTrue, Arriving
  <2>2. CASE j = k /\ more[k] = now[k]
    BY <2>2, NowUpcoming
  <2> QED BY <2>1, <2>2
<1> QED BY <1>1, <1>2 DEF QueryTrue

\* The query was told.
LEMMA QueryTold ==
    ASSUME NEW q, NEW k \in Keys, NEW s, NEW u, NEW v, NEW docs, NEW more, NEW sess, NEW new,
           NEW cache, NEW now, QueryTrue(q, s, v, docs, sess, cache, now),
           v.synced \in SUBSET Keys, now[k].ver \in Nat \ {0}, now[k] # None,
           Tells(s, u, v.synced, k, Matches(now[k], q)),
           Sends(sess, new, k, Matches(now[k], q), now[k].ver),
           \A j \in Keys \ {k} : more[j] = docs[j], Matches(now[k], q) => more[k] = now[k],
           cache[k] # None => cache[k].ver \in Nat /\ TrueDoc(cache[k], now[k])
    PROVE  QueryTrue(q, u, v, more, new, cache, now)
<1>1. PICK in, ver, known : in = Matches(now[k], q) /\ ver = now[k].ver /\ known = v.synced
  OBVIOUS
<1>2. Tells(s, u, known, k, in) /\ Sends(sess, new, k, in, ver) /\ known \in SUBSET Keys /\ ver # 0
  BY <1>1
<1>3. /\ Complete(s, known, sess) => Complete(u, known, new)
      /\ Miscounted(u, new) = Miscounted(s, sess)
  BY <1>2, TellsCollected
<1>4. Documented(u, more)
  <2> SUFFICES ASSUME NEW j \in Keys, u.docs[j] \in {"added", "modified"} PROVE more[j] # None
    BY DEF Documented
  <2>1. CASE j = k
    BY <1>1, <1>2, <2>1 DEF Tells
  <2>2. CASE j # k
    BY <1>2, <2>2 DEF Tells, QueryTrue, Documented
  <2> QED BY <2>1, <2>2
<1>5. Arriving(q, u, v, more, new, cache, now)
  <2> SUFFICES ASSUME NEW j \in Keys, Matches(now[j], q), new.sent[j] = now[j].ver
               PROVE  \/ Latest(Upcoming(more[j], cache[j]), now[j])
                      \/ /\ Upcoming(more[j], cache[j]) = None
                         /\ v.flawed \/ Miscounted(u, new)
    BY DEF Arriving
  <2>1. CASE j = k
    BY <2>1, NowUpcoming
  <2>2. CASE j # k
    <3>1. sess.sent[j] = new.sent[j] /\ more[j] = docs[j]
      BY <1>2, <2>2 DEF Sends
    <3>2. \/ Latest(Upcoming(docs[j], cache[j]), now[j])
          \/ Upcoming(docs[j], cache[j]) = None /\ (v.flawed \/ Miscounted(s, sess))
      BY <3>1 DEF QueryTrue, Arriving
    <3> QED BY <1>3, <3>1, <3>2
  <2> QED BY <2>1, <2>2
<1>6. v.flawed \/ Miscounted(u, new) \/ Complete(u, v.synced, new)
  BY <1>1, <1>3 DEF QueryTrue
<1>7. new.on
  BY <1>2 DEF Sends, QueryTrue
<1> QED BY <1>4, <1>5, <1>6, <1>7 DEF QueryTrue

\* A lookup was told.
LEMMA LookupTold ==
    ASSUME NEW k \in Keys, NEW s, NEW u, NEW known \in SUBSET Keys, NEW docs, NEW more,
           NEW sess, NEW new, LookupTrue(s, known, docs, sess), NEW in, NEW ver, ver # 0,
           Tells(s, u, known, k, in), Sends(sess, new, k, in, ver),
           \A j \in Keys \ {k} : more[j] = docs[j], in => more[k] # None
    PROVE  LookupTrue(u, known, more, new)
<1>1. Documented(u, more)
  BY DEF Documented, LookupTrue, Tells
<1>2. SentKeys(new) \subseteq Collected(u, known)
  BY TellsCollected DEF LookupTrue
<1>3. new.on
  BY DEF Sends, LookupTrue
<1> QED BY <1>1, <1>2, <1>3 DEF LookupTrue

\* What is collected of k is now the backend's document.
LEMMA PendingNow ==
    ASSUME Typed, ResultInv, NEW k \in Keys, NEW docs, NEW more,
           PendingTrue(docs, disk.last, history),
           \A j \in Keys \ {k} : more[j] = docs[j], more[k] \in {docs[k], history[Now][k]}
    PROVE  PendingTrue(more, disk.last, history)
<1> SUFFICES ASSUME more[k] = history[Now][k]
             PROVE  /\ more[k] = NoDocument(0) =>
                           history[Now][k].val = Gone \/ history[Now][k].ver > disk.last
                    /\ more[k] \notin {None, NoDocument(0)} =>
                           /\ more[k].ver <= Now /\ TrueDoc(more[k], history[Now][k])
                           /\ disk.last > 0 => more[k].ver >= history[disk.last][k].ver
  <2>1. Len(history) = Now
    BY DEF Now
  <2> QED BY <2>1 DEF PendingTrue
<1>1. /\ Now \in Nat \ {0} /\ disk.last \in 0..Now /\ Dated(history) /\ Len(history) = Now
      /\ history[Now][k].ver \in 1..Now
  BY ToldTypes
<1>2. history[Now][k] # NoDocument(0)
  BY <1>1 DEF NoDocument, Doc
<1>3. ASSUME disk.last > 0 PROVE history[Now][k].ver >= history[disk.last][k].ver
  <2>1. disk.last \in 1..Len(history) /\ Now \in disk.last..Len(history)
    BY <1>1, <1>3
  <2>2. history[disk.last][k].ver <= history[Now][k].ver /\ history[disk.last][k].ver \in 1..disk.last
    BY <1>1, <2>1, Versions
  <2> QED BY <1>1, <2>2
<1> QED BY <1>1, <1>2, <1>3 DEF TrueDoc

\* The types of what the messages are about.
LEMMA HearsTypes ==
    ASSUME WatchInv, ResultInv
    PROVE  /\ client.agg \in Aggregators(Now)
           /\ \A q \in Queries : Known[q] = views[q].synced /\ views[q].synced \in SUBSET Keys
           /\ \A n \in LimboIds : /\ Known[n] = LookupKeys(client, n)
                                  /\ LookupKeys(client, n) \in SUBSET Keys
           /\ \A k \in Keys : /\ history[Now][k].ver \in Nat \ {0}
                              /\ history[Now][k] # None
                              /\ disk.cache[k] # None =>
                                     /\ disk.cache[k].ver \in Nat
                                     /\ TrueDoc(disk.cache[k], history[Now][k])
<1>1. Typed /\ client.agg \in Aggregators(Now)
  BY DEF WatchInv, ClientInv, ClientCore, Clients
<1>2. \A n \in LimboIds : /\ Known[n] = LookupKeys(client, n)
                          /\ LookupKeys(client, n) \in SUBSET Keys
  BY LimboKey DEF Known, RemoteKeys, IsDocumentQuery, Targets, LookupKeys
<1>3. \A q \in Queries : Known[q] = views[q].synced /\ views[q].synced \in SUBSET Keys
  <2>1. \A q \in Queries : q \notin LimboIds
    BY WatchAssumption
  <2>2. \A q \in Queries : views[q].synced \in SUBSET Keys
    BY <1>1 DEF Typed, Views
  <2> QED BY <2>1, <2>2 DEF Known, RemoteKeys, IsDocumentQuery, Targets
<1>4. ASSUME NEW k \in Keys
      PROVE  /\ history[Now][k].ver \in Nat \ {0} /\ history[Now][k] # None
             /\ disk.cache[k] # None =>
                    /\ disk.cache[k].ver \in Nat
                    /\ TrueDoc(disk.cache[k], history[Now][k])
  <2>1. Now \in Nat \ {0} /\ history[Now][k].ver \in 1..Now /\ disk.cache \in [Keys -> Cached]
    BY <1>1, ToldTypes
  <2>2. disk.cache[k] # None => disk.cache[k].ver \in Nat
    BY <2>1 DEF Cached
  <2>3. disk.cache[k] # None => TrueDoc(disk.cache[k], history[Now][k])
    BY DEF ResultInv, CacheTrue
  <2>4. history[Now][k] # None
    BY <1>1, ToldTypes, DocumentAssumption
  <2> QED BY <2>1, <2>2, <2>3, <2>4
<1> QED BY <1>1, <1>2, <1>3, <1>4

\* A change of k is told to the targets it is news to.
LEMMA SendDocumentResult ==
    ASSUME WatchInv, ResultInv, NEW k \in Keys, SendDocument(k)
    PROVE  ResultInv'
<1> DEFINE told == {t \in Targets : News(t, k)}
           updated == {t \in told : k \in Content(t, Now)}
           ver == history[Now][k].ver
<1>1. PICK doc \in {history[Now][k], None} :
          /\ updated # {} => doc # None
          /\ Hears(HandleDocumentChange(client.agg, client.listens, Known,
                                        updated, told \ updated, k, doc))
  BY Zenon DEF SendDocument
<1>2. PICK a : a = HandleDocumentChange(client.agg, client.listens, Known,
                                        updated, told \ updated, k, doc)
  OBVIOUS
<1>3. Hears(a)
  BY <1>1, <1>2
<1>4. server' = [server EXCEPT !.session = [t \in Targets |->
                    IF t \in told
                    THEN [@[t] EXCEPT !.sent[k] = IF t \in updated THEN ver ELSE 0]
                    ELSE @[t]]]
  BY Zenon DEF SendDocument
<1>5. Typed /\ ServerTyped /\ Now \in Nat \ {0} /\ ver \in 1..Now
  BY ToldTypes DEF WatchInv, ResultInv
<1>6. /\ client.agg \in Aggregators(Now) /\ ver # 0 /\ history[Now][k] # None
      /\ ver \in Nat \ {0}
      /\ disk.cache[k] # None =>
             disk.cache[k].ver \in Nat /\ TrueDoc(disk.cache[k], history[Now][k])
  BY HearsTypes
<1>7. \A t \in Targets : (t \in updated) = (t \in told /\ k \in Content(t, Now))
  OBVIOUS
<1>8. updated \cup (told \ updated) = told
  OBVIOUS
<1>9. \A t \in Targets : t \in told <=>
          /\ server.session[t].on
          /\ server.session[t].sent[k] # (IF k \in Content(t, Now) THEN ver ELSE 0)
  BY DEF News
<1>10. TellsDocument(client.agg, a, client.listens, Known, updated, told \ updated, k, doc)
  <2> HIDE DEF told, updated
  <2> QED BY <1>2, <1>6, DocumentFields
<1> HIDE DEF told, updated, ver
<1> DEFINE new == [t \in Targets |->
                      IF t \in told
                      THEN [server.session[t] EXCEPT !.sent[k] = IF t \in updated THEN ver ELSE 0]
                      ELSE server.session[t]]
<1>11. server' = [server EXCEPT !.session = new]
  BY <1>4
<1>12. ASSUME NEW t \in Targets
       PROVE  /\ new[t] \in Sessions(Now)
              /\ t \notin told => new[t] = server.session[t]
              /\ t \in told => Sends(server.session[t], new[t], k, t \in updated, ver)
  <2>1. PICK sess, N, x : /\ sess = server.session[t] /\ N = Now
                          /\ x = IF t \in updated THEN ver ELSE 0
    OBVIOUS
  <2>2. sess \in Sessions(N) /\ x \in 0..N
    BY <1>5, <2>1, ToldTypes
  <2>3. new[t] = IF t \in told THEN [sess EXCEPT !.sent[k] = x] ELSE sess
    BY <2>1
  <2> HIDE DEF new
  <2>4. new[t] \in Sessions(N)
    BY <2>2, <2>3 DEF Sessions
  <2>5. ASSUME t \in told PROVE Sends(sess, new[t], k, t \in updated, ver)
    BY <2>1, <2>2, <2>3, <2>5 DEF Sessions, Sends
  <2> QED BY <2>1, <2>3, <2>4, <2>5
<1>13. ServerTyped' /\ history' = history /\ server'.session = new
  <2>1. new \in [Targets -> Sessions(Now)]
    BY <1>12
  <2> HIDE DEF new
  <2>2. PICK N : N = Now /\ N \in Nat
    BY <1>5
  <2>3. server \in [history : Histories, horizon : Nat, session : [Targets -> Sessions(N)]]
    BY <1>5, <2>2 DEF ServerTyped
  <2>4. /\ server' \in [history : Histories, horizon : Nat, session : [Targets -> Sessions(N)]]
        /\ server'.history = server.history /\ server'.session = new
    BY <1>11, <2>1, <2>2, <2>3
  <2>5. history' = history
    BY <2>4 DEF history
  <2>6. Now' = N
    BY <2>2, <2>5 DEF Now
  <2> QED BY <2>4, <2>5, <2>6 DEF ServerTyped
<1> HIDE DEF new
<1>14. /\ \A j \in Keys \ {k} : a.docs[j] = client.agg.docs[j]
       /\ \A t \in Targets : /\ IsActive(a, client.listens, t) <=>
                                    IsActive(client.agg, client.listens, t)
                             /\ t \notin told => a.targets[t] = client.agg.targets[t]
                             /\ t \in told /\ IsActive(a, client.listens, t) =>
                                    Tells(client.agg.targets[t], a.targets[t], Known[t], k,
                                          t \in updated)
       /\ a.docs[k] = client.agg.docs[k] \/ (doc # None /\ a.docs[k] = doc)
       /\ doc = None \/ \A t \in told : IsActive(a, client.listens, t) => a.docs[k] = doc
  <2>1. PICK heard : heard = {t \in told : IsActive(client.agg, client.listens, t)}
    OBVIOUS
  <2>2. /\ \A t \in Targets :
               /\ a.targets[t].out = client.agg.targets[t].out
               /\ t \notin heard => a.targets[t] = client.agg.targets[t]
               /\ t \in heard =>
                      Tells(client.agg.targets[t], a.targets[t], Known[t], k, t \in updated)
        /\ \A j \in Keys \ {k} : a.docs[j] = client.agg.docs[j]
        /\ a.docs[k] = IF heard = {} \/ doc = None THEN client.agg.docs[k] ELSE doc
    BY <1>8, <1>10, <2>1 DEF TellsDocument
  <2>3. \A t \in Targets : IsActive(a, client.listens, t) <=>
                                IsActive(client.agg, client.listens, t)
    BY <2>2 DEF IsActive
  <2>4. told \subseteq Targets
    BY DEF told
  <2> QED BY <2>1, <2>2, <2>3, <2>4
<1>15. IsOpen(stream) /\ QueriesTrue /\ LimboTrue
  BY <1>3 DEF Hears, ResultInv, TargetsTrue
<1>16. a.docs[k] \in {client.agg.docs[k], history[Now][k]}
  BY <1>1, <1>14
<1>17. PendingTrue(a.docs, disk.last, history)
  <2>1. PendingTrue(client.agg.docs, disk.last, history)
    BY DEF ResultInv
  <2> QED BY <1>5, <1>14, <1>16, <2>1, PendingNow
<1>18. ASSUME NEW q \in Queries, IsActive(a, client.listens, q)
       PROVE  QueryTrue(q, a.targets[q], views[q], a.docs, server'.session[q], disk.cache,
                        history[Now])
  <2>1. q \in Targets /\ Known[q] = views[q].synced /\ views[q].synced \in SUBSET Keys
    BY HearsTypes DEF Targets
  <2>2. QueryTrue(q, client.agg.targets[q], views[q], client.agg.docs, server.session[q],
                  disk.cache, history[Now])
    BY <1>14, <1>15, <1>18, <2>1 DEF QueriesTrue
  <2>3. k \in Content(q, Now) <=> Matches(history[Now][k], q)
    BY QueryContent
  <2>4. CASE q \notin told
    <3>1. a.targets[q] = client.agg.targets[q] /\ server'.session[q] = server.session[q]
      BY <1>12, <1>13, <1>14, <2>1, <2>4
    <3>2. ver \in Nat /\ ver = history[Now][k].ver
      BY <1>6 DEF ver
    <3> QED BY <1>6, <1>14, <1>16, <2>2, <3>1, <3>2, QueryUntold
  <2>5. CASE q \in told
    <3>1. (q \in updated) = Matches(history[Now][k], q)
      BY <1>7, <2>1, <2>3, <2>5 DEF Matches, updated
    <3>2. ver = history[Now][k].ver
      BY DEF ver
    <3>3. Tells(client.agg.targets[q], a.targets[q], views[q].synced, k,
                Matches(history[Now][k], q))
      BY <1>14, <1>18, <2>1, <2>5, <3>1
    <3>4. Sends(server.session[q], server'.session[q], k, Matches(history[Now][k], q),
                history[Now][k].ver)
      BY <1>12, <1>13, <2>1, <2>5, <3>1, <3>2
    <3>5. Matches(history[Now][k], q) => a.docs[k] = history[Now][k]
      <4>1. ASSUME q \in updated PROVE doc = history[Now][k]
        BY <1>1, <4>1
      <4> QED BY <1>6, <1>14, <1>18, <2>5, <3>1, <4>1
    <3>6. PICK v, docs, more, now, cache, s, u, sess, nsess :
              /\ v = views[q] /\ docs = client.agg.docs /\ more = a.docs /\ now = history[Now]
              /\ cache = disk.cache /\ s = client.agg.targets[q] /\ u = a.targets[q]
              /\ sess = server.session[q] /\ nsess = server'.session[q]
      OBVIOUS
    <3>7. /\ QueryTrue(q, s, v, docs, sess, cache, now) /\ v.synced \in SUBSET Keys
          /\ now[k].ver \in Nat \ {0} /\ now[k] # None
          /\ Tells(s, u, v.synced, k, Matches(now[k], q))
          /\ Sends(sess, nsess, k, Matches(now[k], q), now[k].ver)
          /\ \A j \in Keys \ {k} : more[j] = docs[j]
          /\ Matches(now[k], q) => more[k] = now[k]
          /\ cache[k] # None => cache[k].ver \in Nat /\ TrueDoc(cache[k], now[k])
      BY <1>6, <1>14, <2>1, <2>2, <3>2, <3>3, <3>4, <3>5, <3>6
    <3>8. QueryTrue(q, u, v, more, nsess, cache, now)
      BY ONLY <3>7, QueryTold
    <3> QED BY <3>6, <3>8
  <2> QED BY <2>4, <2>5
<1>19. ASSUME NEW n \in LimboIds, IsActive(a, client.listens, n)
       PROVE  LookupTrue(a.targets[n], LookupKeys(client, n), a.docs, server'.session[n])
  <2>1. n \in Targets /\ Known[n] = LookupKeys(client, n) /\ LookupKeys(client, n) \in SUBSET Keys
    BY HearsTypes DEF Targets
  <2>2. LookupTrue(client.agg.targets[n], LookupKeys(client, n), client.agg.docs,
                   server.session[n])
    BY <1>14, <1>15, <1>19, <2>1 DEF LimboTrue
  <2>3. CASE n \notin told
    <3>1. a.targets[n] = client.agg.targets[n] /\ server'.session[n] = server.session[n]
      BY <1>12, <1>13, <1>14, <2>1, <2>3
    <3>2. \A j \in Keys : client.agg.docs[j] # None => a.docs[j] # None
      BY <1>14
    <3> QED BY <2>2, <3>1, <3>2 DEF LookupTrue, Documented
  <2>4. CASE n \in told
    <3>1. Tells(client.agg.targets[n], a.targets[n], LookupKeys(client, n), k, n \in updated)
      BY <1>14, <1>19, <2>1, <2>4
    <3>2. Sends(server.session[n], server'.session[n], k, n \in updated, ver)
      BY <1>12, <1>13, <2>1, <2>4
    <3>3. n \in updated => a.docs[k] # None
      BY <1>1, <1>14, <1>19, <2>4
    <3>4. PICK docs, more, s, u, sess, nsess, known, in :
              /\ docs = client.agg.docs /\ more = a.docs /\ s = client.agg.targets[n]
              /\ u = a.targets[n] /\ sess = server.session[n] /\ nsess = server'.session[n]
              /\ known = LookupKeys(client, n) /\ in = (n \in updated)
      OBVIOUS
    <3>5. /\ known \in SUBSET Keys /\ LookupTrue(s, known, docs, sess) /\ ver # 0
          /\ Tells(s, u, known, k, in) /\ Sends(sess, nsess, k, in, ver)
          /\ \A j \in Keys \ {k} : more[j] = docs[j]
          /\ in => more[k] # None
      BY <1>6, <1>14, <2>1, <2>2, <3>1, <3>2, <3>3, <3>4
    <3>6. LookupTrue(u, known, more, nsess)
      BY ONLY <3>5, LookupTold
    <3> QED BY <3>4, <3>6
  <2> QED BY <2>3, <2>4
<1> QED BY <1>3, <1>13, <1>17, <1>18, <1>19, HearsResult

\* What counts of what is collected, and was sent, is the same.
LEMMA QuerySame ==
    ASSUME NEW q, NEW s, NEW u, NEW v, NEW docs, NEW sess, NEW new, NEW cache, NEW now,
           QueryTrue(q, s, v, docs, sess, cache, now), u.docs = s.docs,
           new.on = sess.on, new.due = sess.due, new.sent = sess.sent,
           Miscounted(s, sess) => Miscounted(u, new)
    PROVE  QueryTrue(q, u, v, docs, new, cache, now)
<1>1. /\ \A known : Collected(u, known) = Collected(s, known)
      /\ SentKeys(new) = SentKeys(sess)
  BY DEF Collected, Marked, SentKeys
<1>2. Documented(u, docs)
  BY DEF QueryTrue, Documented
<1>3. Arriving(q, u, v, docs, new, cache, now)
  BY DEF QueryTrue, Arriving
<1>4. v.flawed \/ Miscounted(u, new) \/ Complete(u, v.synced, new)
  BY <1>1 DEF QueryTrue, Complete
<1> QED BY <1>2, <1>3, <1>4 DEF QueryTrue

\* b is a where t was told that it is current.
TellsCurrent(a, b, L, t) ==
    /\ b.docs = a.docs
    /\ \A u \in Targets : /\ b.targets[u].out = a.targets[u].out
                          /\ b.targets[u].docs = a.targets[u].docs
                          /\ u # t => b.targets[u] = a.targets[u]
    /\ IsActive(a, L, t) => b.targets[t].current

\* TargetCurrent does that.
LEMMA CurrentFields ==
    ASSUME NEW N, NEW a \in Aggregators(N), NEW L, NEW t \in Targets, NEW tok, NEW b,
           b = TargetCurrent(a, L, t, tok)
    PROVE  TellsCurrent(a, b, L, t)
<1> DEFINE o == a.targets[t]
           m == [o EXCEPT !.changed = TRUE, !.current = TRUE]
           s == UpdateResumeToken(m, tok)
<1>1. b = IF IsActive(a, L, t) THEN [a EXCEPT !.targets[t] = s] ELSE a
  BY Zenon DEF TargetCurrent
<1>2. o \in TargetStates(N) /\ a.targets \in [Targets -> TargetStates(N)]
  BY DEF Aggregators
<1> HIDE DEF o
<1>3. m.out = o.out /\ m.docs = o.docs /\ m.current /\ DOMAIN m = DOMAIN o
  BY <1>2 DEF TargetStates
<1> HIDE DEF m
<1>4. s.out = o.out /\ s.docs = o.docs /\ s.current
  <2>1. s = m \/ s = [m EXCEPT !.changed = TRUE, !.token = tok]
    BY DEF UpdateResumeToken
  <2> HIDE DEF s
  <2> QED BY <1>2, <1>3, <2>1 DEF TargetStates
<1> HIDE DEF s
<1>5. CASE ~IsActive(a, L, t)
  BY <1>1, <1>5 DEF TellsCurrent
<1>6. CASE IsActive(a, L, t)
  <2>1. b = [a EXCEPT !.targets[t] = s]
    BY <1>1, <1>6
  <2>2. b.docs = a.docs /\ b.targets = [a.targets EXCEPT ![t] = s]
    BY <2>1 DEF Aggregators
  <2>3. b.targets[t] = s /\ \A u \in Targets \ {t} : b.targets[u] = a.targets[u]
    BY <1>2, <2>2
  <2>4. s.out = a.targets[t].out /\ s.docs = a.targets[t].docs
    BY <1>4 DEF o
  <2> QED BY <1>4, <2>2, <2>3, <2>4 DEF TellsCurrent
<1> QED BY <1>5, <1>6

\* To be current is told once what was sent is collected.
LEMMA SendCurrentResult ==
    ASSUME WatchInv, ResultInv, NEW t \in Targets, SendCurrent(t)
    PROVE  ResultInv'
<1>1. PICK a : a = TargetCurrent(client.agg, client.listens, t, Now)
  OBVIOUS
<1>2. PICK sess, new : sess = server.session[t] /\ new = [sess EXCEPT !.cur = TRUE]
  OBVIOUS
<1>3. /\ Hears(a) /\ ~sess.cur
      /\ server' = [server EXCEPT !.session[t].cur = TRUE]
  BY <1>1, <1>2 DEF SendCurrent
<1>4. Typed /\ ServerTyped /\ sess \in Sessions(Now)
  BY <1>2, ToldTypes DEF WatchInv, ResultInv
<1>5. /\ new \in Sessions(Now) /\ new.on = sess.on /\ new.due = sess.due
      /\ new.sent = sess.sent
  BY <1>2, <1>4 DEF Sessions
<1>6. server' = [server EXCEPT !.session[t] = new]
  BY <1>2, <1>3
<1>7. /\ ServerTyped' /\ history' = history /\ server'.session[t] = new
      /\ \A u \in Targets \ {t} : server'.session[u] = server.session[u]
  BY <1>4, <1>5, <1>6, ServerResumes
<1>8. client.agg \in Aggregators(Now)
  BY HearsTypes
<1>9. TellsCurrent(client.agg, a, client.listens, t)
  BY <1>1, <1>8, CurrentFields
<1>10. IsOpen(stream) /\ QueriesTrue /\ LimboTrue
  BY <1>3 DEF Hears, ResultInv, TargetsTrue
<1>11. \A u \in Targets : /\ IsActive(a, client.listens, u) <=>
                                 IsActive(client.agg, client.listens, u)
                          /\ a.targets[u].docs = client.agg.targets[u].docs
                          /\ u # t => a.targets[u] = client.agg.targets[u]
                          /\ server'.session[u].on = server.session[u].on
                          /\ server'.session[u].due = server.session[u].due
                          /\ server'.session[u].sent = server.session[u].sent
  BY <1>2, <1>5, <1>7, <1>9 DEF TellsCurrent, IsActive
<1>12. PendingTrue(a.docs, disk.last, history)
  BY <1>9 DEF TellsCurrent, ResultInv
<1>13. ASSUME NEW q \in Queries, IsActive(a, client.listens, q)
       PROVE  QueryTrue(q, a.targets[q], views[q], a.docs, server'.session[q], disk.cache,
                        history[Now])
  <2>1. q \in Targets /\ IsActive(client.agg, client.listens, q)
    BY <1>11, <1>13 DEF Targets
  <2>2. PICK s, u, x, y : /\ s = client.agg.targets[q] /\ u = a.targets[q]
                          /\ x = server.session[q] /\ y = server'.session[q]
    OBVIOUS
  <2>3. QueryTrue(q, s, views[q], client.agg.docs, x, disk.cache, history[Now])
    BY <1>10, <2>1, <2>2 DEF QueriesTrue
  <2>4. u.docs = s.docs /\ y.on = x.on /\ y.due = x.due /\ y.sent = x.sent
    BY <1>11, <2>1, <2>2
  <2>5. Miscounted(s, x) => Miscounted(u, y)
    BY <1>2, <1>3, <1>7, <1>11, <2>1, <2>2 DEF Miscounted
  <2>6. a.docs = client.agg.docs
    BY <1>9 DEF TellsCurrent
  <2> QED BY <2>2, <2>3, <2>4, <2>5, <2>6, QuerySame
<1>14. ASSUME NEW n \in LimboIds, IsActive(a, client.listens, n)
       PROVE  LookupTrue(a.targets[n], LookupKeys(client, n), a.docs, server'.session[n])
  <2>1. n \in Targets /\ IsActive(client.agg, client.listens, n)
    BY <1>11, <1>14 DEF Targets
  <2>2. LookupTrue(client.agg.targets[n], LookupKeys(client, n), client.agg.docs,
                   server.session[n])
    BY <1>10, <2>1 DEF LimboTrue
  <2>3. a.docs = client.agg.docs
    BY <1>9 DEF TellsCurrent
  <2> QED BY <1>11, <2>1, <2>2, <2>3 DEF LookupTrue, Documented, Collected, Marked, SentKeys
<1> QED BY <1>3, <1>7, <1>12, <1>13, <1>14, HearsResult

\* A count that matches is of what is collected.
LEMMA CountMatches ==
    ASSUME NEW s, NEW known \in SUBSET Keys, Fits(s, known), NEW want \in SUBSET Keys,
           want \subseteq Collected(s, known),
           Cardinality(known) + Cardinality(Marked(s, "added"))
                              - Cardinality(Marked(s, "removed")) = Cardinality(want)
    PROVE  Collected(s, known) = want
<1> DEFINE in == Marked(s, "added")
           out == Marked(s, "removed")
           all == Collected(s, known)
<1>1. IsFiniteSet(Keys)
  BY WatchAssumption
<1>2. /\ IsFiniteSet(known) /\ IsFiniteSet(in) /\ IsFiniteSet(out) /\ IsFiniteSet(want)
      /\ IsFiniteSet(known \ out) /\ IsFiniteSet(all)
  <2>1. in \subseteq Keys /\ out \subseteq Keys /\ all \subseteq Keys /\ known \ out \subseteq Keys
    BY DEF Marked, Collected
  <2> QED BY <1>1, <2>1, FS_Subset
<1>3. in \cap known = {} /\ out \subseteq known
  BY DEF Fits
<1>4. all = (known \ out) \cup in
  BY DEF Collected
<1> HIDE DEF in, out, all
<1>5. /\ Cardinality(known) \in Nat /\ Cardinality(in) \in Nat /\ Cardinality(out) \in Nat
      /\ Cardinality(want) \in Nat /\ Cardinality(all) \in Nat
      /\ Cardinality(known \ out) \in Nat
  BY <1>2, FS_CardinalityType
<1>6. Cardinality(known \ out) = Cardinality(known) - Cardinality(out)
  <2>1. known \cap out = out
    BY <1>3
  <2>2. Cardinality(known \ out) = Cardinality(known) - Cardinality(known \cap out)
    BY <1>2, FS_Difference
  <2> QED BY <2>1, <2>2
<1>7. Cardinality(all) = Cardinality(known \ out) + Cardinality(in)
  <2>1. (known \ out) \cap in = {}
    BY <1>3
  <2>2. Cardinality((known \ out) \cup in) =
            Cardinality(known \ out) + Cardinality(in) - Cardinality((known \ out) \cap in)
    BY <1>2, FS_Union
  <2>3. Cardinality((known \ out) \cap in) = 0
    BY <2>1, FS_EmptySet
  <2> QED BY <1>4, <1>5, <2>2, <2>3
<1>8. Cardinality(all) = Cardinality(want)
  <2>1. Cardinality(known) + Cardinality(in) - Cardinality(out) = Cardinality(want)
    BY DEF in, out
  <2> QED BY <1>5, <1>6, <1>7, <2>1
<1>9. want \subseteq all
  BY DEF all
<1> QED BY <1>2, <1>5, <1>8, <1>9, FS_Subset DEF all

\* The backend has sent t its content.
LEMMA SentIsContent ==
    ASSUME Typed, ResultInv, NEW t \in Targets, server.session[t].on, ~HasNews(t)
    PROVE  /\ SentKeys(server.session[t]) = Content(t, Now)
           /\ \A k \in Content(t, Now) : server.session[t].sent[k] = history[Now][k].ver
<1>1. \A k \in Keys : history[Now][k].ver \in 1..Now /\ Now \in Nat
  BY ToldTypes
<1>2. \A k \in Keys : server.session[t].sent[k] =
                          IF k \in Content(t, Now) THEN history[Now][k].ver ELSE 0
  BY DEF HasNews, News
<1>3. Content(t, Now) \subseteq Keys
  BY DEF Content
<1>4. \A k \in Keys : history[Now][k].ver # 0
  BY <1>1
<1> QED BY <1>2, <1>3, <1>4 DEF SentKeys

\* A count that resets t.
ResetBy(a, b, known, t) ==
    /\ b.docs = a.docs
    /\ \A u \in Targets : /\ b.targets[u].out = 0 <=> a.targets[u].out = 0
                          /\ u # t => b.targets[u] = a.targets[u]
    /\ ~b.targets[t].current
    /\ \A k \in Keys : b.targets[t].docs[k] \notin {"added", "modified"}

\* HandleExistenceFilter does nothing, or takes the document looked up for gone, or
\* resets a query.
LEMMA FilterFields ==
    ASSUME NEW N, NEW a \in Aggregators(N), NEW L, NEW known, NEW t \in Targets, NEW count,
           NEW b, b = HandleExistenceFilter(a, L, known, t, count)
    PROVE  \/ /\ b = a
              /\ t \in Queries /\ IsActive(a, L, t) => CurrentCount(a, known, t) = count
           \/ /\ t \in LimboIds /\ IsActive(a, L, t) /\ count = 0
              /\ TellsDocument(a, b, L, known, {}, {t}, KeyOf(t), NoDocument(0))
           \/ t \in Queries /\ IsActive(a, L, t) /\ ResetBy(a, b, known, t)
<1>1. CASE ~IsActive(a, L, t)
  BY <1>1 DEF HandleExistenceFilter
<1>2. CASE IsActive(a, L, t) /\ IsDocumentQuery(t)
  <2>1. t \in LimboIds /\ t \notin Queries /\ KeyOf(t) \in Keys
    BY <1>2, LimboKey, WatchAssumption DEF IsDocumentQuery
  <2>2. CASE count = 0
    <3>1. b = HandleDocumentChange(a, L, known, {}, {t}, KeyOf(t), NoDocument(0))
      BY <1>2, <2>2 DEF HandleExistenceFilter, Absent
    <3>2. TellsDocument(a, b, L, known, {}, {t}, KeyOf(t), NoDocument(0))
      BY <2>1, <3>1, DocumentFields
    <3> QED BY <1>2, <2>1, <2>2, <3>2
  <2>3. CASE count # 0
    BY <1>2, <2>1, <2>3 DEF HandleExistenceFilter
  <2> QED BY <2>2, <2>3
<1>3. CASE IsActive(a, L, t) /\ ~IsDocumentQuery(t)
  <2>1. t \in Queries
    BY <1>3 DEF IsDocumentQuery, Targets
  <2>2. CASE CurrentCount(a, known, t) = count
    BY <1>3, <2>2 DEF HandleExistenceFilter
  <2>3. CASE CurrentCount(a, known, t) # count
    <3> DEFINE s == [NewTarget EXCEPT !.docs = [k \in Keys |->
                         IF k \in known[t] THEN "removed" ELSE "same"]]
               c == [a EXCEPT !.targets[t] = s]
    <3>1. b = [c EXCEPT !.resets = @ \cup {t}]
      BY <1>3, <2>3 DEF HandleExistenceFilter, ResetTarget
    <3>2. /\ s.out = 0 /\ ~s.current
          /\ \A k \in Keys : s.docs[k] \notin {"added", "modified"}
      BY DEF NewTarget
    <3> HIDE DEF s
    <3>3. c.targets = [a.targets EXCEPT ![t] = s] /\ c.docs = a.docs /\ DOMAIN c = DOMAIN a
      BY DEF Aggregators
    <3> HIDE DEF c
    <3>4. b.targets = [a.targets EXCEPT ![t] = s] /\ b.docs = a.docs
      BY <3>1, <3>3 DEF Aggregators
    <3>5. a.targets \in [Targets -> TargetStates(N)] /\ a.targets[t].out = 0
      BY <1>3 DEF Aggregators, IsActive
    <3>6. ResetBy(a, b, known, t)
      BY <3>2, <3>4, <3>5 DEF ResetBy
    <3> QED BY <1>3, <2>1, <3>6
  <2> QED BY <2>2, <2>3
<1> QED BY <1>1, <1>2, <1>3

\* The count is due no more, and nothing new is collected.
LEMMA FilterMatches ==
    ASSUME WatchInv, ResultInv, NEW q \in Queries, IsActive(client.agg, client.listens, q),
           IsOpen(stream), ~HasNews(q),
           CurrentCount(client.agg, Known, q) = Cardinality(Content(q, Now)),
           NEW new, new.on = server.session[q].on, new.cur = server.session[q].cur,
           new.sent = server.session[q].sent
    PROVE  QueryTrue(q, client.agg.targets[q], views[q], client.agg.docs, new, disk.cache,
                     history[Now])
<1>1. PICK s, v, sess : /\ s = client.agg.targets[q] /\ v = views[q]
                        /\ sess = server.session[q]
  OBVIOUS
<1>2. QueryTrue(q, s, v, client.agg.docs, sess, disk.cache, history[Now])
  BY <1>1 DEF ResultInv, TargetsTrue, QueriesTrue
<1>3. Miscounted(s, sess) = Miscounted(s, new) /\ SentKeys(new) = SentKeys(sess)
  BY <1>1 DEF Miscounted, SentKeys
<1>4. Arriving(q, s, v, client.agg.docs, new, disk.cache, history[Now])
  BY <1>1, <1>2, <1>3 DEF QueryTrue, Arriving
<1>5. ASSUME Complete(s, v.synced, sess) PROVE Complete(s, v.synced, new)
  <2>1. SentKeys(sess) = Content(q, Now) /\ q \in Targets
    <3>1. sess.on /\ q \in Targets /\ Typed
      BY <1>2 DEF QueryTrue, Targets, WatchInv
    <3> QED BY <1>1, <3>1, SentIsContent
  <2>2. Known[q] = v.synced /\ v.synced \in SUBSET Keys
    BY <1>1, HearsTypes
  <2>3. Fits(s, v.synced)
    <3>1. TargetSound(client, SyncedKeys, q)
      BY <2>1 DEF WatchInv, ClientInv, ClientCore
    <3>2. Fits(s, Known[q])
      BY <1>1, <3>1 DEF TargetSound, IsActive, Known, SyncedKeys
    <3> QED BY <2>2, <3>2
  <2>4. Cardinality(v.synced) + Cardinality(Marked(s, "added"))
                              - Cardinality(Marked(s, "removed")) = Cardinality(SentKeys(sess))
    BY <1>1, <2>1, <2>2 DEF CurrentCount
  <2>5. SentKeys(sess) \subseteq Collected(s, v.synced) /\ SentKeys(sess) \in SUBSET Keys
    BY <1>5 DEF Complete, SentKeys
  <2>6. Collected(s, v.synced) = SentKeys(sess)
    BY <2>2, <2>3, <2>4, <2>5, CountMatches
  <2> QED BY <1>3, <2>5, <2>6 DEF Complete
<1>6. v.flawed \/ Miscounted(s, new) \/ Complete(s, v.synced, new)
  BY <1>2, <1>3, <1>5 DEF QueryTrue
<1>7. new.on /\ Documented(s, client.agg.docs) /\ Showing(q, v, disk.cache, history[Now])
  BY <1>1, <1>2 DEF QueryTrue
<1> QED BY <1>1, <1>4, <1>6, <1>7 DEF QueryTrue

\* A document that is not of the result is gone.
LEMMA QueryGone ==
    ASSUME NEW q, NEW k \in Keys, NEW s, NEW v, NEW docs, NEW more, NEW sess, NEW cache,
           NEW now, QueryTrue(q, s, v, docs, sess, cache, now), ~Matches(now[k], q),
           \A j \in Keys \ {k} : more[j] = docs[j], more[k] # None
    PROVE  QueryTrue(q, s, v, more, sess, cache, now)
<1>1. Documented(s, more)
  BY DEF QueryTrue, Documented
<1>2. Arriving(q, s, v, more, sess, cache, now)
  BY DEF QueryTrue, Arriving
<1> QED BY <1>1, <1>2 DEF QueryTrue

\* A target in mismatch starts anew.
LEMMA QueryReset ==
    ASSUME NEW q, NEW s, NEW u, NEW v, NEW docs, NEW sess, NEW new, NEW cache,
           NEW now, QueryTrue(q, s, v, docs, sess, cache, now), Miscounted(u, new),
           \A k \in Keys : u.docs[k] \notin {"added", "modified"},
           new.on = sess.on, new.sent = sess.sent
    PROVE  QueryTrue(q, u, v, docs, new, cache, now)
<1>1. Arriving(q, u, v, docs, new, cache, now)
  BY DEF QueryTrue, Arriving
<1> QED BY <1>1 DEF QueryTrue, Documented

\* A lookup is told that its document is gone.
LEMMA LookupGone ==
    ASSUME NEW k \in Keys, NEW s, NEW u, NEW known \in SUBSET Keys, NEW docs, NEW more,
           NEW sess, LookupTrue(s, known, docs, sess), sess.sent[k] = 0,
           Tells(s, u, known, k, FALSE), \A j \in Keys \ {k} : more[j] = docs[j]
    PROVE  LookupTrue(u, known, more, sess)
<1>1. Documented(u, more)
  BY DEF Documented, LookupTrue, Tells
<1>2. SentKeys(sess) \subseteq Collected(u, known)
  BY DEF LookupTrue, Tells, SentKeys, Collected, Marked
<1> QED BY <1>1, <1>2 DEF LookupTrue

\* A document looked up is taken for gone: it is.
LEMMA FilterGone ==
    ASSUME WatchInv, ResultInv, NEW t \in LimboIds, IsOpen(stream), ~HasNews(t),
           Content(t, Now) = {}, NEW a, IsActive(client.agg, client.listens, t),
           TellsDocument(client.agg, a, client.listens, Known, {}, {t}, KeyOf(t), NoDocument(0)),
           NEW new, new.on = server.session[t].on, new.sent = server.session[t].sent
    PROVE  /\ PendingTrue(a.docs, disk.last, history)
           /\ \A q \in Queries : IsActive(a, client.listens, q) =>
                  QueryTrue(q, a.targets[q], views[q], a.docs, server.session[q], disk.cache,
                            history[Now])
           /\ \A n \in LimboIds : IsActive(a, client.listens, n) =>
                  LookupTrue(a.targets[n], LookupKeys(client, n), a.docs,
                             IF n = t THEN new ELSE server.session[n])
<1>1. PICK k : k = KeyOf(t)
  OBVIOUS
<1>2. /\ k \in Keys /\ t \in Targets /\ t \notin Queries /\ history[Now][k].val = Gone
      /\ NoDocument(0) # None
  BY <1>1, LookupContent, WatchAssumption DEF Targets
<1>3. /\ QueriesTrue /\ LimboTrue /\ Typed
  BY DEF ResultInv, TargetsTrue, WatchInv
<1>4. /\ \A u \in Targets : /\ IsActive(a, client.listens, u) <=>
                                   IsActive(client.agg, client.listens, u)
                            /\ u # t => a.targets[u] = client.agg.targets[u]
      /\ Tells(client.agg.targets[t], a.targets[t], Known[t], k, FALSE)
      /\ \A j \in Keys \ {k} : a.docs[j] = client.agg.docs[j]
      /\ a.docs[k] = NoDocument(0)
  <2>1. PICK heard : heard = {u \in {} \cup {t} : IsActive(client.agg, client.listens, u)}
    OBVIOUS
  <2>2. heard = {t}
    BY <2>1
  <2>3. /\ \A u \in Targets :
               /\ a.targets[u].out = client.agg.targets[u].out
               /\ u \notin heard => a.targets[u] = client.agg.targets[u]
               /\ u \in heard =>
                      Tells(client.agg.targets[u], a.targets[u], Known[u], k, u \in {})
        /\ \A j \in Keys \ {k} : a.docs[j] = client.agg.docs[j]
        /\ a.docs[k] = IF heard = {} \/ NoDocument(0) = None THEN client.agg.docs[k]
                                                            ELSE NoDocument(0)
    BY <1>1, <2>1 DEF TellsDocument
  <2>4. (t \in {}) = FALSE
    OBVIOUS
  <2>5. Tells(client.agg.targets[t], a.targets[t], Known[t], k, FALSE)
    BY <1>2, <2>2, <2>3, <2>4
  <2>6. \A u \in Targets : IsActive(a, client.listens, u) <=>
                               IsActive(client.agg, client.listens, u)
    BY <2>3 DEF IsActive
  <2> QED BY <1>2, <2>2, <2>3, <2>5, <2>6
<1>5. PendingTrue(a.docs, disk.last, history)
  <2>1. PendingTrue(client.agg.docs, disk.last, history) /\ Len(history) = Now
    BY DEF ResultInv, Now
  <2> QED BY <1>2, <1>4, <2>1 DEF PendingTrue
<1>6. ASSUME NEW q \in Queries, IsActive(a, client.listens, q)
      PROVE  QueryTrue(q, a.targets[q], views[q], a.docs, server.session[q], disk.cache,
                       history[Now])
  <2>1. q # t /\ q \in Targets
    BY <1>2 DEF Targets
  <2>2. QueryTrue(q, client.agg.targets[q], views[q], client.agg.docs, server.session[q],
                  disk.cache, history[Now])
    BY <1>3, <1>4, <1>6, <2>1 DEF QueriesTrue
  <2>3. ~Matches(history[Now][k], q) /\ a.docs[k] # None
    BY <1>2, <1>4 DEF Matches
  <2> QED BY <1>2, <1>4, <2>1, <2>2, <2>3, QueryGone
<1>7. ASSUME NEW n \in LimboIds, IsActive(a, client.listens, n)
      PROVE  LookupTrue(a.targets[n], LookupKeys(client, n), a.docs,
                        IF n = t THEN new ELSE server.session[n])
  <2>1. n \in Targets /\ Known[n] = LookupKeys(client, n) /\ LookupKeys(client, n) \in SUBSET Keys
    BY HearsTypes DEF Targets
  <2>2. LookupTrue(client.agg.targets[n], LookupKeys(client, n), client.agg.docs,
                   server.session[n])
    BY <1>3, <1>4, <1>7, <2>1 DEF LimboTrue
  <2>3. CASE n # t
    <3>1. a.targets[n] = client.agg.targets[n]
      BY <1>4, <2>1, <2>3
    <3>2. \A j \in Keys : client.agg.docs[j] # None => a.docs[j] # None
      BY <1>2, <1>4
    <3> QED BY <2>2, <2>3, <3>1, <3>2 DEF LookupTrue, Documented
  <2>4. CASE n = t
    <3>1. PICK docs, more, s, u, sess, known :
              /\ docs = client.agg.docs /\ more = a.docs /\ s = client.agg.targets[n]
              /\ u = a.targets[n] /\ sess = server.session[n] /\ known = LookupKeys(client, n)
      OBVIOUS
    <3>2. LookupTrue(s, known, docs, sess) /\ sess.on
      BY <2>2, <3>1 DEF LookupTrue
    <3>3. sess.sent[k] = 0
      <4>1. SentKeys(server.session[t]) = {}
        BY <1>2, <1>3, <2>4, <3>1, <3>2, SentIsContent
      <4> QED BY <1>2, <2>4, <3>1, <4>1 DEF SentKeys
    <3>5. /\ Tells(s, u, known, k, FALSE) /\ known \in SUBSET Keys
          /\ \A j \in Keys \ {k} : more[j] = docs[j]
      BY <1>4, <2>1, <2>4, <3>1
    <3>6. LookupTrue(u, known, more, sess)
      BY <1>2, <3>2, <3>3, <3>5, LookupGone
    <3>7. new.on = sess.on /\ new.sent = sess.sent
      BY <2>4, <3>1
    <3>8. LookupTrue(u, known, more, new)
      BY <3>6, <3>7 DEF LookupTrue, SentKeys
    <3> QED BY <2>4, <3>1, <3>8
  <2> QED BY <2>3, <2>4
<1> QED BY <1>5, <1>6, <1>7

\* A count that is due finds what was forgotten.
LEMMA SendFilterResult ==
    ASSUME WatchInv, ResultInv, NEW t \in Targets, SendFilter(t)
    PROVE  ResultInv'
<1>1. PICK a, count : /\ count = Cardinality(Content(t, Now))
                      /\ a = HandleExistenceFilter(client.agg, client.listens, Known, t, count)
  OBVIOUS
<1>2. PICK sess, new : sess = server.session[t] /\ new = [sess EXCEPT !.due = FALSE]
  OBVIOUS
<1>3. /\ Hears(a) /\ sess.cur /\ ~HasNews(t)
      /\ server' = [server EXCEPT !.session[t].due = FALSE]
  BY <1>1, <1>2 DEF SendFilter
<1>4. Typed /\ ServerTyped /\ sess \in Sessions(Now)
  BY <1>2, ToldTypes DEF WatchInv, ResultInv
<1>5. /\ new \in Sessions(Now) /\ new.on = sess.on /\ new.cur = sess.cur
      /\ new.sent = sess.sent
  BY <1>2, <1>4 DEF Sessions
<1>6. server' = [server EXCEPT !.session[t] = new]
  BY <1>2, <1>3
<1>7. /\ ServerTyped' /\ history' = history /\ server'.session[t] = new
      /\ \A u \in Targets \ {t} : server'.session[u] = server.session[u]
  BY <1>4, <1>5, <1>6, ServerResumes
<1>8. IsOpen(stream) /\ QueriesTrue /\ LimboTrue
  BY <1>3 DEF Hears, ResultInv, TargetsTrue
<1>9. \/ /\ a = client.agg
         /\ t \in Queries /\ IsActive(client.agg, client.listens, t) =>
                CurrentCount(client.agg, Known, t) = count
      \/ /\ t \in LimboIds /\ IsActive(client.agg, client.listens, t) /\ count = 0
         /\ TellsDocument(client.agg, a, client.listens, Known, {}, {t}, KeyOf(t),
                          NoDocument(0))
      \/ /\ t \in Queries /\ IsActive(client.agg, client.listens, t)
         /\ ResetBy(client.agg, a, Known, t)
  <2>1. client.agg \in Aggregators(Now)
    BY HearsTypes
  <2> QED BY <1>1, <2>1, FilterFields
<1>10. ASSUME a.docs = client.agg.docs,
              \A u \in Targets \ {t} : a.targets[u] = client.agg.targets[u],
              t \in Queries /\ IsActive(a, client.listens, t) =>
                  QueryTrue(t, a.targets[t], views[t], client.agg.docs, new, disk.cache,
                            history[Now]),
              t \in LimboIds => a.targets[t] = client.agg.targets[t]
       PROVE  ResultInv'
  <2>1. PendingTrue(a.docs, disk.last, history)
    BY <1>10 DEF ResultInv
  <2>2. ASSUME NEW q \in Queries, IsActive(a, client.listens, q)
        PROVE  QueryTrue(q, a.targets[q], views[q], a.docs, server'.session[q], disk.cache,
                         history[Now])
    <3>1. CASE q = t
      BY <1>7, <1>10, <2>2, <3>1
    <3>2. CASE q # t
      <4>1. a.targets[q] = client.agg.targets[q] /\ server'.session[q] = server.session[q]
        BY <1>7, <1>10, <3>2 DEF Targets
      <4>2. IsActive(client.agg, client.listens, q)
        BY <2>2, <4>1 DEF IsActive
      <4> QED BY <1>8, <1>10, <4>1, <4>2 DEF QueriesTrue
    <3> QED BY <3>1, <3>2
  <2>3. ASSUME NEW n \in LimboIds, IsActive(a, client.listens, n)
        PROVE  LookupTrue(a.targets[n], LookupKeys(client, n), a.docs, server'.session[n])
    <3>1. /\ a.targets[n] = client.agg.targets[n]
          /\ server'.session[n].on = server.session[n].on
          /\ server'.session[n].sent = server.session[n].sent
      BY <1>2, <1>5, <1>7, <1>10 DEF Targets
    <3>2. LookupTrue(client.agg.targets[n], LookupKeys(client, n), client.agg.docs,
                     server.session[n])
      <4>1. IsActive(client.agg, client.listens, n)
        BY <2>3, <3>1 DEF IsActive
      <4> QED BY <1>8, <4>1 DEF LimboTrue
    <3> QED BY <1>10, <3>1, <3>2 DEF LookupTrue, SentKeys
  <2> QED BY <1>3, <1>7, <2>1, <2>2, <2>3, HearsResult
<1>11. CASE /\ a = client.agg
            /\ t \in Queries /\ IsActive(client.agg, client.listens, t) =>
                   CurrentCount(client.agg, Known, t) = count
  <2>1. ASSUME t \in Queries, IsActive(a, client.listens, t)
        PROVE  QueryTrue(t, a.targets[t], views[t], client.agg.docs, new, disk.cache,
                         history[Now])
    BY <1>1, <1>2, <1>3, <1>5, <1>8, <1>11, <2>1, FilterMatches
  <2> QED BY <1>10, <1>11, <2>1
<1>12. CASE /\ t \in Queries /\ IsActive(client.agg, client.listens, t)
            /\ ResetBy(client.agg, a, Known, t)
  <2>1. QueryTrue(t, client.agg.targets[t], views[t], client.agg.docs, sess, disk.cache,
                  history[Now])
    BY <1>2, <1>8, <1>12 DEF QueriesTrue
  <2>2. PICK u : u = a.targets[t]
    OBVIOUS
  <2>3. Miscounted(u, new) /\ \A k \in Keys : u.docs[k] \notin {"added", "modified"}
    BY <1>3, <1>5, <1>12, <2>2 DEF ResetBy, Miscounted
  <2>4. QueryTrue(t, u, views[t], client.agg.docs, new, disk.cache, history[Now])
    BY <1>5, <2>1, <2>3, QueryReset
  <2>5. t \notin LimboIds
    BY <1>12, WatchAssumption
  <2> QED BY <1>10, <1>12, <2>2, <2>4, <2>5 DEF ResetBy
<1>13. CASE /\ t \in LimboIds /\ IsActive(client.agg, client.listens, t) /\ count = 0
            /\ TellsDocument(client.agg, a, client.listens, Known, {}, {t}, KeyOf(t),
                             NoDocument(0))
  <2>1. Content(t, Now) = {}
    <3>1. IsFiniteSet(Content(t, Now))
      <4>1. Content(t, Now) \in SUBSET Keys /\ IsFiniteSet(Keys)
        BY WatchAssumption DEF Content
      <4> QED BY <4>1, FS_Subset
    <3> QED BY <1>1, <1>13, <3>1, FS_EmptySet
  <2>2. /\ PendingTrue(a.docs, disk.last, history)
        /\ \A q \in Queries : IsActive(a, client.listens, q) =>
               QueryTrue(q, a.targets[q], views[q], a.docs, server.session[q], disk.cache,
                         history[Now])
        /\ \A n \in LimboIds : IsActive(a, client.listens, n) =>
               LookupTrue(a.targets[n], LookupKeys(client, n), a.docs,
                          IF n = t THEN new ELSE server.session[n])
    BY <1>2, <1>3, <1>5, <1>8, <1>13, <2>1, FilterGone
  <2>3. \A q \in Queries : q # t /\ server'.session[q] = server.session[q]
    BY <1>7, <1>13, WatchAssumption DEF Targets
  <2>4. \A n \in LimboIds : server'.session[n] = IF n = t THEN new ELSE server.session[n]
    BY <1>7 DEF Targets
  <2>5. \A q \in Queries : IsActive(a, client.listens, q) =>
            QueryTrue(q, a.targets[q], views[q], a.docs, server'.session[q], disk.cache,
                      history[Now])
    BY <2>2, <2>3
  <2>6. \A n \in LimboIds : IsActive(a, client.listens, n) =>
            LookupTrue(a.targets[n], LookupKeys(client, n), a.docs, server'.session[n])
    BY <2>2, <2>4
  <2> QED BY <1>3, <1>7, <2>2, <2>5, <2>6, HearsResult
<1> QED BY <1>9, <1>11, <1>12, <1>13

----------------------------------------------------------------------------
(* A new version behind the backend.                                       *)

\* The history has one more version, of document k.
NewVersion(k) ==
    /\ Len(history) = Now /\ Len(history') = Now + 1 /\ Now' = Now + 1
    /\ \A v \in 1..Now : history'[v] = history[v]
    /\ history'[Now + 1][k].ver = Now + 1
    /\ \A j \in Keys \ {k} : history'[Now + 1][j] = history[Now][j]
    /\ history' \in Histories /\ server'.session = server.session

\* Change does that.
LEMMA ChangeIsNew ==
    ASSUME WatchInv, ResultInv, NEW k \in Keys, Change(k)
    PROVE  NewVersion(k) /\ ServerTyped'
<1>1. Typed /\ ServerTyped /\ Now \in Nat \ {0} /\ Len(history) = Now
  BY ToldTypes DEF WatchInv, ResultInv
<1>2. PICK d \in Data :
          server' = [server EXCEPT !.history =
                        Append(history, [history[Now] EXCEPT ![k] = Doc(d, Now + 1)])]
  BY DEF Change, history
<1>3. PICK N, h, doc : N = Now /\ h = history /\ doc = Doc(d, Now + 1)
  OBVIOUS
<1>4. /\ doc \in [val : Data, ver : Nat] /\ doc.ver = N + 1 /\ N \in Nat \ {0} /\ Len(h) = N
      /\ h \in Seq([Keys -> [val : Data, ver : Nat]])
  BY <1>1, <1>3 DEF Doc, Typed, Histories
<1>5. PICK last : last = [h[N] EXCEPT ![k] = doc]
  OBVIOUS
<1>6. /\ last \in [Keys -> [val : Data, ver : Nat]] /\ last[k] = doc
      /\ \A j \in Keys \ {k} : last[j] = h[N][j]
  BY <1>4, <1>5
<1>7. server' = [server EXCEPT !.history = Append(h, last)]
  BY <1>2, <1>3, <1>5
<1>8. PICK g : g = Append(h, last)
  OBVIOUS
<1>9. /\ Len(g) = N + 1 /\ g[N + 1] = last /\ \A v \in 1..N : g[v] = h[v]
      /\ g \in Histories
  BY <1>4, <1>6, <1>8 DEF Histories
<1>10. server \in [history : Histories, horizon : Nat, session : [Targets -> Sessions(N)]]
  BY <1>1, <1>3 DEF ServerTyped
<1>11. server' = [server EXCEPT !.history = g]
  BY <1>7, <1>8
<1>12. [Targets -> Sessions(N)] \subseteq [Targets -> Sessions(N + 1)]
  <2>1. 0..N \subseteq 0..(N + 1)
    BY <1>4
  <2>2. [Keys -> 0..N] \subseteq [Keys -> 0..(N + 1)]
    BY <2>1
  <2>3. Sessions(N) \subseteq Sessions(N + 1)
    BY <2>2 DEF Sessions
  <2> QED BY <2>3
<1>13. server'.history = g /\ server'.session = server.session /\ server'.horizon = server.horizon
  BY <1>10, <1>11
<1>14. server' \in [history : Histories, horizon : Nat, session : [Targets -> Sessions(N + 1)]]
  <2>1. server.session \in [Targets -> Sessions(N + 1)]
    BY <1>10, <1>12
  <2> QED BY <1>9, <1>10, <1>11, <2>1
<1>15. history' = g
  BY <1>13 DEF history
<1>16. Now' = N + 1
  BY <1>9, <1>15 DEF Now
<1>17. NewVersion(k)
  BY <1>1, <1>3, <1>4, <1>6, <1>9, <1>13, <1>15, <1>16 DEF NewVersion
<1>18. ServerTyped'
  BY <1>14, <1>16 DEF ServerTyped
<1> QED BY <1>17, <1>18

\* Documents have the versions they were changed in.
NewerBy(h, g, N, k) ==
    /\ Len(h) = N /\ Len(g) = N + 1 /\ \A v \in 1..N : g[v] = h[v]
    /\ g[N + 1][k].ver = N + 1 /\ \A j \in Keys \ {k} : g[N + 1][j] = h[N][j]

\* The versions stay in order when a document is changed.
LEMMA NewDated ==
    ASSUME NEW N \in Nat \ {0}, NEW h, NEW g, Dated(h), NEW k \in Keys, NewerBy(h, g, N, k)
    PROVE  Dated(g)
<1>0. /\ Len(h) = N /\ Len(g) = N + 1 /\ \A v \in 1..N : g[v] = h[v]
      /\ g[N + 1][k].ver = N + 1 /\ \A j \in Keys \ {k} : g[N + 1][j] = h[N][j]
  BY DEF NewerBy
<1> SUFFICES ASSUME NEW v \in 1..(N + 1), NEW j \in Keys
             PROVE  /\ g[v][j].ver \in 1..v
                    /\ \A w \in v..(N + 1) : g[w][j].ver <= v => g[w][j] = g[v][j]
  BY <1>0 DEF Dated
<1>1. CASE v = N + 1
  <2>1. CASE j = k
    BY <1>0, <1>1, <2>1
  <2>2. CASE j # k
    <3>1. h[N][j].ver \in 1..N
      BY <1>0 DEF Dated
    <3> QED BY <1>0, <1>1, <2>2, <3>1
  <2> QED BY <2>1, <2>2
<1>2. CASE v \in 1..N
  <2>1. h[v][j].ver \in 1..v /\ \A w \in v..N : h[w][j].ver <= v => h[w][j] = h[v][j]
    BY <1>0, <1>2 DEF Dated
  <2>2. ASSUME NEW w \in v..(N + 1), g[w][j].ver <= v PROVE g[w][j] = g[v][j]
    <3>1. CASE w \in v..N
      BY <1>0, <1>2, <2>1, <2>2, <3>1
    <3>2. CASE w = N + 1
      <4>1. j # k
        BY <1>0, <1>2, <2>2, <3>2
      <4>2. N \in v..N
        BY <1>2
      <4> QED BY <1>0, <1>2, <2>1, <2>2, <3>2, <4>1, <4>2
    <3> QED BY <3>1, <3>2
  <2> QED BY <1>0, <1>2, <2>1, <2>2
<1> QED BY <1>1, <1>2

\* A query has not been told, and the cache does not have it.
LEMMA QueryNew ==
    ASSUME NEW q, NEW k \in Keys, NEW s, NEW v, NEW docs, NEW sess, NEW cache, NEW now, NEW new,
           QueryTrue(q, s, v, docs, sess, cache, now),
           \A j \in Keys \ {k} : new[j] = now[j],
           sess.sent[k] # new[k].ver, cache[k] # None => cache[k].ver # new[k].ver
    PROVE  QueryTrue(q, s, v, docs, sess, cache, new)
<1>1. Arriving(q, s, v, docs, sess, cache, new)
  BY DEF QueryTrue, Arriving
<1>2. Showing(q, v, cache, new)
  BY DEF QueryTrue, Showing, Latest
<1> QED BY <1>1, <1>2 DEF QueryTrue

\* Somebody writes k: what there is is of earlier versions.
LEMMA ChangeResult ==
    ASSUME WatchInv, ResultInv, NEW k \in Keys, Change(k)
    PROVE  ResultInv'
<1>1. UNCHANGED <<stream, client, views, disk>>
  BY DEF Change
<1>2. NewVersion(k) /\ ServerTyped'
  BY ChangeIsNew
<1>3. /\ Typed /\ Now \in Nat \ {0} /\ disk.last \in 0..Now /\ Dated(history)
      /\ \A t \in Targets : server.session[t] \in Sessions(Now)
  BY ToldTypes DEF WatchInv
<1>4. PICK N, h, g, last : N = Now /\ h = history /\ g = history' /\ last = disk.last
  OBVIOUS
<1>5. /\ N \in Nat \ {0} /\ Len(h) = N /\ Len(g) = N + 1 /\ last \in 0..N /\ Dated(h)
      /\ \A v \in 1..N : g[v] = h[v]
      /\ g[N + 1][k].ver = N + 1 /\ \A j \in Keys \ {k} : g[N + 1][j] = h[N][j]
      /\ Now' = N + 1
  BY <1>2, <1>3, <1>4 DEF NewVersion
<1>6. Dated(g)
  <2>1. NewerBy(h, g, N, k)
    BY <1>5 DEF NewerBy
  <2> QED BY <1>5, <2>1, NewDated
<1>7. \A j \in Keys : disk.cache[j] # None => disk.cache[j].ver \in Nat /\ disk.cache[j].ver <= last
  <2>1. disk.cache \in [Keys -> Cached]
    BY ToldTypes DEF WatchInv
  <2> QED BY <1>4, <2>1 DEF ResultInv, CacheTrue, Cached
<1>8. CacheTrue(disk.cache, last, g[N + 1])
  <2>1. CacheTrue(disk.cache, last, h[N])
    BY <1>4 DEF ResultInv
  <2>2. ~(disk.cache[k] # None /\ disk.cache[k].ver >= N + 1)
    BY <1>5, <1>7
  <2> QED BY <1>5, <2>1, <2>2 DEF CacheTrue, TrueDoc
<1>9. PendingTrue(client.agg.docs, last, g)
  <2>1. PendingTrue(client.agg.docs, last, h) /\ client.agg.docs \in [Keys -> Documents]
    BY <1>4 DEF ResultInv, WatchInv, ClientInv, ClientCore, Clients, Aggregators
  <2> SUFFICES ASSUME NEW j \in Keys
               PROVE  /\ client.agg.docs[j] = NoDocument(0) =>
                             g[N + 1][j].val = Gone \/ g[N + 1][j].ver > last
                      /\ client.agg.docs[j] \notin {None, NoDocument(0)} =>
                             /\ client.agg.docs[j].ver <= N + 1
                             /\ TrueDoc(client.agg.docs[j], g[N + 1][j])
                             /\ last > 0 => client.agg.docs[j].ver >= g[last][j].ver
    BY <1>5 DEF PendingTrue
  <2>2. CASE client.agg.docs[j] = NoDocument(0)
    <3>1. h[N][j].val = Gone \/ h[N][j].ver > last
      BY <1>5, <2>1, <2>2 DEF PendingTrue
    <3>2. CASE j = k
      BY <1>5, <2>2, <3>2
    <3>3. CASE j # k
      BY <1>5, <2>2, <3>1, <3>3
    <3> QED BY <3>2, <3>3
  <2>3. CASE client.agg.docs[j] \notin {None, NoDocument(0)}
    <3>1. PICK d : d = client.agg.docs[j] /\ d.ver \in Nat
      BY <2>1, <2>3 DEF Documents
    <3>2. d.ver <= N /\ TrueDoc(d, h[N][j]) /\ (last > 0 => d.ver >= h[last][j].ver)
      BY <1>5, <2>1, <2>3, <3>1 DEF PendingTrue
    <3>3. TrueDoc(d, g[N + 1][j])
      <4>1. CASE j = k
        BY <1>5, <3>1, <3>2, <4>1 DEF TrueDoc
      <4>2. CASE j # k
        BY <1>5, <3>2, <4>2
      <4> QED BY <4>1, <4>2
    <3>4. last > 0 => g[last] = h[last]
      BY <1>5
    <3> QED BY <1>5, <2>3, <3>1, <3>2, <3>3, <3>4
  <2>4. CASE client.agg.docs[j] = None
    <3>1. None # NoDocument(0)
      BY WatchAssumption
    <3> QED BY <2>4, <3>1
  <2> QED BY <2>2, <2>3, <2>4
<1>10. \A t, tok, cache : tok \in Nat /\ GoodToken(t, tok, cache, last, h) =>
                              GoodToken(t, tok, cache, last, g)
  BY <1>5 DEF GoodToken, NoToken
<1>11. /\ \A q \in Queries : views[q].token \in Nat /\ disk.targets[q].token \in Nat
       /\ \A t \in Targets : client.tokens[t] \in 0..N
  BY <1>3, <1>4 DEF Typed, Views, Disks, WatchInv, ClientInv, ClientCore, Clients
<1>12. TokensTrue'
  <2>1. TokensTrue
    BY DEF ResultInv
  <2> QED BY <1>1, <1>4, <1>10, <1>11, <2>1 DEF TokensTrue
<1>13. LimboToken(client, g)
  <2>1. \A n \in client.resolving : client.tokens[n] \in 0..N
    BY <1>11 DEF WatchInv, ClientInv, ClientCore, Clients, Targets
  <2>2. LimboToken(client, h)
    BY <1>4 DEF ResultInv
  <2> QED BY <1>5, <2>1, <2>2 DEF LimboToken, NoToken
<1>14. ViewsTrue'
  <2>1. ASSUME NEW q \in Queries PROVE ViewTrue(q, views[q], disk.cache, last, g)
    <3>1. ViewTrue(q, views[q], disk.cache, last, h) /\ (views[q].current => views[q].token # NoToken)
      BY <1>4 DEF ResultInv, ViewsTrue, TokensTrue
    <3>2. last # 0 => g[last] = h[last]
      BY <1>5
    <3> QED BY <3>1, <3>2 DEF ViewTrue, NoToken
  <2> QED BY <1>1, <1>4, <2>1 DEF ViewsTrue, ResultInv
<1>15. TargetsTrue'
  <2> SUFFICES ASSUME IsOpen(stream) PROVE QueriesTrue' /\ LimboTrue'
    BY <1>1 DEF TargetsTrue
  <2>1. QueriesTrue /\ LimboTrue /\ server'.session = server.session
    BY <1>2 DEF ResultInv, TargetsTrue, NewVersion
  <2>2. LimboTrue'
    BY <1>1, <2>1 DEF LimboTrue, LookupKeys
  <2>3. ASSUME NEW q \in Queries, IsActive(client.agg, client.listens, q)
        PROVE  QueryTrue(q, client.agg.targets[q], views[q], client.agg.docs,
                         server.session[q], disk.cache, g[N + 1])
    <3>1. QueryTrue(q, client.agg.targets[q], views[q], client.agg.docs,
                    server.session[q], disk.cache, h[N])
      BY <1>4, <2>1, <2>3 DEF QueriesTrue
    <3>2. server.session[q].sent[k] \in 0..N
      BY <1>3, <1>4 DEF Targets, Sessions
    <3>3. /\ server.session[q].sent[k] # g[N + 1][k].ver
          /\ disk.cache[k] # None => disk.cache[k].ver # g[N + 1][k].ver
      BY <1>5, <1>7, <3>2
    <3>4. PICK s, v, docs, sess, cache, now, new :
              /\ s = client.agg.targets[q] /\ v = views[q] /\ docs = client.agg.docs
              /\ sess = server.session[q] /\ cache = disk.cache /\ now = h[N]
              /\ new = g[N + 1]
      OBVIOUS
    <3>5. /\ QueryTrue(q, s, v, docs, sess, cache, now)
          /\ \A j \in Keys \ {k} : new[j] = now[j]
          /\ sess.sent[k] # new[k].ver /\ (cache[k] # None => cache[k].ver # new[k].ver)
      BY <1>5, <3>1, <3>3, <3>4
    <3>6. QueryTrue(q, s, v, docs, sess, cache, new)
      BY ONLY k \in Keys, <3>5, QueryNew
    <3> QED BY <3>4, <3>6
  <2>4. QueriesTrue'
    BY <1>1, <1>4, <1>5, <2>1, <2>3 DEF QueriesTrue
  <2> QED BY <2>2, <2>4
<1>16. Asked(client')
  BY <1>1 DEF ResultInv
<1> QED BY <1>1, <1>2, <1>4, <1>5, <1>6, <1>8, <1>9, <1>12, <1>13, <1>14, <1>15, <1>16
        DEF ResultInv

----------------------------------------------------------------------------
(* A lookup is refused: its document leaves cache and views.               *)

\* Of a document that the cache has as the backend does, nothing older is collected.
LEMMA PendingLatest ==
    ASSUME Typed, ResultInv, NEW q, NEW k \in Keys, NEW d, d = client.agg.docs[k],
           d \notin {None, NoDocument(0)}, d.ver \in Nat,
           Matches(history[Now][k], q), Latest(disk.cache[k], history[Now][k])
    PROVE  Latest(d, history[Now][k])
<1>1. /\ Now \in Nat \ {0} /\ Len(history) = Now /\ disk.last \in 0..Now /\ Dated(history)
      /\ history[Now][k].ver \in 1..Now
  BY ToldTypes
<1>2. disk.cache[k].ver <= disk.last /\ disk.cache[k].ver = history[Now][k].ver
  BY DEF ResultInv, CacheTrue, Latest
<1>3. disk.last \in 1..Now /\ Now \in disk.last..Len(history)
  BY <1>1, <1>2
<1>4. history[Now][k] = history[disk.last][k]
  BY <1>1, <1>2, <1>3 DEF Dated
<1>5. TrueDoc(d, history[Now][k]) /\ d.ver >= history[disk.last][k].ver
  BY <1>1, <1>3 DEF ResultInv, PendingTrue
<1> QED BY <1>4, <1>5, NewIsLatest DEF Latest

\* w is the view v without the document k, which the cache has no more.
Refuses(v, w, cache, new, k) ==
    /\ new[k] = None
    /\ \A j \in Keys \ {k} : new[j] = cache[j]
    /\ w.shown = v.shown \ {k} /\ w.synced = v.synced
    /\ w.flawed <=> v.flawed \/ k \in v.synced

\* A query that hears: if the backend has it in the result, that is a flaw.
LEMMA QueryRefused ==
    ASSUME NEW q, NEW k \in Keys, NEW s, NEW v, NEW w, NEW docs, NEW sess, NEW cache, NEW new,
           NEW now, QueryTrue(q, s, v, docs, sess, cache, now), Refuses(v, w, cache, new, k),
           now[k].ver # 0,
           docs[k] \notin {None, NoDocument(0)} /\ Matches(now[k], q)
               /\ Latest(cache[k], now[k]) => Latest(docs[k], now[k])
    PROVE  QueryTrue(q, s, w, docs, sess, new, now)
<1>1. /\ sess.on /\ Documented(s, docs)
      /\ v.flawed \/ Miscounted(s, sess) \/ Complete(s, v.synced, sess)
      /\ w.shown = v.shown \ {k} /\ w.synced = v.synced
      /\ w.flawed <=> v.flawed \/ k \in v.synced
      /\ new[k] = None /\ \A j \in Keys \ {k} : new[j] = cache[j]
  BY DEF QueryTrue, Refuses
<1>2. Showing(q, w, new, now)
  <2>1. Showing(q, v, cache, now)
    BY DEF QueryTrue
  <2> QED BY <1>1, <2>1 DEF Showing, Latest
<1>3. Arriving(q, s, w, docs, sess, new, now)
  <2> SUFFICES ASSUME NEW j \in Keys, Matches(now[j], q), sess.sent[j] = now[j].ver
               PROVE  \/ Latest(Upcoming(docs[j], new[j]), now[j])
                      \/ Upcoming(docs[j], new[j]) = None /\ (w.flawed \/ Miscounted(s, sess))
    BY DEF Arriving
  <2>1. \/ Latest(Upcoming(docs[j], cache[j]), now[j])
        \/ Upcoming(docs[j], cache[j]) = None /\ (v.flawed \/ Miscounted(s, sess))
    BY DEF QueryTrue, Arriving
  <2>2. CASE j # k
    BY <1>1, <2>1, <2>2
  <2>3. CASE j = k /\ docs[k] = NoDocument(0)
    <3>1. Upcoming(docs[k], cache[k]) = None /\ Upcoming(docs[k], new[k]) = None
      BY <2>3, WatchAssumption DEF Upcoming, Takes
    <3> QED BY <1>1, <2>1, <2>3, <3>1 DEF Latest
  <2>4. CASE j = k /\ docs[k] = None
    <3>1. Upcoming(docs[k], new[k]) = None
      BY <1>1, <2>4 DEF Upcoming, Takes
    <3>2. ASSUME ~v.flawed, ~Miscounted(s, sess) PROVE k \in v.synced
      <4>1. k \in Collected(s, v.synced)
        BY <1>1, <2>4, <3>2 DEF Complete, SentKeys
      <4>2. s.docs[k] # "added"
        BY <1>1, <2>4 DEF Documented
      <4> QED BY <4>1, <4>2 DEF Collected, Marked
    <3> QED BY <1>1, <2>4, <3>1, <3>2
  <2>5. CASE j = k /\ docs[k] \notin {None, NoDocument(0)}
    <3>1. Upcoming(docs[k], new[k]) = docs[k]
      BY <1>1, <2>5 DEF Upcoming, Takes
    <3>2. CASE Takes(docs[k], cache[k])
      <4>1. Upcoming(docs[k], cache[k]) = docs[k]
        BY <2>5, <3>2 DEF Upcoming
      <4> QED BY <2>1, <2>5, <3>1, <4>1
    <3>3. CASE ~Takes(docs[k], cache[k])
      <4>1. Upcoming(docs[k], cache[k]) = cache[k] /\ cache[k] # None
        BY <2>5, <3>3 DEF Upcoming, Takes
      <4> QED BY <2>1, <2>5, <3>1, <4>1
    <3> QED BY <3>2, <3>3
  <2> QED BY <2>2, <2>3, <2>4, <2>5
<1> QED BY <1>1, <1>2, <1>3 DEF QueryTrue

\* A view that is current and without flaw does not have k as synced.
LEMMA ViewRefused ==
    ASSUME NEW q, NEW k \in Keys, NEW v, NEW w, NEW cache, NEW new, NEW last, NEW h,
           Refuses(v, w, cache, new, k), w.current <=> v.current, w.token = v.token,
           ViewTrue(q, v, cache, last, h)
    PROVE  ViewTrue(q, w, new, last, h)
<1> SUFFICES ASSUME ~w.flawed, w.current, w.token = last
             PROVE  /\ w.synced = {j \in Keys : Matches(h[last][j], q)}
                    /\ \A j \in w.synced : /\ j \in w.shown /\ new[j] # None
                                           /\ new[j].val = h[last][j].val
                                           /\ new[j].ver = h[last][j].ver
  BY DEF ViewTrue
<1>1. /\ k \notin v.synced /\ ~v.flawed /\ v.current /\ v.token = last
      /\ w.shown = v.shown \ {k} /\ w.synced = v.synced
      /\ \A j \in Keys \ {k} : new[j] = cache[j]
  BY DEF Refuses
<1>2. /\ v.synced = {j \in Keys : Matches(h[last][j], q)}
      /\ \A j \in v.synced : /\ j \in v.shown /\ cache[j] # None
                             /\ cache[j].val = h[last][j].val
                             /\ cache[j].ver = h[last][j].ver
  BY <1>1 DEF ViewTrue
<1> QED BY <1>1, <1>2

\* A refusal keeps the invariant.
LEMMA RejectLookupResult ==
    ASSUME FewKeys, WatchInv, ResultInv, RejectLookup
    PROVE  ResultInv'
<1>1. PICK n, event, d : RefusalParts(n, event, d)
  BY LookupRefused
<1>2. /\ UNCHANGED <<stream, server>> /\ IsOpen(stream)
      /\ Now' = Now /\ history' = history
  BY DEF RejectLookup, Now, history
<1>3. /\ Typed /\ Now \in Nat \ {0} /\ disk.last \in 0..Now
      /\ \A j \in Keys : history[Now][j].ver \in 1..Now
  BY ToldTypes DEF WatchInv
<1>4. PICK k \in Keys : k = KeyOf(n)
  BY <1>1, LimboKey DEF RefusalParts
<1>5. /\ event.ver = 0 /\ DOMAIN event.changes = {}
      /\ event.docs = [j \in Keys |-> IF j = k THEN NoDocument(0) ELSE None]
  BY <1>1, <1>4 DEF RefusalParts
<1>6. EventLeft(d, event)
  BY <1>1, <1>3, EventFields DEF RefusalParts
<1>7. PICK cache, new : cache = disk.cache /\ new = disk'.cache
  OBVIOUS
<1>8. /\ Applied(event.docs) = {k} /\ disk'.last = disk.last
      /\ new[k] = None /\ \A j \in Keys \ {k} : new[j] = cache[j]
  <2>1. Applied(event.docs) = {k}
    BY <1>5, WatchAssumption DEF Applied
  <2>2. new = CacheAfter(event.docs, event.ver)
    BY <1>6, <1>7 DEF EventLeft
  <2> QED BY <1>5, <1>6, <1>7, <2>1, <2>2 DEF CacheAfter, EventLeft
<1>9. ASSUME NEW q \in Queries
      PROVE  /\ views[q].on => Refuses(views[q], views'[q], cache, new, k)
             /\ views'[q].current <=> views[q].current
             /\ views'[q].token = views[q].token
             /\ disk'.targets[q].token = disk.targets[q].token
             /\ views'[q].current =>
                    LimboOf(d, event)[q] = views'[q].shown \ views'[q].synced
  <2>1. PICK v, w : v = views[q] /\ w = views'[q]
    OBVIOUS
  <2>2. ViewLeft(q, v, w, event)
    BY <1>6, <2>1 DEF EventLeft
  <2>3. v \in Views(Now)
    BY <1>3, <2>1 DEF Typed
  <2>4. /\ w.synced = v.synced /\ w.current = v.current /\ w.token = v.token
        /\ v.on => (w.flawed <=> v.flawed \/ k \in v.synced)
    BY <1>5, <1>8, <2>1, <2>2 DEF ViewLeft, SyncedAfter
  <2>5. v.on => w.shown = v.shown \ {k}
    <3>1. v.shown \subseteq Keys
      BY <2>3 DEF Views
    <3>2. ~Matches(CacheAfter(event.docs, event.ver)[k], q)
      BY <1>6, <1>7, <1>8 DEF EventLeft, Matches
    <3> QED BY <1>8, <2>2, <3>1, <3>2 DEF ViewLeft
  <2> QED BY <1>5, <1>6, <1>8, <2>1, <2>4, <2>5 DEF EventLeft, Refuses
<1>10. Steady(client, client', TRUE)
  BY <1>1, SteadyTwice DEF RefusalParts, LookupLost, Emptying
<1>11. /\ Asked(client') /\ client'.agg.docs = client.agg.docs
       /\ client'.resolving \subseteq LimboIds
  <2>1. client' \in Clients(Now')
    BY <1>1 DEF RefusalParts, Emptying, ClientInv, ClientCore
  <2> QED BY <1>10, <2>1 DEF Steady, ResultInv, Clients
<1>12. LimboToken(client', history)
  BY <1>10, <1>11, SteadyLimbo DEF ResultInv
<1>13. ASSUME NEW t, NEW tok, GoodToken(t, tok, cache, disk.last, history)
       PROVE  GoodToken(t, tok, new, disk.last, history)
  BY <1>8, <1>13 DEF GoodToken
<1>14. TokensTrue'
  <2>1. ASSUME NEW q \in Queries
        PROVE  /\ GoodToken(q, views'[q].token, new, disk.last, history)
               /\ GoodToken(q, disk'.targets[q].token, new, disk.last, history)
               /\ views'[q].current => views'[q].token # NoToken
    BY <1>7, <1>9, <1>13 DEF ResultInv, TokensTrue
  <2>2. ASSUME NEW t \in Targets
        PROVE  GoodToken(t, client'.tokens[t], new, disk.last, history)
    <3>1. client'.tokens[t] \in {NoToken, client.tokens[t]}
      BY <1>10 DEF Steady, Targets
    <3>2. GoodToken(t, NoToken, new, disk.last, history)
      BY <1>3, NoTokenGood
    <3>3. GoodToken(t, client.tokens[t], new, disk.last, history)
      BY <1>7, <1>13 DEF ResultInv, TokensTrue
    <3> QED BY <3>1, <3>2, <3>3
  <2> QED BY <1>2, <1>7, <1>8, <2>1, <2>2 DEF TokensTrue
<1>15. ViewsTrue'
  <2>1. ASSUME NEW q \in Queries
        PROVE  /\ ViewTrue(q, views'[q], new, disk.last, history)
               /\ views'[q].current => client'.refs[q] = views'[q].shown \ views'[q].synced
    <3>1. PICK v, w : v = views[q] /\ w = views'[q]
      OBVIOUS
    <3>2. /\ v.on => Refuses(v, w, cache, new, k)
          /\ w.current <=> v.current
          /\ w.token = v.token
      BY <1>9, <3>1
    <3>3. v.current => v.on
      BY <1>3, <3>1 DEF Typed
    <3>4. ViewTrue(q, v, cache, disk.last, history)
      BY <1>7, <3>1 DEF ResultInv, ViewsTrue
    <3>5. ViewTrue(q, w, new, disk.last, history)
      <4>1. CASE v.on
        <5>1. Refuses(v, w, cache, new, k)
          BY <3>2, <4>1
        <5> QED BY <3>2, <3>4, <5>1, ViewRefused
      <4>2. CASE ~v.on
        BY <3>2, <3>3, <4>2 DEF ViewTrue
      <4> QED BY <4>1, <4>2
    <3>6. v.on => client'.refs[q] = LimboOf(d, event)[q]
      BY <1>1, <3>1 DEF RefusalParts, Emptying
    <3> QED BY <1>9, <3>1, <3>2, <3>3, <3>5, <3>6
  <2> QED BY <1>2, <1>7, <1>8, <2>1 DEF ViewsTrue
<1>16. CacheTrue(new, disk.last, history[Now])
  BY <1>7, <1>8 DEF ResultInv, CacheTrue
<1>17. TargetsTrue'
  <2>1. QueriesTrue /\ LimboTrue
    BY <1>2 DEF ResultInv, TargetsTrue
  <2>2. ASSUME NEW q \in Queries, IsActive(client'.agg, client'.listens, q)
        PROVE  QueryTrue(q, client'.agg.targets[q], views'[q], client'.agg.docs,
                         server.session[q], new, history[Now])
    <3>1. PICK s, v, w, docs, sess, now :
              /\ s = client.agg.targets[q] /\ v = views[q] /\ w = views'[q]
              /\ docs = client.agg.docs /\ sess = server.session[q] /\ now = history[Now]
      OBVIOUS
    <3>2. /\ client'.agg.targets[q] = s /\ q \in client.listens /\ s.out = 0
      BY <1>10, <2>2, <3>1 DEF Steady, IsActive
    <3>3. QueryTrue(q, s, v, docs, sess, cache, now)
      BY <1>7, <2>1, <3>1, <3>2 DEF QueriesTrue, IsActive
    <3>4. v.on
      <4>1. client.listens = client.resolving \cup OnViews /\ client.resolving \subseteq LimboIds
        BY DEF WatchInv, ClientInv, ClientCore, Clients
      <4> QED BY <3>1, <3>2, <4>1, WatchAssumption DEF OnViews
    <3>5. Refuses(v, w, cache, new, k) /\ now[k].ver # 0
      BY <1>3, <1>9, <3>1, <3>4
    <3>6. docs[k] \notin {None, NoDocument(0)} /\ Matches(now[k], q)
              /\ Latest(cache[k], now[k]) => Latest(docs[k], now[k])
      <4> SUFFICES ASSUME docs[k] \notin {None, NoDocument(0)}, Matches(now[k], q),
                          Latest(cache[k], now[k])
                   PROVE  Latest(docs[k], now[k])
        OBVIOUS
      <4>1. docs \in [Keys -> Documents]
        BY <3>1, HearsTypes DEF Aggregators
      <4>2. docs[k].ver \in Nat
        BY <4>1 DEF Documents
      <4> QED BY <1>3, <1>7, <3>1, <4>2, PendingLatest
    <3>7. QueryTrue(q, s, w, docs, sess, new, now)
      BY ONLY k \in Keys, <3>3, <3>5, <3>6, QueryRefused
    <3> QED BY <1>11, <3>1, <3>2, <3>7
  <2>3. ASSUME NEW m \in LimboIds, IsActive(client'.agg, client'.listens, m)
        PROVE  LookupTrue(client'.agg.targets[m], LookupKeys(client', m), client'.agg.docs,
                          server'.session[m])
    <3>1. /\ m \in client.listens /\ client'.agg.targets[m] = client.agg.targets[m]
          /\ m \in client.received => m \in client'.received
          /\ client'.agg.targets[m].out = 0
      BY <1>10, <2>3 DEF Steady, IsActive
    <3>2. TargetStays(m)
      BY <1>2, <1>11, <3>1 DEF TargetStays, IsActive
    <3> QED BY <2>1, <3>2, LookupStays
  <2> QED BY <1>2, <1>7, <2>2, <2>3 DEF TargetsTrue, QueriesTrue, LimboTrue
<1>18. ServerTyped' /\ Dated(history')
  BY <1>2 DEF ResultInv, ServerTyped
<1>19. PendingTrue(client'.agg.docs, disk'.last, history')
  BY <1>2, <1>8, <1>11 DEF ResultInv
<1> QED BY <1>2, <1>7, <1>8, <1>11, <1>12, <1>14, <1>15, <1>16, <1>17, <1>18, <1>19 DEF ResultInv

----------------------------------------------------------------------------
(* A snapshot: what was collected reaches cache and views.                 *)

\* The backend has told everything to t, and has no count to send.
TargetCaughtUp(t) ==
    LET sess == server.session[t]
    IN  /\ ~sess.due
        /\ SentKeys(sess) = Content(t, Now)
        /\ \A k \in Content(t, Now) : sess.sent[k] = history[Now][k].ver

\* CaughtUp is that, for every target that hears.
LEMMA AllCaughtUp ==
    ASSUME Typed, ResultInv, CaughtUp, NEW t \in Targets, server.session[t].on
    PROVE  TargetCaughtUp(t)
<1>1. ~server.session[t].due /\ ~HasNews(t)
  BY DEF CaughtUp
<1>2. /\ SentKeys(server.session[t]) = Content(t, Now)
      /\ \A k \in Content(t, Now) : server.session[t].sent[k] = history[Now][k].ver
  BY <1>1, SentIsContent
<1> QED BY <1>1, <1>2 DEF TargetCaughtUp

\* A lookup that hears has its document collected if there is one.
LookupFound(n) ==
    LET s == client.agg.targets[n]
        k == KeyOf(n)
    IN  history[Now][k].val # Gone =>
            \/ s.docs[k] = "added" /\ client.agg.docs[k] # None
            \/ n \in client.received /\ k \in LookupKeys(client, n) /\ Marked(s, "removed") = {}

\* So it is of a lookup when the backend has sent all it has to send.
LEMMA LookupComplete ==
    ASSUME WatchInv, ResultInv, IsOpen(stream), CaughtUp, NEW n \in LimboIds,
           IsActive(client.agg, client.listens, n)
    PROVE  LookupFound(n)
<1>1. PICK s, known, sess, k : /\ s = client.agg.targets[n] /\ known = LookupKeys(client, n)
                               /\ sess = server.session[n] /\ k = KeyOf(n)
  OBVIOUS
<1>2. LookupTrue(s, known, client.agg.docs, sess)
  BY <1>1 DEF ResultInv, TargetsTrue, LimboTrue
<1>3. k \in Keys /\ n \in Targets /\ Typed
  BY <1>1, LimboKey DEF Targets, WatchInv
<1>4. SentKeys(sess) = Content(n, Now)
  <2>1. TargetCaughtUp(n)
    BY <1>1, <1>2, <1>3, AllCaughtUp DEF LookupTrue
  <2> QED BY <1>1, <2>1 DEF TargetCaughtUp
<1>5. Fits(s, known)
  <2>1. TargetSound(client, SyncedKeys, n)
    BY <1>3 DEF WatchInv, ClientInv, ClientCore
  <2>2. Known[n] = known
    BY <1>1, HearsTypes
  <2> QED BY <1>1, <2>1, <2>2 DEF TargetSound, IsActive, Known, SyncedKeys
<1> SUFFICES ASSUME history[Now][k].val # Gone
             PROVE  \/ s.docs[k] = "added" /\ client.agg.docs[k] # None
                    \/ n \in client.received /\ k \in known /\ Marked(s, "removed") = {}
  BY <1>1 DEF LookupFound
<1>6. k \in SentKeys(sess)
  BY <1>1, <1>3, <1>4, LookupContent
<1>7. k \in Collected(s, known)
  BY <1>2, <1>6 DEF LookupTrue
<1>8. CASE s.docs[k] = "added"
  BY <1>2, <1>3, <1>8 DEF LookupTrue, Documented
<1>9. CASE k \in known \ Marked(s, "removed")
  BY <1>1, <1>5, <1>9 DEF LookupKeys, Fits
<1> QED BY <1>7, <1>8, <1>9 DEF Collected, Marked

\* What is taken for missing does not exist.
LEMMA MissingGone ==
    ASSUME WatchInv, ResultInv, IsOpen(stream), CaughtUp,
           NEW n \in Missing(client.agg, client.listens, Known)
    PROVE  n \in LimboIds /\ history[Now][KeyOf(n)].val = Gone
<1>1. /\ n \in LimboIds /\ IsActive(client.agg, client.listens, n)
      /\ client.agg.docs[KeyOf(n)] = None /\ KeyOf(n) \notin Known[n]
  BY DEF Missing, IsDocumentQuery
<1>2. Known[n] = LookupKeys(client, n)
  BY <1>1, HearsTypes
<1>3. LookupFound(n)
  BY <1>1, LookupComplete
<1> QED BY <1>1, <1>2, <1>3 DEF LookupFound

\* The documents of the event: those collected, and what does not exist.
Gathered(docs, pend, now, N) ==
    \A k \in Keys : docs[k] = pend[k] \/ (docs[k] = NoDocument(N) /\ now[k].val = Gone)

\* An event brings what was collected, and the absence of what is gone.
LEMMA DocsGathered ==
    ASSUME WatchInv, ResultInv, IsOpen(stream), CaughtUp, NEW a,
           Raising(client.agg, a, client.listens, Known, Now)
    PROVE  Gathered(a.docs, client.agg.docs, history[Now], Now)
<1>1. ASSUME NEW k \in Keys
      PROVE  \/ a.docs[k] = client.agg.docs[k]
             \/ a.docs[k] = NoDocument(Now) /\ history[Now][k].val = Gone
  <2>1. CASE \E n \in Missing(client.agg, client.listens, Known) : KeyOf(n) = k
    BY <2>1, MissingGone DEF Raising
  <2>2. CASE ~\E n \in Missing(client.agg, client.listens, Known) : KeyOf(n) = k
    BY <2>2 DEF Raising
  <2> QED BY <2>1, <2>2
<1>2. PICK docs, pend, now, N : docs = a.docs /\ pend = client.agg.docs /\ now = history[Now]
                                /\ N = Now
  OBVIOUS
<1>3. Gathered(docs, pend, now, N)
  BY <1>1, <1>2 DEF Gathered
<1> QED BY <1>2, <1>3

\* d is the document e, whatever else is noted of it.
Alike(d, e) ==
    /\ d = None <=> e = None
    /\ d # None => d.val = e.val /\ d.ver = e.ver

\* The cache takes docs.
Cacheing(docs, cache, new) ==
    \A k \in Keys : /\ Alike(new[k], Upcoming(docs[k], cache[k]))
                    /\ ~Takes(docs[k], cache[k]) => new[k] = cache[k]

\* ApplyRemoteEvent takes the documents that are newer than those it has.
LEMMA CacheTakes ==
    ASSUME Typed, NEW docs \in [Keys -> Documents], NEW ver \in Nat
    PROVE  /\ Cacheing(docs, disk.cache, CacheAfter(docs, ver))
           /\ Applied(docs) = {k \in Keys : Takes(docs[k], disk.cache[k])}
<1>1. Applied(docs) = {k \in Keys : Takes(docs[k], disk.cache[k])}
  BY DEF Applied, Takes
<1>2. ASSUME NEW k \in Keys
      PROVE  /\ Alike(CacheAfter(docs, ver)[k], Upcoming(docs[k], disk.cache[k]))
             /\ ~Takes(docs[k], disk.cache[k]) => CacheAfter(docs, ver)[k] = disk.cache[k]
  <2>1. PICK d, old, new : /\ d = docs[k] /\ old = disk.cache[k]
                           /\ new = CacheAfter(docs, ver)[k]
    OBVIOUS
  <2>2. new = IF ~Takes(d, old) THEN old ELSE IF d = NoDocument(0) THEN None
              ELSE [val |-> d.val, ver |-> d.ver, read |-> ver]
    BY <1>1, <2>1 DEF CacheAfter
  <2>3. CASE ~Takes(d, old)
    BY <2>1, <2>2, <2>3 DEF Alike, Upcoming
  <2>4. CASE Takes(d, old) /\ d = NoDocument(0)
    BY <2>1, <2>2, <2>4 DEF Alike, Upcoming
  <2>5. CASE Takes(d, old) /\ d # NoDocument(0)
    <3>1. d # None /\ d \in [val : Data, ver : Nat]
      BY <2>1, <2>5 DEF Takes, Documents
    <3>2. new = [val |-> d.val, ver |-> d.ver, read |-> ver]
      BY <2>2, <2>5
    <3>3. new # None /\ new.val = d.val /\ new.ver = d.ver
      <4>1. new \in [val : Data, ver : Nat, read : Nat]
        BY <3>1, <3>2
      <4> QED BY <3>2, <4>1, DocumentAssumption
    <3>4. Upcoming(d, old) = d
      BY <2>5 DEF Upcoming
    <3> QED BY <2>1, <2>5, <3>1, <3>3, <3>4 DEF Alike
  <2> QED BY <2>3, <2>4, <2>5
<1> QED BY <1>1, <1>2 DEF Cacheing

\* A snapshot at N: what it starts from and what it brings to the cache.
Snapshot(docs, new) ==
    /\ docs \in [Keys -> Documents]
    /\ Gathered(docs, client.agg.docs, history[Now], Now)
    /\ Cacheing(docs, disk.cache, new)

\* A document of the cache after the snapshot was there, or was collected and is not
\* from before the last snapshot, or does not exist.
CachedNow(docs, new, k) ==
    \/ new[k] = disk.cache[k]
    \/ docs[k] = NoDocument(0) /\ new[k] = None
    \/ /\ new[k] # None /\ docs[k] \in [val : Data, ver : Nat]
       /\ new[k].val = docs[k].val /\ new[k].ver = docs[k].ver
       /\ disk.cache[k] # None => docs[k].ver > disk.cache[k].ver
       /\ docs[k].ver <= Now /\ TrueDoc(docs[k], history[Now][k])
       /\ disk.last > 0 => docs[k].ver >= history[disk.last][k].ver

\* After a snapshot a document is as it was, forgotten, or the newer one it brought.
LEMMA CacheOfSnapshot ==
    ASSUME Typed, ResultInv, NEW docs, NEW new, Snapshot(docs, new), NEW k \in Keys
    PROVE  CachedNow(docs, new, k)
<1>1. PICK d, old, e, now, N, last, h :
          /\ d = docs[k] /\ old = disk.cache[k] /\ e = new[k] /\ now = history[Now][k]
          /\ N = Now /\ last = disk.last /\ h = history
  OBVIOUS
<1>2. /\ N \in Nat \ {0} /\ last \in 0..N /\ now.ver \in 1..N /\ Len(h) = N /\ Dated(h)
  BY <1>1, ToldTypes
<1>3. Alike(e, Upcoming(d, old)) /\ (~Takes(d, old) => e = old)
  BY <1>1 DEF Snapshot, Cacheing
<1>4. CASE ~Takes(d, old)
  BY <1>1, <1>3, <1>4 DEF CachedNow
<1>5. CASE Takes(d, old) /\ d = NoDocument(0)
  BY <1>1, <1>3, <1>5 DEF CachedNow, Alike, Upcoming
<1>6. CASE Takes(d, old) /\ d # NoDocument(0)
  <2>1. /\ d # None /\ d \in [val : Data, ver : Nat] /\ (old # None => d.ver > old.ver)
        /\ e # None /\ e.val = d.val /\ e.ver = d.ver
    <3>1. d \in Documents
      BY <1>1 DEF Snapshot
    <3> QED BY <1>3, <1>6, <3>1 DEF Takes, Alike, Upcoming, Documents
  <2>2. d.ver <= N /\ TrueDoc(d, now) /\ (last > 0 => d.ver >= h[last][k].ver)
    <3>1. CASE d = client.agg.docs[k]
      BY <1>1, <1>2, <1>6, <2>1, <3>1 DEF ResultInv, PendingTrue
    <3>2. CASE d = NoDocument(N) /\ now.val = Gone
      <4>1. d.ver = N /\ d.val = Gone
        BY <3>2 DEF NoDocument, Doc
      <4>2. last > 0 => h[last][k].ver \in 1..last
        BY <1>2 DEF Dated
      <4> QED BY <1>2, <3>2, <4>1, <4>2 DEF TrueDoc
    <3>3. d = client.agg.docs[k] \/ (d = NoDocument(N) /\ now.val = Gone)
      BY <1>1 DEF Snapshot, Gathered
    <3> QED BY <3>1, <3>2, <3>3
  <2> QED BY <1>1, <2>1, <2>2 DEF CachedNow
<1> QED BY <1>4, <1>5, <1>6

\* The cache stays true.
LEMMA CacheStaysTrue ==
    ASSUME Typed, ResultInv, NEW docs, NEW new, Snapshot(docs, new)
    PROVE  CacheTrue(new, Now, history[Now])
<1> SUFFICES ASSUME NEW k \in Keys, new[k] # None
             PROVE  new[k].ver <= Now /\ TrueDoc(new[k], history[Now][k])
  BY DEF CacheTrue
<1>1. CachedNow(docs, new, k)
  BY CacheOfSnapshot
<1>2. /\ Now \in Nat /\ disk.last \in 0..Now
      /\ disk.cache[k] # None => disk.cache[k].ver \in Nat
  <2>1. disk.cache[k] \in Cached
    BY ToldTypes
  <2> QED BY <2>1, ToldTypes DEF Cached
<1>3. disk.cache[k] # None => /\ disk.cache[k].ver <= disk.last
                              /\ TrueDoc(disk.cache[k], history[Now][k])
  BY DEF ResultInv, CacheTrue
<1> QED BY <1>1, <1>2, <1>3 DEF CachedNow, TrueDoc

\* The cache does not fall behind a token it was not behind.
LEMMA OldTokenGood ==
    ASSUME Typed, ResultInv, NEW docs, NEW new, Snapshot(docs, new), NEW t, NEW tok \in Nat,
           GoodToken(t, tok, disk.cache, disk.last, history)
    PROVE  GoodToken(t, tok, new, Now, history)
<1>1. Now \in Nat \ {0} /\ disk.last \in 0..Now /\ tok <= disk.last /\ Dated(history)
      /\ Len(history) = Now
  BY ToldTypes DEF GoodToken
<1> SUFFICES ASSUME t \in Queries, tok # NoToken, NEW k \in Keys, Matches(history[tok][k], t),
                    new[k] # None
             PROVE  new[k].ver >= history[tok][k].ver
  BY <1>1 DEF GoodToken
<1>2. CachedNow(docs, new, k)
  BY CacheOfSnapshot
<1>3. tok \in 1..disk.last /\ disk.last \in 1..Len(history) /\ disk.last \in tok..Len(history)
      /\ tok \in 1..Len(history)
  BY <1>1 DEF NoToken
<1>4. /\ history[tok][k].ver <= history[disk.last][k].ver
      /\ history[tok][k].ver \in Nat /\ history[disk.last][k].ver \in Nat
  <2>1. PICK h, v, w : h = history /\ v = tok /\ w = disk.last
    OBVIOUS
  <2>2. /\ h[v][k].ver \in 1..v /\ h[w][k].ver \in 1..w /\ h[v][k].ver <= h[w][k].ver
    <3>1. Dated(h) /\ Len(h) \in Nat /\ v \in 1..Len(h) /\ w \in v..Len(h)
      BY <1>1, <1>3, <2>1
    <3> QED BY ONLY <3>1, k \in Keys, Versions
  <2> QED BY <2>1, <2>2
<1>5. disk.cache[k] # None => /\ disk.cache[k].ver >= history[tok][k].ver
                              /\ disk.cache[k].ver \in Nat
  <2>1. disk.cache[k] \in Cached
    BY ToldTypes
  <2> QED BY <2>1 DEF GoodToken, Cached
<1> QED BY <1>2, <1>3, <1>4, <1>5 DEF CachedNow

\* What the cache has as of the last snapshot is not taken again.
LEMMA LatestStays ==
    ASSUME Typed, ResultInv, NEW docs, NEW new, Snapshot(docs, new), disk.last = Now,
           NEW q, NEW k \in Keys, Matches(history[Now][k], q),
           Latest(disk.cache[k], history[Now][k])
    PROVE  ~Takes(docs[k], disk.cache[k])
<1>1. PICK d, old, now, N : /\ d = docs[k] /\ old = disk.cache[k] /\ now = history[Now][k]
                            /\ N = Now
  OBVIOUS
<1>2. /\ N \in Nat \ {0} /\ now.ver \in 1..N /\ now.val # Gone /\ old # None
      /\ old.ver = now.ver
  BY <1>1, ToldTypes DEF Matches, Latest
<1>3. d = client.agg.docs[k]
  BY <1>1, <1>2 DEF Snapshot, Gathered
<1>4. CASE d = NoDocument(0)
  <2>1. Len(history) = N /\ PendingTrue(client.agg.docs, N, history)
    BY <1>1, ToldTypes DEF ResultInv
  <2>2. now.val = Gone \/ now.ver > N
    BY <1>1, <1>3, <1>4, <2>1 DEF PendingTrue
  <2> QED BY <1>2, <2>2
<1>5. CASE d = None
  BY <1>1, <1>5 DEF Takes
<1>6. CASE d \notin {None, NoDocument(0)}
  <2>1. d.ver \in Nat /\ TrueDoc(d, now)
    <3>1. d \in Documents
      BY <1>1 DEF Snapshot
    <3>2. TrueDoc(d, now)
      BY <1>1, <1>3, <1>6, ToldTypes DEF ResultInv, PendingTrue
    <3> QED BY <1>6, <3>1, <3>2 DEF Documents
  <2>2. ~(d.ver > old.ver)
    BY <1>2, <2>1 DEF TrueDoc
  <2> QED BY <1>1, <1>2, <1>6, <2>2 DEF Takes
<1> QED BY <1>4, <1>5, <1>6

\* w is the view v of q with what was collected in s.
Brought(q, s, v, w, docs, cache, new) ==
    /\ w.synced = Collected(s, v.synced)
    /\ w.shown = {k \in Keys : IF Takes(docs[k], cache[k]) THEN Matches(new[k], q)
                                                           ELSE k \in v.shown}
    /\ w.flawed <=> v.flawed

Nothing == [k \in Keys |-> None]

\* Then nothing is on its way any more, and what was is where it should be.
LEMMA QuerySnapshot ==
    ASSUME NEW q, NEW s, NEW v, NEW w, NEW u, NEW docs, NEW pend, NEW sess, NEW cache, NEW new,
           NEW now, NEW N, QueryTrue(q, s, v, pend, sess, cache, now), ~sess.due,
           Gathered(docs, pend, now, N), Cacheing(docs, cache, new),
           Brought(q, s, v, w, docs, cache, new), Blank(u), u.current <=> s.current
    PROVE  QueryTrue(q, u, w, Nothing, sess, new, now)
<1>1. /\ sess.on /\ Documented(u, Nothing) /\ (Miscounted(u, sess) <=> Miscounted(s, sess))
      /\ Collected(u, w.synced) = w.synced
  <2>1. Collected(u, w.synced) = w.synced /\ Documented(u, Nothing)
    BY BlankCollected
  <2> QED BY <2>1 DEF QueryTrue, Miscounted
<1>2. w.flawed \/ Miscounted(u, sess) \/ Complete(u, w.synced, sess)
  BY <1>1 DEF QueryTrue, Complete, Brought
<1>3. ASSUME NEW k \in Keys
      PROVE  Upcoming(Nothing[k], new[k]) = new[k]
  BY DEF Nothing, Upcoming, Takes
<1>4. Arriving(q, u, w, Nothing, sess, new, now)
  <2> SUFFICES ASSUME NEW k \in Keys, Matches(now[k], q), sess.sent[k] = now[k].ver
               PROVE  \/ Latest(new[k], now[k])
                      \/ new[k] = None /\ (w.flawed \/ Miscounted(u, sess))
    BY <1>3 DEF Arriving
  <2>1. docs[k] = pend[k]
    BY DEF Gathered, Matches
  <2>2. \/ Latest(Upcoming(docs[k], cache[k]), now[k])
        \/ Upcoming(docs[k], cache[k]) = None /\ (v.flawed \/ Miscounted(s, sess))
    BY <2>1 DEF QueryTrue, Arriving
  <2>3. Alike(new[k], Upcoming(docs[k], cache[k]))
    BY DEF Cacheing
  <2> QED BY <1>1, <2>2, <2>3 DEF Alike, Latest, Brought
<1>5. Showing(q, w, new, now)
  <2> SUFFICES ASSUME ~w.flawed, NEW k \in Keys, Matches(now[k], q), Latest(new[k], now[k])
               PROVE  k \in w.shown
    BY DEF Showing
  <2>1. CASE Takes(docs[k], cache[k])
    <3>1. Matches(new[k], q)
      BY DEF Matches, Latest
    <3> QED BY <2>1, <3>1 DEF Brought
  <2>2. CASE ~Takes(docs[k], cache[k])
    <3>1. new[k] = cache[k]
      BY <2>2 DEF Cacheing
    <3>2. k \in v.shown
      BY <3>1 DEF QueryTrue, Showing, Brought
    <3> QED BY <2>2, <3>2 DEF Brought
  <2> QED BY <2>1, <2>2
<1> QED BY <1>1, <1>2, <1>4, <1>5 DEF QueryTrue

\* A query that has heard everything has a true view and a good token.
LEMMA QueryCaughtUp ==
    ASSUME Typed, ResultInv, NEW q \in Queries, TargetCaughtUp(q), NEW u, NEW w, NEW new,
           QueryTrue(q, u, w, Nothing, server.session[q], new, history[Now]), Blank(u)
    PROVE  /\ u.current => ViewTrue(q, w, new, Now, history)
           /\ GoodToken(q, Now, new, Now, history)
<1>1. PICK now, sess : now = history[Now] /\ sess = server.session[q]
  OBVIOUS
<1>2. Now \in Nat \ {0} /\ \A k \in Keys : now[k].ver \in 1..Now
  BY <1>1, ToldTypes
<1>3. /\ ~sess.due /\ SentKeys(sess) = {k \in Keys : Matches(now[k], q)}
      /\ \A k \in Keys : Matches(now[k], q) => sess.sent[k] = now[k].ver
  BY <1>1, QueryContent DEF TargetCaughtUp
<1>4. ASSUME NEW k \in Keys, Matches(now[k], q)
      PROVE  \/ Latest(new[k], now[k])
             \/ new[k] = None /\ (w.flawed \/ Miscounted(u, sess))
  <2>1. Upcoming(Nothing[k], new[k]) = new[k]
    BY DEF Nothing, Upcoming, Takes
  <2> QED BY <1>1, <1>3, <1>4, <2>1 DEF QueryTrue, Arriving
<1>5. GoodToken(q, Now, new, Now, history)
  <2>1. \A k \in Keys : Matches(now[k], q) /\ new[k] # None => new[k].ver >= now[k].ver
    <3> SUFFICES ASSUME NEW k \in Keys, Matches(now[k], q), new[k] # None
                 PROVE  new[k].ver >= now[k].ver
      OBVIOUS
    <3>1. new[k].ver = now[k].ver
      BY <1>4 DEF Latest
    <3> QED BY <1>2, <3>1
  <2> QED BY <1>1, <1>2, <2>1 DEF GoodToken
<1>6. ASSUME u.current PROVE ViewTrue(q, w, new, Now, history)
  <2> SUFFICES ASSUME ~w.flawed
               PROVE  /\ w.synced = {k \in Keys : Matches(history[Now][k], q)}
                      /\ \A k \in w.synced : /\ k \in w.shown /\ new[k] # None
                                             /\ new[k].val = history[Now][k].val
                                             /\ new[k].ver = history[Now][k].ver
    BY DEF ViewTrue
  <2>1. ~Miscounted(u, sess)
    BY <1>6 DEF Miscounted
  <2>2. w.synced = {k \in Keys : Matches(now[k], q)}
    <3>1. Complete(u, w.synced, sess)
      BY <1>1, <2>1 DEF QueryTrue
    <3>2. Collected(u, w.synced) = w.synced
      BY BlankCollected
    <3> QED BY <1>3, <3>1, <3>2 DEF Complete
  <2>3. ASSUME NEW k \in w.synced PROVE k \in w.shown /\ Latest(new[k], now[k])
    <3>1. Latest(new[k], now[k]) /\ k \in Keys /\ Matches(now[k], q)
      BY <1>4, <2>1, <2>2
    <3> QED BY <1>1, <3>1 DEF QueryTrue, Showing
  <2> QED BY <1>1, <2>2, <2>3 DEF Latest
<1> QED BY <1>5, <1>6

\* A view that is told nothing, with the token of this version, is as true as it was.
LEMMA ViewUntold ==
    ASSUME Typed, ResultInv, NEW docs, NEW new, Snapshot(docs, new), NEW q, NEW v, NEW w,
           ViewTrue(q, v, disk.cache, disk.last, history),
           GoodToken(q, v.token, disk.cache, disk.last, history), disk.last <= Now,
           w.synced = v.synced, w.current <=> v.current, w.token = v.token,
           w.flawed <=> v.flawed,
           w.shown = {k \in Keys : IF Takes(docs[k], disk.cache[k]) THEN Matches(new[k], q)
                                                                    ELSE k \in v.shown}
    PROVE  ViewTrue(q, w, new, Now, history)
<1> SUFFICES ASSUME ~w.flawed, w.current, w.token = Now
             PROVE  /\ w.synced = {k \in Keys : Matches(history[Now][k], q)}
                    /\ \A k \in w.synced : /\ k \in w.shown /\ new[k] # None
                                           /\ new[k].val = history[Now][k].val
                                           /\ new[k].ver = history[Now][k].ver
  BY DEF ViewTrue
<1>1. disk.last = Now
  BY ToldTypes DEF GoodToken
<1>2. /\ v.synced = {k \in Keys : Matches(history[Now][k], q)}
      /\ \A k \in v.synced : k \in v.shown /\ Latest(disk.cache[k], history[Now][k])
  BY <1>1 DEF ViewTrue, Latest
<1>3. ASSUME NEW k \in v.synced PROVE k \in w.shown /\ Latest(new[k], history[Now][k])
  <2>1. k \in Keys /\ Matches(history[Now][k], q) /\ Latest(disk.cache[k], history[Now][k])
    BY <1>2
  <2>2. ~Takes(docs[k], disk.cache[k])
    BY <1>1, <2>1, LatestStays
  <2>3. new[k] = disk.cache[k]
    BY <2>1, <2>2 DEF Snapshot, Cacheing
  <2> QED BY <1>2, <2>1, <2>2, <2>3
<1> QED BY <1>2, <1>3 DEF Latest

\* What the event tells a target that hears.
ToldOf(a, event, t) ==
    /\ t \in DOMAIN event.changes
    /\ event.changes[t].token = Now
    /\ event.changes[t].current = client.agg.targets[t].current
    /\ t \notin Missing(client.agg, client.listens, Known) =>
           /\ event.changes[t].added = Marked(client.agg.targets[t], "added")
           /\ event.changes[t].removed = Marked(client.agg.targets[t], "removed")

\* An event tells of the targets that hear, and what was collected for each.
LEMMA EventTells ==
    ASSUME NEW a, Raising(client.agg, a, client.listens, Known, Now), NEW event,
           event = RemoteEvent(a, client.listens, Now), NEW t \in Targets
    PROVE  /\ t \in DOMAIN event.changes <=> IsActive(client.agg, client.listens, t)
           /\ IsActive(client.agg, client.listens, t) => ToldOf(a, event, t)
<1>1. event.changes = [u \in Raised(a, client.listens) |-> TargetChange(a.targets[u])]
  BY DEF RemoteEvent
<1>2. /\ t \in Raised(a, client.listens) <=> IsActive(client.agg, client.listens, t)
      /\ IsActive(client.agg, client.listens, t) => a.targets[t].token = Now
      /\ a.targets[t].current = client.agg.targets[t].current
      /\ t \notin Missing(client.agg, client.listens, Known) =>
             a.targets[t].docs = client.agg.targets[t].docs
  BY DEF Raising
<1>3. t \in DOMAIN event.changes <=> IsActive(client.agg, client.listens, t)
  BY <1>1, <1>2
<1>4. ASSUME IsActive(client.agg, client.listens, t) PROVE ToldOf(a, event, t)
  <2>1. event.changes[t] = TargetChange(a.targets[t])
    BY <1>1, <1>2, <1>4
  <2>2. /\ event.changes[t].token = a.targets[t].token
        /\ event.changes[t].current = a.targets[t].current
        /\ event.changes[t].added = Marked(a.targets[t], "added")
        /\ event.changes[t].removed = Marked(a.targets[t], "removed")
    BY <2>1 DEF TargetChange
  <2> QED BY <1>2, <1>3, <1>4, <2>2 DEF ToldOf, Marked
<1> QED BY <1>3, <1>4

\* A lookup that hears has received its document if there is one.
LEMMA LookupReceived ==
    ASSUME WatchInv, ResultInv, IsOpen(stream), CaughtUp, NEW a,
           Raising(client.agg, a, client.listens, Known, Now), NEW event,
           event = RemoteEvent(a, client.listens, Now), NEW n \in LimboIds,
           n \in client.resolving, IsActive(client.agg, client.listens, n),
           history[Now][KeyOf(n)].val # Gone
    PROVE  n \in Received(client, event.changes)
<1>1. n \in Targets /\ KeyOf(n) \in Keys
  BY LimboKey DEF Targets
<1>2. n \notin Missing(client.agg, client.listens, Known)
  BY MissingGone
<1>3. /\ n \in DOMAIN event.changes
      /\ event.changes[n].added = Marked(client.agg.targets[n], "added")
      /\ event.changes[n].removed = Marked(client.agg.targets[n], "removed")
  <2>1. ToldOf(a, event, n)
    BY <1>1, EventTells
  <2> QED BY <1>2, <2>1 DEF ToldOf
<1>4. LookupFound(n)
  BY LookupComplete
<1>5. \/ KeyOf(n) \in event.changes[n].added
      \/ n \in client.received /\ event.changes[n].removed = {}
  BY <1>1, <1>3, <1>4 DEF LookupFound, Marked
<1> QED BY <1>3, <1>5 DEF Received

\* The same with its token.
LEMMA LookupTokens ==
    ASSUME WatchInv, ResultInv, IsOpen(stream), CaughtUp, NEW a,
           Raising(client.agg, a, client.listens, Known, Now), NEW event,
           event = RemoteEvent(a, client.listens, Now), NEW e,
           e.resolving = client.resolving, e.received = Received(client, event.changes),
           \A n \in LimboIds : e.tokens[n] = EventToken(client, a, n)
    PROVE  LimboToken(e, history)
<1> SUFFICES ASSUME NEW n \in e.resolving, e.tokens[n] # NoToken,
                    history[e.tokens[n]][KeyOf(n)].val # Gone
             PROVE  n \in e.received
  BY DEF LimboToken
<1>1. n \in LimboIds /\ n \in Targets /\ n \in client.resolving
  BY DEF WatchInv, ClientInv, ClientCore, Clients, Targets
<1>2. e.tokens[n] = EventToken(client, a, n)
  BY <1>1
<1>3. /\ n \in Raised(a, client.listens) <=> IsActive(client.agg, client.listens, n)
      /\ IsActive(client.agg, client.listens, n) => a.targets[n].token = Now
  BY <1>1 DEF Raising
<1>4. CASE IsActive(client.agg, client.listens, n)
  <2>1. e.tokens[n] = Now
    <3>1. Now # NoToken
      BY ToldTypes DEF WatchInv, NoToken
    <3> QED BY <1>2, <1>3, <1>4, <3>1 DEF EventToken
  <2> QED BY <1>1, <1>4, <2>1, LookupReceived
<1>5. CASE ~IsActive(client.agg, client.listens, n)
  <2>1. e.tokens[n] = client.tokens[n]
    BY <1>2, <1>3, <1>5 DEF EventToken
  <2>2. n \in client.received
    BY <1>1, <2>1 DEF ResultInv, LimboToken
  <2>3. n \notin DOMAIN event.changes
    BY <1>1, <1>5, EventTells
  <2> QED BY <1>1, <2>2, <2>3 DEF Received
<1> QED BY <1>4, <1>5

\* w is what the event leaves of the view v of q, that hears or not.
ViewBrought(q, v, w, docs, new) ==
    LET s == client.agg.targets[q]
    IN  /\ IsActive(client.agg, client.listens, q) =>
               /\ v.on /\ w.token = Now /\ (w.current <=> s.current)
               /\ Brought(q, s, v, w, docs, disk.cache, new)
        /\ ~IsActive(client.agg, client.listens, q) =>
               /\ w.synced = v.synced /\ (w.current <=> v.current) /\ w.token = v.token
               /\ w.flawed <=> v.flawed
               /\ v.on => w.shown = {k \in Keys : IF Takes(docs[k], disk.cache[k])
                                                  THEN Matches(new[k], q) ELSE k \in v.shown}

\* The event of a snapshot does that.
LEMMA SnapshotViews ==
    ASSUME WatchInv, ResultInv, NEW a, Raising(client.agg, a, client.listens, Known, Now),
           NEW event, event = RemoteEvent(a, client.listens, Now), NEW c, EventLeft(c, event),
           NEW new, new = disk'.cache,
           Applied(event.docs) = {k \in Keys : Takes(event.docs[k], disk.cache[k])},
           NEW q \in Queries
    PROVE  ViewBrought(q, views[q], views'[q], event.docs, new)
<1>1. PICK s, v, w, docs, N : /\ s = client.agg.targets[q] /\ v = views[q] /\ w = views'[q]
                              /\ docs = event.docs /\ N = Now
  OBVIOUS
<1>2. ViewLeft(q, v, w, event) /\ new = CacheAfter(event.docs, event.ver)
  BY <1>1 DEF EventLeft
<1>3. event.ver = N /\ N # NoToken /\ N # 0 /\ q \in Targets
  BY <1>1, ToldTypes DEF RemoteEvent, WatchInv, NoToken, Targets
<1>4. w.shown = IF v.on THEN {k \in Keys : IF Takes(docs[k], disk.cache[k])
                                          THEN Matches(new[k], q) ELSE k \in v.shown}
                        ELSE v.shown
  BY <1>1, <1>2 DEF ViewLeft
<1>5. w.flawed <=> v.flawed
  BY <1>2, <1>3 DEF ViewLeft
<1>6. ASSUME IsActive(client.agg, client.listens, q)
      PROVE  /\ v.on /\ w.token = N /\ (w.current <=> s.current)
             /\ Brought(q, s, v, w, docs, disk.cache, new)
  <2>1. v.on
    <3>1. client.listens = client.resolving \cup OnViews /\ client.resolving \subseteq LimboIds
      BY DEF WatchInv, ClientInv, ClientCore, Clients
    <3> QED BY <1>1, <1>6, <3>1, WatchAssumption DEF OnViews, IsActive
  <2>2. ToldOf(a, event, q) /\ q \notin Missing(client.agg, client.listens, Known)
    BY <1>3, <1>6, EventTells, WatchAssumption DEF Missing, IsDocumentQuery
  <2>3. PICK change : change = event.changes[q]
    OBVIOUS
  <2>4. /\ q \in DOMAIN event.changes /\ change.token = N /\ change.current = s.current
        /\ change.added = Marked(s, "added") /\ change.removed = Marked(s, "removed")
    BY <1>1, <2>2, <2>3 DEF ToldOf
  <2>5. /\ w.token = N /\ w.current = s.current
        /\ w.synced = (v.synced \cup change.added) \ change.removed
    BY <1>1, <1>2, <1>3, <2>1, <2>3, <2>4 DEF ViewLeft, SyncedAfter
  <2>6. w.synced = Collected(s, v.synced)
    BY <2>4, <2>5 DEF Collected, Marked
  <2> QED BY <1>4, <1>5, <2>1, <2>5, <2>6 DEF Brought
<1>7. ASSUME ~IsActive(client.agg, client.listens, q)
      PROVE  w.synced = v.synced /\ w.current = v.current /\ w.token = v.token
  <2>1. q \notin DOMAIN event.changes
    BY <1>3, <1>7, EventTells
  <2> QED BY <1>1, <1>2, <2>1 DEF ViewLeft, SyncedAfter
<1> QED BY <1>1, <1>4, <1>5, <1>6, <1>7 DEF ViewBrought

\* What a snapshot leaves of a query that hears, and of one that does not.
LEMMA SnapshotQuery ==
    ASSUME WatchInv, ResultInv, IsOpen(stream), CaughtUp, disk.last <= Now,
           NEW docs, NEW new, Snapshot(docs, new), NEW q \in Queries, NEW w,
           w.current => views[q].on, ViewBrought(q, views[q], w, docs, new)
    PROVE  /\ ViewTrue(q, w, new, Now, history)
           /\ GoodToken(q, w.token, new, Now, history)
           /\ w.current => w.token # NoToken
           /\ IsActive(client.agg, client.listens, q) =>
                  /\ GoodToken(q, Now, new, Now, history)
                  /\ \A u : Blank(u) /\ (u.current <=> client.agg.targets[q].current) =>
                         QueryTrue(q, u, w, Nothing, server.session[q], new, history[Now])
<1>1. PICK s, v, sess, pend, cache, now, N :
          /\ s = client.agg.targets[q] /\ v = views[q] /\ sess = server.session[q]
          /\ pend = client.agg.docs /\ cache = disk.cache /\ now = history[Now] /\ N = Now
  OBVIOUS
<1>2. /\ Typed /\ q \in Targets /\ N # NoToken
      /\ ViewTrue(q, v, cache, disk.last, history)
      /\ GoodToken(q, v.token, cache, disk.last, history)
      /\ v.current => v.token # NoToken
      /\ v.token \in Nat
  <2>1. Typed /\ N # NoToken
    BY <1>1, ToldTypes DEF WatchInv, NoToken
  <2>2. v.token \in Nat
    <3>1. v \in Views(Now)
      BY <1>1, <2>1 DEF Typed
    <3> QED BY <3>1, ToldTypes, <2>1 DEF Views
  <2> QED BY <1>1, <2>1, <2>2 DEF ResultInv, ViewsTrue, TokensTrue, Targets
<1>3. CASE IsActive(client.agg, client.listens, q)
  <2>1. QueryTrue(q, s, v, pend, sess, cache, now)
    BY <1>1, <1>3 DEF ResultInv, TargetsTrue, QueriesTrue
  <2>2. TargetCaughtUp(q)
    BY <1>1, <1>2, <2>1, AllCaughtUp DEF QueryTrue
  <2>3. /\ ~sess.due /\ Gathered(docs, pend, now, N) /\ Cacheing(docs, cache, new)
        /\ Brought(q, s, v, w, docs, cache, new) /\ w.token = N /\ (w.current <=> s.current)
    BY <1>1, <1>3, <2>2 DEF TargetCaughtUp, Snapshot, ViewBrought
  <2>4. ASSUME NEW u, Blank(u), u.current <=> s.current
        PROVE  QueryTrue(q, u, w, Nothing, sess, new, now)
    BY ONLY <2>1, <2>3, <2>4, QuerySnapshot
  <2>5. PICK u : Blank(u) /\ u.current = s.current
    <3>1. PICK u : u = [docs |-> [k \in Keys |-> "same"], current |-> s.current]
      OBVIOUS
    <3> QED BY <3>1 DEF Blank
  <2>6. (u.current => ViewTrue(q, w, new, Now, history)) /\ GoodToken(q, Now, new, Now, history)
    <3>1. QueryTrue(q, u, w, Nothing, server.session[q], new, history[Now])
      BY <1>1, <2>4, <2>5
    <3> QED BY <1>2, <2>2, <2>5, <3>1, QueryCaughtUp
  <2>7. ViewTrue(q, w, new, Now, history)
    BY <2>3, <2>5, <2>6 DEF ViewTrue
  <2> QED BY <1>1, <1>2, <2>3, <2>4, <2>6, <2>7
<1>4. CASE ~IsActive(client.agg, client.listens, q)
  <2>1. /\ w.synced = v.synced /\ (w.current <=> v.current) /\ w.token = v.token
        /\ w.flawed <=> v.flawed
        /\ v.on => w.shown = {k \in Keys : IF Takes(docs[k], cache[k])
                                           THEN Matches(new[k], q) ELSE k \in v.shown}
    BY <1>1, <1>4 DEF ViewBrought
  <2>2. ViewTrue(q, w, new, Now, history)
    <3>1. CASE v.on
      BY <1>1, <1>2, <2>1, <3>1, ViewUntold
    <3>2. CASE ~v.on
      BY <1>1, <3>2 DEF ViewTrue
    <3> QED BY <3>1, <3>2
  <2>3. GoodToken(q, w.token, new, Now, history)
    BY <1>1, <1>2, <2>1, OldTokenGood
  <2> QED BY <1>2, <1>4, <2>1, <2>2, <2>3
<1> QED BY <1>3, <1>4

\* A target that hears after the snapshot did before, and nothing is collected for it.
HearsOn(a, e, t) ==
    /\ IsActive(client.agg, client.listens, t)
    /\ Blank(client'.agg.targets[t])
    /\ client'.agg.targets[t].current <=> client.agg.targets[t].current
    /\ t \in e.received => t \in client'.received

\* What hears after a snapshot has heard before it.
LEMMA SnapshotHears ==
    ASSUME NEW a, Raising(client.agg, a, client.listens, Known, Now), NEW d, NEW e, NEW event,
           SnapshotLeft(client, a, d, e, OnViews, SyncedAfter(event), Now),
           Steady(e, client', TRUE), NEW t \in Targets, e.received \subseteq LimboIds,
           IsActive(client'.agg, client'.listens, t)
    PROVE  HearsOn(a, e, t)
<1>1. /\ t \in e.listens /\ client'.agg.targets[t] = e.agg.targets[t]
      /\ e.agg.targets[t].out = 0
      /\ t \in e.received => t \in client'.received
  <2>1. CASE t \in Queries
    BY <2>1, WatchAssumption DEF Steady, IsActive
  <2>2. CASE t \in LimboIds
    BY <2>2 DEF Steady, IsActive
  <2> QED BY <2>1, <2>2 DEF Targets
<1>2. /\ a.targets[t].out = 0 /\ e.agg.targets[t].current = a.targets[t].current
      /\ Blank(e.agg.targets[t]) /\ e.listens = client.listens
  BY <1>1 DEF SnapshotLeft
<1>3. /\ a.targets[t].out = client.agg.targets[t].out
      /\ a.targets[t].current = client.agg.targets[t].current
  BY DEF Raising
<1> QED BY <1>1, <1>2, <1>3 DEF HearsOn, IsActive

\* A snapshot keeps the invariant: what is current and without flaw is the result.
LEMMA SendSnapshotResult ==
    ASSUME FewKeys, WatchInv, ResultInv, SendSnapshot
    PROVE  ResultInv'
<1>1. PICK a, event, d, slow, e : SnapshotParts(a, event, d, slow, e)
  BY SnapshotRaised
<1>2. /\ UNCHANGED <<stream, server>> /\ IsOpen(stream) /\ CaughtUp /\ Now >= disk.last
      /\ Now' = Now /\ history' = history
  BY DEF SendSnapshot, Now, history
<1>3. /\ Typed /\ Now \in Nat \ {0} /\ disk.last \in 0..Now /\ Len(history) = Now
      /\ client.agg \in Aggregators(Now) /\ client.listens \in SUBSET Targets
      /\ client.resolving \subseteq LimboIds /\ client.received \subseteq LimboIds
      /\ client.listens = client.resolving \cup OnViews
      /\ client.tokens \in [Targets -> 0..Now]
  BY ToldTypes DEF WatchInv, ClientInv, ClientCore, Clients
<1>4. Raising(client.agg, a, client.listens, Known, Now)
  <2>1. a = WithDeletes(NoTargetChange(client.agg, client.listens, Now), client.listens,
                        Known, Now)
    BY <1>1 DEF SnapshotParts
  <2> QED BY <1>3, <2>1, SnapshotAgg
<1>5. /\ EventLeft(d, event) /\ event = RemoteEvent(a, client.listens, Now)
      /\ event.docs = a.docs /\ event.ver = Now /\ a.docs \in [Keys -> Documents]
  <2>1. EventLeft(d, event)
    BY <1>1, <1>3, EventFields DEF SnapshotParts
  <2>2. a \in Aggregators(Now)
    BY <1>1 DEF SnapshotParts, SnapshotLeft
  <2> QED BY <1>1, <2>1, <2>2 DEF SnapshotParts, RemoteEvent, Aggregators
<1>6. PICK docs, new : docs = event.docs /\ new = disk'.cache
  OBVIOUS
<1>7. /\ Snapshot(docs, new) /\ disk'.last = Now
      /\ Applied(event.docs) = {k \in Keys : Takes(event.docs[k], disk.cache[k])}
  <2>1. new = CacheAfter(docs, Now) /\ disk'.last = Now
    BY <1>3, <1>5, <1>6 DEF EventLeft
  <2>2. Cacheing(docs, disk.cache, new) /\ Applied(docs) = {k \in Keys : Takes(docs[k], disk.cache[k])}
    BY <1>3, <1>5, <1>6, <2>1, CacheTakes
  <2>3. Gathered(docs, client.agg.docs, history[Now], Now)
    BY <1>2, <1>4, <1>5, <1>6, DocsGathered
  <2> QED BY <1>5, <1>6, <2>1, <2>2, <2>3 DEF Snapshot
<1>8. ASSUME NEW q \in Queries
      PROVE  /\ ViewTrue(q, views'[q], new, Now, history)
             /\ GoodToken(q, views'[q].token, new, Now, history)
             /\ views'[q].current => views'[q].token # NoToken
             /\ IsActive(client.agg, client.listens, q) =>
                  /\ GoodToken(q, Now, new, Now, history)
                  /\ \A u : Blank(u) /\ (u.current <=> client.agg.targets[q].current) =>
                         QueryTrue(q, u, views'[q], Nothing, server.session[q], new,
                                   history[Now])
  <2>1. ViewBrought(q, views[q], views'[q], docs, new)
    BY <1>4, <1>5, <1>6, <1>7, SnapshotViews
  <2>2. views'[q].current => views[q].on
    <3>1. Typed' /\ views'[q].on = views[q].on
      BY <1>1, <1>5 DEF SnapshotParts, Shown, EventLeft, ViewLeft
    <3>2. views'[q].current => views'[q].on
      BY <3>1 DEF Typed
    <3> QED BY <3>1, <3>2
  <2> QED BY <1>2, <1>3, <1>7, <2>1, <2>2, SnapshotQuery
<1>9. /\ Steady(e, client', TRUE)
      /\ SnapshotLeft(client, a, d, e, OnViews, SyncedAfter(event), Now)
      /\ e.received = Received(client, event.changes) /\ e.resolving = client.resolving
      /\ e.agg.docs = Nothing /\ (Asked(client) => Asked(e))
      /\ \A t \in Targets : \/ t \in Queries /\ e.tokens[t] = NoToken
                            \/ e.tokens[t] = EventToken(client, a, t)
  BY <1>1, <1>5 DEF SnapshotParts, Emptying, SnapshotLeft, Nothing
<1>10. Asked(client') /\ client'.agg.docs = Nothing /\ client'.resolving \subseteq LimboIds
  <2>1. client' \in Clients(Now')
    BY <1>1 DEF SnapshotParts, Emptying, ClientInv, ClientCore
  <2> QED BY <1>9, <2>1 DEF Steady, ResultInv, Clients
<1>11. LimboToken(client', history)
  <2>1. \A n \in LimboIds : e.tokens[n] = EventToken(client, a, n)
    BY <1>9, WatchAssumption DEF Targets
  <2>2. LimboToken(e, history)
    BY <1>2, <1>4, <1>5, <1>9, <2>1, LookupTokens
  <2> QED BY <1>9, <1>10, <2>2, SteadyLimbo
<1>12. TokensTrue'
  <2>1. ASSUME NEW q \in Queries
        PROVE  GoodToken(q, disk'.targets[q].token, new, Now, history)
    <3>1. GoodToken(q, disk.targets[q].token, new, Now, history)
      <4>1. disk.targets[q].token \in Nat
        BY <1>3 DEF Typed, Disks
      <4>2. GoodToken(q, disk.targets[q].token, disk.cache, disk.last, history)
        BY DEF ResultInv, TokensTrue
      <4> QED BY <1>3, <1>7, <4>1, <4>2, OldTokenGood
    <3>2. CASE disk'.targets[q].token = disk.targets[q].token
      BY <3>1, <3>2
    <3>3. CASE q \in DOMAIN event.changes /\ disk'.targets[q].token = event.changes[q].token
      <4>1. IsActive(client.agg, client.listens, q) /\ event.changes[q].token = Now
        BY <1>4, <1>5, <3>3, EventTells DEF Targets, ToldOf
      <4> QED BY <1>8, <3>3, <4>1
    <3> QED BY <1>5, <3>2, <3>3 DEF EventLeft
  <2>2. ASSUME NEW t \in Targets
        PROVE  GoodToken(t, client'.tokens[t], new, Now, history)
    <3>1. GoodToken(t, NoToken, new, Now, history)
      BY <1>3, NoTokenGood
    <3>2. GoodToken(t, client.tokens[t], new, Now, history)
      <4>1. client.tokens[t] \in Nat
        BY <1>3
      <4>2. GoodToken(t, client.tokens[t], disk.cache, disk.last, history)
        BY DEF ResultInv, TokensTrue
      <4> QED BY <1>3, <1>7, <4>1, <4>2, OldTokenGood
    <3>3. client'.tokens[t] \in {NoToken, client.tokens[t], EventToken(client, a, t)}
      BY <1>9 DEF Steady, Targets
    <3>4. ASSUME IsActive(client.agg, client.listens, t)
          PROVE  GoodToken(t, Now, new, Now, history)
      <4>1. CASE t \in Queries
        BY <1>8, <3>4, <4>1
      <4>2. CASE t \notin Queries
        BY <1>3, <4>2 DEF GoodToken
      <4> QED BY <4>1, <4>2
    <3>5. \/ EventToken(client, a, t) = client.tokens[t]
          \/ IsActive(client.agg, client.listens, t) /\ EventToken(client, a, t) = Now
      BY <1>4 DEF EventToken, Raising
    <3> QED BY <3>1, <3>2, <3>3, <3>4, <3>5
  <2> QED BY <1>2, <1>6, <1>7, <1>8, <2>1, <2>2 DEF TokensTrue
<1>13. ViewsTrue'
  <2>1. ASSUME NEW q \in Queries, views'[q].current
        PROVE  client'.refs[q] = views'[q].shown \ views'[q].synced
    <3>1. views[q].on
      <4>1. Typed' /\ views'[q].on = views[q].on
        BY <1>1, <1>5 DEF SnapshotParts, Shown, EventLeft, ViewLeft
      <4>2. views'[q].on
        BY <2>1, <4>1 DEF Typed
      <4> QED BY <4>1, <4>2
    <3>2. client'.refs[q] = LimboOf(d, event)[q]
      BY <1>1, <3>1 DEF SnapshotParts, Emptying
    <3> QED BY <1>5, <2>1, <3>2 DEF EventLeft
  <2> QED BY <1>2, <1>6, <1>7, <1>8, <2>1 DEF ViewsTrue
<1>14. TargetsTrue'
  <2>1. e.received \subseteq LimboIds
    BY <1>3, <1>9 DEF Received
  <2>2. ASSUME NEW t \in Targets, IsActive(client'.agg, client'.listens, t)
        PROVE  HearsOn(a, e, t)
    BY <1>4, <1>9, <2>1, <2>2, SnapshotHears
  <2>3. ASSUME NEW q \in Queries, IsActive(client'.agg, client'.listens, q)
        PROVE  QueryTrue(q, client'.agg.targets[q], views'[q], client'.agg.docs,
                         server.session[q], new, history[Now])
    <3>1. HearsOn(a, e, q)
      BY <2>2, <2>3 DEF Targets
    <3>2. PICK u : u = client'.agg.targets[q]
      OBVIOUS
    <3>3. /\ IsActive(client.agg, client.listens, q) /\ Blank(u)
          /\ u.current <=> client.agg.targets[q].current
      BY <3>1, <3>2 DEF HearsOn
    <3>4. QueryTrue(q, u, views'[q], Nothing, server.session[q], new, history[Now])
      BY <1>8, <3>3
    <3> QED BY <1>10, <3>2, <3>4
  <2>4. ASSUME NEW n \in LimboIds, IsActive(client'.agg, client'.listens, n)
        PROVE  LookupTrue(client'.agg.targets[n], LookupKeys(client', n), client'.agg.docs,
                          server.session[n])
    <3>1. HearsOn(a, e, n) /\ n \in Targets
      BY <2>2, <2>4 DEF Targets
    <3>2. PICK u, known, sess : /\ u = client'.agg.targets[n] /\ known = LookupKeys(client', n)
                                /\ sess = server.session[n]
      OBVIOUS
    <3>3. IsActive(client.agg, client.listens, n) /\ Blank(u)
      BY <3>1, <3>2 DEF HearsOn
    <3>4. sess.on
      BY <1>2, <3>2, <3>3 DEF ResultInv, TargetsTrue, LimboTrue, LookupTrue
    <3>5. SentKeys(sess) = Content(n, Now)
      BY <1>3, <3>1, <3>2, <1>2, <3>4, AllCaughtUp DEF TargetCaughtUp
    <3>6. SentKeys(sess) \subseteq known
      <4> SUFFICES ASSUME NEW k \in SentKeys(sess) PROVE k \in known
        OBVIOUS
      <4>1. k = KeyOf(n) /\ history[Now][KeyOf(n)].val # Gone
        BY <3>5, LookupContent
      <4>2. n \in client.resolving
        BY <1>3, <3>3, WatchAssumption DEF IsActive, OnViews
      <4>3. n \in e.received
        BY <1>2, <1>4, <1>5, <1>9, <3>3, <4>1, <4>2, LookupReceived
      <4>4. n \in client'.received
        BY <3>1, <4>3 DEF HearsOn
      <4> QED BY <3>2, <4>1, <4>4 DEF LookupKeys
    <3>7. Collected(u, known) = known /\ Documented(u, Nothing)
      BY <3>3, BlankCollected
    <3> QED BY <1>10, <3>2, <3>4, <3>6, <3>7 DEF LookupTrue
  <2> QED BY <1>2, <1>6, <2>3, <2>4 DEF TargetsTrue, QueriesTrue, LimboTrue
<1>15. CacheTrue(new, Now, history[Now])
  BY <1>3, <1>7, CacheStaysTrue
<1>16. PendingTrue(Nothing, Now, history)
  <2>1. None # NoDocument(0)
    BY WatchAssumption
  <2> QED BY <2>1 DEF PendingTrue, Nothing
<1>17. ServerTyped' /\ Dated(history')
  BY <1>2 DEF ResultInv, ServerTyped
<1> QED BY <1>2, <1>6, <1>7, <1>10, <1>11, <1>12, <1>13, <1>14, <1>15, <1>16, <1>17 DEF ResultInv

----------------------------------------------------------------------------
(* The theorem.                                                            *)

\* At first nothing is sent, collected, cached or shown.
LEMMA InitResult == Init => ResultInv
<1> SUFFICES ASSUME Init PROVE ResultInv
  OBVIOUS
<1>1. /\ client = NewClient /\ views = [q \in Queries |-> NoView]
      /\ disk = [cache   |-> [k \in Keys |-> None],
                 targets |-> [q \in Queries |-> [token |-> NoToken, keys |-> {}, free |-> 0]],
                 last    |-> 0]
  BY DEF Init
<1>a. PICK d \in [Keys -> Data] :
          server = [history |-> <<[k \in Keys |-> Doc(d[k], 1)]>>,
                    horizon |-> 0, session |-> NoSessions]
  BY DEF Init
<1>b. PICK h : h = <<[k \in Keys |-> Doc(d[k], 1)]>>
  OBVIOUS
<1>2. /\ h = <<[k \in Keys |-> Doc(d[k], 1)]>>
      /\ server = [history |-> h, horizon |-> 0, session |-> NoSessions]
  BY ONLY <1>a, <1>b
<1>3. history = h /\ Len(h) = 1 /\ Now = 1 /\ h[1] = [k \in Keys |-> Doc(d[k], 1)]
  BY <1>2 DEF history, Now
<1>4. \A k \in Keys : h[1][k] \in [val : Data, ver : Nat] /\ h[1][k].ver = 1
  BY <1>3 DEF Doc
<1>5. ServerTyped
  <2>1. h \in Histories
    BY <1>2, <1>3, <1>4 DEF Histories
  <2>2. NoSessions \in [Targets -> Sessions(Now)]
    <3>1. [k \in Keys |-> 0] \in [Keys -> 0..1]
      OBVIOUS
    <3> QED BY <1>3, <3>1 DEF NoSessions, NoSession, Sessions
  <2> QED BY <1>2, <2>1, <2>2 DEF ServerTyped
<1>6. Dated(history)
  <2> SUFFICES ASSUME NEW v \in 1..1, NEW k \in Keys
               PROVE  /\ h[v][k].ver \in 1..v
                      /\ \A w \in v..1 : h[w][k].ver <= v => h[w][k] = h[v][k]
    BY <1>3 DEF Dated
  <2> QED BY <1>4
<1>7. /\ client.agg.docs = [k \in Keys |-> None] /\ client.up = <<>>
      /\ client.listens = {} /\ client.resolving = {}
      /\ \A t \in Targets : client.tokens[t] = NoToken
  BY <1>1 DEF NewClient, NewAggregator
<1>8. /\ disk.last = 0 /\ \A k \in Keys : disk.cache[k] = None
      /\ \A q \in Queries : /\ disk.targets[q].token = NoToken
                            /\ views[q].token = NoToken /\ ~views[q].current
  BY <1>1 DEF NoView
<1>9. CacheTrue(disk.cache, disk.last, history[Now])
  BY <1>8 DEF CacheTrue
<1>10. PendingTrue(client.agg.docs, disk.last, history)
  <2>1. None # NoDocument(0)
    BY WatchAssumption
  <2> QED BY <1>7, <2>1 DEF PendingTrue
<1>11. TokensTrue
  <2>1. \A t : GoodToken(t, NoToken, disk.cache, disk.last, history)
    BY <1>8, NoTokenGood
  <2> QED BY <1>7, <1>8, <2>1 DEF TokensTrue
<1>12. Asked(client) /\ LimboToken(client, history)
  BY <1>7 DEF Asked, LimboToken
<1>13. ViewsTrue
  BY <1>8 DEF ViewsTrue, ViewTrue
<1>14. TargetsTrue
  BY <1>7 DEF TargetsTrue, QueriesTrue, LimboTrue, IsActive
<1> QED BY <1>5, <1>6, <1>9, <1>10, <1>11, <1>12, <1>13, <1>14 DEF ResultInv

\* Each message keeps the invariant.
LEMMA MessagesResult ==
    ASSUME FewKeys, WatchInv, ResultInv, Messages
    PROVE  ResultInv'
<1>1. CASE AnswerWatch
  BY <1>1, AnswerWatchResult
<1>2. CASE AnswerUnwatch
  BY <1>2, AnswerUnwatchResult
<1>3. CASE RejectLookup
  BY <1>3, RejectLookupResult
<1>4. CASE \E k \in Keys : SendDocument(k)
  BY <1>4, SendDocumentResult
<1>5. CASE \E t \in Targets : SendCurrent(t) \/ SendFilter(t)
  BY <1>5, SendCurrentResult, SendFilterResult
<1>6. CASE SendSnapshot
  BY <1>6, SendSnapshotResult
<1> QED BY <1>1, <1>2, <1>3, <1>4, <1>5, <1>6, Zenon DEF Messages

\* A step of others does.
LEMMA StillResult ==
    ASSUME ResultInv, UNCHANGED vars
    PROVE  ResultInv'
<1>1. /\ stream' = stream /\ client' = client /\ views' = views /\ disk' = disk
      /\ server' = server /\ history' = history /\ Now' = Now
  BY DEF vars, history, Now
<1> QED BY <1>1 DEF ResultInv, ServerTyped, TokensTrue, ViewsTrue, TargetsTrue, QueriesTrue,
                    LimboTrue

\* Each action does.
LEMMA ResultNext ==
    ASSUME FewKeys, WatchInv, ConnectionInv, ResultInv, [Next]_vars
    PROVE  ResultInv'
<1>1. CASE \E q \in Queries : Listen(q)
  BY <1>1, ListenResult
<1>2. CASE \E q \in Queries : StopListening(q)
  BY <1>2, StopListeningResult
<1>3. CASE StreamOpens
  BY <1>3, StreamOpensResult
<1>4. CASE StreamFails \/ IdleTimeout \/ RestartNetwork
  BY <1>4, HangupsResult
<1>5. CASE BackoffElapses \/ TimerFires \/ Forget
  BY <1>5, QuietStepsResult
<1>6. CASE Crash
  BY <1>6, CrashResult
<1>7. CASE UNCHANGED vars
  BY <1>7, StillResult
<1>8. CASE Messages
  BY <1>8, MessagesResult
<1>9. CASE \E k \in Keys : Change(k)
  BY <1>9, ChangeResult
<1> QED BY <1>1, <1>2, <1>3, <1>4, <1>5, <1>6, <1>7, <1>8, <1>9, Zenon DEF Next

\* A view without flaw that is synced shows the result.
LEMMA ResultShown ==
    ASSUME WatchInv, ResultInv
    PROVE  SyncedIsTheResult
<1> SUFFICES ASSUME NEW q \in Queries, ~views[q].flawed, Synced(q),
                    views[q].token = disk.last
             PROVE  /\ views[q].shown = Content(q, disk.last)
                    /\ \A k \in views[q].shown :
                           /\ disk.cache[k].val = history[disk.last][k].val
                           /\ disk.cache[k].ver = history[disk.last][k].ver
  BY DEF SyncedIsTheResult, SyncedShown
<1>1. PICK v : v = views[q]
  OBVIOUS
<1>2. v.current /\ client.refs[q] = {}
  BY <1>1 DEF Synced, IsSynced
<1>3. v.shown \ v.synced = {}
  BY <1>1, <1>2 DEF ResultInv, ViewsTrue
<1>4. /\ v.synced = {k \in Keys : Matches(history[disk.last][k], q)}
      /\ \A k \in v.synced : /\ k \in v.shown
                             /\ disk.cache[k].val = history[disk.last][k].val
                             /\ disk.cache[k].ver = history[disk.last][k].ver
  BY <1>1, <1>2 DEF ResultInv, ViewsTrue, ViewTrue
<1>5. v.shown = v.synced
  BY <1>3, <1>4
<1> QED BY <1>1, <1>4, <1>5, QueryContent

\* What a query shows as synced, with the token of the last snapshot, is the backend's
\* result at that snapshot with its data, for any documents, queries, versions and
\* bounds: whatever requests and answers cross, and whatever was lost, resumed,
\* counted, refused or looked up on the way, but for the views noted as flawed
\* (ApplyRemoteEvent, View::ApplyTargetChange, RaiseWatchSnapshot).
THEOREM SyncedAlwaysTheResult ==
    ASSUME FewKeys
    PROVE  Spec => []SyncedIsTheResult
<1> DEFINE Inv == WatchInvariant /\ ResultInv
<1>1. Init => Inv
  BY InitWatch, ConnectionInit, InitResult DEF WatchInvariant
<1>2. Inv /\ [Next]_vars => Inv'
  BY WatchNext, ConnectionNext, ResultNext DEF WatchInvariant
<1>3. Inv => SyncedIsTheResult
  BY ResultShown DEF WatchInvariant
<1> QED BY <1>1, <1>2, <1>3, PTL DEF Spec
================================================================================
