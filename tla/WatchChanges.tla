------------------------------ MODULE WatchChanges ------------------------------
(***************************************************************************)
(* WatchChangeAggregator of the Firestore SDK, as a value: it collects     *)
(* what the backend says of each target until the next global snapshot,    *)
(* and turns it into one event.  A target with a request not yet answered  *)
(* is deaf: what the backend says of it is about an earlier listen.        *)
(*                                                                         *)
(* L is the set of targets the client listens to, known[t] the keys it has *)
(* for t (GetRemoteKeysForTarget).  A target is a query, or one document   *)
(* that is looked up because the cache and the backend disagree on it.     *)
(***************************************************************************)
EXTENDS Integers, FiniteSets

CONSTANTS Keys, Queries,
          Attempts, \* bound: targets that look up one document at a time
          Gone,     \* the value of a document that does not exist
          None

LimboIds == Keys \X (1..Attempts)
Targets  == Queries \cup LimboIds

IsDocumentQuery(t) == t \in LimboIds
KeyOf(t) == t[1]

NoToken == 0

Doc(val, ver)   == [val |-> val, ver |-> ver]
NoDocument(ver) == Doc(Gone, ver)

\* Queries are told apart from targets that look documents up, and None from
\* those and from documents.
ASSUME WatchAssumption ==
    /\ IsFiniteSet(Keys)
    /\ IsFiniteSet(Queries)
    /\ Queries \cap LimboIds = {}
    /\ None \notin LimboIds \cup {NoDocument(0)}
    /\ Attempts \in Nat

\* out is outstanding_responses_, changed has_pending_changes_.
NewTarget == [out |-> 0, changed |-> TRUE, docs |-> [k \in Keys |-> "same"],
              current |-> FALSE, token |-> NoToken]

NewAggregator == [targets |-> [t \in Targets |-> NewTarget],
                  docs    |-> [k \in Keys |-> None],
                  resets  |-> {}]

\* Mutant: a target hears what is said of its earlier listen.
IsActiveAtOnce(a, L, t) == t \in L

IsActive(a, L, t) == t \in L /\ a.targets[t].out = 0

RecordPendingTargetRequest(a, t) == [a EXCEPT !.targets[t].out = @ + 1]

UpdateResumeToken(s, tok) ==
    IF tok = NoToken THEN s ELSE [s EXCEPT !.changed = TRUE, !.token = tok]

\* Mutant: the changes of the event stay.
ClearPendingChangesFlag(s) == [s EXCEPT !.changed = FALSE]

ClearPendingChanges(s) ==
    [s EXCEPT !.changed = FALSE, !.docs = [k \in Keys |-> "same"]]

AddDocumentChange(s, k, type) == [s EXCEPT !.changed = TRUE, !.docs[k] = type]

----------------------------------------------------------------------------
(* HandleTargetChange.                                                     *)

TargetAdded(a, t) ==
    LET s == [a.targets[t] EXCEPT !.out = @ - 1]
    IN  [a EXCEPT !.targets[t] = IF s.out = 0 THEN ClearPendingChanges(s) ELSE s]

TargetRemoved(a, t) ==
    LET s == a.targets[t]
    IN  [a EXCEPT !.targets[t] = IF s.out = 1 THEN NewTarget ELSE [s EXCEPT !.out = @ - 1]]

TargetCurrent(a, L, t, tok) ==
    IF IsActive(a, L, t)
    THEN [a EXCEPT !.targets[t] =
             UpdateResumeToken([@ EXCEPT !.changed = TRUE, !.current = TRUE], tok)]
    ELSE a

\* A token for all targets.
NoTargetChange(a, L, tok) ==
    [a EXCEPT !.targets = [t \in Targets |->
        IF IsActive(a, L, t) THEN UpdateResumeToken(@[t], tok) ELSE @[t]]]

----------------------------------------------------------------------------
(* HandleDocumentChange.                                                   *)

Types(known, t, k, updated) ==
    CASE t \in updated /\ k \in known[t]    -> "modified"
      [] t \in updated /\ k \notin known[t] -> "added"
      [] t \notin updated /\ k \in known[t] -> "removed"
      [] OTHER                              -> "same"

\* The document entered or changed in the targets updated and left the
\* targets removed; doc is None if the backend only says that it left.
HandleDocumentChange(a, L, known, updated, removed, k, doc) ==
    LET heard == {t \in updated \cup removed : IsActive(a, L, t)}
    IN  [a EXCEPT !.targets = [t \in Targets |->
                      IF t \in heard
                      THEN AddDocumentChange(@[t], k, Types(known, t, k, updated))
                      ELSE @[t]],
                  !.docs[k] = IF heard = {} \/ doc = None THEN @ ELSE doc]

----------------------------------------------------------------------------
(* HandleExistenceFilter.                                                  *)

Marked(s, type) == {k \in Keys : s.docs[k] = type}

ResetTarget(a, known, t) ==
    [a EXCEPT !.targets[t] =
        [NewTarget EXCEPT !.docs = [k \in Keys |->
            IF k \in known[t] THEN "removed" ELSE "same"]]]

CurrentCount(a, known, t) ==
    Cardinality(known[t]) + Cardinality(Marked(a.targets[t], "added"))
                          - Cardinality(Marked(a.targets[t], "removed"))

Absent(a, L, known, t) ==
    HandleDocumentChange(a, L, known, {}, {t}, KeyOf(t), NoDocument(0))

HandleExistenceFilter(a, L, known, t, count) ==
    IF ~IsActive(a, L, t) THEN a
    ELSE IF IsDocumentQuery(t)
    THEN IF count = 0 THEN Absent(a, L, known, t) ELSE a
    ELSE IF CurrentCount(a, known, t) # count
    THEN [ResetTarget(a, known, t) EXCEPT !.resets = @ \cup {t}] ELSE a

----------------------------------------------------------------------------
(* CreateRemoteEvent.                                                      *)

\* A document target that is current without a document: it does not exist.
Missing(a, L, known) ==
    {t \in L : /\ IsActive(a, L, t)
               /\ a.targets[t].current
               /\ IsDocumentQuery(t)
               /\ a.docs[KeyOf(t)] = None
               /\ KeyOf(t) \notin known[t]}

\* Mutant: what is missing stays unknown.
WithDeletesNone(a, L, known, ver) == a

WithDeletes(a, L, known, ver) ==
    LET missing == Missing(a, L, known)
    IN  [a EXCEPT !.targets = [t \in Targets |->
                      IF t \in missing THEN AddDocumentChange(@[t], KeyOf(t), "same")
                      ELSE @[t]],
                  !.docs = [k \in Keys |->
                      IF \E t \in missing : KeyOf(t) = k THEN NoDocument(ver) ELSE @[k]]]

Raised(a, L) == {t \in L : IsActive(a, L, t) /\ a.targets[t].changed}

TargetChange(s) == [token |-> s.token, current |-> s.current,
                    added    |-> Marked(s, "added"),
                    modified |-> Marked(s, "modified"),
                    removed  |-> Marked(s, "removed")]

RemoteEvent(a, L, ver) == [ver     |-> ver,
                           changes |-> [t \in Raised(a, L) |-> TargetChange(a.targets[t])],
                           docs    |-> a.docs]

\* What the aggregator keeps after the event.
AfterEvent(a, L) ==
    [targets |-> [t \in Targets |-> IF t \in Raised(a, L)
                                    THEN ClearPendingChanges(a.targets[t])
                                    ELSE a.targets[t]],
     docs    |-> [k \in Keys |-> None],
     resets  |-> {}]
===============================================================================
