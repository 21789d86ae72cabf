------------------------------ MODULE StreamLife ------------------------------
(***************************************************************************)
(* Whose stream it is.  A Firestore stream is opened with the ID token of  *)
(* the user Firebase Auth holds, and carries what Firestore's own current  *)
(* user queued.  The two learn of a log in on different threads:           *)
(*                                                                         *)
(*   - Auth swaps its user on its work queue and posts a notification to   *)
(*     the main queue (FIRAuth.m);                                         *)
(*   - the credentials provider counts the notification on the main queue  *)
(*     and enqueues the change on Firestore's worker queue;                *)
(*   - a stream that starts asks for a token from the worker queue, Auth   *)
(*     reads its user on the work queue and answers through the main       *)
(*     queue, and the answer is enqueued on the worker queue.              *)
(*                                                                         *)
(* This module is that hand-off for one stream whose owner may start and   *)
(* stop it at will; WritePipeline is such an owner.                        *)
(***************************************************************************)
EXTENDS StreamStates, Sequences

CONSTANTS
    Users,   \* identities; "nobody logged in" is one of them
    Tasks    \* what the app may enqueue on the worker queue

ASSUME StreamAssumption == NoCred \notin Users

VARIABLES
    authUser, \* FIRAuth's _currentUser, on its work queue
    current,  \* Contents::current_user of the provider
    counter,  \* Contents::token_counter
    asks,     \* tokens asked of Auth: user is NoCred until Auth read its own
    mainQ,    \* blocks on the main queue
    workQ,    \* blocks the main queue put on the worker queue
    net,      \* is_network_enabled_
    user,     \* SyncEngine's current_user_
    stream

authVars   == <<authUser, current, counter>>
lifeVars   == <<authVars, asks, mainQ, workQ, net, user, stream>>

Ask(closes, count, u) == [closes |-> closes, counter |-> count, user |-> u]

LifeInit ==
    /\ authUser \in Users
    /\ current = authUser
    /\ user = authUser
    /\ counter = 0
    /\ asks = {}
    /\ mainQ = <<>>
    /\ workQ = <<>>
    /\ net = TRUE
    /\ stream = NewStream

\* The stream becomes s; if that started it, it asks for a token.
Becomes(s) ==
    /\ stream' = s
    /\ asks' = IF s.st = "Starting" /\ <<stream.st, stream.closes>> # <<s.st, s.closes>>
               THEN asks \cup {Ask(s.closes, counter, NoCred)}
               ELSE asks

----------------------------------------------------------------------------
(* Firebase Auth.                                                          *)

\* updateCurrentUser and possiblyPostAuthStateChangeNotification: a log in, a
\* log out, or a new token of the same user.
AuthChanges(u) ==
    /\ authUser' = u
    /\ mainQ' = Append(mainQ, [kind |-> "changed", user |-> u])
    /\ UNCHANGED <<current, counter, asks, workQ, net, user, stream>>

\* getTokenForcingRefresh on Auth's work queue picks its current user.
AuthReads(a) ==
    /\ a \in asks
    /\ a.user = NoCred
    /\ asks' = (asks \ {a}) \cup {[a EXCEPT !.user = authUser]}
    /\ UNCHANGED <<authVars, mainQ, workQ, net, user, stream>>

\* The token service answers at once or after a refresh, or fails.
AuthAnswers(a, ok) ==
    /\ a \in asks
    /\ a.user # NoCred
    /\ asks' = asks \ {a}
    /\ mainQ' = Append(mainQ, [kind |-> "token", user |-> a.user, ok |-> ok,
                               closes |-> a.closes, counter |-> a.counter])
    /\ UNCHANGED <<authVars, workQ, net, user, stream>>

----------------------------------------------------------------------------
(* The main queue.                                                         *)

Next1(q, kind) == q # <<>> /\ Head(q).kind = kind

\* The provider's observer, and FirestoreClient's listener.
MainNotified ==
    /\ Next1(mainQ, "changed")
    /\ current' = Head(mainQ).user
    /\ counter' = counter + 1
    /\ workQ' = Append(workQ, [kind |-> "credential", user |-> Head(mainQ).user])
    /\ mainQ' = Tail(mainQ)
    /\ UNCHANGED <<authUser, asks, net, user, stream>>

\* get_token_callback: asks anew if a notification came in between.
MainToken ==
    /\ Next1(mainQ, "token")
    /\ mainQ' = Tail(mainQ)
    /\ LET t == Head(mainQ) IN
          \/ /\ t.counter # counter
             /\ asks' = asks \cup {Ask(t.closes, counter, NoCred)}
             /\ UNCHANGED workQ
          \/ /\ t.counter = counter
             /\ workQ' = Append(workQ, [kind |-> "resume", user |-> t.user,
                                        ok |-> t.ok, closes |-> t.closes])
             /\ UNCHANGED asks
    /\ UNCHANGED <<authVars, net, user, stream>>

\* Mutant: the write is credited to the user Auth has.
AppEnqueuesAuth(t) ==
    /\ workQ' = Append(workQ, [kind |-> "task", by |-> authUser, task |-> t])
    /\ UNCHANGED <<authVars, asks, mainQ, net, user, stream>>

\* The app calls Firestore on the main queue; by is the user it was last
\* notified of.
AppEnqueues(t) ==
    /\ workQ' = Append(workQ, [kind |-> "task", by |-> current, task |-> t])
    /\ UNCHANGED <<authVars, asks, mainQ, net, user, stream>>

----------------------------------------------------------------------------
(* The worker queue, for an owner that starts the stream when it likes.    *)

\* What the owner may leave of a stream s: started or not, the error condition
\* cleared or not.
OwnersChoice(s, on) ==
    IF IsStarted(s) THEN {s}
    ELSE {s, Inhibited(s)} \cup (IF on THEN {Start(s), Start(Inhibited(s))} ELSE {})

\* HandleCredentialChange: streams are restarted, for the same user too.
WorkerCredential ==
    /\ Next1(workQ, "credential")
    /\ workQ' = Tail(workQ)
    /\ user' = Head(workQ).user
    /\ \E s \in IF net THEN OwnersChoice(Inhibited(Stopped(stream)), TRUE) ELSE {stream} :
          Becomes(s)
    /\ UNCHANGED <<authVars, mainQ, net>>

\* The block of RequestCredentials, dropped if the stream was closed since.
WorkerResume ==
    /\ Next1(workQ, "resume")
    /\ workQ' = Tail(workQ)
    /\ LET r == Head(workQ) IN
          \E s \in IF r.closes # stream.closes THEN {stream}
                   ELSE IF r.ok THEN {Opened(stream, r.user)}
                   ELSE OwnersChoice(Closed(stream, FALSE), net) :
             Becomes(s)
    /\ UNCHANGED <<authVars, mainQ, net, user>>

WorkerTask ==
    /\ Next1(workQ, "task")
    /\ workQ' = Tail(workQ)
    /\ \E s \in OwnersChoice(stream, net) : Becomes(s)
    /\ UNCHANGED <<authVars, mainQ, net, user>>

\* The owner starts or stops the stream, the call fails, or the backoff is
\* over.
WorkerStream ==
    /\ \/ \E s \in OwnersChoice(stream, net) : Becomes(s)
       \/ IsOpen(stream) /\ \E s \in OwnersChoice(Closed(stream, FALSE), net) : Becomes(s)
       \/ Becomes(Stopped(stream))
       \/ stream.st = "Backoff" /\ Becomes(BackoffOver(stream))
    /\ UNCHANGED <<authVars, mainQ, workQ, net, user>>

\* DisableNetwork, EnableNetwork, and RestartNetwork when connectivity changed.
WorkerNetwork ==
    /\ \/ net' = FALSE /\ Becomes(Stopped(stream))
       \/ net' = TRUE /\ \E s \in OwnersChoice(stream, TRUE) : Becomes(s)
       \/ /\ net
          /\ net' = net
          /\ \E s \in OwnersChoice(Inhibited(Stopped(stream)), TRUE) : Becomes(s)
    /\ UNCHANGED <<authVars, mainQ, workQ, user>>

\* The process is killed and launched: Auth's user is in the keychain.
Relaunch ==
    /\ authUser' = authUser
    /\ current' = authUser
    /\ user' = authUser
    /\ counter' = 0
    /\ mainQ' = <<>>
    /\ workQ' = <<>>
    /\ net' = TRUE
    /\ \E s \in OwnersChoice(NewStream, TRUE) :
          /\ stream' = s
          /\ asks' = IF s.st = "Starting" THEN {Ask(s.closes, 0, NoCred)} ELSE {}

LifeNext ==
    \/ \E u \in Users : AuthChanges(u)
    \/ \E a \in asks : AuthReads(a) \/ \E ok \in BOOLEAN : AuthAnswers(a, ok)
    \/ MainNotified \/ MainToken
    \/ \E t \in Tasks : AppEnqueues(t)
    \/ WorkerCredential \/ WorkerResume \/ WorkerTask
    \/ WorkerStream \/ WorkerNetwork \/ Relaunch

LifeSpec == LifeInit /\ [][LifeNext]_lifeVars

----------------------------------------------------------------------------
(* Properties.                                                             *)

\* A call under way was opened with the token of the user Firestore has, though
\* the token is asked of Auth, which may have another user by then
\* (get_token_callback, RequestCredentials, HandleCredentialChange).
CredIsUser == IsOpen(stream) => stream.cred = user

\* What the app enqueues runs for the user the app was last told of: a change
\* of user can neither overtake it nor fall behind it (FirestoreClient).
TaskRunsAsIssued == Next1(workQ, "task") => Head(workQ).by = user

\* A token finds its stream where it was asked: ResumeStartWithCredentials
\* asserts it, with nothing but close_count_ to tell an old request from the
\* one the stream waits for.
ResumeFindsStarting ==
    Next1(workQ, "resume") /\ Head(workQ).closes = stream.closes
        => stream.st = "Starting"
===============================================================================
