----------------------------- MODULE WritePipeline -----------------------------
(***************************************************************************)
(* How a write of the app reaches Firestore: SyncEngine queues it for the  *)
(* user it has, RemoteStore keeps the first writes of that queue in a      *)
(* pipeline and sends them over the write stream, and removes the head at  *)
(* each answer.  The stream's life, and whose token opens it, is           *)
(* StreamLife's; the backend is external.                                  *)
(***************************************************************************)
EXTENDS StreamLife, SequencesExt

CONSTANTS
    MaxWrites,  \* writes the app makes
    Limit,      \* kMaxPendingWrites
    MaxTrouble  \* failures, changes of user and of network, and relaunches

\* Finitely many users have a queue in LevelDB.
ASSUME PipelineAssumption ==
    /\ IsFiniteSet(Users)
    /\ Limit \in Nat \ {0}
    /\ MaxWrites \in Nat
    /\ MaxTrouble \in Nat
    /\ Tasks = 0..MaxWrites

VARIABLES
    queue,     \* the mutation queue of each user, in LevelDB
    nextId,    \* next_batch_id_ of the current user's queue
    pipe,      \* write_pipeline_
    shook,     \* handshake_complete_
    idle,      \* the idleness timer is armed
    wire,      \* the call: requests the backend has not read, answers not read
    callbacks, \* mutation_callbacks_
    waiters,   \* pending_writes_callbacks_
    waited,    \* writes for which a waiter was told OK
    issued,    \* writes the app made so far
    committed, acked, dropped, \* writes stored, answered, refused
    trouble

ownerVars == <<queue, nextId, pipe, shook, idle, wire, callbacks, waiters,
               waited, issued, committed, acked, dropped>>
vars == <<lifeVars, ownerVars, trouble>>

Writes == 1..MaxWrites
Wait   == 0   \* the task of waitForPendingWrites
Hello  == [id |-> 0, w |-> 0, by |-> NoCred]   \* the handshake

Wire(sent, acks, refused) == [sent |-> sent, acks |-> acks, refused |-> refused]

NoWire     == Wire(<<>>, <<>>, FALSE)
Call       == Wire(<<Hello>>, <<>>, FALSE)
Send(c, s) == Wire(c.sent \o s, c.acks, c.refused)

WritesOf(s) == {s[i].w : i \in DOMAIN s} \ {Hello.w}
LastId(s) == IF s = <<>> THEN 0 ELSE Last(s).id

\* Mutant: ids start over.
NextBatchIdFresh(q) == 1

\* LoadNextBatchIdFromDb: one more than any batch of any user has.
NextBatchIdFromDb(q) == 1 + Max({LastId(q[u]) : u \in Users})

----------------------------------------------------------------------------
(* RemoteStore's write side, as a value.  q is the queue of the current    *)
(* user, on whether the network is enabled.                                *)

WriteSide(s, p, h, i, c) ==
    [stream |-> s, pipe |-> p, shook |-> h, idle |-> i, wire |-> c]

Side == WriteSide(stream, pipe, shook, idle, wire)

\* Mutant: an owner that waits for the next write.
StartNever(rs, on) == rs

StartIfNeeded(rs, on) ==
    IF on /\ ~IsStarted(rs.stream) /\ rs.pipe # <<>>
    THEN [rs EXCEPT !.stream = Start(@)]
    ELSE rs

\* GetNextMutationBatch, until the pipeline is full.
NextBatches(p, q) ==
    LET taken == Cardinality({i \in DOMAIN q : q[i].id <= LastId(p)})
    IN  SubSeq(q, taken + 1, Min({taken + Limit - Len(p), Len(q)}))

\* Mutant: a batch is sent before the handshake is answered, too.
FillWritePipelineEager(rs, q, on) ==
    LET new   == IF on THEN NextBatches(rs.pipe, q) ELSE <<>>
        rest  == on /\ IsOpen(rs.stream) /\ rs.pipe \o new = <<>>
        sends == IsOpen(rs.stream) /\ new # <<>>
    IN StartIfNeeded(WriteSide(rs.stream, rs.pipe \o new, rs.shook,
                               ~sends /\ (rs.idle \/ rest),
                               IF sends THEN Send(rs.wire, new)
                               ELSE rs.wire), on)

\* Mutant: a write leaves the idle timer armed.
FillWritePipelineIdle(rs, q, on) ==
    LET new   == IF on THEN NextBatches(rs.pipe, q) ELSE <<>>
        rest  == on /\ IsOpen(rs.stream) /\ rs.pipe \o new = <<>>
        sends == IsOpen(rs.stream) /\ rs.shook /\ new # <<>>
    IN StartIfNeeded(WriteSide(rs.stream, rs.pipe \o new, rs.shook, rs.idle \/ rest,
                               IF sends THEN Send(rs.wire, new)
                               ELSE rs.wire), on)

\* FillWritePipeline, AddToWritePipeline and MarkIdle.
FillWritePipeline(rs, q, on) ==
    LET new   == IF on THEN NextBatches(rs.pipe, q) ELSE <<>>
        rest  == on /\ IsOpen(rs.stream) /\ rs.pipe \o new = <<>>
        sends == IsOpen(rs.stream) /\ rs.shook /\ new # <<>>
    IN StartIfNeeded(WriteSide(rs.stream, rs.pipe \o new, rs.shook,
                               ~sends /\ (rs.idle \/ rest),
                               IF sends THEN Send(rs.wire, new)
                               ELSE rs.wire), on)

\* Stream::Stop, and OnWriteStreamClose for a graceful stop.
StopStream(rs) ==
    IF IsStarted(rs.stream)
    THEN WriteSide(Stopped(rs.stream), rs.pipe, FALSE, FALSE, NoWire)
    ELSE rs

\* Mutant: the pipeline of the former user stays.
RestartNetworkKept(rs, q) ==
    LET r == StopStream(rs)
    IN  FillWritePipeline(WriteSide(Inhibited(r.stream), r.pipe, r.shook, r.idle, r.wire),
                          q, TRUE)

\* RestartNetwork: DisableNetworkInternal, InhibitBackoff, EnableNetwork.
RestartNetwork(rs, q) ==
    LET r == StopStream(rs)
    IN  FillWritePipeline(WriteSide(Inhibited(r.stream), <<>>, r.shook, r.idle, r.wire),
                          q, TRUE)

\* Mutant: the head is rejected although the backend may never have seen it.
RejectsUnseen(rs, permanent) ==
    IF permanent /\ rs.pipe # <<>> THEN <<Head(rs.pipe)>> ELSE <<>>

\* The writes an error of the call rejects: HandleWriteError.
Rejects(rs, permanent) ==
    IF permanent /\ rs.shook /\ rs.pipe # <<>> THEN <<Head(rs.pipe)>> ELSE <<>>

\* RemoveMutationBatch deletes the key of b.
Without(q, b) ==
    IF b \in ToSet(q) THEN RemoveAt(q, CHOOSE i \in DOMAIN q : q[i] = b) ELSE q

\* OnWriteStreamClose for an error.
CloseWith(rs, q, on, permanent) ==
    LET t       == Closed(rs.stream, FALSE)
        handled == IF Rejects(rs, permanent) = <<>>
                   THEN WriteSide(t, rs.pipe, rs.shook, FALSE, NoWire)
                   ELSE FillWritePipeline(
                            WriteSide(Inhibited(t), Tail(rs.pipe), rs.shook, FALSE, NoWire),
                            Without(q, Head(rs.pipe)), on)
    IN [StartIfNeeded(handled, on) EXCEPT !.shook = FALSE]

\* The write side becomes rs.
Takes(side) ==
    \E rs \in {side} :
        /\ Becomes(rs.stream)
        /\ pipe' = rs.pipe
        /\ shook' = rs.shook
        /\ idle' = rs.idle
        /\ wire' = rs.wire

\* What the backend may still store of a call that is cut off.
CutOff ==
    \E n \in IF shook /\ ~wire.refused THEN 0..Len(wire.sent) ELSE {0} :
        committed' = committed \cup WritesOf(SubSeq(wire.sent, 1, n))

----------------------------------------------------------------------------
(* SyncEngine: batch b of the current user was answered.                   *)

\* Mutant: a waiter is told as soon as any write was answered.
SettledEarly(b) ==
    /\ queue' = [queue EXCEPT ![user] = Without(@, b)]
    /\ callbacks' = {c \in callbacks : <<c.user, c.id>> # <<user, b.id>>}
    /\ waiters' = {}
    /\ waited' = waited \cup UNION {x.writes : x \in waiters}

\* Mutant: the batch stays in the queue.
SettledKept(b) ==
    /\ callbacks' = {c \in callbacks : <<c.user, c.id>> # <<user, b.id>>}
    /\ waiters' = {x \in waiters : x.upto # b.id}
    /\ waited' = waited \cup UNION {x.writes : x \in waiters \ waiters'}
    /\ UNCHANGED queue

\* NotifyUser, TriggerPendingWriteCallbacks, and the batch leaves the queue.
Settled(b) ==
    /\ queue' = [queue EXCEPT ![user] = Without(@, b)]
    /\ callbacks' = {c \in callbacks : <<c.user, c.id>> # <<user, b.id>>}
    /\ waiters' = {x \in waiters : x.upto # b.id}
    /\ waited' = waited \cup UNION {x.writes : x \in waiters \ waiters'}

----------------------------------------------------------------------------
Init ==
    /\ LifeInit
    /\ queue = [u \in Users |-> <<>>]
    /\ nextId = 1
    /\ pipe = <<>>
    /\ shook = FALSE
    /\ idle = FALSE
    /\ wire = NoWire
    /\ callbacks = {}
    /\ waiters = {}
    /\ waited = {}
    /\ issued = 0
    /\ committed = {}
    /\ acked = {}
    /\ dropped = {}
    /\ trouble = 0

Trouble == trouble < MaxTrouble /\ trouble' = trouble + 1
Calm    == trouble' = trouble

\* Auth and the main queue, as in StreamLife.
UserChanges  == Trouble /\ (\E u \in Users : AuthChanges(u)) /\ UNCHANGED ownerVars
TokenRead    == Calm /\ (\E a \in asks : AuthReads(a)) /\ UNCHANGED ownerVars
TokenAnswer  == Calm /\ (\E a \in asks : AuthAnswers(a, TRUE)) /\ UNCHANGED ownerVars
TokenError   == Trouble /\ (\E a \in asks : AuthAnswers(a, FALSE)) /\ UNCHANGED ownerVars
Notified     == Calm /\ MainNotified /\ UNCHANGED ownerVars
TokenArrives == Calm /\ MainToken /\ UNCHANGED ownerVars

\* FIRDocumentReference's setData, updateData and deleteDocument.
AppWrites ==
    /\ issued < MaxWrites
    /\ issued' = issued + 1
    /\ AppEnqueues(issued')
    /\ Calm
    /\ UNCHANGED <<queue, nextId, pipe, shook, idle, wire, callbacks, waiters,
                   waited, committed, acked, dropped>>

\* One call of waitForPendingWrites at a time.
AppWaits ==
    /\ waiters = {}
    /\ \A i \in DOMAIN workQ : workQ[i].kind = "task" => workQ[i].task # Wait
    /\ Trouble
    /\ AppEnqueues(Wait)
    /\ UNCHANGED ownerVars

----------------------------------------------------------------------------
(* The worker queue.                                                       *)

\* SyncEngine::WriteMutations.
WriteMutations ==
    /\ Next1(workQ, "task")
    /\ Head(workQ).task # Wait
    /\ workQ' = Tail(workQ)
    /\ LET b == [id |-> nextId, w |-> Head(workQ).task, by |-> Head(workQ).by] IN
          /\ queue' = [queue EXCEPT ![user] = Append(@, b)]
          /\ nextId' = nextId + 1
          /\ callbacks' = callbacks \cup {[user |-> user, id |-> b.id, w |-> b.w]}
    /\ Takes(FillWritePipeline(Side, queue'[user], net))
    /\ Calm
    /\ UNCHANGED <<authVars, mainQ, net, user, waiters, waited, issued,
                   committed, acked, dropped>>

\* SyncEngine::RegisterPendingWritesCallback.
RegisterPendingWritesCallback ==
    /\ Next1(workQ, "task")
    /\ Head(workQ).task = Wait
    /\ workQ' = Tail(workQ)
    /\ waiters' = IF queue[user] = <<>> THEN waiters
                  ELSE waiters \cup {[upto |-> LastId(queue[user]),
                                      writes |-> WritesOf(queue[user])]}
    /\ Calm
    /\ UNCHANGED <<authVars, asks, mainQ, net, user, stream, queue, nextId, pipe,
                   shook, idle, wire, callbacks, waited, issued, committed,
                   acked, dropped>>

\* Mutant: a credential change restarts nothing.
CredentialChangeOnly ==
    /\ Next1(workQ, "credential")
    /\ workQ' = Tail(workQ)
    /\ user' = Head(workQ).user
    /\ waiters' = IF user' # user THEN {} ELSE waiters
    /\ nextId' = IF user' # user THEN NextBatchIdFromDb(queue) ELSE nextId
    /\ Takes(Side)
    /\ Calm
    /\ UNCHANGED <<authVars, mainQ, net, queue, callbacks, waited, issued, acked,
                   committed, dropped>>

\* SyncEngine::HandleCredentialChange: the queue of the new user, and new
\* streams even for the same one.
HandleCredentialChange ==
    /\ Next1(workQ, "credential")
    /\ workQ' = Tail(workQ)
    /\ LET u == Head(workQ).user IN
          /\ user' = u
          /\ waiters' = IF u # user THEN {} ELSE waiters
          /\ nextId' = IF u # user THEN NextBatchIdFromDb(queue) ELSE nextId
          /\ IF net THEN Takes(RestartNetwork(Side, queue[u])) /\ CutOff
                    ELSE Takes(Side) /\ UNCHANGED committed
    /\ Calm
    /\ UNCHANGED <<authVars, mainQ, net, queue, callbacks, waited, issued, acked, dropped>>

\* Mutant: the stream may have been closed while the token was on its way.
ResumeStartStale ==
    /\ Next1(workQ, "resume")
    /\ workQ' = Tail(workQ)
    /\ LET r == Head(workQ) IN
          Takes(IF r.ok THEN WriteSide(Opened(stream, r.user), pipe, shook, idle, Call)
                ELSE CloseWith(Side, queue[user], net, FALSE))
    /\ Calm
    /\ UNCHANGED <<authVars, mainQ, net, user, queue, nextId, callbacks, waiters,
                   waited, issued, committed, acked, dropped>>

\* ResumeStartWithCredentials; the opened stream writes its handshake.
ResumeStart ==
    /\ Next1(workQ, "resume")
    /\ workQ' = Tail(workQ)
    /\ LET r == Head(workQ) IN
          Takes(IF r.closes # stream.closes THEN Side
                ELSE IF r.ok THEN WriteSide(Opened(stream, r.user), pipe, shook, idle, Call)
                ELSE CloseWith(Side, queue[user], net, FALSE))
    /\ Calm
    /\ UNCHANGED <<authVars, mainQ, net, user, queue, nextId, callbacks, waiters,
                   waited, issued, committed, acked, dropped>>

AckRead == Wire(wire.sent, Tail(wire.acks), wire.refused)

\* OnWriteStreamHandshakeComplete: the whole pipeline is sent.
HandshakeComplete ==
    /\ wire.acks # <<>>
    /\ ~shook
    /\ Takes(WriteSide(stream, pipe, TRUE, idle, Send(AckRead, pipe)))
    /\ Calm
    /\ UNCHANGED <<authVars, mainQ, workQ, net, user, queue, nextId, callbacks,
                   waiters, waited, issued, committed, acked, dropped>>

\* OnWriteStreamMutationResult: the answer is for the head of the pipeline.
MutationResult ==
    /\ wire.acks # <<>>
    /\ shook
    /\ LET b == Head(pipe) IN
          /\ Settled(b)
          /\ acked' = acked \cup {b.w}
          /\ Takes(FillWritePipeline(
                       WriteSide(stream, Tail(pipe), shook, idle, AckRead),
                       queue'[user], net))
    /\ Calm
    /\ UNCHANGED <<authVars, mainQ, workQ, net, user, nextId, issued, committed, dropped>>

\* The call ends with an error: transient, or one that blames the request.
StreamFinish(permanent) ==
    /\ LET lost == Rejects(Side, permanent) IN
          IF lost = <<>>
          THEN UNCHANGED <<queue, callbacks, waiters, waited, dropped>>
          ELSE /\ Settled(Head(lost))
               /\ dropped' = dropped \cup {Head(lost).w}
    /\ Takes(CloseWith(Side, queue[user], net, permanent))
    /\ UNCHANGED <<authVars, mainQ, workQ, net, user, nextId, issued, acked>>

\* The connection breaks: what was not read is lost.
Breaks ==
    /\ IsOpen(stream)
    /\ Trouble
    /\ CutOff
    /\ StreamFinish(FALSE)

\* The status of a refused call is read after every answer.
ReadsRefusal ==
    /\ wire.refused
    /\ wire.acks = <<>>
    /\ Calm
    /\ StreamFinish(TRUE)
    /\ UNCHANGED committed

BackoffElapses ==
    /\ stream.st = "Backoff"
    /\ Takes(WriteSide(BackoffOver(stream), pipe, shook, idle, wire))
    /\ Calm
    /\ UNCHANGED <<authVars, mainQ, workQ, net, user, queue, nextId, callbacks,
                   waiters, waited, issued, committed, acked, dropped>>

IdleTimeout ==
    /\ idle
    /\ Takes(StopStream(Side))
    /\ Calm
    /\ UNCHANGED <<authVars, mainQ, workQ, net, user, queue, nextId, callbacks,
                   waiters, waited, issued, committed, acked, dropped>>

DisableNetwork ==
    /\ net
    /\ net' = FALSE
    /\ Trouble
    /\ Takes([StopStream(Side) EXCEPT !.pipe = <<>>])
    /\ CutOff
    /\ UNCHANGED <<authVars, mainQ, workQ, user, queue, nextId, callbacks,
                   waiters, waited, issued, acked, dropped>>

EnableNetwork ==
    /\ ~net
    /\ net' = TRUE
    /\ Takes(FillWritePipeline(Side, queue[user], TRUE))
    /\ Calm
    /\ UNCHANGED <<authVars, mainQ, workQ, user, queue, nextId, callbacks,
                   waiters, waited, issued, committed, acked, dropped>>

\* The connectivity monitor saw the network change.
ConnectivityChanges ==
    /\ net
    /\ Trouble
    /\ Takes(RestartNetwork(Side, queue[user]))
    /\ CutOff
    /\ UNCHANGED <<authVars, mainQ, workQ, net, user, queue, nextId, callbacks,
                   waiters, waited, issued, acked, dropped>>

----------------------------------------------------------------------------
(* The backend, external: it reads and answers requests in order.          *)

BackendAnswers ==
    /\ wire.sent # <<>>
    /\ ~wire.refused
    /\ wire' = Wire(Tail(wire.sent), Append(wire.acks, Head(wire.sent)), FALSE)
    /\ committed' = committed \cup WritesOf(<<Head(wire.sent)>>)
    /\ Calm
    /\ UNCHANGED <<lifeVars, queue, nextId, pipe, shook, idle, callbacks, waiters,
                   waited, issued, acked, dropped>>

\* The request breaks a rule, or a handshake is not accepted: the call ends.
BackendRefuses ==
    /\ wire.sent # <<>>
    /\ ~wire.refused
    /\ IF Head(wire.sent) = Hello THEN Trouble ELSE Calm
    /\ wire' = Wire(wire.sent, wire.acks, TRUE)
    /\ UNCHANGED <<lifeVars, queue, nextId, pipe, shook, idle, callbacks, waiters,
                   waited, issued, committed, acked, dropped>>

----------------------------------------------------------------------------
\* Killed and launched again: the queues are on disk.
Restarts ==
    /\ Trouble
    /\ CutOff
    /\ LET fresh == FillWritePipeline(
               WriteSide(NewStream, <<>>, FALSE, FALSE, NoWire), queue[authUser], TRUE) IN
          /\ stream' = fresh.stream
          /\ pipe' = fresh.pipe
          /\ asks' = IF fresh.stream.st = "Starting"
                     THEN {Ask(fresh.stream.closes, 0, NoCred)} ELSE {}
    /\ authUser' = authUser
    /\ current' = authUser
    /\ user' = authUser
    /\ counter' = 0
    /\ mainQ' = <<>>
    /\ workQ' = <<>>
    /\ net' = TRUE
    /\ shook' = FALSE
    /\ idle' = FALSE
    /\ wire' = NoWire
    /\ nextId' = NextBatchIdFromDb(queue)
    /\ callbacks' = {}
    /\ waiters' = {}
    /\ UNCHANGED <<queue, waited, issued, acked, dropped>>

Answering == TokenRead \/ TokenAnswer \/ Notified \/ TokenArrives
Working   == WriteMutations \/ RegisterPendingWritesCallback
             \/ HandleCredentialChange \/ ResumeStart
Streaming == HandshakeComplete \/ MutationResult \/ ReadsRefusal \/ BackoffElapses

Next ==
    \/ UserChanges \/ TokenError \/ Answering
    \/ AppWrites \/ AppWaits
    \/ Working
    \/ Streaming
    \/ Breaks
    \/ IdleTimeout \/ DisableNetwork \/ EnableNetwork \/ ConnectivityChanges
    \/ BackendAnswers \/ BackendRefuses
    \/ Restarts

\* The queues run what is on them, Auth and the backend answer.
Fairness == WF_vars(Answering \/ Working \/ Streaming \/ BackendAnswers)

Spec == Init /\ [][Next]_vars /\ Fairness

----------------------------------------------------------------------------
(* Properties.                                                             *)

\* Types of the pipeline's own state.
TypeOK ==
    /\ \A u \in Users : \A i \in DOMAIN queue[u] : queue[u][i].w \in Writes
    /\ nextId \in Nat \ {0}
    /\ Len(pipe) <= Limit
    /\ {shook, idle, wire.refused} \subseteq BOOLEAN
    /\ committed \cup acked \cup dropped \subseteq Writes

\* No request ever travels under another user's token: every batch of an open
\* call was made by the user whose ID token opened it, in whatever order the
\* change of user, the token and the write reach the worker queue
\* (RequestCredentials, HandleCredentialChange, get_token_callback).
OwnStream ==
    \A i \in DOMAIN wire.sent : wire.sent[i] # Hello => wire.sent[i].by = stream.cred

\* The answers still to come are those of the pipeline, in its order: this is
\* all that links an answer to its write (remote_store.h on write_pipeline_).
AnswersMatchPipeline ==
    IsOpen(stream) => wire.acks \o wire.sent = IF shook THEN pipe ELSE <<Hello>>

\* The pipeline is a prefix of the current user's queue, so that a batch it
\* acknowledges or rejects is in the database (RemoveMutationBatch asserts it).
PipelineIsQueuePrefix == IsPrefix(pipe, queue[user])

\* A write callback belongs to the batch of that id: ids start over from the
\* database at each change of user and may not be given out twice while a
\* callback waits (LoadNextBatchIdFromDb, mutation_callbacks_).
CallbackOfItsBatch ==
    \A c \in callbacks :
        {b.w : b \in {x \in ToSet(queue[c.user]) : x.id = c.id}} = {c.w}

\* Answered as stored means stored: no answer is credited to a write it is not
\* about, across breaks, resends and changes of user.
AckedIsStored == acked \subseteq committed

\* Only a write that was sent on the call that failed is given up; before the
\* handshake the error is not about a write (HandleHandshakeError).
DropsOnlySent ==
    [][\A w \in dropped' \ dropped : w \in WritesOf(wire.acks \o wire.sent)]_vars

\* waitForPendingWrites answers only when every write made before it has been
\* answered (FIRFirestore.h).
WaiterToldAfter == waited \subseteq acked \cup dropped

\* The idle timer stops only a stream nobody needs: OnWriteStreamClose asserts
\* that a graceful stop leaves nothing to send.
IdleHasNothingToSend == idle => IsOpen(stream) /\ shook /\ pipe = <<>>

\* A write leaves the queue of the user at last, while the network is enabled:
\* no order of failures leaves the pipeline waiting for a stream that does not
\* start.
QueueDrains == <>[](net => queue[user] = <<>>)

Queue == INSTANCE WriteQueue WITH
            Users <- Users, Writes <- Writes,
            queue <- [u \in Users |-> [i \in DOMAIN queue[u] |-> queue[u][i].w]],
            stored <- committed,
            gone <- acked \cup dropped

\* The pipeline starts, stops and opens its stream as StreamLife allows.
RefinesStreamLife == LifeSpec

\* Seen by the app: a durable queue per user, stored in order, left from the
\* head.
RefinesWriteQueue == Queue!QueueSpec
===============================================================================
