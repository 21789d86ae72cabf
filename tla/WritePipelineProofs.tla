------------------------- MODULE WritePipelineProofs -------------------------
(***************************************************************************)
(* What holds of every stream, however the threads of StreamLife are       *)
(* scheduled.  The induction needs three facts about the queues:           *)
(*                                                                         *)
(*   - walking the worker queue from its head, the user a block belongs to *)
(*     is the user of the last change before it, or Firestore's user if    *)
(*     there is none, and at its end that is the provider's user; likewise *)
(*     for the main queue, which ends at Auth's user;                      *)
(*   - a token on its way with the provider's present count was read for   *)
(*     the provider's present user;                                        *)
(*   - of the requests on their way at most one has the stream's present   *)
(*     close count, and none if the stream is not starting.                *)
(*                                                                         *)
(* The write pipeline uses its stream as StreamLife lets an owner use it,  *)
(* so what is proved there of every stream holds of the write stream.      *)
(*                                                                         *)
(* Last what the pipeline does to the queues it sends from: it holds the   *)
(* first batches of the current user's queue, in order, through every      *)
(* break, resend, change of user and relaunch; so an answer settles the    *)
(* head of that queue and nothing else, and the app sees the durable       *)
(* queues of WriteQueue.                                                   *)
(***************************************************************************)
EXTENDS WritePipeline, SequenceTheorems, FiniteSetInduction

----------------------------------------------------------------------------
(* The streams.                                                            *)

AskRec    == [closes : Nat, counter : Nat, user : Users \cup {NoCred}]
MainBlock == [kind : {"changed"}, user : Users]
             \cup [kind : {"token"}, user : Users, ok : BOOLEAN, closes : Nat, counter : Nat]
WorkBlock == [kind : {"credential"}, user : Users]
             \cup [kind : {"resume"}, user : Users, ok : BOOLEAN, closes : Nat]
             \cup [kind : {"task"}, by : Users, task : Tasks]
StreamRec == [st : StreamStatus, closes : Nat, cred : Users \cup {NoCred}]

LifeTypeOK ==
    /\ authUser \in Users
    /\ current \in Users
    /\ user \in Users
    /\ counter \in Nat
    /\ asks \subseteq AskRec
    /\ mainQ \in Seq(MainBlock)
    /\ workQ \in Seq(WorkBlock)
    /\ net \in BOOLEAN
    /\ stream \in StreamRec

----------------------------------------------------------------------------
(* Who holds a place of a queue q whose changes are blocks of kind k, when *)
(* u holds the place before its head.                                      *)

HolderOf(q, u, j) == IF j = 0 THEN u ELSE q[j].user

LastChange(q, k, j, i) ==
    /\ j = 0 \/ q[j].kind = k
    /\ j < i
    /\ \A n \in (j + 1)..(i - 1) : q[n].kind # k

Ends(q, k, u, c) ==
    \A j \in 0..Len(q) : LastChange(q, k, j, Len(q) + 1) => HolderOf(q, u, j) = c

\* The block x of the worker queue is one of user c.
BelongsTo(x, c) ==
    /\ x.kind = "task" => x.by = c
    /\ x.kind = "resume" => x.user = c

InOrder(q, u) ==
    \A i \in 1..Len(q) : \A j \in 0..(i - 1) :
        LastChange(q, "credential", j, i) => BelongsTo(q[i], HolderOf(q, u, j))

Quiet(q, n) == \A j \in 1..n : q[j].kind # "changed"

TokensCurrent ==
    /\ \A a \in asks : a.counter <= counter
    /\ \A i \in 1..Len(mainQ) : mainQ[i].kind = "token" => mainQ[i].counter <= counter
    /\ \A a \in asks : a.user # NoCred /\ a.counter = counter /\ Quiet(mainQ, Len(mainQ))
                          => a.user = current
    /\ \A i \in 1..Len(mainQ) :
          mainQ[i].kind = "token" /\ mainQ[i].counter = counter /\ Quiet(mainQ, i - 1)
              => mainQ[i].user = current

----------------------------------------------------------------------------
(* The requests that are on their way.                                     *)

TokenIn(q, i, c)  == i \in 1..Len(q) /\ q[i].kind = "token" /\ q[i].closes = c
ResumeIn(q, i, c) == i \in 1..Len(q) /\ q[i].kind = "resume" /\ q[i].closes = c
AskIn(A, a, c)    == a \in A /\ a.closes = c

NoneAbove(A, m, w, c) ==
    /\ \A a \in A : a.closes <= c
    /\ \A i \in 1..Len(m) : m[i].kind = "token" => m[i].closes <= c
    /\ \A i \in 1..Len(w) : w[i].kind = "resume" => w[i].closes <= c

NoneAt(A, m, w, c) ==
    /\ \A a : ~AskIn(A, a, c)
    /\ \A i : ~TokenIn(m, i, c)
    /\ \A i : ~ResumeIn(w, i, c)

OneAt(A, m, w, c) ==
    /\ \A a, b : AskIn(A, a, c) /\ AskIn(A, b, c) => a = b
    /\ \A i, j : TokenIn(m, i, c) /\ TokenIn(m, j, c) => i = j
    /\ \A i, j : ResumeIn(w, i, c) /\ ResumeIn(w, j, c) => i = j
    /\ \A a, i : ~(AskIn(A, a, c) /\ TokenIn(m, i, c))
    /\ \A a, i : ~(AskIn(A, a, c) /\ ResumeIn(w, i, c))
    /\ \A i, j : ~(TokenIn(m, i, c) /\ ResumeIn(w, j, c))

OneRequest ==
    /\ NoneAbove(asks, mainQ, workQ, stream.closes)
    /\ OneAt(asks, mainQ, workQ, stream.closes)
    /\ stream.st # "Starting" => NoneAt(asks, mainQ, workQ, stream.closes)

LifeInv ==
    /\ LifeTypeOK
    /\ Ends(workQ, "credential", user, current)
    /\ Ends(mainQ, "changed", current, authUser)
    /\ InOrder(workQ, user)
    /\ TokensCurrent
    /\ OneRequest
    /\ ~net => ~IsStarted(stream)
    /\ CredIsUser

----------------------------------------------------------------------------
\* A queue that ends at c still does with a block that is no change, and ends
\* at the user of a change that is appended.
LEMMA EndsAppend ==
    ASSUME NEW S, NEW q \in Seq(S), NEW x \in S, NEW k, NEW u, NEW c,
           Ends(q, k, u, c) \/ x.kind = k
    PROVE  Ends(Append(q, x), k, u, IF x.kind = k THEN x.user ELSE c)
<1> DEFINE p == Append(q, x)
           d == IF x.kind = k THEN x.user ELSE c
<1>1. /\ p \in Seq(S) /\ Len(p) = Len(q) + 1 /\ Len(q) \in Nat
      /\ p[Len(q) + 1] = x
      /\ \A i \in 1..Len(q) : p[i] = q[i]
  OBVIOUS
<1> SUFFICES ASSUME NEW j \in 0..Len(p), LastChange(p, k, j, Len(p) + 1)
             PROVE  HolderOf(p, u, j) = d
  BY DEF Ends
<1> HIDE DEF p
<1>2. CASE x.kind = k
  <2>1. j = Len(q) + 1
    BY <1>1, <1>2 DEF LastChange
  <2> QED BY <2>1, <1>1, <1>2 DEF HolderOf
<1>3. CASE x.kind # k
  <2>1. j \in 0..Len(q)
    BY <1>1, <1>3 DEF LastChange
  <2>2. LastChange(q, k, j, Len(q) + 1)
    BY <2>1, <1>1 DEF LastChange
  <2>3. HolderOf(q, u, j) = c
    BY <2>1, <2>2, <1>3 DEF Ends
  <2> QED BY <2>1, <2>3, <1>1, <1>3 DEF HolderOf
<1> QED BY <1>2, <1>3

\* Who holds the place before the head once the head was run.
After(q, k, u) == IF Head(q).kind = k THEN Head(q).user ELSE u

\* A place of the tail is held by who held it in the queue.
LEMMA TailHolder ==
    ASSUME NEW S, NEW q \in Seq(S), q # <<>>, NEW k, NEW u, NEW i \in Nat,
           NEW j \in Nat, j < i, i <= Len(q), LastChange(Tail(q), k, j, i)
    PROVE  \E n \in 0..i : /\ LastChange(q, k, n, i + 1)
                           /\ HolderOf(q, u, n) = HolderOf(Tail(q), After(q, k, u), j)
<1> DEFINE p == Tail(q)
<1>1. /\ p \in Seq(S) /\ Len(p) = Len(q) - 1 /\ Len(q) \in Nat \ {0}
      /\ Head(q) = q[1]
      /\ \A n \in 1..Len(p) : p[n] = q[n + 1]
  OBVIOUS
<1> HIDE DEF p
<1>2. \A n \in (j + 1)..(i - 1) : q[n + 1].kind # k
  BY <1>1 DEF LastChange, p
<1>3. CASE j = 0 /\ Head(q).kind # k
  <2>1. \A n \in 1..i : q[n].kind # k
    <3> SUFFICES ASSUME NEW n \in 1..i PROVE q[n].kind # k
      OBVIOUS
    <3>1. CASE n = 1
      BY <3>1, <1>1, <1>3
    <3>2. CASE n # 1
      <4>1. n - 1 \in (j + 1)..(i - 1) /\ (n - 1) + 1 = n
        BY <3>2, <1>3
      <4> QED BY <4>1, <1>2
    <3> QED BY <3>1, <3>2
  <2>2. LastChange(q, k, 0, i + 1)
    BY <2>1 DEF LastChange
  <2> QED BY <2>2, <1>3 DEF HolderOf, After
<1>4. CASE j # 0 \/ Head(q).kind = k
  <2>1. q[j + 1].kind = k
    BY <1>1, <1>4 DEF LastChange, p
  <2>2. \A n \in (j + 2)..i : q[n].kind # k
    <3> SUFFICES ASSUME NEW n \in (j + 2)..i PROVE q[n].kind # k
      OBVIOUS
    <3>1. n - 1 \in (j + 1)..(i - 1) /\ (n - 1) + 1 = n
      OBVIOUS
    <3> QED BY <3>1, <1>2
  <2>3. LastChange(q, k, j + 1, i + 1)
    BY <2>1, <2>2 DEF LastChange
  <2>4. HolderOf(q, u, j + 1) = HolderOf(Tail(q), After(q, k, u), j)
    <3>1. CASE j = 0
      BY <3>1, <1>4, <1>1 DEF HolderOf, After
    <3>2. CASE j # 0
      BY <3>2, <1>1 DEF HolderOf, p
    <3> QED BY <3>1, <3>2
  <2> QED BY <2>3, <2>4
<1> QED BY <1>3, <1>4

LEMMA EndsTail ==
    ASSUME NEW S, NEW q \in Seq(S), q # <<>>, NEW k, NEW u, NEW c, Ends(q, k, u, c)
    PROVE  Ends(Tail(q), k, After(q, k, u), c)
<1>1. Tail(q) \in Seq(S) /\ Len(Tail(q)) = Len(q) - 1 /\ Len(q) \in Nat \ {0}
  OBVIOUS
<1> SUFFICES ASSUME NEW j \in 0..Len(Tail(q)), LastChange(Tail(q), k, j, Len(Tail(q)) + 1)
             PROVE  HolderOf(Tail(q), After(q, k, u), j) = c
  BY DEF Ends
<1>2. PICK n \in 0..Len(q) : /\ LastChange(q, k, n, Len(q) + 1)
                            /\ HolderOf(q, u, n) = HolderOf(Tail(q), After(q, k, u), j)
  <2>1. LastChange(Tail(q), k, j, Len(q))
    BY <1>1
  <2> QED BY <2>1, <1>1, TailHolder
<1> QED BY <1>2 DEF Ends

LEMMA InOrderTail ==
    ASSUME NEW S, NEW q \in Seq(S), q # <<>>, NEW u, InOrder(q, u)
    PROVE  InOrder(Tail(q), After(q, "credential", u))
<1> DEFINE v == After(q, "credential", u)
<1>1. /\ Tail(q) \in Seq(S) /\ Len(Tail(q)) = Len(q) - 1 /\ Len(q) \in Nat \ {0}
      /\ \A n \in 1..Len(Tail(q)) : Tail(q)[n] = q[n + 1]
  OBVIOUS
<1> SUFFICES ASSUME NEW i \in 1..Len(Tail(q)), NEW j \in 0..(i - 1),
                    LastChange(Tail(q), "credential", j, i)
             PROVE  BelongsTo(Tail(q)[i], HolderOf(Tail(q), v, j))
  BY DEF InOrder
<1>2. PICK n \in 0..i : /\ LastChange(q, "credential", n, i + 1)
                       /\ HolderOf(q, u, n) = HolderOf(Tail(q), v, j)
  BY <1>1, TailHolder
<1>3. i + 1 \in 1..Len(q) /\ n \in 0..((i + 1) - 1)
  BY <1>1
<1>4. BelongsTo(q[i + 1], HolderOf(q, u, n))
  BY <1>2, <1>3 DEF InOrder
<1> QED BY <1>1, <1>2, <1>4

LEMMA InOrderAppend ==
    ASSUME NEW S, NEW q \in Seq(S), NEW x \in S, NEW u, NEW c, InOrder(q, u),
           \/ x.kind = "credential"
           \/ Ends(q, "credential", u, c) /\ BelongsTo(x, c)
    PROVE  InOrder(Append(q, x), u)
<1> DEFINE p == Append(q, x)
<1>1. /\ p \in Seq(S) /\ Len(p) = Len(q) + 1 /\ Len(q) \in Nat
      /\ p[Len(q) + 1] = x
      /\ \A i \in 1..Len(q) : p[i] = q[i]
  OBVIOUS
<1> HIDE DEF p
<1> SUFFICES ASSUME NEW i \in 1..Len(p), NEW j \in 0..(i - 1), LastChange(p, "credential", j, i)
             PROVE  BelongsTo(p[i], HolderOf(p, u, j))
  BY DEF InOrder, p
<1>2. LastChange(q, "credential", j, i)
  BY <1>1 DEF LastChange
<1>3. HolderOf(p, u, j) = HolderOf(q, u, j)
  BY <1>1 DEF HolderOf
<1>4. CASE i <= Len(q)
  <2>1. i \in 1..Len(q) /\ p[i] = q[i]
    BY <1>1, <1>4
  <2> QED BY <2>1, <1>2, <1>3 DEF InOrder
<1>5. CASE i = Len(q) + 1 /\ x.kind = "credential"
  BY <1>1, <1>5 DEF BelongsTo
<1>6. CASE i = Len(q) + 1 /\ x.kind # "credential"
  <2>1. HolderOf(q, u, j) = c
    BY <1>1, <1>2, <1>6 DEF Ends
  <2> QED BY <2>1, <1>1, <1>3, <1>6
<1> QED BY <1>1, <1>4, <1>5, <1>6

----------------------------------------------------------------------------
(* The stream, and the requests on their way, when the stream moves.       *)

LEMMA ChoiceFacts ==
    ASSUME NEW t \in StreamRec, NEW on \in BOOLEAN, NEW s \in OwnersChoice(t, on)
    PROVE  /\ s \in StreamRec
           /\ s.closes = t.closes
           /\ IsStarted(t) => s = t
           /\ ~IsStarted(t) => ~IsOpen(s)
           /\ ~on /\ ~IsStarted(t) => ~IsStarted(s)
BY DEF OwnersChoice, StreamRec, StreamStatus, IsStarted, IsOpen, Inhibited, Start

\* A stream that is stopped or closed is no longer started.
LEMMA StoppedFacts ==
    ASSUME NEW t \in StreamRec
    PROVE  /\ Stopped(t) \in StreamRec
           /\ ~IsStarted(Stopped(t))
           /\ Stopped(t) = t \/ Stopped(t).closes > t.closes
           /\ t.st = "Starting" => Stopped(t).closes > t.closes
           /\ Inhibited(Stopped(t)) \in StreamRec
           /\ Inhibited(Stopped(t)).closes = Stopped(t).closes
           /\ ~IsStarted(Inhibited(Stopped(t)))
<1>1. /\ Stopped(t) \in StreamRec
      /\ ~IsStarted(Stopped(t))
      /\ Stopped(t) = t \/ Stopped(t).closes > t.closes
      /\ t.st = "Starting" => Stopped(t).closes > t.closes
  BY DEF StreamRec, StreamStatus, IsStarted, Stopped, Closed
<1>2. \A x \in StreamRec : /\ Inhibited(x) \in StreamRec
                          /\ Inhibited(x).closes = x.closes
                          /\ ~IsStarted(Inhibited(x))
  BY DEF StreamRec, StreamStatus, IsStarted, Inhibited
<1> QED BY <1>1, <1>2

LEMMA ClosedFacts ==
    ASSUME NEW t \in StreamRec
    PROVE  /\ Closed(t, FALSE) \in StreamRec
           /\ ~IsStarted(Closed(t, FALSE))
           /\ Closed(t, FALSE).closes > t.closes
BY DEF StreamRec, StreamStatus, IsStarted, Closed

\* What a step may make of the stream, the opening apart.
Moves(s) ==
    /\ s \in StreamRec
    /\ \/ s = stream
       \/ s.closes > stream.closes
       \/ s.closes = stream.closes /\ stream.st # "Starting"
    /\ IsOpen(s) => s = stream

LEMMA TailRequests ==
    ASSUME NEW S, NEW w \in Seq(S), w # <<>>, NEW A, NEW m, NEW c
    PROVE  /\ NoneAbove(A, m, w, c) => NoneAbove(A, m, Tail(w), c)
           /\ NoneAt(A, m, w, c) => NoneAt(A, m, Tail(w), c)
           /\ OneAt(A, m, w, c) => OneAt(A, m, Tail(w), c)
<1>1. /\ Len(Tail(w)) = Len(w) - 1 /\ Len(w) \in Nat \ {0}
      /\ \A i \in 1..Len(Tail(w)) : Tail(w)[i] = w[i + 1]
  OBVIOUS
<1>2. \A i : ResumeIn(Tail(w), i, c) => i \in Nat /\ ResumeIn(w, i + 1, c)
  BY <1>1 DEF ResumeIn
<1>3. NoneAbove(A, m, w, c) => NoneAbove(A, m, Tail(w), c)
  BY <1>1 DEF NoneAbove
<1>4. NoneAt(A, m, w, c) => NoneAt(A, m, Tail(w), c)
  BY <1>2 DEF NoneAt
<1>5. OneAt(A, m, w, c) => OneAt(A, m, Tail(w), c)
  <2> SUFFICES ASSUME OneAt(A, m, w, c) PROVE OneAt(A, m, Tail(w), c)
    OBVIOUS
  <2>1. \A i, j : ResumeIn(Tail(w), i, c) /\ ResumeIn(Tail(w), j, c) => i = j
    <3> SUFFICES ASSUME NEW i, NEW j, ResumeIn(Tail(w), i, c), ResumeIn(Tail(w), j, c)
                 PROVE  i = j
      OBVIOUS
    <3>1. i \in Nat /\ j \in Nat /\ i + 1 = j + 1
      BY <1>2 DEF OneAt
    <3> QED BY <3>1
  <2> QED BY <1>2, <2>1 DEF OneAt
<1> QED BY <1>3, <1>4, <1>5

\* A stream that moves keeps at most one request of its close count on its way.
LEMMA MovesKeepRequests ==
    ASSUME LifeTypeOK, OneRequest, NEW s, Moves(s), Becomes(s),
           mainQ' = mainQ, workQ' = workQ \/ (workQ # <<>> /\ workQ' = Tail(workQ))
    PROVE  /\ OneRequest'
           /\ asks' \subseteq AskRec
           /\ \A a \in asks' : a \in asks \/ (a.user = NoCred /\ a.counter = counter)
<1> DEFINE c == s.closes
           new == Ask(c, counter, NoCred)
<1>0. workQ' \in Seq(WorkBlock)
  <2>1. workQ \in Seq(WorkBlock)
    BY DEF LifeTypeOK
  <2> QED BY <2>1
<1> USE DEF LifeTypeOK
<1>1. /\ stream' = s
      /\ s \in StreamRec /\ stream \in StreamRec /\ c \in Nat /\ stream.closes \in Nat
      /\ asks' = asks \/ (s.st = "Starting" /\ asks' = asks \cup {new})
      /\ c >= stream.closes
  BY DEF Becomes, Moves, StreamRec
<1>2. new \in AskRec /\ new.closes = c /\ new.user = NoCred /\ new.counter = counter
  BY <1>1 DEF Ask, AskRec
<1>3. NoneAbove(asks, mainQ, workQ', stream.closes) /\ OneAt(asks, mainQ, workQ', stream.closes)
  BY TailRequests DEF OneRequest
<1>4. stream.st # "Starting" => NoneAt(asks, mainQ, workQ', stream.closes)
  BY TailRequests DEF OneRequest
<1>5. ASSUME s = stream PROVE OneRequest'
  <2>1. asks' = asks
    BY <1>5 DEF Becomes
  <2> QED BY <2>1, <1>1, <1>3, <1>4, <1>5 DEF OneRequest
<1>6. ASSUME s # stream PROVE OneRequest'
  <2>1. NoneAt(asks, mainQ, workQ', c)
    <3>1. CASE s.closes = stream.closes
      BY <3>1, <1>4, <1>6, <1>1 DEF Moves
    <3>2. CASE s.closes > stream.closes
      <4>1. \A a \in asks : a.closes \in Nat
        BY DEF AskRec
      <4>2. \A i \in 1..Len(mainQ) : mainQ[i].kind = "token" => mainQ[i].closes \in Nat
        BY DEF MainBlock
      <4>3. \A i \in 1..Len(workQ') : workQ'[i].kind = "resume" => workQ'[i].closes \in Nat
        BY <1>0 DEF WorkBlock
      <4> QED BY <3>2, <1>1, <1>3, <4>1, <4>2, <4>3
              DEF NoneAbove, NoneAt, AskIn, TokenIn, ResumeIn
    <3> QED BY <3>1, <3>2, <1>6 DEF Moves
  <2>2. NoneAbove(asks', mainQ, workQ', c)
    <3>1. \A a \in asks : a.closes \in Nat
      BY DEF AskRec
    <3>2. \A i \in 1..Len(mainQ) : mainQ[i].kind = "token" => mainQ[i].closes \in Nat
      BY DEF MainBlock
    <3>3. \A i \in 1..Len(workQ') : workQ'[i].kind = "resume" => workQ'[i].closes \in Nat
      BY <1>0 DEF WorkBlock
    <3> QED BY <1>1, <1>2, <1>3, <3>1, <3>2, <3>3 DEF NoneAbove
  <2>3. OneAt(asks', mainQ, workQ', c)
    BY <2>1, <1>1, <1>2 DEF OneAt, NoneAt, AskIn
  <2>4. s.st # "Starting" => NoneAt(asks', mainQ, workQ', c)
    BY <2>1, <1>1
  <2>5. stream' = s /\ mainQ' = mainQ
    BY <1>1
  <2> HIDE DEF LifeTypeOK
  <2> QED BY <2>2, <2>3, <2>4, <2>5 DEF OneRequest
<1>7. asks' \subseteq AskRec
  BY <1>1, <1>2
<1>8. \A a \in asks' : a \in asks \/ (a.user = NoCred /\ a.counter = counter)
  BY <1>1, <1>2
<1> QED BY <1>5, <1>6, <1>7, <1>8

----------------------------------------------------------------------------
(* The actions.                                                            *)

\* The worker queue runs a block, or the stream moves by itself.
LEMMA WorkerMoves ==
    ASSUME LifeInv, NEW s, Moves(s), Becomes(s), UNCHANGED <<authVars, mainQ>>,
           net' \in BOOLEAN, ~net' => ~IsStarted(s), IsOpen(s) => user' = user,
           \/ workQ' = workQ /\ user' = user
           \/ /\ workQ # <<>>
              /\ workQ' = Tail(workQ)
              /\ user' = After(workQ, "credential", user)
    PROVE  LifeInv'
<1> USE DEF LifeInv
<1>1. /\ OneRequest'
      /\ asks' \subseteq AskRec
      /\ \A a \in asks' : a \in asks \/ (a.user = NoCred /\ a.counter = counter)
  BY MovesKeepRequests
<1>2. workQ \in Seq(WorkBlock) /\ user \in Users
  BY DEF LifeTypeOK
<1>3. user' \in Users /\ workQ' \in Seq(WorkBlock)
  <2>1. workQ # <<>> => Head(workQ) \in WorkBlock
    BY <1>2
  <2>2. workQ # <<>> => After(workQ, "credential", user) \in Users
    BY <1>2, <2>1 DEF After, WorkBlock
  <2> QED BY <1>2, <2>2
<1>4. LifeTypeOK'
  BY <1>1, <1>3 DEF LifeTypeOK, Becomes, Moves, authVars
<1>5. Ends(workQ, "credential", user, current)' /\ InOrder(workQ, user)'
  <2>1. CASE workQ' = workQ /\ user' = user
    BY <2>1 DEF authVars
  <2>2. CASE /\ workQ # <<>>
             /\ workQ' = Tail(workQ)
             /\ user' = After(workQ, "credential", user)
    <3>1. Ends(workQ', "credential", user', current)
      BY <2>2, <1>2, EndsTail
    <3>2. InOrder(workQ', user')
      BY <2>2, <1>2, InOrderTail
    <3> QED BY <3>1, <3>2 DEF authVars
  <2> QED BY <2>1, <2>2
<1>6. Ends(mainQ, "changed", current, authUser)'
  BY DEF authVars
<1>7. TokensCurrent'
  <2>1. mainQ' = mainQ /\ counter' = counter /\ current' = current /\ counter \in Nat
    BY DEF authVars, LifeTypeOK
  <2> QED BY <1>1, <2>1 DEF TokensCurrent, Quiet
<1>8. CredIsUser' /\ (~net' => ~IsStarted(stream'))
  BY DEF CredIsUser, Becomes, Moves
<1> QED BY <1>1, <1>4, <1>5, <1>6, <1>7, <1>8

LEMMA AuthChangesKeeps ==
    ASSUME LifeInv, NEW u \in Users, AuthChanges(u)
    PROVE  LifeInv'
<1> DEFINE x == [kind |-> "changed", user |-> u]
<1> USE DEF LifeInv
<1>1. x \in MainBlock /\ x.kind = "changed" /\ x.user = u
  BY DEF MainBlock
<1>2. mainQ \in Seq(MainBlock) /\ mainQ' = Append(mainQ, x)
  BY DEF LifeTypeOK, AuthChanges
<1>3. /\ mainQ' \in Seq(MainBlock) /\ Len(mainQ') = Len(mainQ) + 1 /\ Len(mainQ) \in Nat
      /\ mainQ'[Len(mainQ) + 1] = x
      /\ \A i \in 1..Len(mainQ) : mainQ'[i] = mainQ[i]
  BY <1>1, <1>2
<1>4. LifeTypeOK'
  BY <1>3 DEF LifeTypeOK, AuthChanges
<1>5. Ends(mainQ', "changed", current, authUser')
  BY <1>1, <1>2, EndsAppend DEF AuthChanges
<1>6. TokensCurrent'
  <2>1. ~Quiet(mainQ', Len(mainQ'))
    BY <1>1, <1>3 DEF Quiet
  <2>2. \A i \in 1..Len(mainQ') : mainQ'[i].kind = "token" => i \in 1..Len(mainQ)
    BY <1>1, <1>3
  <2>3. \A i \in 1..Len(mainQ) : Quiet(mainQ', i - 1) => Quiet(mainQ, i - 1)
    BY <1>3 DEF Quiet
  <2>4. UNCHANGED <<asks, counter, current>>
    BY DEF AuthChanges
  <2> QED BY <2>1, <2>2, <2>3, <2>4, <1>3 DEF TokensCurrent
<1>7. OneRequest'
  <2>1. \A i, c : TokenIn(mainQ', i, c) => TokenIn(mainQ, i, c)
    BY <1>1, <1>3 DEF TokenIn
  <2>2. UNCHANGED <<asks, workQ, stream>>
    BY DEF AuthChanges
  <2>3. NoneAbove(asks, mainQ', workQ, stream.closes)
    BY <1>1, <1>3 DEF OneRequest, NoneAbove
  <2>4. OneAt(asks, mainQ', workQ, stream.closes)
    BY <2>1 DEF OneRequest, OneAt
  <2>5. stream.st # "Starting" => NoneAt(asks, mainQ', workQ, stream.closes)
    BY <2>1 DEF OneRequest, NoneAt
  <2> QED BY <2>2, <2>3, <2>4, <2>5 DEF OneRequest
<1>8. UNCHANGED <<current, workQ, user, net, stream>>
  BY DEF AuthChanges
<1> QED BY <1>4, <1>5, <1>6, <1>7, <1>8 DEF CredIsUser

LEMMA AuthReadsKeeps ==
    ASSUME LifeInv, NEW a \in asks, AuthReads(a)
    PROVE  LifeInv'
<1> DEFINE b == [a EXCEPT !.user = authUser]
           c == stream.closes
<1> USE DEF LifeInv
<1>1. /\ a \in AskRec /\ a.user = NoCred
      /\ asks' = (asks \ {a}) \cup {b}
      /\ UNCHANGED <<authVars, mainQ, workQ, net, user, stream>>
  BY DEF LifeTypeOK, AuthReads
<1>2. /\ b \in AskRec /\ b.closes = a.closes /\ b.counter = a.counter /\ b.user = authUser
  BY <1>1 DEF LifeTypeOK, AskRec
<1>3. LifeTypeOK'
  BY <1>1, <1>2 DEF LifeTypeOK, authVars
<1>4. Quiet(mainQ, Len(mainQ)) => authUser = current
  <2> SUFFICES ASSUME Quiet(mainQ, Len(mainQ)) PROVE authUser = current
    OBVIOUS
  <2>1. Len(mainQ) \in Nat
    BY DEF LifeTypeOK
  <2>2. LastChange(mainQ, "changed", 0, Len(mainQ) + 1)
    BY <2>1 DEF LastChange, Quiet
  <2> QED BY <2>1, <2>2 DEF Ends, HolderOf
<1>5. TokensCurrent'
  BY <1>1, <1>2, <1>4 DEF TokensCurrent, Quiet, authVars
<1>6. OneRequest'
  <2>1. \A x : AskIn(asks', x, c) => (x = b /\ AskIn(asks, a, c)) \/ (x # a /\ AskIn(asks, x, c))
    BY <1>1, <1>2 DEF AskIn
  <2>2. NoneAbove(asks', mainQ, workQ, c)
    BY <1>1, <1>2 DEF OneRequest, NoneAbove
  <2>3. OneAt(asks', mainQ, workQ, c)
    BY <2>1 DEF OneRequest, OneAt
  <2>4. stream.st # "Starting" => NoneAt(asks', mainQ, workQ, c)
    BY <2>1 DEF OneRequest, NoneAt
  <2> QED BY <2>2, <2>3, <2>4, <1>1 DEF OneRequest
<1> QED BY <1>1, <1>3, <1>5, <1>6 DEF CredIsUser, authVars

LEMMA AuthAnswersKeeps ==
    ASSUME LifeInv, NEW a \in asks, NEW ok \in BOOLEAN, AuthAnswers(a, ok)
    PROVE  LifeInv'
<1> DEFINE x == [kind |-> "token", user |-> a.user, ok |-> ok,
                 closes |-> a.closes, counter |-> a.counter]
           c == stream.closes
<1> USE DEF LifeInv
<1>1. /\ a \in AskRec /\ a.user # NoCred
      /\ asks' = asks \ {a}
      /\ mainQ' = Append(mainQ, x)
      /\ UNCHANGED <<authVars, workQ, net, user, stream>>
      /\ mainQ \in Seq(MainBlock)
  BY DEF LifeTypeOK, AuthAnswers
<1>2. /\ x \in MainBlock /\ x.kind = "token" /\ x.user = a.user
      /\ x.closes = a.closes /\ x.counter = a.counter
  BY <1>1 DEF MainBlock, AskRec
<1> HIDE DEF x
<1>3. /\ mainQ' \in Seq(MainBlock) /\ Len(mainQ') = Len(mainQ) + 1 /\ Len(mainQ) \in Nat
      /\ mainQ'[Len(mainQ) + 1] = x
      /\ \A i \in 1..Len(mainQ) : mainQ'[i] = mainQ[i]
  BY <1>1, <1>2
<1>4. LifeTypeOK'
  BY <1>1, <1>3 DEF LifeTypeOK, authVars
<1>5. Ends(mainQ', "changed", current, authUser)
  BY <1>1, <1>2, EndsAppend
<1>6. TokensCurrent'
  <2>1. Quiet(mainQ', Len(mainQ')) => Quiet(mainQ, Len(mainQ))
    BY <1>3 DEF Quiet
  <2>2. \A i \in 1..Len(mainQ') : i = Len(mainQ) + 1 \/ i \in 1..Len(mainQ)
    BY <1>3
  <2>3. \A i \in 1..Len(mainQ) : Quiet(mainQ', i - 1) => Quiet(mainQ, i - 1)
    BY <1>3 DEF Quiet
  <2>4. Quiet(mainQ', (Len(mainQ) + 1) - 1) => Quiet(mainQ, Len(mainQ))
    BY <1>3 DEF Quiet
  <2>5. UNCHANGED <<counter, current>> /\ asks' \subseteq asks
    BY <1>1 DEF authVars
  <2> QED BY <2>1, <2>2, <2>3, <2>4, <2>5, <1>1, <1>2, <1>3 DEF TokensCurrent
<1>7. OneRequest'
  <2>1. \A i : TokenIn(mainQ', i, c) =>
            TokenIn(mainQ, i, c) \/ (i = Len(mainQ) + 1 /\ AskIn(asks, a, c))
    BY <1>2, <1>3 DEF TokenIn, AskIn
  <2>2. \A y : AskIn(asks', y, c) => y # a /\ AskIn(asks, y, c)
    BY <1>1 DEF AskIn
  <2>3. NoneAbove(asks', mainQ', workQ, c)
    BY <1>1, <1>2, <1>3 DEF OneRequest, NoneAbove
  <2>4. OneAt(asks', mainQ', workQ, c)
    BY <2>1, <2>2 DEF OneRequest, OneAt
  <2>5. stream.st # "Starting" => NoneAt(asks', mainQ', workQ, c)
    BY <2>1, <2>2 DEF OneRequest, NoneAt
  <2> QED BY <2>3, <2>4, <2>5, <1>1 DEF OneRequest
<1> QED BY <1>1, <1>4, <1>5, <1>6, <1>7 DEF CredIsUser, authVars

\* Dropping the head of the main queue.
LEMMA MainTail ==
    ASSUME NEW S, NEW m \in Seq(S), m # <<>>
    PROVE  /\ Tail(m) \in Seq(S) /\ Len(Tail(m)) = Len(m) - 1 /\ Len(m) \in Nat \ {0}
           /\ Head(m) = m[1] /\ Head(m) \in S
           /\ \A i \in 1..Len(Tail(m)) : Tail(m)[i] = m[i + 1] /\ i + 1 \in 1..Len(m)
           /\ \A i, c : TokenIn(Tail(m), i, c) => i \in Nat \ {0} /\ TokenIn(m, i + 1, c)
           /\ \A A, w, c : NoneAbove(A, m, w, c) => NoneAbove(A, Tail(m), w, c)
<1>1. /\ Tail(m) \in Seq(S) /\ Len(Tail(m)) = Len(m) - 1 /\ Len(m) \in Nat \ {0}
      /\ Head(m) = m[1] /\ Head(m) \in S
      /\ \A i \in 1..Len(Tail(m)) : Tail(m)[i] = m[i + 1]
  OBVIOUS
<1>2. \A i \in 1..Len(Tail(m)) : i + 1 \in 1..Len(m)
  BY <1>1
<1>3. \A i, c : TokenIn(Tail(m), i, c) => i \in Nat \ {0} /\ TokenIn(m, i + 1, c)
  BY <1>1, <1>2 DEF TokenIn
<1>4. \A A, w, c : NoneAbove(A, m, w, c) => NoneAbove(A, Tail(m), w, c)
  BY <1>1, <1>2 DEF NoneAbove
<1> QED BY <1>1, <1>2, <1>3, <1>4

\* If the head is no change, the tail is quiet up to one place less.
LEMMA QuietTail ==
    ASSUME NEW S, NEW m \in Seq(S), m # <<>>, Head(m).kind # "changed", NEW n \in Nat,
           n < Len(m), Quiet(Tail(m), n)
    PROVE  Quiet(m, n + 1)
<1> SUFFICES ASSUME NEW j \in 1..(n + 1) PROVE m[j].kind # "changed"
  BY DEF Quiet
<1>1. CASE j = 1
  BY <1>1, MainTail
<1>2. CASE j # 1
  <2>1. j - 1 \in 1..n /\ (j - 1) + 1 = j /\ j - 1 \in 1..Len(Tail(m))
    BY <1>2, MainTail
  <2>2. Tail(m)[j - 1] = m[(j - 1) + 1]
    BY <2>1, MainTail
  <2>3. Tail(m)[j - 1].kind # "changed"
    BY <2>1 DEF Quiet
  <2> QED BY <2>1, <2>2, <2>3
<1> QED BY <1>1, <1>2

LEMMA MainNotifiedKeeps ==
    ASSUME LifeInv, MainNotified
    PROVE  LifeInv'
<1> DEFINE u == Head(mainQ).user
           x == [kind |-> "credential", user |-> u]
           c == stream.closes
<1> USE DEF LifeInv
<1>1. /\ mainQ # <<>> /\ Head(mainQ).kind = "changed" /\ mainQ \in Seq(MainBlock)
      /\ workQ \in Seq(WorkBlock)
      /\ current' = u /\ counter' = counter + 1 /\ counter \in Nat
      /\ workQ' = Append(workQ, x) /\ mainQ' = Tail(mainQ)
      /\ UNCHANGED <<authUser, asks, net, user, stream>>
  BY DEF LifeTypeOK, MainNotified, Next1
<1>2. u \in Users /\ x \in WorkBlock /\ x.kind = "credential" /\ x.user = u
  <2>1. Head(mainQ) \in MainBlock
    BY <1>1, MainTail
  <2> QED BY <2>1, <1>1 DEF MainBlock, WorkBlock
<1> HIDE DEF x
<1>3. /\ workQ' \in Seq(WorkBlock) /\ Len(workQ') = Len(workQ) + 1 /\ Len(workQ) \in Nat
      /\ workQ'[Len(workQ) + 1] = x
      /\ \A i \in 1..Len(workQ) : workQ'[i] = workQ[i]
  BY <1>1, <1>2
<1>4. LifeTypeOK'
  BY <1>1, <1>2, <1>3, MainTail DEF LifeTypeOK
<1>5. Ends(workQ', "credential", user, current')
  BY <1>1, <1>2, EndsAppend
<1>6. Ends(mainQ', "changed", current', authUser)
  <2>1. After(mainQ, "changed", current) = u
    BY <1>1 DEF After
  <2> QED BY <2>1, <1>1, EndsTail
<1>7. InOrder(workQ', user)
  BY <1>1, <1>2, InOrderAppend
<1>8. TokensCurrent'
  <2>1. \A a \in asks : a.counter \in Nat /\ a.counter <= counter
    BY DEF LifeTypeOK, AskRec, TokensCurrent
  <2>2. \A i \in 1..Len(mainQ) : mainQ[i].kind = "token" =>
            mainQ[i].counter \in Nat /\ mainQ[i].counter <= counter
    BY <1>1 DEF MainBlock, TokensCurrent
  <2>3. \A i \in 1..Len(mainQ') : mainQ'[i].kind = "token" =>
            mainQ'[i].counter \in Nat /\ mainQ'[i].counter <= counter
    BY <2>2, <1>1, MainTail
  <2> QED BY <2>1, <2>3, <1>1 DEF TokensCurrent
<1>9. OneRequest'
  <2>1. \A i : ResumeIn(workQ', i, c) => ResumeIn(workQ, i, c)
    BY <1>2, <1>3 DEF ResumeIn
  <2>2. \A i : TokenIn(mainQ', i, c) => i \in Nat \ {0} /\ TokenIn(mainQ, i + 1, c)
    BY <1>1, MainTail
  <2>3. NoneAbove(asks, mainQ', workQ', c)
    <3>1. NoneAbove(asks, mainQ', workQ, c)
      BY <1>1, MainTail DEF OneRequest
    <3> QED BY <3>1, <1>2, <1>3 DEF NoneAbove
  <2>4. OneAt(asks, mainQ', workQ', c)
    <3>1. \A i, j : TokenIn(mainQ', i, c) /\ TokenIn(mainQ', j, c) => i = j
      <4> SUFFICES ASSUME NEW i, NEW j, TokenIn(mainQ', i, c), TokenIn(mainQ', j, c)
                   PROVE  i = j
        OBVIOUS
      <4>1. i \in Nat /\ j \in Nat /\ i + 1 = j + 1
        BY <2>2 DEF OneRequest, OneAt
      <4> QED BY <4>1
    <3> QED BY <3>1, <2>1, <2>2 DEF OneRequest, OneAt
  <2>5. stream.st # "Starting" => NoneAt(asks, mainQ', workQ', c)
    BY <2>1, <2>2 DEF OneRequest, NoneAt
  <2> QED BY <2>3, <2>4, <2>5, <1>1 DEF OneRequest
<1> QED BY <1>1, <1>4, <1>5, <1>6, <1>7, <1>8, <1>9 DEF CredIsUser

LEMMA AppEnqueuesKeeps ==
    ASSUME LifeInv, NEW t \in Tasks, AppEnqueues(t)
    PROVE  LifeInv'
<1> DEFINE x == [kind |-> "task", by |-> current, task |-> t]
           c == stream.closes
<1> USE DEF LifeInv
<1>1. /\ workQ \in Seq(WorkBlock) /\ workQ' = Append(workQ, x)
      /\ UNCHANGED <<authVars, asks, mainQ, net, user, stream>>
      /\ x \in WorkBlock /\ x.kind = "task" /\ x.by = current
  BY DEF LifeTypeOK, AppEnqueues, WorkBlock
<1> HIDE DEF x
<1>2. /\ workQ' \in Seq(WorkBlock) /\ Len(workQ') = Len(workQ) + 1 /\ Len(workQ) \in Nat
      /\ workQ'[Len(workQ) + 1] = x
      /\ \A i \in 1..Len(workQ) : workQ'[i] = workQ[i]
  BY <1>1
<1>3. LifeTypeOK'
  BY <1>1, <1>2 DEF LifeTypeOK, authVars
<1>4. Ends(workQ', "credential", user, current)
  BY <1>1, EndsAppend
<1>5. InOrder(workQ', user)
  BY <1>1, InOrderAppend DEF BelongsTo
<1>6. OneRequest'
  <2>1. \A i : ResumeIn(workQ', i, c) => ResumeIn(workQ, i, c)
    BY <1>1, <1>2 DEF ResumeIn
  <2>2. NoneAbove(asks, mainQ, workQ', c)
    BY <1>1, <1>2 DEF OneRequest, NoneAbove
  <2>3. OneAt(asks, mainQ, workQ', c)
    BY <2>1 DEF OneRequest, OneAt
  <2>4. stream.st # "Starting" => NoneAt(asks, mainQ, workQ', c)
    BY <2>1 DEF OneRequest, NoneAt
  <2> QED BY <2>2, <2>3, <2>4, <1>1 DEF OneRequest
<1>7. TokensCurrent'
  BY <1>1 DEF TokensCurrent, Quiet, authVars
<1> QED BY <1>1, <1>3, <1>4, <1>5, <1>6, <1>7 DEF CredIsUser, authVars

LEMMA MainTokenKeeps ==
    ASSUME LifeInv, MainToken
    PROVE  LifeInv'
<1> DEFINE t == Head(mainQ)
           c == stream.closes
           b == Ask(t.closes, counter, NoCred)
           x == [kind |-> "resume", user |-> t.user, ok |-> t.ok, closes |-> t.closes]
<1> USE DEF LifeInv
<1>1. /\ mainQ # <<>> /\ t.kind = "token" /\ mainQ \in Seq(MainBlock) /\ mainQ' = Tail(mainQ)
      /\ workQ \in Seq(WorkBlock) /\ asks \subseteq AskRec
      /\ \/ t.counter # counter /\ asks' = asks \cup {b} /\ workQ' = workQ
         \/ t.counter = counter /\ workQ' = Append(workQ, x) /\ asks' = asks
      /\ UNCHANGED <<authVars, net, user, stream>>
      /\ counter \in Nat
  BY DEF LifeTypeOK, MainToken, Next1
<1>2. /\ t \in MainBlock /\ t = mainQ[1] /\ Len(mainQ) \in Nat \ {0}
      /\ t.user \in Users /\ t.closes \in Nat
  <2>1. t \in MainBlock /\ t = mainQ[1] /\ Len(mainQ) \in Nat \ {0}
    BY <1>1, MainTail
  <2> QED BY <2>1, <1>1 DEF MainBlock
<1>3. /\ b \in AskRec /\ b.closes = t.closes /\ b.user = NoCred /\ b.counter = counter
  BY <1>1, <1>2 DEF Ask, AskRec
<1>4. /\ x \in WorkBlock /\ x.kind = "resume" /\ x.user = t.user /\ x.closes = t.closes
  <2>1. t.ok \in BOOLEAN
    BY <1>1, <1>2 DEF MainBlock
  <2> QED BY <2>1, <1>2 DEF WorkBlock
<1> HIDE DEF x, b
<1>5. workQ' \in Seq(WorkBlock)
  BY <1>1, <1>4
<1>6. LifeTypeOK'
  BY <1>1, <1>3, <1>5, MainTail DEF LifeTypeOK, authVars
<1>7. Ends(mainQ', "changed", current, authUser)
  <2>1. After(mainQ, "changed", current) = current
    BY <1>1 DEF After
  <2>2. Ends(Tail(mainQ), "changed", After(mainQ, "changed", current), authUser)
    BY <1>1, EndsTail
  <2> QED BY <2>1, <2>2, <1>1
<1>8. t.counter = counter => t.user = current
  <2>1. Quiet(mainQ, 1 - 1)
    BY DEF Quiet
  <2> QED BY <2>1, <1>1, <1>2 DEF TokensCurrent
<1>9. Ends(workQ', "credential", user, current) /\ InOrder(workQ', user)
  <2>1. CASE workQ' = workQ
    BY <2>1
  <2>2. CASE t.counter = counter /\ workQ' = Append(workQ, x)
    <3>1. BelongsTo(x, current)
      BY <2>2, <1>4, <1>8 DEF BelongsTo
    <3>2. x.kind # "credential"
      BY <1>4
    <3>3. Ends(workQ', "credential", user, current)
      BY <2>2, <3>2, <1>1, <1>4, EndsAppend
    <3>4. InOrder(workQ', user)
      BY <2>2, <3>1, <1>1, <1>4, InOrderAppend
    <3> QED BY <3>3, <3>4
  <2> QED BY <1>1, <2>1, <2>2
<1>10. TokensCurrent'
  <2>1. asks' \subseteq asks \cup {b} /\ counter' = counter /\ current' = current
    BY <1>1 DEF authVars
  <2>2. Quiet(mainQ', Len(mainQ')) => Quiet(mainQ, Len(mainQ))
    <3>1. Len(mainQ') \in Nat /\ Len(mainQ') < Len(mainQ) /\ Len(mainQ') + 1 = Len(mainQ)
      BY <1>1, MainTail
    <3>2. Quiet(Tail(mainQ), Len(mainQ')) => Quiet(mainQ, Len(mainQ') + 1)
      BY <3>1, <1>1, QuietTail
    <3> QED BY <3>1, <3>2, <1>1
  <2>3. ASSUME NEW i \in 1..Len(mainQ'), Quiet(mainQ', i - 1)
        PROVE  Quiet(mainQ, (i + 1) - 1)
    <3>1. i - 1 \in Nat /\ i - 1 < Len(mainQ) /\ (i - 1) + 1 = (i + 1) - 1
      BY <1>1, MainTail
    <3>2. Quiet(mainQ, (i - 1) + 1)
      BY <2>3, <3>1, <1>1, QuietTail
    <3> QED BY <3>1, <3>2
  <2>4. \A i \in 1..Len(mainQ') : mainQ'[i] = mainQ[i + 1] /\ i + 1 \in 1..Len(mainQ)
    BY <1>1, MainTail
  <2> QED BY <2>1, <2>2, <2>3, <2>4, <1>1, <1>3 DEF TokensCurrent
<1>11. OneRequest'
  <2>1. \A i : TokenIn(mainQ', i, c) => i \in Nat \ {0} /\ TokenIn(mainQ, i + 1, c)
    BY <1>1, MainTail
  <2>2. t.closes = c => TokenIn(mainQ, 1, c)
    BY <1>1, <1>2 DEF TokenIn
  <2>3. t.closes = c => \A i : ~TokenIn(mainQ', i, c)
    <3> SUFFICES ASSUME t.closes = c, NEW i, TokenIn(mainQ', i, c) PROVE FALSE
      OBVIOUS
    <3>1. i \in Nat \ {0} /\ i + 1 = 1
      BY <2>1, <2>2 DEF OneRequest, OneAt
    <3> QED BY <3>1
  <2>4. \A a : AskIn(asks', a, c) => AskIn(asks, a, c) \/ (a = b /\ t.closes = c /\ workQ' = workQ)
    BY <1>1, <1>3 DEF AskIn
  <2>5. \A i : ResumeIn(workQ', i, c) =>
                  \/ ResumeIn(workQ, i, c)
                  \/ i = Len(workQ) + 1 /\ t.closes = c /\ asks' = asks
    <3>1. CASE workQ' = workQ
      BY <3>1
    <3>2. CASE asks' = asks /\ workQ' = Append(workQ, x)
      <4>1. /\ Len(workQ') = Len(workQ) + 1 /\ Len(workQ) \in Nat
            /\ workQ'[Len(workQ) + 1] = x
            /\ \A i \in 1..Len(workQ) : workQ'[i] = workQ[i]
        BY <3>2, <1>1
      <4> QED BY <3>2, <4>1, <1>4 DEF ResumeIn
    <3> QED BY <3>1, <3>2, <1>1
  <2>6. t.closes <= c
    BY <1>1, <1>2 DEF OneRequest, NoneAbove
  <2>7. NoneAbove(asks', mainQ', workQ', c)
    <3>1. NoneAbove(asks, mainQ', workQ, c)
      BY <1>1, MainTail DEF OneRequest
    <3>2. CASE workQ' = workQ /\ asks' = asks \cup {b}
      BY <3>1, <3>2, <2>6, <1>3 DEF NoneAbove
    <3>3. CASE asks' = asks /\ workQ' = Append(workQ, x)
      <4>1. /\ Len(workQ') = Len(workQ) + 1 /\ Len(workQ) \in Nat
            /\ workQ'[Len(workQ) + 1] = x
            /\ \A i \in 1..Len(workQ) : workQ'[i] = workQ[i]
        BY <3>3, <1>1
      <4> QED BY <3>1, <3>3, <4>1, <2>6, <1>4 DEF NoneAbove
    <3> QED BY <3>2, <3>3, <1>1
  <2>8. OneAt(asks', mainQ', workQ', c)
    <3>1. \A i, j : TokenIn(mainQ', i, c) /\ TokenIn(mainQ', j, c) => i = j
      <4> SUFFICES ASSUME NEW i, NEW j, TokenIn(mainQ', i, c), TokenIn(mainQ', j, c)
                   PROVE  i = j
        OBVIOUS
      <4>1. i \in Nat /\ j \in Nat /\ i + 1 = j + 1
        BY <2>1 DEF OneRequest, OneAt
      <4> QED BY <4>1
    <3>2. CASE t.closes = c
      <4>1. /\ \A a : ~AskIn(asks, a, c)
            /\ \A i : ~ResumeIn(workQ, i, c)
        BY <3>2, <2>2 DEF OneRequest, OneAt
      <4>2. \A i : ResumeIn(workQ', i, c) => i = Len(workQ) + 1 /\ asks' = asks
        BY <4>1, <2>5
      <4>3. \A a : AskIn(asks', a, c) => a = b /\ workQ' = workQ
        BY <4>1, <2>4
      <4> QED BY <3>2, <4>1, <4>2, <4>3, <2>3 DEF OneAt
    <3>3. CASE t.closes # c
      <4>1. /\ \A a : AskIn(asks', a, c) => AskIn(asks, a, c)
            /\ \A i : ResumeIn(workQ', i, c) => ResumeIn(workQ, i, c)
        BY <3>3, <2>4, <2>5
      <4> QED BY <4>1, <3>1, <2>1 DEF OneRequest, OneAt
    <3> QED BY <3>2, <3>3
  <2>9. stream.st # "Starting" => NoneAt(asks', mainQ', workQ', c)
    BY <2>1, <2>2, <2>4, <2>5 DEF OneRequest, NoneAt
  <2> QED BY <2>7, <2>8, <2>9, <1>1 DEF OneRequest
<1> QED BY <1>1, <1>6, <1>7, <1>9, <1>10, <1>11 DEF CredIsUser, authVars

\* A token that comes back to a stream that waits for it opens it.
LEMMA OpeningKeeps ==
    ASSUME LifeInv, Next1(workQ, "resume"), workQ' = Tail(workQ),
           Head(workQ).closes = stream.closes,
           Becomes(Opened(stream, Head(workQ).user)),
           UNCHANGED <<authVars, mainQ, net, user>>
    PROVE  LifeInv'
<1> DEFINE r == Head(workQ)
           s == Opened(stream, r.user)
           c == stream.closes
<1> USE DEF LifeInv
<1>1. /\ workQ # <<>> /\ r.kind = "resume" /\ workQ \in Seq(WorkBlock)
      /\ r = workQ[1] /\ r \in WorkBlock /\ Len(workQ) \in Nat \ {0}
      /\ stream \in StreamRec
  BY DEF LifeTypeOK, Next1
<1>2. r.user \in Users /\ r.closes = c
  BY <1>1 DEF WorkBlock
<1>3. ResumeIn(workQ, 1, c)
  BY <1>1, <1>2 DEF ResumeIn
<1>4. stream.st = "Starting"
  BY <1>3 DEF OneRequest, NoneAt
<1>5. r.user = user
  <2>1. LastChange(workQ, "credential", 0, 1)
    BY DEF LastChange
  <2> QED BY <2>1, <1>1 DEF InOrder, BelongsTo, HolderOf
<1>6. s \in StreamRec /\ s.closes = c /\ s.st = "Open" /\ s.cred = user
  BY <1>1, <1>2, <1>5 DEF Opened, StreamRec, StreamStatus
<1> HIDE DEF s
<1>7. stream' = s /\ asks' = asks
  BY <1>6 DEF Becomes, s
<1>8. After(workQ, "credential", user) = user
  BY <1>1 DEF After
<1>9. LifeTypeOK'
  BY <1>1, <1>6, <1>7 DEF LifeTypeOK, authVars
<1>10. Ends(workQ', "credential", user, current) /\ InOrder(workQ', user)
  <2>1. Ends(Tail(workQ), "credential", After(workQ, "credential", user), current)
    BY <1>1, EndsTail
  <2>2. InOrder(Tail(workQ), After(workQ, "credential", user))
    BY <1>1, InOrderTail
  <2> QED BY <2>1, <2>2, <1>8
<1>11. TokensCurrent'
  BY <1>7 DEF TokensCurrent, Quiet, authVars
<1>12. OneRequest'
  <2>1. NoneAbove(asks, mainQ, workQ', c) /\ OneAt(asks, mainQ, workQ', c)
    BY <1>1, TailRequests DEF OneRequest
  <2>2. \A i : ~ResumeIn(workQ', i, c)
    <3> SUFFICES ASSUME NEW i, ResumeIn(workQ', i, c) PROVE FALSE
      OBVIOUS
    <3>1. i \in Nat \ {0} /\ ResumeIn(workQ, i + 1, c)
      BY <1>1 DEF ResumeIn
    <3>2. i + 1 = 1
      BY <3>1, <1>3 DEF OneRequest, OneAt
    <3> QED BY <3>1, <3>2
  <2>3. NoneAt(asks, mainQ, workQ', c)
    BY <2>2, <1>3 DEF OneRequest, OneAt, NoneAt
  <2> QED BY <2>1, <2>3, <1>6, <1>7 DEF OneRequest
<1>13. ~net => ~IsStarted(stream')
  BY <1>4 DEF IsStarted
<1> QED BY <1>6, <1>7, <1>9, <1>10, <1>11, <1>12, <1>13 DEF CredIsUser, authVars

LEMMA WorkerCredentialKeeps ==
    ASSUME LifeInv, WorkerCredential
    PROVE  LifeInv'
<1> DEFINE t == Inhibited(Stopped(stream))
<1>1. stream \in StreamRec /\ net \in BOOLEAN
  BY DEF LifeInv, LifeTypeOK
<1>2. PICK s \in IF net THEN OwnersChoice(t, TRUE) ELSE {stream} : Becomes(s)
  BY DEF WorkerCredential
<1>3. Moves(s) /\ (~net => ~IsStarted(s)) /\ ~IsOpen(s)
  <2>1. CASE net
    <3>1. t \in StreamRec /\ ~IsStarted(t) /\ t.closes = Stopped(stream).closes
      BY <1>1, StoppedFacts
    <3>2. s \in StreamRec /\ s.closes = t.closes /\ ~IsOpen(s)
      BY <2>1, <1>2, <3>1, ChoiceFacts
    <3>3. \/ t.closes > stream.closes
          \/ t.closes = stream.closes /\ stream.st # "Starting"
      BY <1>1, <3>1, StoppedFacts DEF StreamRec
    <3> QED BY <2>1, <3>2, <3>3 DEF Moves
  <2>2. CASE ~net
    BY <2>2, <1>1, <1>2 DEF Moves, LifeInv, IsOpen, IsStarted
  <2> QED BY <2>1, <2>2
<1>4. /\ workQ # <<>> /\ workQ' = Tail(workQ)
      /\ user' = After(workQ, "credential", user)
      /\ UNCHANGED <<authVars, mainQ, net>>
  BY DEF WorkerCredential, Next1, After
<1> QED BY <1>1, <1>2, <1>3, <1>4, WorkerMoves

LEMMA WorkerResumeKeeps ==
    ASSUME LifeInv, WorkerResume
    PROVE  LifeInv'
<1> DEFINE r == Head(workQ)
<1>1. stream \in StreamRec /\ net \in BOOLEAN
  BY DEF LifeInv, LifeTypeOK
<1>2. /\ Next1(workQ, "resume") /\ workQ # <<>> /\ workQ' = Tail(workQ)
      /\ UNCHANGED <<authVars, mainQ, net, user>>
      /\ user' = After(workQ, "credential", user)
  BY DEF WorkerResume, Next1, After
<1>3. ASSUME r.closes # stream.closes
      PROVE  LifeInv'
  <2>1. Becomes(stream)
    BY <1>3 DEF WorkerResume
  <2>2. Moves(stream) /\ (~net => ~IsStarted(stream))
    BY <1>1 DEF Moves, LifeInv
  <2> QED BY <2>1, <2>2, <1>1, <1>2, WorkerMoves
<1>4. ASSUME r.closes = stream.closes, r.ok
      PROVE  LifeInv'
  <2>1. Becomes(Opened(stream, r.user))
    BY <1>4 DEF WorkerResume
  <2> QED BY <2>1, <1>2, <1>4, OpeningKeeps
<1>5. ASSUME r.closes = stream.closes, ~r.ok
      PROVE  LifeInv'
  <2>1. PICK s \in OwnersChoice(Closed(stream, FALSE), net) : Becomes(s)
    BY <1>5 DEF WorkerResume
  <2>2. /\ Moves(s) /\ ~IsOpen(s) /\ (~net => ~IsStarted(s))
    <3>1. /\ Closed(stream, FALSE) \in StreamRec
          /\ ~IsStarted(Closed(stream, FALSE))
          /\ Closed(stream, FALSE).closes > stream.closes
      BY <1>1, ClosedFacts
    <3>2. /\ s \in StreamRec /\ s.closes = Closed(stream, FALSE).closes
          /\ ~IsOpen(s) /\ (~net => ~IsStarted(s))
      BY <2>1, <3>1, <1>1, ChoiceFacts
    <3> QED BY <3>1, <3>2 DEF Moves
  <2> QED BY <2>1, <2>2, <1>1, <1>2, WorkerMoves
<1> QED BY <1>3, <1>4, <1>5

\* What the owner makes of its stream as it is.
LEMMA ChoiceMoves ==
    ASSUME LifeInv, NEW on \in BOOLEAN, on \/ ~net, NEW s \in OwnersChoice(stream, on)
    PROVE  Moves(s) /\ (~on => ~IsStarted(s))
<1>1. stream \in StreamRec /\ (~net => ~IsStarted(stream))
  BY DEF LifeInv, LifeTypeOK
<1>2. /\ s \in StreamRec
      /\ s.closes = stream.closes
      /\ IsStarted(stream) => s = stream
      /\ ~IsStarted(stream) => ~IsOpen(s)
      /\ ~on /\ ~IsStarted(stream) => ~IsStarted(s)
  BY <1>1, ChoiceFacts
<1> QED BY <1>1, <1>2 DEF Moves, IsStarted

LEMMA WorkerTaskKeeps ==
    ASSUME LifeInv, WorkerTask
    PROVE  LifeInv'
<1>1. net \in BOOLEAN
  BY DEF LifeInv, LifeTypeOK
<1>2. PICK s \in OwnersChoice(stream, net) : Becomes(s)
  BY DEF WorkerTask
<1>3. Moves(s) /\ (~net => ~IsStarted(s))
  BY <1>1, ChoiceMoves
<1>4. /\ workQ # <<>> /\ workQ' = Tail(workQ)
      /\ user' = After(workQ, "credential", user) /\ user' = user
      /\ UNCHANGED <<authVars, mainQ, net>>
  BY DEF WorkerTask, Next1, After
<1> QED BY <1>1, <1>2, <1>3, <1>4, WorkerMoves

LEMMA WorkerStreamKeeps ==
    ASSUME LifeInv, WorkerStream
    PROVE  LifeInv'
<1>1. /\ stream \in StreamRec /\ net \in BOOLEAN /\ (~net => ~IsStarted(stream))
      /\ UNCHANGED <<authVars, mainQ, workQ, net, user>>
  BY DEF LifeInv, LifeTypeOK, WorkerStream
<1>2. ASSUME NEW s, Becomes(s), Moves(s), ~net => ~IsStarted(s)
      PROVE  LifeInv'
  BY <1>1, <1>2, WorkerMoves
<1>3. CASE \E s \in OwnersChoice(stream, net) : Becomes(s)
  BY <1>1, <1>2, <1>3, ChoiceMoves
<1>4. CASE IsOpen(stream) /\ \E s \in OwnersChoice(Closed(stream, FALSE), net) : Becomes(s)
  <2>1. PICK s \in OwnersChoice(Closed(stream, FALSE), net) : Becomes(s)
    BY <1>4
  <2>2. /\ Closed(stream, FALSE) \in StreamRec
        /\ ~IsStarted(Closed(stream, FALSE))
        /\ Closed(stream, FALSE).closes > stream.closes
    BY <1>1, ClosedFacts
  <2>3. /\ s \in StreamRec /\ s.closes = Closed(stream, FALSE).closes
        /\ ~IsOpen(s) /\ (~net => ~IsStarted(s))
    BY <2>1, <2>2, <1>1, ChoiceFacts
  <2>4. Moves(s)
    BY <2>2, <2>3 DEF Moves
  <2> QED BY <2>1, <2>3, <2>4, <1>2
<1>5. CASE Becomes(Stopped(stream))
  <2>1. /\ Stopped(stream) \in StreamRec
        /\ ~IsStarted(Stopped(stream))
        /\ Stopped(stream) = stream \/ Stopped(stream).closes > stream.closes
    BY <1>1, StoppedFacts
  <2>2. Moves(Stopped(stream))
    BY <2>1 DEF Moves, IsOpen, IsStarted
  <2> QED BY <2>1, <2>2, <1>2, <1>5
<1>6. CASE stream.st = "Backoff" /\ Becomes(BackoffOver(stream))
  <2>1. Moves(BackoffOver(stream))
    BY <1>1, <1>6 DEF Moves, BackoffOver, StreamRec, StreamStatus, IsOpen
  <2>2. net
    BY <1>1, <1>6 DEF IsStarted
  <2> QED BY <2>1, <2>2, <1>2, <1>6
<1> QED BY <1>3, <1>4, <1>5, <1>6 DEF WorkerStream

LEMMA WorkerNetworkKeeps ==
    ASSUME LifeInv, WorkerNetwork
    PROVE  LifeInv'
<1>1. /\ stream \in StreamRec /\ net \in BOOLEAN /\ (~net => ~IsStarted(stream))
      /\ UNCHANGED <<authVars, mainQ, workQ, user>>
  BY DEF LifeInv, LifeTypeOK, WorkerNetwork
<1>2. CASE net' = FALSE /\ Becomes(Stopped(stream))
  <2>1. /\ Stopped(stream) \in StreamRec
        /\ ~IsStarted(Stopped(stream))
        /\ Stopped(stream) = stream \/ Stopped(stream).closes > stream.closes
    BY <1>1, StoppedFacts
  <2>2. Moves(Stopped(stream))
    BY <2>1 DEF Moves, IsOpen, IsStarted
  <2> QED BY <2>1, <2>2, <1>1, <1>2, WorkerMoves
<1>3. CASE net' = TRUE /\ \E s \in OwnersChoice(stream, TRUE) : Becomes(s)
  <2>1. PICK s \in OwnersChoice(stream, TRUE) : Becomes(s)
    BY <1>3
  <2>2. Moves(s)
    BY ChoiceMoves
  <2> QED BY <2>1, <2>2, <1>1, <1>3, WorkerMoves
<1>4. CASE /\ net
           /\ net' = net
           /\ \E s \in OwnersChoice(Inhibited(Stopped(stream)), TRUE) : Becomes(s)
  <2>1. PICK s \in OwnersChoice(Inhibited(Stopped(stream)), TRUE) : Becomes(s)
    BY <1>4
  <2> DEFINE t == Inhibited(Stopped(stream))
  <2>2. t \in StreamRec /\ ~IsStarted(t) /\ t.closes = Stopped(stream).closes
    BY <1>1, StoppedFacts
  <2>3. s \in StreamRec /\ s.closes = t.closes /\ ~IsOpen(s)
    BY <2>1, <2>2, ChoiceFacts
  <2>4. \/ t.closes > stream.closes
        \/ t.closes = stream.closes /\ stream.st # "Starting"
    BY <1>1, <2>2, StoppedFacts DEF StreamRec
  <2>5. Moves(s)
    BY <2>3, <2>4 DEF Moves
  <2> QED BY <2>1, <2>3, <2>5, <1>1, <1>4, WorkerMoves
<1> QED BY <1>2, <1>3, <1>4 DEF WorkerNetwork

\* Empty queues say nothing about a change or a request.
LEMMA NothingUnderWay ==
    ASSUME NEW u, NEW m, m = <<>>
    PROVE  /\ Ends(m, "credential", u, u) /\ Ends(m, "changed", u, u) /\ InOrder(m, u)
           /\ Len(m) = 0
BY DEF Ends, InOrder, LastChange, HolderOf

LEMMA RelaunchKeeps ==
    ASSUME LifeInv, Relaunch
    PROVE  LifeInv'
<1>1. PICK s \in OwnersChoice(NewStream, TRUE) :
          /\ stream' = s
          /\ asks' = IF s.st = "Starting" THEN {Ask(s.closes, 0, NoCred)} ELSE {}
  BY DEF Relaunch
<1>2. NewStream \in StreamRec /\ ~IsStarted(NewStream)
  BY DEF NewStream, StreamRec, StreamStatus, IsStarted
<1>3. s \in StreamRec /\ ~IsOpen(s)
  BY <1>2, ChoiceFacts
<1>4. /\ authUser' = authUser /\ current' = authUser /\ user' = authUser /\ counter' = 0
      /\ mainQ' = <<>> /\ workQ' = <<>> /\ net' = TRUE /\ authUser \in Users
  BY DEF Relaunch, LifeInv, LifeTypeOK
<1>5. \A a \in asks' : /\ a \in AskRec /\ a.closes = s.closes /\ a.counter = 0
                       /\ a.user = NoCred /\ s.st = "Starting"
  BY <1>1, <1>3 DEF Ask, AskRec, StreamRec
<1>6. \A a, b \in asks' : a = b
  BY <1>1
<1>7. LifeTypeOK'
  BY <1>1, <1>3, <1>4, <1>5 DEF LifeTypeOK
<1>8. /\ Ends(workQ', "credential", user', current')
      /\ Ends(mainQ', "changed", current', authUser')
      /\ InOrder(workQ', user') /\ Len(mainQ') = 0 /\ Len(workQ') = 0
  BY <1>4, NothingUnderWay
<1>9. TokensCurrent'
  BY <1>4, <1>5, <1>8 DEF TokensCurrent
<1>10. OneRequest'
  <2>1. /\ \A i, c : ~TokenIn(mainQ', i, c)
        /\ \A i, c : ~ResumeIn(workQ', i, c)
    BY <1>8 DEF TokenIn, ResumeIn
  <2>2. NoneAbove(asks', mainQ', workQ', s.closes)
    BY <1>5, <1>3, <1>8 DEF NoneAbove, StreamRec
  <2>3. OneAt(asks', mainQ', workQ', s.closes)
    BY <2>1, <1>6 DEF OneAt, AskIn
  <2>4. s.st # "Starting" => NoneAt(asks', mainQ', workQ', s.closes)
    BY <2>1, <1>5 DEF NoneAt, AskIn
  <2> QED BY <2>2, <2>3, <2>4, <1>1 DEF OneRequest
<1> QED BY <1>1, <1>3, <1>4, <1>7, <1>8, <1>9, <1>10 DEF LifeInv, CredIsUser

LEMMA LifeInvInit == LifeInit => LifeInv
<1> SUFFICES ASSUME LifeInit PROVE LifeInv
  OBVIOUS
<1>1. /\ authUser \in Users /\ current = authUser /\ user = authUser /\ counter = 0
      /\ asks = {} /\ mainQ = <<>> /\ workQ = <<>> /\ net = TRUE /\ stream = NewStream
  BY DEF LifeInit
<1>2. NewStream \in StreamRec /\ ~IsOpen(NewStream) /\ NewStream.closes = 0
  BY DEF NewStream, StreamRec, StreamStatus, IsOpen
<1>3. LifeTypeOK
  BY <1>1, <1>2 DEF LifeTypeOK
<1>4. /\ Ends(workQ, "credential", user, current) /\ Ends(mainQ, "changed", current, authUser)
      /\ InOrder(workQ, user) /\ Len(mainQ) = 0 /\ Len(workQ) = 0
  BY <1>1, NothingUnderWay
<1>5. TokensCurrent
  BY <1>1, <1>4 DEF TokensCurrent
<1>6. OneRequest
  BY <1>1, <1>4 DEF OneRequest, NoneAbove, NoneAt, OneAt, AskIn, TokenIn, ResumeIn
<1> QED BY <1>1, <1>2, <1>3, <1>4, <1>5, <1>6 DEF LifeInv, CredIsUser

LEMMA LifeInvNext == LifeInv /\ [LifeNext]_lifeVars => LifeInv'
<1> SUFFICES ASSUME LifeInv, [LifeNext]_lifeVars PROVE LifeInv'
  OBVIOUS
<1>1. ASSUME NEW u \in Users, AuthChanges(u) PROVE LifeInv'
  BY <1>1, AuthChangesKeeps
<1>2. ASSUME NEW a \in asks, AuthReads(a) PROVE LifeInv'
  BY <1>2, AuthReadsKeeps
<1>3. ASSUME NEW a \in asks, NEW ok \in BOOLEAN, AuthAnswers(a, ok) PROVE LifeInv'
  BY <1>3, AuthAnswersKeeps
<1>4. ASSUME NEW t \in Tasks, AppEnqueues(t) PROVE LifeInv'
  BY <1>4, AppEnqueuesKeeps
<1>5. CASE UNCHANGED lifeVars
  BY <1>5 DEF lifeVars, authVars, LifeInv, LifeTypeOK, TokensCurrent, OneRequest,
              CredIsUser, Quiet
<1> QED BY <1>1, <1>2, <1>3, <1>4, <1>5, MainNotifiedKeeps, MainTokenKeeps,
           WorkerCredentialKeeps, WorkerResumeKeeps, WorkerTaskKeeps,
           WorkerStreamKeeps, WorkerNetworkKeeps, RelaunchKeeps DEF LifeNext

THEOREM LifeInvariant == LifeSpec => []LifeInv
<1>1. LifeInit => LifeInv
  BY LifeInvInit
<1>2. LifeInv /\ [LifeNext]_lifeVars => LifeInv'
  BY LifeInvNext
<1> QED BY <1>1, <1>2, PTL DEF LifeSpec

----------------------------------------------------------------------------
(* The properties.                                                         *)

\* A call under way was opened with the token of the user Firestore has,
\* whatever changes of user, token answers and restarts overlap
\* (RequestCredentials, HandleCredentialChange).
THEOREM StreamIsTheUsers == LifeSpec => []CredIsUser
<1>1. LifeInv => CredIsUser
  BY DEF LifeInv
<1> QED BY <1>1, LifeInvariant, PTL

LEMMA HeadTask == LifeInv => TaskRunsAsIssued
<1>1. ASSUME LifeInv, Next1(workQ, "task") PROVE Head(workQ).by = user
  <2>1. workQ # <<>> /\ workQ \in Seq(WorkBlock) /\ Head(workQ).kind = "task"
    BY <1>1 DEF LifeInv, LifeTypeOK, Next1
  <2>2. Head(workQ) = workQ[1] /\ Len(workQ) \in Nat \ {0}
    BY <2>1
  <2>3. LastChange(workQ, "credential", 0, 1)
    BY DEF LastChange
  <2> QED BY <1>1, <2>1, <2>2, <2>3 DEF LifeInv, InOrder, BelongsTo, HolderOf
<1> QED BY <1>1 DEF TaskRunsAsIssued

LEMMA HeadToken == LifeInv => ResumeFindsStarting
<1>1. ASSUME LifeInv, Next1(workQ, "resume"), Head(workQ).closes = stream.closes
      PROVE  stream.st = "Starting"
  <2>1. workQ # <<>> /\ workQ \in Seq(WorkBlock) /\ Head(workQ).kind = "resume"
    BY <1>1 DEF LifeInv, LifeTypeOK, Next1
  <2>2. ResumeIn(workQ, 1, stream.closes)
    BY <1>1, <2>1 DEF ResumeIn
  <2> QED BY <1>1, <2>2 DEF LifeInv, OneRequest, NoneAt
<1> QED BY <1>1 DEF ResumeFindsStarting

\* What the app enqueues runs for the user the app was last told of.
THEOREM TasksInOrder == LifeSpec => []TaskRunsAsIssued
BY HeadTask, LifeInvariant, PTL

\* The assertion of ResumeStartWithCredentials never fails.
THEOREM ResumeAssertionHolds == LifeSpec => []ResumeFindsStarting
BY HeadToken, LifeInvariant, PTL

----------------------------------------------------------------------------
(* The write pipeline, as an owner of its stream.                          *)

\* rs has the parts of the write side.
IsSide(rs) ==
    \E s, p, k, i, w : rs = [stream |-> s, pipe |-> p, shook |-> k, idle |-> i, wire |-> w]

LEMMA MadeSide ==
    ASSUME NEW s, NEW p, NEW h, NEW i, NEW c
    PROVE  /\ IsSide(WriteSide(s, p, h, i, c))
           /\ WriteSide(s, p, h, i, c).stream = s
           /\ WriteSide(s, p, h, i, c).pipe = p
           /\ WriteSide(s, p, h, i, c).shook = h
           /\ WriteSide(s, p, h, i, c).wire = c
BY DEF IsSide, WriteSide

LEMMA SideFacts ==
    /\ IsSide(Side)
    /\ Side.stream = stream /\ Side.pipe = pipe /\ Side.shook = shook /\ Side.wire = wire
BY MadeSide DEF Side

LEMMA StartStream ==
    ASSUME NEW rs, IsSide(rs), NEW on
    PROVE  /\ IsSide(StartIfNeeded(rs, on))
           /\ StartIfNeeded(rs, on).wire = rs.wire
           /\ StartIfNeeded(rs, on).pipe = rs.pipe
           /\ StartIfNeeded(rs, on).shook = rs.shook
           /\ StartIfNeeded(rs, on).stream \in {rs.stream, Start(rs.stream)}
           /\ IsStarted(rs.stream) \/ ~on => StartIfNeeded(rs, on).stream = rs.stream
BY DEF IsSide, StartIfNeeded

\* What the pipeline gets from the queue, and what of it is sent at once.
New(rs, q, on)   == IF on THEN NextBatches(rs.pipe, q) ELSE <<>>
Sends(rs, q, on) == IsOpen(rs.stream) /\ rs.shook /\ New(rs, q, on) # <<>>

LEMMA FillFacts ==
    ASSUME NEW rs, IsSide(rs), NEW q, NEW on \in BOOLEAN
    PROVE  LET f == FillWritePipeline(rs, q, on) IN
           /\ IsSide(f)
           /\ f.stream \in OwnersChoice(rs.stream, on)
           /\ IsStarted(rs.stream) => f.stream = rs.stream
           /\ f.shook = rs.shook
           /\ f.pipe = rs.pipe \o New(rs, q, on)
           /\ f.wire = IF Sends(rs, q, on)
                       THEN Send(rs.wire, New(rs, q, on))
                       ELSE rs.wire
<1> DEFINE new   == New(rs, q, on)
           sends == Sends(rs, q, on)
           rest  == on /\ IsOpen(rs.stream) /\ rs.pipe \o new = <<>>
           w     == IF sends THEN Send(rs.wire, new) ELSE rs.wire
           armed == ~sends /\ (rs.idle \/ rest)
           p     == rs.pipe \o new
           full  == WriteSide(rs.stream, p, rs.shook, armed, w)
<1>1. FillWritePipeline(rs, q, on) = StartIfNeeded(full, on)
  BY DEF FillWritePipeline, New, Sends
<1> HIDE DEF new, sends, rest, w, armed, p
<1>2. /\ IsSide(full) /\ full.stream = rs.stream
      /\ full.pipe = p /\ full.shook = rs.shook /\ full.wire = w
  BY MadeSide
<1> HIDE DEF full
<1>3. /\ IsSide(StartIfNeeded(full, on))
      /\ StartIfNeeded(full, on).wire = full.wire
      /\ StartIfNeeded(full, on).pipe = full.pipe
      /\ StartIfNeeded(full, on).shook = full.shook
      /\ StartIfNeeded(full, on).stream \in {full.stream, Start(full.stream)}
      /\ IsStarted(full.stream) \/ ~on => StartIfNeeded(full, on).stream = full.stream
  BY <1>2, StartStream
<1> QED BY <1>1, <1>2, <1>3 DEF OwnersChoice, new, sends, w, p

LEMMA StopSide ==
    ASSUME NEW rs, IsSide(rs)
    PROVE  /\ IsSide(StopStream(rs))
           /\ StopStream(rs).stream = Stopped(rs.stream)
           /\ StopStream(rs).pipe = rs.pipe
           /\ IsStarted(rs.stream) => ~StopStream(rs).shook
           /\ ~IsStarted(rs.stream) => StopStream(rs) = rs
           /\ StopStream(rs).wire = IF IsStarted(rs.stream) THEN NoWire ELSE rs.wire
<1> DEFINE no == FALSE
           t  == WriteSide(Stopped(rs.stream), rs.pipe, no, no, NoWire)
<1>1. CASE IsStarted(rs.stream)
  <2>1. StopStream(rs) = t
    BY <1>1 DEF StopStream
  <2>2. ~no
    OBVIOUS
  <2> HIDE DEF no
  <2> QED BY <1>1, <2>1, <2>2, MadeSide
<1>2. CASE ~IsStarted(rs.stream)
  BY <1>2 DEF StopStream, Stopped
<1> QED BY <1>1, <1>2

----------------------------------------------------------------------------
(* Whose batches a sequence holds.                                         *)

OwnedBy(s, u) == \E S : s \in Seq(S) /\ \A b \in S : b.by = u

LEMMA OwnedEmpty ==
    ASSUME NEW u
    PROVE  OwnedBy(<<>>, u)
<1> DEFINE T == {}
<1>1. <<>> \in Seq(T) /\ \A b \in T : b.by = u
  OBVIOUS
<1> HIDE DEF T
<1> QED BY <1>1 DEF OwnedBy

LEMMA OwnedAppend ==
    ASSUME NEW s, NEW u, OwnedBy(s, u), NEW b, b.by = u
    PROVE  OwnedBy(Append(s, b), u)
<1>1. PICK S : s \in Seq(S) /\ \A x \in S : x.by = u
  BY DEF OwnedBy
<1>2. s \in Seq(S \cup {b}) /\ \A x \in S \cup {b} : x.by = u
  BY <1>1
<1> QED BY <1>2 DEF OwnedBy

LEMMA OwnedConcat ==
    ASSUME NEW s, NEW t, NEW u, OwnedBy(s, u), OwnedBy(t, u)
    PROVE  OwnedBy(s \o t, u)
<1>1. PICK S : s \in Seq(S) /\ \A x \in S : x.by = u
  BY DEF OwnedBy
<1>2. PICK T : t \in Seq(T) /\ \A x \in T : x.by = u
  BY DEF OwnedBy
<1>3. s \in Seq(S \cup T) /\ t \in Seq(S \cup T) /\ \A x \in S \cup T : x.by = u
  BY <1>1, <1>2
<1>4. s \o t \in Seq(S \cup T)
  BY <1>3
<1> QED BY <1>3, <1>4 DEF OwnedBy

LEMMA OwnedSubSeq ==
    ASSUME NEW s, NEW u, OwnedBy(s, u), NEW m \in Int, NEW n \in Int, m >= 1, n <= Len(s)
    PROVE  OwnedBy(SubSeq(s, m, n), u)
<1>1. PICK S : s \in Seq(S) /\ \A x \in S : x.by = u
  BY DEF OwnedBy
<1>2. \A i \in m..n : s[i] \in S
  BY <1>1
<1>3. SubSeq(s, m, n) \in Seq(S)
  BY <1>2, SubSeqProperties
<1> QED BY <1>1, <1>3 DEF OwnedBy

LEMMA OwnedTail ==
    ASSUME NEW s, NEW u, OwnedBy(s, u), s # <<>>
    PROVE  OwnedBy(Tail(s), u) /\ Head(s).by = u
<1>1. PICK S : s \in Seq(S) /\ \A x \in S : x.by = u
  BY DEF OwnedBy
<1>2. Tail(s) \in Seq(S) /\ Head(s) \in S
  BY <1>1
<1> QED BY <1>1, <1>2 DEF OwnedBy

LEMMA OwnedWithout ==
    ASSUME NEW s, NEW u, OwnedBy(s, u), NEW b
    PROVE  OwnedBy(Without(s, b), u)
<1>1. CASE b \notin ToSet(s)
  BY <1>1 DEF Without
<1>2. CASE b \in ToSet(s)
  <2> DEFINE k == CHOOSE i \in DOMAIN s : s[i] = b
  <2>1. k \in DOMAIN s
    BY <1>2 DEF ToSet
  <2>2. Len(s) \in Nat /\ DOMAIN s = 1..Len(s)
    BY DEF OwnedBy
  <2>3. OwnedBy(SubSeq(s, 1, k - 1), u) /\ OwnedBy(SubSeq(s, k + 1, Len(s)), u)
    <3> HIDE DEF k
    <3> QED BY <2>1, <2>2, OwnedSubSeq
  <2>4. Without(s, b) = SubSeq(s, 1, k - 1) \o SubSeq(s, k + 1, Len(s))
    BY <1>2 DEF Without, RemoveAt
  <2> QED BY <2>3, <2>4, OwnedConcat
<1> QED BY <1>1, <1>2

LEMMA OwnedNew ==
    ASSUME NEW rs, NEW u, OwnedBy(rs.pipe, u), NEW q, OwnedBy(q, u), NEW on \in BOOLEAN
    PROVE  OwnedBy(New(rs, q, on), u) /\ (~on => New(rs, q, on) = <<>>)
<1>1. CASE ~on
  BY <1>1, OwnedEmpty DEF New
<1>2. CASE on
  <2> DEFINE T     == {i \in DOMAIN q : q[i].id <= LastId(rs.pipe)}
             taken == Cardinality(T)
             n     == Min({taken + Limit - Len(rs.pipe), Len(q)})
  <2>1. Len(rs.pipe) \in Nat /\ Len(q) \in Nat /\ DOMAIN q = 1..Len(q) /\ Limit \in Nat
    BY PipelineAssumption DEF OwnedBy
  <2>2. taken \in Nat
    <3>1. IsFiniteSet(1..Len(q))
      BY <2>1, FS_Interval
    <3>2. T \subseteq 1..Len(q)
      BY <2>1
    <3>3. IsFiniteSet(T)
      BY <3>1, <3>2, FS_Subset
    <3> QED BY <3>3, FS_CardinalityType
  <2> HIDE DEF T
  <2>3. n \in Int /\ n <= Len(q)
    <3> DEFINE a == taken + Limit - Len(rs.pipe)
    <3> HIDE DEF taken
    <3>1. a \in Int
      BY <2>1, <2>2
    <3> HIDE DEF a
    <3>2. \E x \in {a, Len(q)} : \A y \in {a, Len(q)} : x <= y
      BY <2>1, <3>1
    <3>3. n \in {a, Len(q)} /\ \A y \in {a, Len(q)} : n <= y
      BY <3>1, <3>2 DEF Min, a
    <3> QED BY <2>1, <3>1, <3>3
  <2> HIDE DEF taken, n
  <2>4. OwnedBy(SubSeq(q, taken + 1, n), u)
    BY <2>2, <2>3, OwnedSubSeq
  <2>5. New(rs, q, on) = SubSeq(q, taken + 1, n)
    BY <1>2 DEF New, NextBatches, T, taken, n
  <2> QED BY <1>2, <2>4, <2>5
<1> QED BY <1>1, <1>2

----------------------------------------------------------------------------
(* A call carries the pipeline or the handshake, and there is one only     *)
(* while the stream is open.                                               *)

Fits(rs) ==
    IF IsOpen(rs.stream)
    THEN /\ \E S : rs.wire.sent \in Seq(S) /\ rs.wire.acks \in Seq(S)
         /\ rs.wire.acks \o rs.wire.sent = IF rs.shook THEN rs.pipe ELSE <<Hello>>
    ELSE rs.wire = NoWire /\ ~rs.shook

LEMMA Regroup ==
    ASSUME NEW S, NEW a \in Seq(S), NEW s \in Seq(S), NEW t \in Seq(S)
    PROVE  a \o (s \o t) = (a \o s) \o t
BY ConcatAssociative

LEMMA FillKeeps ==
    ASSUME NEW rs, IsSide(rs), Fits(rs), rs.stream \in StreamRec,
           NEW u, OwnedBy(rs.pipe, u), NEW q, OwnedBy(q, u), NEW on \in BOOLEAN
    PROVE  LET f == FillWritePipeline(rs, q, on) IN
           /\ IsSide(f)
           /\ Fits(f)
           /\ OwnedBy(f.pipe, u)
           /\ ~on => f.pipe = rs.pipe
           /\ f.stream \in OwnersChoice(rs.stream, on)
<1> DEFINE f   == FillWritePipeline(rs, q, on)
           new == New(rs, q, on)
<1>1. /\ IsSide(f)
      /\ f.stream \in OwnersChoice(rs.stream, on)
      /\ IsStarted(rs.stream) => f.stream = rs.stream
      /\ f.shook = rs.shook
      /\ f.pipe = rs.pipe \o new
      /\ f.wire = IF Sends(rs, q, on) THEN Send(rs.wire, new) ELSE rs.wire
  BY FillFacts
<1>2. OwnedBy(new, u) /\ (~on => new = <<>>)
  BY OwnedNew
<1>3. /\ \E S : rs.pipe \in Seq(S) /\ new \in Seq(S)
      /\ rs.pipe \o <<>> = rs.pipe
  <2>1. PICK S : rs.pipe \in Seq(S)
    BY DEF OwnedBy
  <2>2. PICK T : new \in Seq(T)
    BY <1>2 DEF OwnedBy
  <2>3. rs.pipe \in Seq(S \cup T) /\ new \in Seq(S \cup T)
    BY <2>1, <2>2
  <2> QED BY <2>3
<1> HIDE DEF f
<1>4. OwnedBy(f.pipe, u) /\ (~on => f.pipe = rs.pipe)
  BY <1>1, <1>2, <1>3, OwnedConcat
<1>5. Fits(f)
  <2>1. CASE ~IsOpen(rs.stream)
    <3>1. ~IsOpen(f.stream)
      BY <2>1, <1>1, ChoiceFacts
    <3> QED BY <2>1, <3>1, <1>1 DEF Fits, Sends
  <2>2. CASE IsOpen(rs.stream) /\ ~Sends(rs, q, on)
    <3>1. f.stream = rs.stream /\ f.wire = rs.wire
      BY <2>2, <1>1 DEF IsOpen, IsStarted
    <3>2. rs.shook => f.pipe = rs.pipe
      BY <2>2, <1>1, <1>3 DEF Sends
    <3> QED BY <2>2, <3>1, <3>2, <1>1 DEF Fits
  <2>3. CASE IsOpen(rs.stream) /\ Sends(rs, q, on)
    <3> HIDE DEF new
    <3>1. f.stream = rs.stream /\ rs.shook
      BY <2>3, <1>1 DEF IsOpen, IsStarted, Sends
    <3>2. f.wire.sent = rs.wire.sent \o new /\ f.wire.acks = rs.wire.acks
      BY <2>3, <1>1 DEF Send, Wire
    <3>3. PICK S : rs.wire.sent \in Seq(S) /\ rs.wire.acks \in Seq(S)
      BY <2>3 DEF Fits
    <3>4. PICK T : new \in Seq(T)
      BY <1>3
    <3> DEFINE R == S \cup T
    <3>5. rs.wire.sent \in Seq(R) /\ rs.wire.acks \in Seq(R) /\ new \in Seq(R)
      BY <3>3, <3>4
    <3> HIDE DEF R
    <3>6. f.wire.sent \in Seq(R) /\ f.wire.acks \in Seq(R)
      BY <3>2, <3>5
    <3>7. rs.wire.acks \o (rs.wire.sent \o new) = (rs.wire.acks \o rs.wire.sent) \o new
      <4> DEFINE a == rs.wire.acks
                 s == rs.wire.sent
      <4>1. a \in Seq(R) /\ s \in Seq(R) /\ new \in Seq(R)
        BY <3>5
      <4> HIDE DEF a, s
      <4>2. a \o (s \o new) = (a \o s) \o new
        BY <4>1, Regroup
      <4> QED BY <4>2 DEF a, s
    <3>8. rs.wire.acks \o rs.wire.sent = rs.pipe
      BY <2>3, <3>1 DEF Fits
    <3>9. f.wire.acks \o f.wire.sent = f.pipe
      BY <3>2, <3>7, <3>8, <1>1
    <3> QED BY <2>3, <3>1, <3>6, <3>9, <1>1 DEF Fits
  <2> QED BY <2>1, <2>2, <2>3
<1> QED BY <1>1, <1>4, <1>5 DEF f

LEMMA StopKeeps ==
    ASSUME NEW rs, IsSide(rs), Fits(rs), rs.stream \in StreamRec
    PROVE  /\ IsSide(StopStream(rs))
           /\ Fits(StopStream(rs))
           /\ ~StopStream(rs).shook /\ StopStream(rs).wire = NoWire
           /\ StopStream(rs).pipe = rs.pipe
           /\ StopStream(rs).stream = Stopped(rs.stream)
           /\ ~IsOpen(Stopped(rs.stream))
<1>1. ~IsStarted(rs.stream) => ~IsOpen(rs.stream)
  BY DEF IsOpen, IsStarted
<1>2. ~IsOpen(Stopped(rs.stream))
  BY StoppedFacts DEF IsOpen, IsStarted
<1>3. ~StopStream(rs).shook /\ StopStream(rs).wire = NoWire
  BY <1>1, StopSide DEF Fits
<1> QED BY <1>2, <1>3, StopSide DEF Fits

LEMMA RestartKeeps ==
    ASSUME NEW rs, IsSide(rs), Fits(rs), rs.stream \in StreamRec,
           NEW u, NEW q, OwnedBy(q, u)
    PROVE  LET f == RestartNetwork(rs, q) IN
           /\ Fits(f)
           /\ OwnedBy(f.pipe, u)
           /\ f.stream \in OwnersChoice(Inhibited(Stopped(rs.stream)), TRUE)
<1> DEFINE r     == StopStream(rs)
           t     == Inhibited(r.stream)
           p     == <<>>
           fresh == WriteSide(t, p, r.shook, r.idle, r.wire)
<1>1. RestartNetwork(rs, q) = FillWritePipeline(fresh, q, TRUE)
  BY DEF RestartNetwork
<1>2. /\ ~r.shook /\ r.wire = NoWire /\ r.stream = Stopped(rs.stream)
      /\ t \in StreamRec /\ ~IsOpen(t)
  BY StopKeeps, StoppedFacts DEF IsOpen, IsStarted
<1>3. OwnedBy(p, u)
  BY OwnedEmpty
<1> HIDE DEF p, t, r
<1>4. /\ IsSide(fresh) /\ fresh.stream = t /\ fresh.pipe = p
      /\ fresh.shook = r.shook /\ fresh.wire = r.wire
  BY MadeSide
<1> HIDE DEF fresh
<1>5. Fits(fresh)
  BY <1>2, <1>4 DEF Fits
<1>6. /\ Fits(FillWritePipeline(fresh, q, TRUE))
      /\ OwnedBy(FillWritePipeline(fresh, q, TRUE).pipe, u)
      /\ FillWritePipeline(fresh, q, TRUE).stream \in OwnersChoice(fresh.stream, TRUE)
  BY <1>2, <1>3, <1>4, <1>5, FillKeeps
<1> QED BY <1>1, <1>2, <1>4, <1>6 DEF t

LEMMA CloseKeeps ==
    ASSUME NEW rs, IsSide(rs), Fits(rs), rs.stream \in StreamRec, NEW on \in BOOLEAN,
           ~on => rs.pipe = <<>>, NEW u, OwnedBy(rs.pipe, u), NEW q, OwnedBy(q, u),
           NEW permanent \in BOOLEAN
    PROVE  LET f == CloseWith(rs, q, on, permanent) IN
           /\ Fits(f)
           /\ OwnedBy(f.pipe, u)
           /\ ~on => f.pipe = <<>>
           /\ f.stream \in OwnersChoice(Closed(rs.stream, FALSE), on)
<1> DEFINE t       == Closed(rs.stream, FALSE)
           i       == Inhibited(t)
           no      == FALSE
           rest    == Tail(rs.pipe)
           left    == Without(q, Head(rs.pipe))
           lost    == Rejects(rs, permanent) # <<>>
           kept    == WriteSide(t, rs.pipe, rs.shook, no, NoWire)
           fresh   == WriteSide(i, rest, rs.shook, no, NoWire)
           filled  == FillWritePipeline(fresh, left, on)
           handled == IF ~lost THEN kept ELSE filled
           st      == StartIfNeeded(handled, on)
<1>1. CloseWith(rs, q, on, permanent) = [st EXCEPT !.shook = FALSE]
  BY DEF CloseWith
<1>2. /\ t \in StreamRec /\ ~IsStarted(t) /\ ~IsOpen(t)
      /\ i \in StreamRec /\ ~IsStarted(i) /\ ~IsOpen(i) /\ Inhibited(i) = i
  BY ClosedFacts DEF StreamRec, StreamStatus, IsStarted, IsOpen, Inhibited
<1>3. i \in OwnersChoice(t, on) /\ (on => Start(i) \in OwnersChoice(t, on) /\ IsStarted(Start(i)))
  BY <1>2 DEF OwnersChoice, i, Inhibited, Start, IsStarted, StreamRec
<1>4. lost => rs.pipe # <<>> /\ on
  BY DEF Rejects
<1>5. OwnedBy(left, u)
  BY OwnedWithout
<1>6. lost => OwnedBy(rest, u)
  BY <1>4, OwnedTail
<1> HIDE DEF i, t, no, rest, left, lost
<1>7. /\ IsSide(kept) /\ kept.stream = t /\ kept.pipe = rs.pipe
      /\ kept.wire = NoWire
  BY MadeSide
<1>8. /\ IsSide(fresh) /\ fresh.stream = i /\ fresh.pipe = rest
      /\ fresh.wire = NoWire /\ fresh.shook = rs.shook
  BY MadeSide
<1> HIDE DEF kept, fresh
<1>9. ASSUME lost
      PROVE  /\ IsSide(filled) /\ filled.stream \in OwnersChoice(i, on)
             /\ OwnedBy(filled.pipe, u) /\ filled.wire = NoWire
             /\ filled.stream \in {i} \cup (IF on THEN {Start(i)} ELSE {})
  <2>1. /\ IsSide(filled) /\ filled.stream \in OwnersChoice(i, on)
        /\ filled.pipe = fresh.pipe \o New(fresh, left, on)
        /\ filled.wire = NoWire
    BY <1>2, <1>8, FillFacts DEF Sends
  <2>2. OwnedBy(New(fresh, left, on), u)
    BY <1>5, <1>6, <1>8, <1>9, OwnedNew
  <2>3. OwnedBy(filled.pipe, u)
    BY <2>1, <2>2, <1>6, <1>8, <1>9, OwnedConcat
  <2>4. filled.stream \in {i} \cup (IF on THEN {Start(i)} ELSE {})
    BY <2>1, <1>2 DEF OwnersChoice
  <2> QED BY <2>1, <2>3, <2>4
<1> HIDE DEF filled
<1>10. /\ IsSide(handled) /\ handled.wire = NoWire /\ OwnedBy(handled.pipe, u)
       /\ ~on => handled.pipe = <<>>
       /\ handled.stream \in {t, i} \cup (IF on THEN {Start(i)} ELSE {})
  BY <1>4, <1>7, <1>9
<1> HIDE DEF handled
<1>11. /\ IsSide(st) /\ st.wire = handled.wire /\ st.pipe = handled.pipe
       /\ st.stream \in {handled.stream, Start(handled.stream)}
       /\ IsStarted(handled.stream) \/ ~on => st.stream = handled.stream
  BY <1>10, StartStream
<1> HIDE DEF st
<1>12. st.stream \in OwnersChoice(t, on)
  BY <1>2, <1>3, <1>10, <1>11 DEF OwnersChoice
<1>13. ~IsOpen(st.stream)
  BY <1>2, <1>12, ChoiceFacts
<1> DEFINE f == [st EXCEPT !.shook = FALSE]
<1>14. ~f.shook /\ f.stream = st.stream /\ f.pipe = st.pipe /\ f.wire = st.wire
  BY <1>11 DEF IsSide
<1> HIDE DEF f
<1>15. Fits(f)
  BY <1>10, <1>11, <1>13, <1>14 DEF Fits
<1> QED BY <1>1, <1>10, <1>11, <1>12, <1>14, <1>15 DEF f, t

----------------------------------------------------------------------------
(* The pipeline's own part of the invariant, and how a step keeps it.      *)

PipeOnly ==
    /\ issued \in Nat
    /\ queue = [u \in Users |-> queue[u]]
    /\ \A u \in Users : OwnedBy(queue[u], u)
    /\ OwnedBy(pipe, user)
    /\ ~net => pipe = <<>>
    /\ Fits(Side)

PipeInv == LifeInv /\ PipeOnly

LEMMA TakesFacts ==
    ASSUME NEW rs, Takes(rs), Fits(rs)
    PROVE  /\ Becomes(rs.stream)
           /\ pipe' = rs.pipe
           /\ Fits(Side)'
<1>1. /\ Becomes(rs.stream)
      /\ stream' = rs.stream /\ pipe' = rs.pipe /\ shook' = rs.shook /\ wire' = rs.wire
  BY DEF Takes, Becomes
<1>2. /\ Side'.stream = stream' /\ Side'.pipe = pipe' /\ Side'.shook = shook'
      /\ Side'.wire = wire'
  BY MadeSide DEF Side
<1> QED BY <1>1, <1>2 DEF Fits

\* A step that leaves the pipeline and the queues alone.
LEMMA Untouched ==
    ASSUME PipeOnly, UNCHANGED <<queue, pipe, shook, idle, wire, stream, user, net>>,
           issued' \in Nat
    PROVE  PipeOnly'
<1>1. Side' = Side
  BY DEF Side
<1> QED BY <1>1 DEF PipeOnly, Fits

----------------------------------------------------------------------------
(* Each action of the worker queue.                                        *)

LEMMA WriteMutationsSteps ==
    ASSUME PipeInv, WriteMutations
    PROVE  WorkerTask /\ PipeOnly'
<1> USE DEF PipeInv, PipeOnly
<1> DEFINE b  == [id |-> nextId, w |-> Head(workQ).task, by |-> Head(workQ).by]
           q  == Append(queue[user], b)
           rs == FillWritePipeline(Side, q, net)
<1>1. stream \in StreamRec /\ net \in BOOLEAN /\ user \in Users
  BY DEF LifeInv, LifeTypeOK
<1>2. b.by = user
  BY HeadTask DEF TaskRunsAsIssued, WriteMutations
<1> HIDE DEF b
<1>3. /\ queue' = [queue EXCEPT ![user] = q]
      /\ queue'[user] = q /\ Takes(FillWritePipeline(Side, queue'[user], net))
  BY <1>1 DEF WriteMutations, b
<1>4. OwnedBy(q, user)
  BY <1>1, <1>2, OwnedAppend
<1> HIDE DEF q
<1>5. /\ Fits(rs) /\ OwnedBy(rs.pipe, user) /\ (~net => rs.pipe = pipe)
      /\ rs.stream \in OwnersChoice(stream, net)
  BY <1>1, <1>4, SideFacts, FillKeeps
<1> HIDE DEF rs
<1>6. Takes(rs)
  BY <1>3 DEF rs
<1>7. Becomes(rs.stream) /\ pipe' = rs.pipe /\ Fits(Side)'
  BY <1>5, <1>6, TakesFacts
<1>8. WorkerTask
  BY <1>5, <1>7 DEF WorkerTask, WriteMutations
<1>9. queue' = [u \in Users |-> queue'[u]] /\ \A u \in Users : OwnedBy(queue'[u], u)
  BY <1>1, <1>3, <1>4
<1>10. user' = user /\ net' = net /\ issued' = issued
  BY DEF WriteMutations
<1> QED BY <1>5, <1>7, <1>8, <1>9, <1>10

LEMMA RegisterSteps ==
    ASSUME PipeInv, RegisterPendingWritesCallback
    PROVE  WorkerTask /\ PipeOnly'
<1>1. Becomes(stream)
  BY DEF RegisterPendingWritesCallback, Becomes
<1>2. stream \in OwnersChoice(stream, net)
  BY DEF OwnersChoice
<1>3. WorkerTask
  BY <1>1, <1>2 DEF WorkerTask, RegisterPendingWritesCallback
<1> QED BY <1>3, Untouched DEF RegisterPendingWritesCallback, PipeInv, PipeOnly

LEMMA CredentialSteps ==
    ASSUME PipeInv, HandleCredentialChange
    PROVE  WorkerCredential /\ PipeOnly'
<1> USE DEF PipeInv, PipeOnly
<1> DEFINE u  == Head(workQ).user
           rs == RestartNetwork(Side, queue[u])
<1>1. stream \in StreamRec /\ net \in BOOLEAN
  BY DEF LifeInv, LifeTypeOK
<1>2. u \in Users
  <2>1. workQ \in Seq(WorkBlock) /\ workQ # <<>> /\ Head(workQ).kind = "credential"
    BY DEF LifeInv, LifeTypeOK, HandleCredentialChange, Next1
  <2>2. Head(workQ) \in WorkBlock
    BY <2>1
  <2> QED BY <2>1, <2>2 DEF WorkBlock
<1>3. /\ user' = u /\ UNCHANGED <<authVars, mainQ, net, queue, issued>>
      /\ Next1(workQ, "credential") /\ workQ' = Tail(workQ)
  BY DEF HandleCredentialChange
<1>4. CASE net
  <2>1. Takes(rs)
    BY <1>4 DEF HandleCredentialChange
  <2> HIDE DEF u
  <2>2. /\ Fits(rs) /\ OwnedBy(rs.pipe, u)
        /\ rs.stream \in OwnersChoice(Inhibited(Stopped(stream)), TRUE)
    BY <1>1, <1>2, SideFacts, RestartKeeps
  <2> HIDE DEF rs
  <2>3. Becomes(rs.stream) /\ pipe' = rs.pipe /\ Fits(Side)'
    BY <2>1, <2>2, TakesFacts
  <2>4. WorkerCredential
    BY <1>3, <1>4, <2>2, <2>3 DEF WorkerCredential, u
  <2> QED BY <1>3, <1>4, <2>2, <2>3, <2>4
<1>5. CASE ~net
  <2>1. Takes(Side)
    BY <1>5 DEF HandleCredentialChange
  <2>2. Becomes(stream) /\ pipe' = pipe /\ Fits(Side)'
    BY <2>1, SideFacts, TakesFacts
  <2>3. WorkerCredential
    BY <1>3, <1>5, <2>2 DEF WorkerCredential
  <2>4. OwnedBy(pipe', user')
    BY <1>5, <2>2, OwnedEmpty
  <2> QED BY <1>3, <1>5, <2>2, <2>3, <2>4
<1> QED BY <1>4, <1>5

LEMMA ResumeSteps ==
    ASSUME PipeInv, ResumeStart
    PROVE  WorkerResume /\ PipeOnly'
<1> USE DEF PipeInv, PipeOnly
<1> DEFINE r    == Head(workQ)
           no   == FALSE
           open == WriteSide(Opened(stream, r.user), pipe, shook, idle, Call)
           shut == CloseWith(Side, queue[user], net, no)
<1>1. stream \in StreamRec /\ net \in BOOLEAN /\ user \in Users
  BY DEF LifeInv, LifeTypeOK
<1>2. /\ UNCHANGED <<authVars, mainQ, net, user, queue, issued>>
      /\ Next1(workQ, "resume") /\ workQ' = Tail(workQ)
  BY DEF ResumeStart
<1>3. CASE r.closes # stream.closes
  <2>1. Takes(Side)
    BY <1>3 DEF ResumeStart
  <2>2. Becomes(stream) /\ pipe' = pipe /\ Fits(Side)'
    BY <2>1, SideFacts, TakesFacts
  <2>3. WorkerResume
    BY <1>2, <1>3, <2>2 DEF WorkerResume
  <2> QED BY <1>2, <2>2, <2>3
<1>4. CASE r.closes = stream.closes /\ r.ok
  <2>1. Takes(open)
    BY <1>4 DEF ResumeStart
  <2>2. stream.st = "Starting"
    BY <1>2, <1>4, HeadToken DEF ResumeFindsStarting
  <2>3. ~shook
    BY <2>2, SideFacts DEF Fits, IsOpen
  <2>4. /\ open.stream = Opened(stream, r.user) /\ open.pipe = pipe
        /\ open.shook = shook /\ open.wire = Call
    BY MadeSide
  <2> HIDE DEF open
  <2>5. IsOpen(Opened(stream, r.user))
    BY <1>1 DEF Opened, IsOpen, StreamRec
  <2>6. /\ Call.sent \in Seq({Hello}) /\ Call.acks \in Seq({Hello})
        /\ Call.acks \o Call.sent = <<Hello>>
    BY DEF Call, Wire
  <2>7. Fits(open)
    BY <2>3, <2>4, <2>5, <2>6 DEF Fits
  <2>8. Becomes(Opened(stream, r.user)) /\ pipe' = pipe /\ Fits(Side)'
    BY <2>1, <2>4, <2>7, TakesFacts
  <2>9. WorkerResume
    BY <1>2, <1>4, <2>8 DEF WorkerResume
  <2> QED BY <1>2, <2>8, <2>9
<1>5. CASE r.closes = stream.closes /\ ~r.ok
  <2>1. Takes(shut)
    BY <1>5 DEF ResumeStart
  <2>2. no \in BOOLEAN
    OBVIOUS
  <2> HIDE DEF no
  <2>3. /\ Fits(shut) /\ OwnedBy(shut.pipe, user) /\ (~net => shut.pipe = <<>>)
        /\ shut.stream \in OwnersChoice(Closed(stream, FALSE), net)
    BY <1>1, <2>2, SideFacts, CloseKeeps
  <2> HIDE DEF shut
  <2>4. Becomes(shut.stream) /\ pipe' = shut.pipe /\ Fits(Side)'
    BY <2>1, <2>3, TakesFacts
  <2>5. WorkerResume
    BY <1>2, <1>5, <2>3, <2>4 DEF WorkerResume
  <2> QED BY <1>2, <2>3, <2>4, <2>5
<1> QED BY <1>3, <1>4, <1>5

\* An answer that waits to be read comes from an open call.
LEMMA AnswerOfCall ==
    ASSUME PipeInv, wire.acks # <<>> \/ wire.sent # <<>> \/ wire.refused
    PROVE  /\ IsOpen(stream)
           /\ \E S : wire.sent \in Seq(S) /\ wire.acks \in Seq(S)
           /\ wire.acks \o wire.sent = IF shook THEN pipe ELSE <<Hello>>
<1>1. wire # NoWire
  BY DEF NoWire, Wire
<1> QED BY <1>1, SideFacts DEF PipeInv, PipeOnly, Fits

LEMMA TailOfAnswers ==
    ASSUME NEW S, NEW a \in Seq(S), NEW s \in Seq(S), a # <<>>
    PROVE  a \o s # <<>> /\ Tail(a \o s) = Tail(a) \o s
<1>1. /\ Len(a) \in Nat \ {0} /\ Len(s) \in Nat
      /\ a \o s \in Seq(S) /\ Len(a \o s) = Len(a) + Len(s)
  OBVIOUS
<1>2. a \o s # <<>>
  BY <1>1
<1>3. /\ Tail(a) \in Seq(S) /\ Len(Tail(a)) = Len(a) - 1
      /\ Tail(a \o s) \in Seq(S) /\ Len(Tail(a \o s)) = Len(a) + Len(s) - 1
      /\ Tail(a) \o s \in Seq(S) /\ Len(Tail(a) \o s) = Len(a) + Len(s) - 1
  BY <1>1, <1>2
<1>4. ASSUME NEW i \in 1..(Len(a) + Len(s) - 1)
      PROVE  Tail(a \o s)[i] = (Tail(a) \o s)[i]
  <2>1. Tail(a \o s)[i] = (a \o s)[i + 1]
    BY <1>1, <1>2, <1>3
  <2>2. CASE i <= Len(a) - 1
    BY <2>1, <2>2, <1>1, <1>3
  <2>3. CASE i > Len(a) - 1
    <3>1. (a \o s)[i + 1] = s[i + 1 - Len(a)]
      BY <2>3, <1>1
    <3>2. (Tail(a) \o s)[i] = s[i - (Len(a) - 1)]
      BY <2>3, <1>1, <1>3
    <3>3. i + 1 - Len(a) = i - (Len(a) - 1)
      BY <1>1
    <3> QED BY <2>1, <3>1, <3>2, <3>3
  <2> QED BY <1>1, <2>2, <2>3
<1> QED BY <1>1, <1>2, <1>3, <1>4, SeqEqual

LEMMA OnlyAnswer ==
    ASSUME NEW S, NEW a \in Seq(S), NEW s \in Seq(S), a # <<>>, NEW x, a \o s = <<x>>
    PROVE  s = <<>> /\ Tail(a) = <<>>
<1>1. Len(a) \in Nat \ {0} /\ Len(s) \in Nat /\ Len(a) + Len(s) = Len(a \o s)
  OBVIOUS
<1> DEFINE y == <<x>>
<1>0. Len(y) = 1 /\ a \o s = y
  OBVIOUS
<1> HIDE DEF y
<1>2. Len(a) = 1 /\ Len(s) = 0
  BY <1>0, <1>1
<1>3. Tail(a) \in Seq(S) /\ Len(Tail(a)) = 0
  BY <1>2
<1> QED BY <1>2, <1>3

LEMMA HandshakeSteps ==
    ASSUME PipeInv, HandshakeComplete
    PROVE  WorkerStream /\ PipeOnly'
<1> USE DEF PipeInv, PipeOnly
<1> DEFINE yes == TRUE
           c   == Send(AckRead, pipe)
           rs  == WriteSide(stream, pipe, yes, idle, c)
<1>1. wire.acks # <<>> /\ ~shook /\ Takes(rs)
  BY DEF HandshakeComplete
<1>2. /\ IsOpen(stream) /\ wire.acks \o wire.sent = <<Hello>>
  BY <1>1, AnswerOfCall
<1>3. PICK S : wire.sent \in Seq(S) /\ wire.acks \in Seq(S)
  BY <1>1, AnswerOfCall
<1>4. wire.sent = <<>> /\ Tail(wire.acks) = <<>>
  BY <1>1, <1>2, <1>3, OnlyAnswer
<1>5. PICK T : pipe \in Seq(T)
  BY DEF OwnedBy
<1>6. c.sent = pipe /\ c.acks = <<>> /\ c.acks \in Seq(T) /\ c.acks \o c.sent = pipe
  <2>1. c.sent = <<>> \o pipe /\ c.acks = <<>>
    BY <1>4 DEF Send, AckRead, Wire
  <2> QED BY <2>1, <1>5
<1>7. yes
  OBVIOUS
<1> HIDE DEF c, yes
<1>8. rs.stream = stream /\ rs.pipe = pipe /\ rs.shook = yes /\ rs.wire = c
  BY MadeSide
<1> HIDE DEF rs
<1>9. Fits(rs)
  BY <1>2, <1>5, <1>6, <1>7, <1>8 DEF Fits
<1>10. Becomes(stream) /\ pipe' = pipe /\ Fits(Side)'
  BY <1>1, <1>8, <1>9, TakesFacts
<1>11. WorkerStream
  BY <1>10 DEF WorkerStream, HandshakeComplete, OwnersChoice
<1> QED BY <1>10, <1>11 DEF HandshakeComplete

\* The queues after the head of the pipeline was settled.
LEMMA SettledQueues ==
    ASSUME PipeInv, NEW b, Settled(b)
    PROVE  /\ queue' = [u \in Users |-> queue'[u]]
           /\ \A u \in Users : OwnedBy(queue'[u], u)
<1>1. queue' = [queue EXCEPT ![user] = Without(@, b)]
  BY DEF Settled
<1>2. \A u \in Users : OwnedBy(Without(queue[u], b), u)
  BY OwnedWithout DEF PipeInv, PipeOnly
<1>3. queue = [u \in Users |-> queue[u]]
  BY DEF PipeInv, PipeOnly
<1> QED BY <1>1, <1>2, <1>3 DEF PipeInv, PipeOnly

LEMMA ResultSteps ==
    ASSUME PipeInv, MutationResult
    PROVE  WorkerStream /\ PipeOnly'
<1> USE DEF PipeInv, PipeOnly
<1> DEFINE rest  == Tail(pipe)
           fresh == WriteSide(stream, rest, shook, idle, AckRead)
           rs    == FillWritePipeline(fresh, queue'[user], net)
<1>1. /\ wire.acks # <<>> /\ shook /\ Takes(rs) /\ Settled(Head(pipe))
      /\ UNCHANGED <<authVars, mainQ, workQ, net, user, issued>>
  BY DEF MutationResult
<1>2. IsOpen(stream) /\ wire.acks \o wire.sent = pipe
  BY <1>1, AnswerOfCall
<1>3. PICK S : wire.sent \in Seq(S) /\ wire.acks \in Seq(S)
  BY <1>1, AnswerOfCall
<1>4. pipe # <<>> /\ Tail(wire.acks) \o wire.sent = rest
  BY <1>1, <1>2, <1>3, TailOfAnswers
<1>5. OwnedBy(rest, user)
  BY <1>4, OwnedTail
<1>6. /\ AckRead.sent = wire.sent /\ AckRead.acks = Tail(wire.acks)
      /\ Tail(wire.acks) \in Seq(S)
  BY <1>1, <1>3 DEF AckRead, Wire
<1>7. /\ queue' = [u \in Users |-> queue'[u]]
      /\ \A u \in Users : OwnedBy(queue'[u], u)
  BY <1>1, SettledQueues
<1> HIDE DEF rest
<1>8. /\ IsSide(fresh) /\ fresh.stream = stream /\ fresh.pipe = rest
      /\ fresh.shook = shook /\ fresh.wire = AckRead
  BY MadeSide
<1> HIDE DEF fresh
<1>9. Fits(fresh)
  BY <1>1, <1>2, <1>3, <1>4, <1>6, <1>8 DEF Fits
<1>10. stream \in StreamRec /\ net \in BOOLEAN /\ user \in Users
  BY DEF LifeInv, LifeTypeOK
<1>11. net
  BY <1>4
<1>12. /\ Fits(rs) /\ OwnedBy(rs.pipe, user)
       /\ rs.stream \in OwnersChoice(stream, net)
  BY <1>5, <1>7, <1>8, <1>9, <1>10, FillKeeps
<1> HIDE DEF rs
<1>13. Becomes(rs.stream) /\ pipe' = rs.pipe /\ Fits(Side)'
  BY <1>1, <1>12, TakesFacts
<1>14. WorkerStream
  BY <1>1, <1>12, <1>13 DEF WorkerStream
<1> QED BY <1>1, <1>7, <1>11, <1>12, <1>13, <1>14

LEMMA AnswerMoves ==
    ASSUME NEW S, NEW a \in Seq(S), NEW s \in Seq(S), s # <<>>
    PROVE  /\ Append(a, Head(s)) \in Seq(S) /\ Tail(s) \in Seq(S)
           /\ Append(a, Head(s)) \o Tail(s) = a \o s
<1>1. /\ Head(s) \in S /\ Head(s) = s[1] /\ Tail(s) \in Seq(S)
      /\ Len(s) \in Nat \ {0} /\ Len(a) \in Nat /\ Len(Tail(s)) = Len(s) - 1
      /\ \A i \in 1..Len(s) - 1 : Tail(s)[i] = s[i + 1]
  OBVIOUS
<1> DEFINE b == Append(a, Head(s))
           l == b \o Tail(s)
           r == a \o s
<1>2. /\ b \in Seq(S) /\ Len(b) = Len(a) + 1 /\ b[Len(a) + 1] = s[1]
      /\ \A i \in 1..Len(a) : b[i] = a[i]
  BY <1>1
<1> HIDE DEF b
<1>3. /\ l \in Seq(S) /\ r \in Seq(S)
      /\ Len(l) = Len(a) + Len(s) /\ Len(r) = Len(a) + Len(s)
  BY <1>1, <1>2
<1>4. ASSUME NEW i \in 1..(Len(a) + Len(s))
      PROVE  l[i] = r[i]
  <2>1. CASE i <= Len(a)
    BY <2>1, <1>1, <1>2
  <2>2. CASE i = Len(a) + 1
    <3>1. l[i] = b[i]
      BY <2>2, <1>1, <1>2
    <3>2. r[i] = s[1]
      BY <2>2, <1>1
    <3> QED BY <2>2, <3>1, <3>2, <1>2
  <2>3. CASE i > Len(a) + 1
    <3> DEFINE j == i - Len(b)
    <3>1. l[i] = Tail(s)[j]
      BY <2>3, <1>1, <1>2, ConcatProperties
    <3>2. r[i] = s[i - Len(a)]
      BY <2>3, <1>1
    <3>3. j \in 1..Len(s) - 1 /\ i - Len(a) = j + 1
      BY <2>3, <1>1, <1>2
    <3> HIDE DEF j, l, r
    <3>4. Tail(s)[j] = s[j + 1]
      BY <3>3, <1>1
    <3>5. s[i - Len(a)] = s[j + 1]
      BY <3>3
    <3> QED BY <3>1, <3>2, <3>4, <3>5
  <2> HIDE DEF l, r
  <2> QED BY <1>1, <2>1, <2>2, <2>3
<1> HIDE DEF l, r
<1>5. l = r
  BY <1>3, <1>4, SeqEqual
<1> QED BY <1>1, <1>2, <1>5 DEF b, l, r

\* The call of an open stream ends with an error.
LEMMA FinishSteps ==
    ASSUME PipeInv, IsOpen(stream), NEW permanent \in BOOLEAN, StreamFinish(permanent)
    PROVE  WorkerStream /\ PipeOnly'
<1> USE DEF PipeInv, PipeOnly
<1> DEFINE rs == CloseWith(Side, queue[user], net, permanent)
<1>1. /\ UNCHANGED <<authVars, mainQ, workQ, net, user, issued>> /\ Takes(rs)
      /\ queue' = queue \/ Settled(Head(Rejects(Side, permanent)))
  BY DEF StreamFinish
<1>2. /\ queue' = [u \in Users |-> queue'[u]]
      /\ \A u \in Users : OwnedBy(queue'[u], u)
  BY <1>1, SettledQueues
<1>3. stream \in StreamRec /\ net \in BOOLEAN /\ user \in Users
  BY DEF LifeInv, LifeTypeOK
<1>4. /\ Fits(rs) /\ OwnedBy(rs.pipe, user) /\ (~net => rs.pipe = <<>>)
      /\ rs.stream \in OwnersChoice(Closed(stream, FALSE), net)
  BY <1>3, SideFacts, CloseKeeps
<1> HIDE DEF rs
<1>5. Becomes(rs.stream) /\ pipe' = rs.pipe /\ Fits(Side)'
  BY <1>1, <1>4, TakesFacts
<1>6. WorkerStream
  BY <1>1, <1>4, <1>5 DEF WorkerStream
<1> QED BY <1>1, <1>2, <1>4, <1>5, <1>6

LEMMA EndsSteps ==
    ASSUME PipeInv, Breaks \/ ReadsRefusal
    PROVE  WorkerStream /\ PipeOnly'
<1> DEFINE yes == TRUE
           no  == FALSE
<1>1. yes \in BOOLEAN /\ no \in BOOLEAN
  OBVIOUS
<1>2. CASE Breaks
  <2>1. IsOpen(stream) /\ StreamFinish(no)
    BY <1>2 DEF Breaks
  <2> HIDE DEF no
  <2> QED BY <1>1, <2>1, FinishSteps
<1>3. CASE ReadsRefusal
  <2>1. wire.refused /\ StreamFinish(yes)
    BY <1>3 DEF ReadsRefusal
  <2> HIDE DEF yes
  <2> QED BY <1>1, <2>1, AnswerOfCall, FinishSteps
<1> QED BY <1>2, <1>3

LEMMA BackoffSteps ==
    ASSUME PipeInv, BackoffElapses
    PROVE  WorkerStream /\ PipeOnly'
<1> USE DEF PipeInv, PipeOnly
<1> DEFINE t  == BackoffOver(stream)
           rs == WriteSide(t, pipe, shook, idle, wire)
<1>1. /\ stream.st = "Backoff" /\ Takes(rs)
      /\ UNCHANGED <<authVars, mainQ, workQ, net, user, queue, issued>>
  BY DEF BackoffElapses
<1>2. stream \in StreamRec
  BY DEF LifeInv, LifeTypeOK
<1>3. ~IsOpen(stream) /\ ~IsOpen(t)
  BY <1>1, <1>2 DEF IsOpen, BackoffOver, StreamRec
<1> HIDE DEF t
<1>4. rs.stream = t /\ rs.pipe = pipe /\ rs.shook = shook /\ rs.wire = wire
  BY MadeSide
<1> HIDE DEF rs
<1>5. Fits(rs)
  BY <1>3, <1>4, SideFacts DEF Fits
<1>6. Becomes(t) /\ pipe' = pipe /\ Fits(Side)'
  BY <1>1, <1>4, <1>5, TakesFacts
<1>7. WorkerStream
  BY <1>1, <1>6 DEF WorkerStream, t
<1> QED BY <1>1, <1>6, <1>7

LEMMA IdleSteps ==
    ASSUME PipeInv, IdleTimeout
    PROVE  WorkerStream /\ PipeOnly'
<1> USE DEF PipeInv, PipeOnly
<1>1. /\ Takes(StopStream(Side))
      /\ UNCHANGED <<authVars, mainQ, workQ, net, user, queue, issued>>
  BY DEF IdleTimeout
<1>2. stream \in StreamRec
  BY DEF LifeInv, LifeTypeOK
<1>3. /\ Fits(StopStream(Side)) /\ StopStream(Side).pipe = pipe
      /\ StopStream(Side).stream = Stopped(stream)
  BY <1>2, SideFacts, StopKeeps
<1>4. Becomes(Stopped(stream)) /\ pipe' = pipe /\ Fits(Side)'
  BY <1>1, <1>3, TakesFacts
<1>5. WorkerStream
  BY <1>1, <1>4 DEF WorkerStream
<1> QED BY <1>1, <1>4, <1>5

LEMMA NetworkSteps ==
    ASSUME PipeInv, DisableNetwork \/ EnableNetwork \/ ConnectivityChanges
    PROVE  WorkerNetwork /\ PipeOnly'
<1> USE DEF PipeInv, PipeOnly
<1>1. stream \in StreamRec /\ user \in Users /\ net \in BOOLEAN
  BY DEF LifeInv, LifeTypeOK
<1>2. CASE DisableNetwork
  <2> DEFINE r  == StopStream(Side)
             rs == [r EXCEPT !.pipe = <<>>]
  <2>1. /\ Takes(rs) /\ net' = FALSE
        /\ UNCHANGED <<authVars, mainQ, workQ, user, queue, issued>>
    BY <1>2 DEF DisableNetwork
  <2>2. /\ IsSide(r) /\ ~r.shook /\ r.wire = NoWire
        /\ r.stream = Stopped(stream) /\ ~IsOpen(Stopped(stream))
    BY <1>1, SideFacts, StopKeeps
  <2> HIDE DEF r
  <2>3. /\ rs.stream = r.stream /\ rs.pipe = <<>> /\ ~rs.shook /\ rs.wire = NoWire
    BY <2>2 DEF IsSide
  <2> HIDE DEF rs
  <2>4. Fits(rs)
    BY <2>2, <2>3 DEF Fits
  <2>5. Becomes(Stopped(stream)) /\ pipe' = <<>> /\ Fits(Side)'
    BY <2>1, <2>2, <2>3, <2>4, TakesFacts
  <2>6. WorkerNetwork
    BY <2>1, <2>5 DEF WorkerNetwork
  <2> QED BY <2>1, <2>5, <2>6, OwnedEmpty
<1>3. CASE EnableNetwork
  <2> DEFINE yes == TRUE
             rs  == FillWritePipeline(Side, queue[user], yes)
  <2>1. /\ Takes(rs) /\ net' = TRUE
        /\ UNCHANGED <<authVars, mainQ, workQ, user, queue, issued>>
    BY <1>3 DEF EnableNetwork
  <2>2. yes \in BOOLEAN /\ yes
    OBVIOUS
  <2> HIDE DEF yes
  <2>3. /\ Fits(rs) /\ OwnedBy(rs.pipe, user) /\ rs.stream \in OwnersChoice(stream, yes)
    BY <1>1, <2>2, SideFacts, FillKeeps
  <2> HIDE DEF rs
  <2>4. Becomes(rs.stream) /\ pipe' = rs.pipe /\ Fits(Side)'
    BY <2>1, <2>3, TakesFacts
  <2>5. WorkerNetwork
    BY <2>1, <2>3, <2>4 DEF WorkerNetwork, yes
  <2> QED BY <2>1, <2>3, <2>4, <2>5
<1>4. CASE ConnectivityChanges
  <2> DEFINE rs == RestartNetwork(Side, queue[user])
  <2>1. /\ Takes(rs) /\ net
        /\ UNCHANGED <<authVars, mainQ, workQ, net, user, queue, issued>>
    BY <1>4 DEF ConnectivityChanges
  <2>2. /\ Fits(rs) /\ OwnedBy(rs.pipe, user)
        /\ rs.stream \in OwnersChoice(Inhibited(Stopped(stream)), TRUE)
    BY <1>1, SideFacts, RestartKeeps
  <2> HIDE DEF rs
  <2>3. Becomes(rs.stream) /\ pipe' = rs.pipe /\ Fits(Side)'
    BY <2>1, <2>2, TakesFacts
  <2>4. WorkerNetwork
    BY <2>1, <2>2, <2>3 DEF WorkerNetwork
  <2> QED BY <2>1, <2>2, <2>3, <2>4
<1> QED BY <1>2, <1>3, <1>4

LEMMA BackendSteps ==
    ASSUME PipeInv, BackendAnswers \/ BackendRefuses
    PROVE  UNCHANGED lifeVars /\ PipeOnly'
<1> USE DEF PipeInv, PipeOnly
<1>1. wire.sent # <<>> /\ UNCHANGED <<lifeVars, queue, pipe, shook, idle, issued>>
  BY DEF BackendAnswers, BackendRefuses
<1>2. /\ IsOpen(stream)
      /\ wire.acks \o wire.sent = IF shook THEN pipe ELSE <<Hello>>
  BY <1>1, AnswerOfCall
<1>3. PICK S : wire.sent \in Seq(S) /\ wire.acks \in Seq(S)
  BY <1>1, AnswerOfCall
<1>4. /\ wire'.sent \in Seq(S) /\ wire'.acks \in Seq(S)
      /\ wire'.acks \o wire'.sent = wire.acks \o wire.sent
  <2>1. CASE BackendRefuses
    BY <2>1, <1>3 DEF BackendRefuses, Wire
  <2>2. CASE BackendAnswers
    <3>1. /\ wire'.sent = Tail(wire.sent)
          /\ wire'.acks = Append(wire.acks, Head(wire.sent))
      BY <2>2 DEF BackendAnswers, Wire
    <3> DEFINE a == wire.acks
               s == wire.sent
    <3>2. a \in Seq(S) /\ s \in Seq(S) /\ s # <<>>
      BY <1>1, <1>3
    <3> HIDE DEF a, s
    <3>3. /\ Append(a, Head(s)) \in Seq(S) /\ Tail(s) \in Seq(S)
          /\ Append(a, Head(s)) \o Tail(s) = a \o s
      BY <3>2, AnswerMoves
    <3> QED BY <3>1, <3>3 DEF a, s
  <2> QED BY <2>1, <2>2
<1>5. /\ Side'.stream = stream /\ Side'.pipe = pipe /\ Side'.shook = shook
      /\ Side'.wire = wire'
  BY <1>1, MadeSide DEF Side, lifeVars
<1>6. Fits(Side)'
  BY <1>2, <1>4, <1>5 DEF Fits
<1> QED BY <1>1, <1>6 DEF lifeVars

LEMMA RestartSteps ==
    ASSUME PipeInv, Restarts
    PROVE  Relaunch /\ PipeOnly'
<1> USE DEF PipeInv, PipeOnly
<1> DEFINE no   == FALSE
           yes  == TRUE
           p    == <<>>
           side == WriteSide(NewStream, p, no, no, NoWire)
           rs   == FillWritePipeline(side, queue[authUser], yes)
<1>1. /\ stream' = rs.stream /\ pipe' = rs.pipe
      /\ asks' = IF rs.stream.st = "Starting"
                  THEN {Ask(rs.stream.closes, 0, NoCred)} ELSE {}
      /\ ~shook' /\ wire' = NoWire /\ user' = authUser /\ net' = TRUE
      /\ UNCHANGED <<queue, issued>>
  BY DEF Restarts
<1>2. authUser \in Users
  BY DEF LifeInv, LifeTypeOK
<1>3. /\ yes \in BOOLEAN /\ yes /\ ~no /\ OwnedBy(p, authUser)
      /\ NewStream \in StreamRec /\ ~IsOpen(NewStream)
  BY OwnedEmpty DEF NewStream, StreamRec, StreamStatus, IsOpen
<1> HIDE DEF no, yes, p
<1>4. /\ IsSide(side) /\ side.stream = NewStream /\ side.pipe = p
      /\ side.shook = no /\ side.wire = NoWire
  BY MadeSide
<1> HIDE DEF side
<1>5. Fits(side)
  BY <1>3, <1>4 DEF Fits
<1>6. OwnedBy(rs.pipe, authUser) /\ rs.stream \in OwnersChoice(NewStream, yes)
  BY <1>2, <1>3, <1>4, <1>5, FillKeeps
<1> HIDE DEF rs
<1>7. ~IsOpen(rs.stream)
  <2>1. ~IsStarted(NewStream)
    BY DEF NewStream, IsStarted
  <2> QED BY <2>1, <1>3, <1>6, ChoiceFacts
<1>8. Relaunch
  BY <1>1, <1>3, <1>6 DEF Relaunch, Restarts, yes
<1>9. Fits(Side)'
  <2>1. /\ Side'.stream = stream' /\ Side'.shook = shook' /\ Side'.wire = wire'
    BY MadeSide DEF Side
  <2> QED BY <2>1, <1>1, <1>7 DEF Fits
<1> QED BY <1>1, <1>2, <1>6, <1>8, <1>9

----------------------------------------------------------------------------
(* Every step is one of StreamLife, or leaves its variables alone.         *)

LEMMA PipeInvInit == Init => PipeInv
<1> SUFFICES ASSUME Init PROVE PipeInv
  OBVIOUS
<1>1. LifeInv
  BY LifeInvInit DEF Init
<1>2. \A u \in Users : OwnedBy(queue[u], u)
  BY OwnedEmpty DEF Init
<1>3. Fits(Side)
  <2>1. ~IsOpen(stream)
    BY DEF Init, LifeInit, NewStream, IsOpen
  <2> QED BY <2>1, SideFacts DEF Init, Fits
<1> QED BY <1>1, <1>2, <1>3, OwnedEmpty DEF Init, PipeInv, PipeOnly

LEMMA PipeStep ==
    ASSUME PipeInv, [Next]_vars
    PROVE  [LifeNext]_lifeVars /\ PipeInv'
<1> USE DEF Calm, Trouble
<1>1. issued \in Nat /\ PipeOnly /\ LifeInv
  BY DEF PipeInv, PipeOnly
<1> SUFFICES [LifeNext]_lifeVars /\ PipeOnly'
  BY <1>1, LifeInvNext DEF PipeInv
<1>2. CASE UNCHANGED vars
  <2>1. UNCHANGED <<lifeVars, queue, pipe, shook, idle, wire, stream, user, net, issued>>
    BY <1>2 DEF vars, ownerVars, lifeVars, authVars
  <2> QED BY <2>1, <1>1, Untouched
<1>3. CASE UserChanges \/ TokenError \/ Answering
  <2>1. UNCHANGED ownerVars
    BY <1>3 DEF UserChanges, TokenError, Answering, TokenRead, TokenAnswer,
                Notified, TokenArrives
  <2>2. CASE UserChanges
    <3>1. PICK u \in Users : AuthChanges(u)
      BY <2>2 DEF UserChanges
    <3>2. LifeNext /\ UNCHANGED <<stream, user, net>>
      BY <3>1 DEF LifeNext, AuthChanges
    <3> QED BY <2>1, <3>2, <1>1, Untouched DEF ownerVars
  <2>3. CASE TokenRead
    <3>1. PICK a \in asks : AuthReads(a)
      BY <2>3 DEF TokenRead
    <3>2. LifeNext /\ UNCHANGED <<stream, user, net>>
      BY <3>1 DEF LifeNext, AuthReads
    <3> QED BY <2>1, <3>2, <1>1, Untouched DEF ownerVars
  <2>4. CASE TokenAnswer \/ TokenError
    <3>1. PICK a \in asks, ok \in BOOLEAN : AuthAnswers(a, ok)
      BY <2>4 DEF TokenAnswer, TokenError
    <3>2. LifeNext /\ UNCHANGED <<stream, user, net>>
      BY <3>1 DEF LifeNext, AuthAnswers
    <3> QED BY <2>1, <3>2, <1>1, Untouched DEF ownerVars
  <2>5. CASE Notified
    <3>1. LifeNext /\ UNCHANGED <<stream, user, net>>
      BY <2>5 DEF Notified, LifeNext, MainNotified
    <3> QED BY <2>1, <3>1, <1>1, Untouched DEF ownerVars
  <2>6. CASE TokenArrives
    <3>1. LifeNext /\ UNCHANGED <<stream, user, net>>
      BY <2>6 DEF TokenArrives, LifeNext, MainToken
    <3> QED BY <2>1, <3>1, <1>1, Untouched DEF ownerVars
  <2> QED BY <1>3, <2>2, <2>3, <2>4, <2>5, <2>6 DEF Answering
<1>4. CASE AppWrites
  <2>1. issued + 1 \in Tasks /\ issued' \in Nat /\ AppEnqueues(issued + 1)
    BY <1>1, <1>4, PipelineAssumption DEF AppWrites
  <2>2. LifeNext /\ UNCHANGED <<stream, user, net>>
    BY <2>1 DEF LifeNext, AppEnqueues
  <2> QED BY <1>4, <2>1, <2>2, <1>1, Untouched DEF AppWrites
<1>5. CASE AppWaits
  <2>1. Wait \in Tasks /\ AppEnqueues(Wait) /\ UNCHANGED ownerVars
    BY <1>5, PipelineAssumption DEF AppWaits, Wait
  <2>2. LifeNext /\ UNCHANGED <<stream, user, net>>
    BY <2>1 DEF LifeNext, AppEnqueues
  <2> QED BY <2>1, <2>2, <1>1, Untouched DEF ownerVars
<1>6. CASE Working
  BY <1>6, WriteMutationsSteps, RegisterSteps, CredentialSteps, ResumeSteps
     DEF Working, LifeNext
<1>7. CASE Streaming \/ Breaks \/ IdleTimeout
  BY <1>7, HandshakeSteps, ResultSteps, EndsSteps, BackoffSteps, IdleSteps
     DEF Streaming, LifeNext
<1>8. CASE DisableNetwork \/ EnableNetwork \/ ConnectivityChanges
  BY <1>8, NetworkSteps DEF LifeNext
<1>9. CASE BackendAnswers \/ BackendRefuses
  BY <1>9, BackendSteps
<1>10. CASE Restarts
  BY <1>10, RestartSteps DEF LifeNext
<1> QED BY <1>2, <1>3, <1>4, <1>5, <1>6, <1>7, <1>8, <1>9, <1>10 DEF Next

THEOREM PipeInvariant == Spec => []PipeInv
<1>1. Init => PipeInv
  BY PipeInvInit
<1>2. PipeInv /\ [Next]_vars => PipeInv'
  BY PipeStep
<1> QED BY <1>1, <1>2, PTL DEF Spec

----------------------------------------------------------------------------
(* The properties.                                                         *)

\* The write pipeline is a stream owner as StreamLife describes them: every
\* start, stop, error and opening of its stream is one StreamLife allows
\* (RemoteStore's calls of Start, Stop and InhibitBackoff).
THEOREM PipelineIsStreamOwner == Spec => RefinesStreamLife
<1>1. Init => LifeInit
  BY DEF Init
<1>2. PipeInv /\ [Next]_vars => [LifeNext]_lifeVars
  BY PipeStep
<1> QED BY <1>1, <1>2, PipeInvariant, PTL DEF Spec, RefinesStreamLife, LifeSpec

\* The write stream is never open with another user's token than that of the
\* user whose queue the pipeline serves.
THEOREM WriteStreamIsTheUsers == Spec => []CredIsUser
<1>1. PipeInv => CredIsUser
  BY DEF PipeInv, LifeInv
<1> QED BY <1>1, PipeInvariant, PTL

\* What is still to be answered is the pipeline, in its order: an answer is
\* credited to the write it is about (write_pipeline_, OnWriteStreamMutationResult).
THEOREM AnswersAreForTheHead == Spec => []AnswersMatchPipeline
<1>1. PipeInv => AnswersMatchPipeline
  BY SideFacts DEF PipeInv, PipeOnly, Fits, AnswersMatchPipeline
<1> QED BY <1>1, PipeInvariant, PTL

\* No write travels under another user's token (AddToWritePipeline,
\* HandleCredentialChange).
THEOREM WritesTravelAsTheirUser == Spec => []OwnStream
<1>1. ASSUME PipeInv, NEW i \in DOMAIN wire.sent, wire.sent[i] # Hello
      PROVE  wire.sent[i].by = stream.cred
  <2>1. wire.sent # <<>>
    OBVIOUS
  <2>2. /\ IsOpen(stream)
        /\ wire.acks \o wire.sent = IF shook THEN pipe ELSE <<Hello>>
    BY <1>1, <2>1, AnswerOfCall
  <2>3. PICK S : wire.sent \in Seq(S) /\ wire.acks \in Seq(S)
    BY <1>1, <2>1, AnswerOfCall
  <2> DEFINE a == wire.acks
             s == wire.sent
             k == Len(a) + i
  <2>4. /\ k \in 1..Len(a \o s) /\ (a \o s)[k] = s[i]
    <3>1. a \in Seq(S) /\ s \in Seq(S) /\ i \in 1..Len(s)
      BY <2>3
    <3> HIDE DEF a, s
    <3> QED BY <3>1
  <2>5. CASE ~shook
    <3>1. a \o s = <<Hello>>
      BY <2>2, <2>5
    <3>2. \A n \in 1..Len(<<Hello>>) : <<Hello>>[n] = Hello
      OBVIOUS
    <3> QED BY <3>1, <3>2, <2>4, <1>1
  <2>6. CASE shook
    <3>1. a \o s = pipe
      BY <2>2, <2>6
    <3>2. PICK T : pipe \in Seq(T) /\ \A b \in T : b.by = user
      BY <1>1 DEF PipeInv, PipeOnly, OwnedBy
    <3>3. pipe[k] \in T
      <4>1. k \in 1..Len(pipe)
        BY <3>1, <2>4
      <4> HIDE DEF k
      <4> QED BY <4>1, <3>2
    <3> QED BY <3>1, <3>2, <3>3, <2>2, <2>4, <1>1 DEF PipeInv, LifeInv, CredIsUser
  <2> QED BY <2>5, <2>6
<1>2. PipeInv => OwnStream
  BY <1>1 DEF OwnStream
<1> QED BY <1>2, PipeInvariant, PTL

----------------------------------------------------------------------------
(* The queues.                                                             *)

Batch == [id : Nat \ {0}, w : Writes, by : Users]

\* p is how q begins.
Starts(p, q) == Len(p) <= Len(q) /\ \A i \in 1..Len(p) : p[i] = q[i]

\* Batches in the order of their ids, as LevelDB has them.
Ordered(q) ==
    /\ q \in Seq(Batch)
    /\ \A i, j \in 1..Len(q) : i < j => q[i].id < q[j].id

WritesIn(q) == {q[i].w : i \in 1..Len(q)}

LEMMA BatchFacts ==
    ASSUME NEW b \in Batch
    PROVE  /\ b.id \in Nat /\ b.id # 0 /\ b.w \in Writes /\ b.w \in Nat /\ b.w # 0
           /\ b.by \in Users /\ b # Hello
BY PipelineAssumption DEF Batch, Writes, Hello

LEMMA SeqFacts ==
    ASSUME NEW S, NEW q \in Seq(S)
    PROVE  /\ Len(q) \in Nat /\ DOMAIN q = 1..Len(q) /\ \A i \in 1..Len(q) : q[i] \in S
           /\ q # <<>> <=> Len(q) # 0
OBVIOUS

----------------------------------------------------------------------------
(* Queues in order.                                                        *)

LEMMA OrderedEmpty == Ordered(<<>>)
BY DEF Ordered

LEMMA OrderedAppend ==
    ASSUME NEW q, Ordered(q), NEW b \in Batch, \A i \in 1..Len(q) : q[i].id < b.id
    PROVE  /\ Ordered(Append(q, b))
           /\ \A p : Starts(p, q) => Starts(p, Append(q, b))
           /\ WritesIn(Append(q, b)) = WritesIn(q) \cup {b.w}
<1> DEFINE r == Append(q, b)
<1>1. q \in Seq(Batch) /\ Len(q) \in Nat
  BY DEF Ordered
<1>2. /\ r \in Seq(Batch) /\ Len(r) = Len(q) + 1 /\ r[Len(q) + 1] = b
      /\ \A i \in 1..Len(q) : r[i] = q[i]
  BY <1>1
<1> HIDE DEF r
<1>3. Ordered(r)
  BY <1>1, <1>2 DEF Ordered
<1>4. \A p : Starts(p, q) => Starts(p, r)
  <2> SUFFICES ASSUME NEW p, Starts(p, q) PROVE Starts(p, r)
    OBVIOUS
  <2>1. \A i \in 1..Len(p) : i \in 1..Len(q)
    BY <1>1 DEF Starts
  <2> QED BY <2>1, <1>1, <1>2 DEF Starts
<1>5. WritesIn(r) = WritesIn(q) \cup {b.w}
  <2>1. 1..Len(r) = 1..Len(q) \cup {Len(q) + 1}
    BY <1>1, <1>2
  <2> QED BY <2>1, <1>2 DEF WritesIn
<1> QED BY <1>3, <1>4, <1>5 DEF r

LEMMA OrderedTail ==
    ASSUME NEW q, Ordered(q), q # <<>>
    PROVE  /\ Ordered(Tail(q))
           /\ Head(q) = q[1] /\ q[1] \in Batch
           /\ Len(Tail(q)) = Len(q) - 1
           /\ \A i \in 1..Len(Tail(q)) : Tail(q)[i] = q[i + 1]
           /\ \A i \in 1..Len(q) : i # 1 => i - 1 \in 1..Len(Tail(q)) /\ Tail(q)[i - 1] = q[i]
           /\ WritesIn(q) = {q[1].w} \cup WritesIn(Tail(q))
<1> DEFINE t == Tail(q)
<1>1. q \in Seq(Batch) /\ Len(q) \in Nat \ {0}
  BY DEF Ordered
<1>2. /\ t \in Seq(Batch) /\ Len(t) = Len(q) - 1 /\ Head(q) = q[1] /\ q[1] \in Batch
      /\ \A i \in 1..Len(t) : t[i] = q[i + 1]
  BY <1>1
<1> HIDE DEF t
<1>3. Ordered(t)
  <2> SUFFICES ASSUME NEW i \in 1..Len(t), NEW j \in 1..Len(t), i < j
               PROVE  t[i].id < t[j].id
    BY <1>2 DEF Ordered
  <2>1. i + 1 \in 1..Len(q) /\ j + 1 \in 1..Len(q) /\ i + 1 < j + 1
    BY <1>1, <1>2
  <2> QED BY <2>1, <1>2 DEF Ordered
<1>4. ASSUME NEW i \in 1..Len(q), i # 1
      PROVE  i - 1 \in 1..Len(t) /\ t[i - 1] = q[i]
  <2>1. i - 1 \in 1..Len(t) /\ (i - 1) + 1 = i
    BY <1>1, <1>2, <1>4
  <2> QED BY <2>1, <1>2
<1>5. WritesIn(q) = {q[1].w} \cup WritesIn(t)
  <2>1. ASSUME NEW i \in 1..Len(q) PROVE q[i].w \in {q[1].w} \cup WritesIn(t)
    BY <1>4 DEF WritesIn
  <2>2. ASSUME NEW i \in 1..Len(t) PROVE t[i].w \in WritesIn(q)
    <3>1. i + 1 \in 1..Len(q)
      BY <1>1, <1>2
    <3> QED BY <3>1, <1>2 DEF WritesIn
  <2>3. 1 \in 1..Len(q)
    BY <1>1
  <2> QED BY <2>1, <2>2, <2>3 DEF WritesIn
<1> QED BY <1>2, <1>3, <1>4, <1>5 DEF t

\* RemoveMutationBatch of the head of the queue.
LEMMA WithoutHead ==
    ASSUME NEW q, Ordered(q), q # <<>>
    PROVE  Without(q, Head(q)) = Tail(q)
<1> DEFINE k == CHOOSE i \in DOMAIN q : q[i] = Head(q)
<1>1. /\ q \in Seq(Batch) /\ Len(q) \in Nat \ {0} /\ DOMAIN q = 1..Len(q)
      /\ Head(q) = q[1] /\ 1 \in 1..Len(q)
  BY DEF Ordered
<1>2. k \in 1..Len(q) /\ q[k] = q[1]
  BY <1>1
<1> HIDE DEF k
<1>3. k = 1
  <2>1. q[1].id \in Nat
    BY <1>1, BatchFacts
  <2>2. ~(1 < k)
    BY <2>1, <1>1, <1>2 DEF Ordered
  <2> QED BY <2>2, <1>1, <1>2
<1>4. Head(q) \in ToSet(q)
  BY <1>1 DEF ToSet
<1>5. Without(q, Head(q)) = SubSeq(q, 1, k - 1) \o SubSeq(q, k + 1, Len(q))
  BY <1>4 DEF Without, RemoveAt, k
<1>6. SubSeq(q, 1, k - 1) = <<>>
  BY <1>3, SubSeqEmpty
<1>7. SubSeq(q, k + 1, Len(q)) = Tail(q)
  BY <1>1, <1>3, TailIsSubSeq
<1>8. Tail(q) \in Seq(Batch)
  BY <1>1
<1> QED BY <1>5, <1>6, <1>7, <1>8, ConcatEmptySeq

----------------------------------------------------------------------------
(* The pipeline at the beginning of its queue.                             *)

LEMMA StartsIsPrefix ==
    ASSUME NEW q, Ordered(q), NEW p \in Seq(Batch), Starts(p, q)
    PROVE  IsPrefix(p, q) /\ p = SubSeq(q, 1, Len(p))
<1> DEFINE n == Len(p)
           r == SubSeq(q, 1, n)
<1>1. q \in Seq(Batch) /\ Len(q) \in Nat /\ n \in Nat /\ n <= Len(q)
  BY DEF Ordered, Starts
<1>2. r \in Seq(Batch) /\ Len(r) = n /\ \A i \in 1..n : r[i] = q[i]
  BY <1>1
<1> HIDE DEF r
<1>3. p = r
  BY <1>1, <1>2, SeqEqual DEF Starts
<1>4. SubSeq(p, 1, n) = p
  BY SubSeqFull
<1> QED BY <1>1, <1>3, <1>4 DEF IsPrefix, r

LEMMA StartsTail ==
    ASSUME NEW q, Ordered(q), NEW p \in Seq(Batch), Starts(p, q), p # <<>>
    PROVE  /\ q # <<>> /\ Head(p) = Head(q) /\ Head(p) \in Batch
           /\ Tail(p) \in Seq(Batch) /\ Len(Tail(p)) < Len(p)
           /\ Starts(Tail(p), Tail(q))
<1>1. /\ q \in Seq(Batch) /\ Len(q) \in Nat \ {0} /\ Len(p) \in Nat \ {0}
      /\ Len(p) <= Len(q) /\ q # <<>> /\ 1 \in 1..Len(p)
  BY DEF Ordered, Starts
<1>2. /\ Tail(p) \in Seq(Batch) /\ Len(Tail(p)) = Len(p) - 1
      /\ \A i \in 1..Len(p) - 1 : Tail(p)[i] = p[i + 1]
      /\ Head(p) = p[1] /\ p[1] \in Batch /\ Head(q) = q[1]
  BY <1>1
<1>3. Len(Tail(q)) = Len(q) - 1 /\ \A i \in 1..Len(q) - 1 : Tail(q)[i] = q[i + 1]
  BY <1>1
<1>4. ASSUME NEW i \in 1..Len(Tail(p))
      PROVE  Tail(p)[i] = Tail(q)[i]
  <2>1. i \in 1..Len(p) - 1 /\ i \in 1..Len(q) - 1 /\ i + 1 \in 1..Len(p)
    BY <1>1, <1>2
  <2> QED BY <2>1, <1>2, <1>3 DEF Starts
<1> QED BY <1>1, <1>2, <1>3, <1>4 DEF Starts

\* FillWritePipeline takes up where the pipeline ends, as far as Limit lets it.
LEMMA NextIsAdjacent ==
    ASSUME NEW q, Ordered(q), NEW p \in Seq(Batch), Starts(p, q), Len(p) <= Limit
    PROVE  LET f == p \o NextBatches(p, q) IN
           /\ f \in Seq(Batch) /\ NextBatches(p, q) \in Seq(Batch)
           /\ Starts(f, q) /\ Len(f) <= Limit
<1> DEFINE T     == {i \in DOMAIN q : q[i].id <= LastId(p)}
           taken == Cardinality(T)
           m     == Len(p)
           two   == {taken + Limit - m, Len(q)}
           n     == Min(two)
<1>1. /\ q \in Seq(Batch) /\ Len(q) \in Nat /\ DOMAIN q = 1..Len(q)
      /\ m \in Nat /\ m <= Len(q) /\ Limit \in Nat
      /\ \A i \in 1..Len(q) : q[i] \in Batch
  BY PipelineAssumption DEF Ordered, Starts
<1>2. T = 1..m
  <2>1. CASE m = 0
    <3>1. LastId(p) = 0
      BY <2>1 DEF LastId
    <3>2. \A i \in DOMAIN q : ~(q[i].id <= 0)
      BY <1>1, BatchFacts
    <3> QED BY <2>1, <3>1, <3>2
  <2>2. CASE m # 0
    <3>1. p # <<>> /\ m \in 1..m /\ m \in 1..Len(q)
      BY <2>2, <1>1
    <3>2. LastId(p) = q[m].id
      BY <3>1 DEF LastId, Last, Starts
    <3>3. \A i \in 1..Len(q) : q[i].id \in Nat
      BY <1>1, BatchFacts
    <3>4. \A i \in 1..Len(q) : q[i].id <= q[m].id <=> i <= m
      BY <1>1, <3>1, <3>3 DEF Ordered
    <3> QED BY <1>1, <3>2, <3>4
  <2> QED BY <2>1, <2>2
<1>3. taken = m
  <2> HIDE DEF T, m
  <2>1. Cardinality(1..m) = m
    BY <1>1, FS_Interval
  <2> QED BY <2>1, <1>2
<1>4. NextBatches(p, q) = SubSeq(q, m + 1, n)
  BY <1>3 DEF NextBatches
<1> HIDE DEF T, taken
<1>5. n \in Nat /\ m <= n /\ n <= Len(q) /\ n <= Limit
  <2>1. two = {Limit, Len(q)}
    BY <1>1, <1>3
  <2> HIDE DEF two
  <2>2. \E x \in two : \A y \in two : x <= y
    BY <2>1, <1>1
  <2>3. n \in two /\ \A y \in two : n <= y
    BY <2>2 DEF Min
  <2> HIDE DEF n
  <2> QED BY <1>1, <2>1, <2>3
<1> HIDE DEF n, two, m
<1>6. p = SubSeq(q, 1, m)
  BY StartsIsPrefix DEF m
<1>7. SubSeq(q, 1, m) \o SubSeq(q, m + 1, n) = SubSeq(q, 1, n)
  <2>1. 1 \in 1..Len(q) + 1 /\ m \in 1 - 1..Len(q) /\ n \in m..Len(q)
    BY <1>1, <1>5
  <2> QED BY <2>1, <1>1, ConcatAdjacentSubSeq
<1> DEFINE f == SubSeq(q, 1, n)
<1>8. f \in Seq(Batch) /\ Len(f) = n /\ \A i \in 1..n : f[i] = q[i]
  BY <1>1, <1>5
<1>9. SubSeq(q, m + 1, n) \in Seq(Batch)
  BY <1>1, <1>5
<1> QED BY <1>4, <1>5, <1>6, <1>7, <1>8, <1>9 DEF Starts

----------------------------------------------------------------------------
(* A write side that fits queue q: the pipeline begins it, the idle timer  *)
(* runs only where there is nothing to send, and a stream was started for  *)
(* something to send.                                                      *)

Good(rs, q) ==
    /\ rs.pipe \in Seq(Batch)
    /\ Starts(rs.pipe, q)
    /\ Len(rs.pipe) <= Limit
    /\ rs.idle => IsOpen(rs.stream) /\ rs.shook /\ rs.pipe = <<>>
    /\ IsStarted(rs.stream) /\ ~rs.shook => rs.pipe # <<>>
    /\ rs.shook \in BOOLEAN /\ rs.idle \in BOOLEAN /\ rs.wire.refused \in BOOLEAN

LEMMA MadeIdle ==
    ASSUME NEW s, NEW p, NEW h, NEW i, NEW c
    PROVE  WriteSide(s, p, h, i, c).idle = i
BY DEF WriteSide

LEMMA NothingStarts ==
    ASSUME NEW q, Ordered(q)
    PROVE  Starts(<<>>, q)
BY DEF Starts, Ordered

\* No call: no answers, and no refusal.
LEMMA NoCall == NoWire.acks = <<>> /\ NoWire.refused \in BOOLEAN /\ ~NoWire.refused
BY DEF NoWire, Wire

LEMMA StartGood ==
    ASSUME NEW rs, IsSide(rs), NEW q, Good(rs, q), NEW on \in BOOLEAN
    PROVE  LET f == StartIfNeeded(rs, on) IN
           /\ Good(f, q)
           /\ f.wire = rs.wire
           /\ IsStarted(f.stream) => IsStarted(rs.stream) \/ f.pipe # <<>>
<1> DEFINE f == StartIfNeeded(rs, on)
<1>1. f.idle = rs.idle
  BY DEF IsSide, StartIfNeeded
<1>2. f.stream = rs.stream \/ (~IsStarted(rs.stream) /\ rs.pipe # <<>>)
  BY DEF StartIfNeeded
<1>3. f.wire = rs.wire /\ f.pipe = rs.pipe /\ f.shook = rs.shook
  BY StartStream
<1>4. IsOpen(rs.stream) => IsStarted(rs.stream)
  BY DEF IsOpen, IsStarted
<1> HIDE DEF f
<1> QED BY <1>1, <1>2, <1>3, <1>4 DEF Good, f

LEMMA FillGood ==
    ASSUME NEW rs, IsSide(rs), NEW q, Ordered(q), Good(rs, q), NEW on \in BOOLEAN
    PROVE  LET f == FillWritePipeline(rs, q, on) IN
           /\ Good(f, q)
           /\ f.wire.acks = rs.wire.acks
           /\ IsStarted(f.stream) => IsStarted(rs.stream) \/ f.pipe # <<>>
<1> DEFINE new   == New(rs, q, on)
           sends == Sends(rs, q, on)
           p     == rs.pipe \o new
           rest  == on /\ IsOpen(rs.stream) /\ p = <<>>
           w     == IF sends THEN Send(rs.wire, new) ELSE rs.wire
           armed == ~sends /\ (rs.idle \/ rest)
           full  == WriteSide(rs.stream, p, rs.shook, armed, w)
<1>1. FillWritePipeline(rs, q, on) = StartIfNeeded(full, on)
  BY DEF FillWritePipeline, New, Sends
<1>2. /\ p \in Seq(Batch) /\ Starts(p, q) /\ Len(p) <= Limit
      /\ rs.pipe # <<>> => p # <<>>
      /\ rs.pipe = <<>> /\ new = <<>> => p = <<>>
  <2>1. rs.pipe \in Seq(Batch) /\ new \in Seq(Batch)
    BY NextIsAdjacent DEF Good, New
  <2>2. ASSUME on
        PROVE  p \in Seq(Batch) /\ Starts(p, q) /\ Len(p) <= Limit
    <3> DEFINE o == rs.pipe
    <3>1. p = o \o NextBatches(o, q)
      BY <2>2 DEF New
    <3>2. o \in Seq(Batch) /\ Starts(o, q) /\ Len(o) <= Limit
      BY DEF Good
    <3> HIDE DEF p, o
    <3> QED BY <3>1, <3>2, NextIsAdjacent
  <2>3. CASE ~on
    <3>1. p = rs.pipe
      BY <2>1, <2>3 DEF New
    <3> QED BY <2>1, <3>1 DEF Good
  <2>4. rs.pipe # <<>> => p # <<>>
    <3> HIDE DEF new
    <3> QED BY <2>1, ConcatEqualIffEmpty
  <2>5. rs.pipe = <<>> /\ new = <<>> => p = <<>>
    <3> HIDE DEF new
    <3> QED BY <2>1
  <2> QED BY <2>2, <2>3, <2>4, <2>5
<1>3. w.acks = rs.wire.acks /\ w.refused = rs.wire.refused
  BY DEF Send, Wire
<1>4. armed => IsOpen(rs.stream) /\ rs.shook /\ p = <<>>
  <2>1. CASE armed /\ rs.idle
    BY <2>1, <1>2 DEF Good, Sends
  <2>2. CASE armed /\ rest
    BY <2>2, <1>2 DEF Good, IsOpen, IsStarted
  <2> QED BY <2>1, <2>2
<1>5. armed \in BOOLEAN
  OBVIOUS
<1> HIDE DEF new, sends, rest, w, armed, p
<1>6. /\ IsSide(full) /\ full.stream = rs.stream /\ full.idle = armed
      /\ full.pipe = p /\ full.shook = rs.shook /\ full.wire = w
  BY MadeSide, MadeIdle
<1> HIDE DEF full
<1>7. Good(full, q)
  BY <1>2, <1>3, <1>4, <1>5, <1>6 DEF Good
<1> QED BY <1>1, <1>3, <1>6, <1>7, StartGood

LEMMA StopGood ==
    ASSUME NEW rs, IsSide(rs), NEW q, Good(rs, q), rs.stream \in StreamRec
    PROVE  /\ Good(StopStream(rs), q)
           /\ ~StopStream(rs).idle
           /\ ~IsStarted(StopStream(rs).stream)
<1> DEFINE no == FALSE
           t  == WriteSide(Stopped(rs.stream), rs.pipe, no, no, NoWire)
<1>1. ~IsStarted(Stopped(rs.stream)) /\ ~IsOpen(Stopped(rs.stream))
  BY StoppedFacts DEF IsOpen, IsStarted
<1>2. CASE IsStarted(rs.stream)
  <2>1. StopStream(rs) = t
    BY <1>2 DEF StopStream
  <2>2. ~no /\ no \in BOOLEAN
    OBVIOUS
  <2> HIDE DEF no
  <2> QED BY <1>1, <2>1, <2>2, MadeSide, MadeIdle, NoCall DEF Good
<1>3. CASE ~IsStarted(rs.stream)
  BY <1>3, <1>1 DEF StopStream, Stopped, Good, IsOpen, IsStarted
<1> QED BY <1>2, <1>3

LEMMA RestartGood ==
    ASSUME NEW rs, IsSide(rs), NEW q, Good(rs, q), rs.stream \in StreamRec,
           NEW r, Ordered(r)
    PROVE  Good(RestartNetwork(rs, r), r)
<1> DEFINE s     == StopStream(rs)
           t     == Inhibited(s.stream)
           p     == <<>>
           fresh == WriteSide(t, p, s.shook, s.idle, s.wire)
<1>1. RestartNetwork(rs, r) = FillWritePipeline(fresh, r, TRUE)
  BY DEF RestartNetwork
<1>2. Good(s, q) /\ ~s.idle /\ s.stream = Stopped(rs.stream)
  BY StopGood, StopSide
<1>3. ~IsStarted(t)
  BY <1>2, StoppedFacts
<1>4. p \in Seq(Batch) /\ Starts(p, r) /\ Len(p) <= Limit
  BY NothingStarts, PipelineAssumption
<1> HIDE DEF p, t, s
<1>5. /\ IsSide(fresh) /\ fresh.stream = t /\ fresh.pipe = p /\ fresh.idle = s.idle
      /\ fresh.shook = s.shook /\ fresh.wire = s.wire
  BY MadeSide, MadeIdle
<1> HIDE DEF fresh
<1>6. Good(fresh, r)
  BY <1>2, <1>3, <1>4, <1>5 DEF Good
<1> QED BY <1>1, <1>5, <1>6, FillGood

LEMMA RestartNoCall ==
    ASSUME NEW rs, IsSide(rs), Fits(rs), rs.stream \in StreamRec, NEW r
    PROVE  RestartNetwork(rs, r).wire.acks = <<>>
<1> DEFINE s     == StopStream(rs)
           t     == Inhibited(s.stream)
           p     == <<>>
           fresh == WriteSide(t, p, s.shook, s.idle, s.wire)
<1>1. RestartNetwork(rs, r) = FillWritePipeline(fresh, r, TRUE)
  BY DEF RestartNetwork
<1>2. s.wire = NoWire /\ s.stream = Stopped(rs.stream) /\ ~IsOpen(t)
  BY StopKeeps, StoppedFacts DEF IsOpen, IsStarted
<1> HIDE DEF p, t, s
<1>3. IsSide(fresh) /\ fresh.stream = t /\ fresh.wire = s.wire
  BY MadeSide
<1> HIDE DEF fresh
<1>4. FillWritePipeline(fresh, r, TRUE).wire = fresh.wire
  BY <1>2, <1>3, FillFacts DEF Sends
<1> QED BY <1>1, <1>2, <1>3, <1>4, NoCall

\* The queue after an error that rejects what it rejects.
LeftBy(rs, q, permanent) ==
    IF Rejects(rs, permanent) = <<>> THEN q ELSE Without(q, Head(rs.pipe))

LEMMA CloseGood ==
    ASSUME NEW rs, IsSide(rs), NEW q, Ordered(q), Good(rs, q), rs.stream \in StreamRec,
           NEW on \in BOOLEAN, NEW permanent \in BOOLEAN
    PROVE  LET f == CloseWith(rs, q, on, permanent)
               r == LeftBy(rs, q, permanent) IN
           /\ Ordered(r)
           /\ Good(f, r)
           /\ f.wire.acks = <<>>
<1> DEFINE t       == Closed(rs.stream, FALSE)
           i       == Inhibited(t)
           no      == FALSE
           rest    == Tail(rs.pipe)
           left    == Without(q, Head(rs.pipe))
           lost    == Rejects(rs, permanent) # <<>>
           kept    == WriteSide(t, rs.pipe, rs.shook, no, NoWire)
           fresh   == WriteSide(i, rest, rs.shook, no, NoWire)
           filled  == FillWritePipeline(fresh, left, on)
           handled == IF ~lost THEN kept ELSE filled
           st      == StartIfNeeded(handled, on)
           r       == LeftBy(rs, q, permanent)
<1>1. CloseWith(rs, q, on, permanent) = [st EXCEPT !.shook = FALSE]
  BY DEF CloseWith
<1>2. ~IsStarted(t) /\ ~IsStarted(i) /\ ~IsOpen(t) /\ ~IsOpen(i)
  BY ClosedFacts DEF StreamRec, StreamStatus, IsStarted, IsOpen, Inhibited
<1>3. lost => rs.pipe # <<>> /\ r = left
  BY DEF Rejects, LeftBy
<1>4. ~lost => r = q
  BY DEF LeftBy
<1>5. ASSUME lost
      PROVE  /\ Ordered(left) /\ rest \in Seq(Batch) /\ Starts(rest, left)
             /\ Len(rest) <= Limit
  <2>1. rs.pipe \in Seq(Batch) /\ Starts(rs.pipe, q) /\ Len(rs.pipe) <= Limit
    BY DEF Good
  <2> DEFINE p == rs.pipe
  <2>2. p \in Seq(Batch) /\ Starts(p, q) /\ p # <<>>
    BY <2>1, <1>3, <1>5
  <2> HIDE DEF p
  <2>3. /\ q # <<>> /\ Head(p) = Head(q) /\ Tail(p) \in Seq(Batch)
        /\ Len(Tail(p)) < Len(p) /\ Starts(Tail(p), Tail(q))
    BY <2>2, StartsTail
  <2>4. Ordered(Tail(q)) /\ Without(q, Head(q)) = Tail(q)
    BY <2>3, OrderedTail, WithoutHead
  <2>5. Len(p) <= Limit /\ Len(p) \in Nat /\ Len(Tail(p)) \in Nat /\ Limit \in Nat
    BY <2>1, <2>2, <2>3, PipelineAssumption DEF p
  <2>6. Len(Tail(p)) <= Limit
    BY <2>3, <2>5
  <2> HIDE DEF lost, t, i, kept, fresh, filled, handled, st
  <2> QED BY <2>3, <2>4, <2>6 DEF p
<1>6. ~no /\ no \in BOOLEAN
  OBVIOUS
<1> HIDE DEF i, t, no, rest, left, lost, r
<1>7. /\ IsSide(kept) /\ kept.stream = t /\ kept.pipe = rs.pipe /\ kept.idle = no
      /\ kept.shook = rs.shook /\ kept.wire = NoWire
  BY MadeSide, MadeIdle
<1>8. /\ IsSide(fresh) /\ fresh.stream = i /\ fresh.pipe = rest /\ fresh.idle = no
      /\ fresh.wire = NoWire /\ fresh.shook = rs.shook
  BY MadeSide, MadeIdle
<1> HIDE DEF kept, fresh
<1>9. /\ IsSide(handled) /\ Good(handled, r) /\ Ordered(r) /\ handled.wire.acks = <<>>
      /\ IsStarted(handled.stream) => handled.pipe # <<>>
  <2>1. CASE ~lost
    BY <2>1, <1>2, <1>4, <1>6, <1>7, NoCall DEF Good
  <2>2. CASE lost
    <3>1. Good(fresh, left)
      BY <2>2, <1>2, <1>5, <1>6, <1>8, NoCall DEF Good
    <3>2. /\ Good(filled, left) /\ filled.wire.acks = <<>> /\ IsSide(filled)
          /\ IsStarted(filled.stream) => filled.pipe # <<>>
      BY <2>2, <3>1, <1>2, <1>5, <1>8, FillGood, FillFacts, NoCall
    <3> QED BY <2>2, <3>2, <1>3, <1>5
  <2> QED BY <2>1, <2>2
<1> HIDE DEF handled
<1>10. /\ IsSide(st) /\ Good(st, r) /\ st.wire.acks = <<>>
       /\ IsStarted(st.stream) => st.pipe # <<>>
  BY <1>9, StartGood, StartStream
<1>11. ~IsOpen(st.stream)
  <2>1. st.stream \in {handled.stream, Start(handled.stream)}
    BY <1>9, StartStream
  <2>2. ~IsOpen(handled.stream) /\ handled.stream \in StreamRec
    <3>1. CASE ~lost
      BY <3>1, <1>2, <1>7, ClosedFacts DEF handled, t
    <3>2. CASE lost
      <4>1. filled.stream \in OwnersChoice(i, on)
        BY <1>8, FillFacts
      <4>2. i \in StreamRec
        BY ClosedFacts DEF i, t, Inhibited, StreamRec, StreamStatus
      <4>3. ~IsOpen(filled.stream) /\ filled.stream \in StreamRec
        BY <4>1, <4>2, <1>2, ChoiceFacts
      <4> QED BY <3>2, <4>3 DEF handled
    <3> QED BY <3>1, <3>2
  <2> HIDE DEF st
  <2> QED BY <2>1, <2>2 DEF Start, IsOpen, StreamRec
<1> HIDE DEF st
<1> DEFINE f == [st EXCEPT !.shook = FALSE]
<1>12. /\ ~f.shook /\ f.shook \in BOOLEAN /\ f.stream = st.stream /\ f.pipe = st.pipe
       /\ f.wire = st.wire /\ f.idle = st.idle
  BY <1>10 DEF IsSide
<1> HIDE DEF f
<1>13. Good(f, r)
  BY <1>10, <1>11, <1>12 DEF Good
<1> QED BY <1>1, <1>9, <1>10, <1>12, <1>13 DEF f, r

----------------------------------------------------------------------------
(* What is known of the queues and of the writes, whatever the stream does.*)

\* Batches are queued under ids not used yet.
IdsOK ==
    /\ nextId \in Nat \ {0}
    /\ queue \in [Users -> Seq(Batch)]
    /\ \A u \in Users : /\ Ordered(queue[u])
                        /\ \A i \in 1..Len(queue[u]) : queue[u][i].id < nextId

\* A callback waits for a batch that is still queued.
CallbacksOK ==
    \A c \in callbacks :
        /\ c.user \in Users
        /\ \E i \in 1..Len(queue[c.user]) :
              queue[c.user][i].id = c.id /\ queue[c.user][i].w = c.w

\* A waiter waits for what is queued up to its batch.
WaitersOK ==
    \A x \in waiters : \A w \in x.writes :
        \/ w \in acked \cup dropped
        \/ \E i \in 1..Len(queue[user]) :
              queue[user][i].w = w /\ queue[user][i].id <= x.upto

ToldOK == acked \subseteq committed /\ waited \subseteq acked \cup dropped

\* The writes that are with Firestore, or were.
Used == committed \cup acked \cup dropped \cup UNION {WritesIn(queue[u]) : u \in Users}

IsWrite(x) == x.kind = "task" /\ x.task # Wait

\* The writes on the worker queue q are of S, and all different.
TasksOK(q, S) ==
    /\ \A i \in 1..Len(q) : IsWrite(q[i]) => q[i].task \in S
    /\ \A i, j \in 1..Len(q) :
          i < j /\ IsWrite(q[i]) /\ IsWrite(q[j]) => q[i].task # q[j].task

FreshOK ==
    /\ issued \in 0..MaxWrites
    /\ Used \subseteq 1..issued
    /\ TasksOK(workQ, (1..issued) \ Used)

LogInv == IdsOK /\ CallbacksOK /\ WaitersOK /\ ToldOK /\ FreshOK

\* An answer not read yet is about a write that was stored.
AnswersOK ==
    \A i \in 1..Len(wire.acks) : wire.acks[i] # Hello => wire.acks[i].w \in committed

SideOK == Good(Side, queue[user])

WriteInv == PipeInv /\ SideOK /\ AnswersOK /\ LogInv

QueueStep == [Queue!QueueNext]_(Queue!queueVars)

----------------------------------------------------------------------------
(* A queue as WriteQueue sees it.                                          *)

Bare(q) == [i \in DOMAIN q |-> q[i].w]

LEMMA BareFacts ==
    ASSUME NEW q \in Seq(Batch)
    PROVE  /\ Bare(q) \in Seq(Writes)
           /\ Len(Bare(q)) = Len(q) /\ DOMAIN Bare(q) = 1..Len(q)
           /\ \A i \in 1..Len(q) : Bare(q)[i] = q[i].w
<1>1. DOMAIN q = 1..Len(q) /\ Len(q) \in Nat
  OBVIOUS
<1>2. \A i \in 1..Len(q) : q[i].w \in Writes
  BY <1>1, BatchFacts
<1>3. Bare(q) \in [1..Len(q) -> Writes]
  BY <1>1, <1>2 DEF Bare
<1>4. Bare(q) \in Seq(Writes) /\ Len(Bare(q)) = Len(q)
  BY <1>1, <1>3
<1> QED BY <1>1, <1>3, <1>4 DEF Bare

LEMMA BareAppend ==
    ASSUME NEW q \in Seq(Batch), NEW b \in Batch
    PROVE  Bare(Append(q, b)) = Append(Bare(q), b.w)
<1> DEFINE r == Append(q, b)
           l == Bare(r)
           t == Append(Bare(q), b.w)
<1>1. /\ r \in Seq(Batch) /\ Len(r) = Len(q) + 1 /\ r[Len(q) + 1] = b
      /\ Len(q) \in Nat /\ \A i \in 1..Len(q) : r[i] = q[i]
  OBVIOUS
<1> HIDE DEF r
<1>2. /\ l \in Seq(Writes) /\ Len(l) = Len(q) + 1
      /\ \A i \in 1..Len(q) + 1 : l[i] = r[i].w
  BY <1>1, BareFacts
<1>3. /\ Bare(q) \in Seq(Writes) /\ Len(Bare(q)) = Len(q) /\ b.w \in Writes
      /\ \A i \in 1..Len(q) : Bare(q)[i] = q[i].w
  BY BareFacts, BatchFacts
<1>4. /\ t \in Seq(Writes) /\ Len(t) = Len(q) + 1 /\ t[Len(q) + 1] = b.w
      /\ \A i \in 1..Len(q) : t[i] = Bare(q)[i]
  BY <1>1, <1>3
<1> HIDE DEF l, t
<1>5. \A i \in 1..Len(q) + 1 : l[i] = t[i]
  BY <1>1, <1>2, <1>3, <1>4
<1>6. l = t
  BY <1>2, <1>4, <1>5, SeqEqual
<1> QED BY <1>6 DEF l, t, r

LEMMA BareTail ==
    ASSUME NEW q, Ordered(q), q # <<>>
    PROVE  Bare(q) # <<>> /\ Bare(Tail(q)) = Tail(Bare(q)) /\ Head(Bare(q)) = Head(q).w
<1> DEFINE l == Bare(Tail(q))
           b == Bare(q)
           t == Tail(b)
<1>1. /\ q \in Seq(Batch) /\ Len(q) \in Nat \ {0} /\ Tail(q) \in Seq(Batch)
      /\ Len(Tail(q)) = Len(q) - 1 /\ Head(q) = q[1]
      /\ \A i \in 1..Len(q) - 1 : Tail(q)[i] = q[i + 1]
  BY OrderedTail DEF Ordered
<1>2. /\ l \in Seq(Writes) /\ Len(l) = Len(q) - 1
      /\ \A i \in 1..Len(q) - 1 : l[i] = q[i + 1].w
  <2>1. /\ l \in Seq(Writes) /\ Len(l) = Len(Tail(q))
        /\ \A i \in 1..Len(Tail(q)) : l[i] = Tail(q)[i].w
    BY <1>1, BareFacts
  <2> HIDE DEF l
  <2> QED BY <2>1, <1>1
<1>3. b \in Seq(Writes) /\ Len(b) = Len(q) /\ \A i \in 1..Len(q) : b[i] = q[i].w
  BY <1>1, BareFacts
<1> HIDE DEF b, l
<1>4. /\ b # <<>> /\ Head(b) = q[1].w /\ t \in Seq(Writes) /\ Len(t) = Len(q) - 1
      /\ \A i \in 1..Len(q) - 1 : t[i] = b[i + 1]
  BY <1>1, <1>3
<1> HIDE DEF t
<1>5. \A i \in 1..Len(q) - 1 : l[i] = t[i]
  <2> TAKE i \in 1..Len(q) - 1
  <2>1. i + 1 \in 1..Len(q)
    BY <1>1
  <2> QED BY <2>1, <1>2, <1>3, <1>4
<1>6. l = t
  BY <1>2, <1>4, <1>5, SeqEqual
<1> QED BY <1>1, <1>4, <1>6 DEF l, t, b

----------------------------------------------------------------------------
(* The worker queue, seen as the writes on it.                             *)

LEMMA TasksTail ==
    ASSUME NEW q \in Seq(WorkBlock), q # <<>>, NEW S, TasksOK(q, S)
    PROVE  /\ TasksOK(Tail(q), S)
           /\ IsWrite(Head(q)) => TasksOK(Tail(q), S \ {Head(q).task})
<1>1. /\ Len(q) \in Nat \ {0} /\ Len(Tail(q)) = Len(q) - 1 /\ Head(q) = q[1]
      /\ \A i \in 1..Len(q) - 1 : Tail(q)[i] = q[i + 1]
  OBVIOUS
<1>2. \A i \in 1..Len(q) - 1 : i + 1 \in 1..Len(q) /\ 1 < i + 1 /\ 1 \in 1..Len(q)
  BY <1>1
<1>3. \A i, j \in 1..Len(q) - 1 : i < j => i + 1 < j + 1
  BY <1>1
<1>4. TasksOK(Tail(q), S)
  BY <1>1, <1>2, <1>3 DEF TasksOK
<1>5. ASSUME IsWrite(Head(q)) PROVE TasksOK(Tail(q), S \ {Head(q).task})
  BY <1>1, <1>2, <1>4, <1>5 DEF TasksOK
<1> QED BY <1>4, <1>5

LEMMA TasksAppend ==
    ASSUME NEW q \in Seq(WorkBlock), NEW b, NEW S, TasksOK(q, S)
    PROVE  /\ ~IsWrite(b) => TasksOK(Append(q, b), S)
           /\ b.task \notin S => TasksOK(Append(q, b), S \cup {b.task})
<1> DEFINE r == Append(q, b)
<1>1. /\ Len(q) \in Nat /\ Len(r) = Len(q) + 1 /\ r[Len(q) + 1] = b
      /\ \A i \in 1..Len(q) : r[i] = q[i]
  OBVIOUS
<1> HIDE DEF r
<1>2. \A i \in 1..Len(r) : i \in 1..Len(q) \/ (i = Len(q) + 1 /\ r[i] = b)
  BY <1>1
<1>3. \A i, j \in 1..Len(r) : i < j => i \in 1..Len(q)
  BY <1>1
<1>4. ASSUME ~IsWrite(b) PROVE TasksOK(r, S)
  BY <1>1, <1>2, <1>3, <1>4 DEF TasksOK
<1>5. ASSUME b.task \notin S PROVE TasksOK(r, S \cup {b.task})
  <2>1. ASSUME NEW i \in 1..Len(r), NEW j \in 1..Len(r), i < j,
               IsWrite(r[i]), IsWrite(r[j])
        PROVE  r[i].task # r[j].task
    BY <2>1, <1>1, <1>2, <1>3, <1>5 DEF TasksOK
  <2>2. ASSUME NEW i \in 1..Len(r), IsWrite(r[i]) PROVE r[i].task \in S \cup {b.task}
    BY <2>2, <1>1, <1>2 DEF TasksOK
  <2> QED BY <2>1, <2>2 DEF TasksOK
<1> QED BY <1>4, <1>5 DEF r

\* A step that adds no write to the worker queue.
NoNewTask ==
    \/ workQ' = workQ
    \/ workQ' = <<>>
    \/ workQ # <<>> /\ workQ' = Tail(workQ)
    \/ \E b : ~IsWrite(b) /\ workQ' = Append(workQ, b)

LEMMA TasksKept ==
    ASSUME workQ \in Seq(WorkBlock), NEW S, TasksOK(workQ, S), NoNewTask
    PROVE  TasksOK(workQ', S)
<1>1. CASE workQ' = <<>>
  BY <1>1 DEF TasksOK
<1>2. CASE workQ' = workQ
  BY <1>2
<1>3. CASE workQ # <<>> /\ workQ' = Tail(workQ)
  BY <1>3, TasksTail
<1>4. ASSUME NEW b, ~IsWrite(b), workQ' = Append(workQ, b) PROVE TasksOK(workQ', S)
  BY <1>4, TasksAppend
<1> QED BY <1>1, <1>2, <1>3, <1>4 DEF NoNewTask

----------------------------------------------------------------------------
(* What the steps do to the queues.                                        *)

\* Writes from the head of the user's queue on were stored.
Stores(m) ==
    /\ m \in 0..Len(queue[user])
    /\ committed' = committed \cup {queue[user][i].w : i \in 1..m}

LEMMA StoresStep ==
    ASSUME IdsOK, user \in Users, NEW m, Stores(m), UNCHANGED <<queue, acked, dropped>>
    PROVE  QueueStep
<1>1. CASE m = 0
  <2>1. committed' = committed
    BY <1>1 DEF Stores
  <2> QED BY <2>1 DEF QueueStep, Queue!queueVars
<1>2. CASE m # 0
  <2> DEFINE q == queue[user]
             S == {q[i].w : i \in 1..m}
  <2>1. q \in Seq(Batch) /\ Len(q) \in Nat /\ m \in 1..Len(q)
    BY <1>2 DEF IdsOK, Stores
  <2>2. Len(Bare(q)) = Len(q) /\ \A i \in 1..Len(q) : Bare(q)[i] = q[i].w
    BY <2>1, BareFacts
  <2>3. {Bare(q)[i] : i \in 1..m} = S
    BY <2>1, <2>2
  <2>4. m \in 1..Len(Bare(q)) /\ committed' = committed \cup {Bare(q)[i] : i \in 1..m}
    BY <2>1, <2>2, <2>3 DEF Stores
  <2> DEFINE v == [u \in Users |-> [i \in DOMAIN queue[u] |-> queue[u][i].w]]
  <2>5. v[user] = Bare(q)
    BY DEF Bare
  <2>6. Queue!Store(user)
    <3> DEFINE n == m
    <3>1. n \in 1..Len(v[user]) /\ committed' = committed \cup {v[user][i] : i \in 1..n}
      BY <2>4, <2>5
    <3>2. v' = v /\ (acked \cup dropped)' = acked \cup dropped
      OBVIOUS
    <3> QED BY <3>1, <3>2 DEF Queue!Store
  <2> QED BY <2>6 DEF QueueStep, Queue!QueueNext
<1> QED BY <1>1, <1>2

\* NextBatchIdFromDb is above every id.
LEMMA NextIdFromDb ==
    ASSUME IdsOK, user \in Users
    PROVE  /\ NextBatchIdFromDb(queue) \in Nat \ {0}
           /\ \A u \in Users : \A i \in 1..Len(queue[u]) :
                 queue[u][i].id < NextBatchIdFromDb(queue)
<1> DEFINE f == [u \in Users |-> LastId(queue[u])]
           L == {LastId(queue[u]) : u \in Users}
           n == NextBatchIdFromDb(queue)
<1>1. \A u \in Users : /\ queue[u] \in Seq(Batch) /\ Len(queue[u]) \in Nat
                       /\ \A i \in 1..Len(queue[u]) : queue[u][i].id \in Nat
  BY BatchFacts DEF IdsOK
<1>2. \A u \in Users : LastId(queue[u]) \in Nat
  <2> TAKE u \in Users
  <2>1. CASE queue[u] = <<>>
    BY <2>1 DEF LastId
  <2>2. CASE queue[u] # <<>>
    <3>1. Len(queue[u]) \in 1..Len(queue[u])
      BY <2>2, <1>1
    <3> QED BY <2>2, <3>1, <1>1 DEF LastId, Last
  <2> QED BY <2>1, <2>2
<1>3. IsFiniteSet(L)
  <2>1. IsFiniteSet({f[u] : u \in Users})
    BY PipelineAssumption, FiniteImage
  <2>2. {f[u] : u \in Users} = L
    OBVIOUS
  <2> QED BY <2>1, <2>2
<1>4. L \in SUBSET Int /\ L # {} /\ L \subseteq Nat
  BY <1>2
<1>5. Max(L) \in Nat /\ \A x \in L : x <= Max(L)
  <2> HIDE DEF L
  <2>1. Max(L) \in L /\ \A x \in L : x <= Max(L)
    BY <1>3, <1>4, FiniteMax
  <2> QED BY <1>4, <2>1
<1>6. n = 1 + Max(L)
  BY DEF NextBatchIdFromDb
<1>7. ASSUME NEW u \in Users, NEW i \in 1..Len(queue[u])
      PROVE  queue[u][i].id < n
  <2>1. LastId(queue[u]) \in L
    OBVIOUS
  <2>2. LastId(queue[u]) = queue[u][Len(queue[u])].id
    BY <1>1 DEF LastId, Last
  <2>3. Len(queue[u]) \in 1..Len(queue[u])
    BY <1>1
  <2>4. queue[u][i].id <= queue[u][Len(queue[u])].id
    BY <1>1, <2>3 DEF IdsOK, Ordered
  <2>5. LastId(queue[u]) <= Max(L)
    BY <1>5, <2>1
  <2> HIDE DEF n, L
  <2> QED BY <1>1, <1>2, <1>5, <1>6, <2>2, <2>3, <2>4, <2>5
<1> HIDE DEF n, L
<1> QED BY <1>5, <1>6, <1>7 DEF n

\* A step that leaves the queues as they are.
LEMMA LogKept ==
    ASSUME LogInv, LifeTypeOK, NEW m, Stores(m),
           UNCHANGED <<queue, acked, dropped, waited, issued>>, NoNewTask,
           callbacks' \subseteq callbacks, waiters' \subseteq waiters,
           waiters' = {} \/ user' = user,
           nextId' \in {nextId, NextBatchIdFromDb(queue)}
    PROVE  LogInv' /\ QueueStep
<1>1. user \in Users /\ workQ \in Seq(WorkBlock) /\ IdsOK
  BY DEF LifeTypeOK, LogInv
<1>2. QueueStep
  BY <1>1, StoresStep
<1>3. IdsOK'
  BY <1>1, NextIdFromDb DEF IdsOK
<1>4. CallbacksOK'
  BY DEF LogInv, CallbacksOK
<1>5. WaitersOK'
  BY DEF LogInv, WaitersOK
<1>6. committed \subseteq committed' /\ committed' \subseteq committed \cup WritesIn(queue[user])
  BY <1>1 DEF Stores, WritesIn
<1>7. ToldOK'
  BY <1>6 DEF LogInv, ToldOK
<1>8. FreshOK'
  <2>1. Used' = Used
    BY <1>1, <1>6 DEF Used
  <2>2. TasksOK(workQ', (1..issued) \ Used)
    <3> DEFINE S == (1..issued) \ Used
    <3>1. TasksOK(workQ, S)
      BY DEF LogInv, FreshOK
    <3> HIDE DEF S
    <3>2. TasksOK(workQ', S)
      BY <1>1, <3>1, TasksKept
    <3> QED BY <3>2 DEF S
  <2> QED BY <2>1, <2>2 DEF LogInv, FreshOK
<1> QED BY <1>2, <1>3, <1>4, <1>5, <1>7, <1>8 DEF LogInv

\* Nothing was stored.
LEMMA StoresNothing ==
    ASSUME IdsOK, user \in Users, committed' = committed
    PROVE  Stores(0)
<1>1. Len(queue[user]) \in Nat
  BY DEF IdsOK
<1> QED BY <1>1 DEF Stores

LEMMA SettlesAQueue ==
    ASSUME NEW u \in Users, Queue!Settle(u)
    PROVE  QueueStep
BY DEF QueueStep, Queue!QueueNext

LEMMA SubmitsToAQueue ==
    ASSUME NEW u \in Users, NEW w \in Writes, Queue!Submit(u, w)
    PROVE  QueueStep
BY DEF QueueStep, Queue!QueueNext

\* The head of the user's queue leaves it: NotifyUser, the waiters, and
\* RemoveMutationBatch.
LEMMA LogSettled ==
    ASSUME LogInv, LifeTypeOK, queue[user] # <<>>, Settled(Head(queue[user])),
           acked \subseteq acked', dropped \subseteq dropped',
           (acked \cup dropped)' = acked \cup dropped \cup {Head(queue[user]).w},
           acked' \subseteq committed',
           UNCHANGED <<committed, workQ, issued, nextId, user>>
    PROVE  LogInv' /\ QueueStep /\ queue'[user] = Tail(queue[user])
<1> DEFINE q == queue[user]
           t == Tail(q)
           b == Head(q)
<1>1. user \in Users /\ Ordered(q) /\ queue \in [Users -> Seq(Batch)]
  BY DEF LifeTypeOK, LogInv, IdsOK
<1>2. /\ Ordered(t) /\ b = q[1] /\ b \in Batch /\ Len(t) = Len(q) - 1
      /\ \A i \in 1..Len(t) : t[i] = q[i + 1]
      /\ \A i \in 1..Len(q) : i # 1 => i - 1 \in 1..Len(t) /\ t[i - 1] = q[i]
      /\ WritesIn(q) = {b.w} \cup WritesIn(t)
      /\ Without(q, b) = t
      /\ Len(q) \in Nat /\ 1 \in 1..Len(q)
  <2>1. q \in Seq(Batch) /\ q # <<>>
    BY <1>1 DEF Ordered
  <2>2. Len(q) \in Nat /\ 1 \in 1..Len(q)
    BY <2>1
  <2> QED BY <1>1, <2>1, <2>2, OrderedTail, WithoutHead
<1>3. queue' = [queue EXCEPT ![user] = t]
  BY <1>2 DEF Settled
<1>4. /\ callbacks' = {c \in callbacks : <<c.user, c.id>> # <<user, b.id>>}
      /\ waiters' = {x \in waiters : x.upto # b.id}
      /\ waited' = waited \cup UNION {x.writes : x \in waiters \ waiters'}
  BY DEF Settled
<1>5. t \in Seq(Batch) /\ \A i \in 1..Len(q) : q[i].id \in Nat
  BY <1>1, <1>2, BatchFacts DEF Ordered
<1>6. \A i \in 1..Len(q) : i # 1 => b.id < q[i].id
  BY <1>1, <1>2 DEF Ordered
<1>7. b.w \in (acked \cup dropped)' /\ acked \cup dropped \subseteq (acked \cup dropped)'
  OBVIOUS
<1> HIDE DEF q, t, b
<1>8. \A u \in Users : queue'[u] = IF u = user THEN t ELSE queue[u]
  BY <1>1, <1>3 DEF q
<1>9. IdsOK'
  <2>1. \A i \in 1..Len(t) : i + 1 \in 1..Len(q)
    BY <1>2
  <2>2. \A i \in 1..Len(t) : t[i].id < nextId
    BY <1>1, <1>2, <2>1 DEF LogInv, IdsOK, q
  <2> QED BY <1>1, <1>2, <1>3, <1>5, <1>8, <2>2 DEF LogInv, IdsOK
<1>10. CallbacksOK'
  <2> SUFFICES ASSUME NEW c \in callbacks'
               PROVE  /\ c.user \in Users
                      /\ \E i \in 1..Len(queue'[c.user]) :
                            queue'[c.user][i].id = c.id /\ queue'[c.user][i].w = c.w
    BY DEF CallbacksOK
  <2>1. c \in callbacks /\ c.user \in Users /\ <<c.user, c.id>> # <<user, b.id>>
    BY <1>4 DEF LogInv, CallbacksOK
  <2>2. PICK i \in 1..Len(queue[c.user]) :
             queue[c.user][i].id = c.id /\ queue[c.user][i].w = c.w
    BY <2>1 DEF LogInv, CallbacksOK
  <2>3. CASE c.user # user
    BY <2>1, <2>2, <2>3, <1>8
  <2>4. CASE c.user = user
    <3>1. i \in 1..Len(q) /\ i # 1
      BY <2>1, <2>2, <2>4, <1>2 DEF q
    <3>2. i - 1 \in 1..Len(t) /\ t[i - 1] = queue[c.user][i]
      BY <3>1, <2>4, <1>2 DEF q
    <3> QED BY <2>1, <2>2, <2>4, <3>2, <1>8
  <2> QED BY <2>3, <2>4
<1>11. ASSUME NEW x \in waiters, NEW w \in x.writes
       PROVE  \/ w \in (acked \cup dropped)'
              \/ /\ x.upto # b.id
                 /\ \E i \in 1..Len(t) : t[i].w = w /\ t[i].id <= x.upto
  <2>1. CASE w \in acked \cup dropped
    BY <2>1, <1>7
  <2>2. CASE \E i \in 1..Len(q) : q[i].w = w /\ q[i].id <= x.upto
    <3>1. PICK i \in 1..Len(q) : q[i].w = w /\ q[i].id <= x.upto
      BY <2>2
    <3>2. CASE i = 1
      BY <3>1, <3>2, <1>2, <1>7
    <3>3. CASE i # 1
      <4>1. i - 1 \in 1..Len(t) /\ t[i - 1] = q[i] /\ b.id < q[i].id
        BY <3>3, <1>2, <1>6
      <4>2. x.upto # b.id
        <5>1. b.id \in Nat /\ q[i].id \in Nat
          BY <1>2, <1>5
        <5> QED BY <3>1, <4>1, <5>1
      <4> QED BY <3>1, <4>1, <4>2
    <3> QED BY <3>2, <3>3
  <2> QED BY <2>1, <2>2 DEF LogInv, WaitersOK, q
<1>12. WaitersOK'
  BY <1>1, <1>4, <1>8, <1>11 DEF WaitersOK
<1>13. ToldOK'
  <2>1. ASSUME NEW w \in waited' PROVE w \in (acked \cup dropped)'
    <3>1. CASE w \in waited
      BY <3>1, <1>7 DEF LogInv, ToldOK
    <3>2. CASE w \notin waited
      <4>1. PICK x \in waiters : x \notin waiters' /\ w \in x.writes
        BY <3>2, <1>4
      <4>2. x.upto = b.id
        BY <4>1, <1>4
      <4> QED BY <4>1, <4>2, <1>11
    <3> QED BY <3>1, <3>2
  <2> QED BY <2>1 DEF ToldOK
<1>14. FreshOK'
  <2>1. Used' = Used
    <3> DEFINE N == (acked \cup dropped)'
    <3>1. UNION {WritesIn(queue[u]) : u \in Users}
             = {b.w} \cup UNION {WritesIn(queue'[u]) : u \in Users}
      BY <1>1, <1>2, <1>8 DEF q
    <3>2. Used = committed \cup (acked \cup dropped)
                    \cup UNION {WritesIn(queue[u]) : u \in Users}
      BY DEF Used
    <3>3. Used' = committed \cup N \cup UNION {WritesIn(queue'[u]) : u \in Users}
      BY DEF Used
    <3>4. N = acked \cup dropped \cup {b.w}
      BY DEF b, q
    <3> HIDE DEF N
    <3> QED BY <3>1, <3>2, <3>3, <3>4
  <2> QED BY <2>1 DEF LogInv, FreshOK
<1>15. QueueStep
  <2> DEFINE v == [u \in Users |-> [i \in DOMAIN queue[u] |-> queue[u][i].w]]
  <2>1. v = [u \in Users |-> Bare(queue[u])] /\ v' = [u \in Users |-> Bare(queue'[u])]
    BY DEF Bare
  <2>2. Bare(q) # <<>> /\ Bare(t) = Tail(Bare(q)) /\ Head(Bare(q)) = b.w
    <3>1. q # <<>> /\ t = Tail(q) /\ b = Head(q)
      BY DEF q, t, b
    <3> QED BY <1>1, <3>1, BareTail
  <2>3. v[user] = Bare(q)
    BY <1>1, <2>1 DEF q
  <2> HIDE DEF v
  <2>4. v[user] # <<>> /\ v' = [v EXCEPT ![user] = Tail(@)]
    BY <1>1, <1>8, <2>1, <2>2, <2>3
  <2>5. (acked \cup dropped)' = (acked \cup dropped) \cup {Head(v[user])}
    BY <2>2, <2>3 DEF b, q
  <2>6. PICK u \in Users : u = user
    BY <1>1
  <2>7. Queue!Settle(u)
    BY <2>4, <2>5, <2>6 DEF Queue!Settle, v
  <2> QED BY <2>7, SettlesAQueue
<1>16. queue'[user] = t
  BY <1>1, <1>8
<1> QED BY <1>9, <1>10, <1>12, <1>13, <1>14, <1>15, <1>16 DEF LogInv, t, q

\* WriteMutations queues the write at the head of the worker queue.
LEMMA LogSubmit ==
    ASSUME LogInv, LifeTypeOK, workQ # <<>>, IsWrite(Head(workQ)), workQ' = Tail(workQ),
           NEW b, b = [id |-> nextId, w |-> Head(workQ).task, by |-> Head(workQ).by],
           queue' = [queue EXCEPT ![user] = Append(@, b)], nextId' = nextId + 1,
           callbacks' = callbacks \cup {[user |-> user, id |-> b.id, w |-> b.w]},
           UNCHANGED <<waiters, waited, issued, acked, dropped, committed, user>>
    PROVE  LogInv' /\ QueueStep
<1> DEFINE q == queue[user]
           r == Append(q, b)
           S == (1..issued) \ Used
<1>1. /\ user \in Users /\ Ordered(q) /\ queue \in [Users -> Seq(Batch)]
      /\ workQ \in Seq(WorkBlock) /\ nextId \in Nat \ {0}
      /\ \A u \in Users : \A i \in 1..Len(queue[u]) : queue[u][i].id < nextId
  BY DEF LifeTypeOK, LogInv, IdsOK
<1>2. b.w \in S /\ TasksOK(Tail(workQ), S \ {b.w}) /\ b.by \in Users
  <2>1. /\ Head(workQ) \in WorkBlock /\ Head(workQ) = workQ[1] /\ 1 \in 1..Len(workQ)
    BY <1>1
  <2>2. TasksOK(workQ, S)
    BY DEF LogInv, FreshOK
  <2> HIDE DEF S
  <2>3. Head(workQ).task \in S
    BY <2>1, <2>2 DEF TasksOK
  <2>4. Head(workQ).by \in Users
    BY <2>1 DEF WorkBlock, IsWrite
  <2>5. TasksOK(Tail(workQ), S \ {Head(workQ).task})
    BY <1>1, <2>2, TasksTail
  <2> QED BY <2>3, <2>4, <2>5
<1>3. issued \in 0..MaxWrites /\ Used \subseteq 1..issued /\ MaxWrites \in Nat
  BY PipelineAssumption DEF LogInv, FreshOK
<1>4. b \in Batch /\ b.id = nextId
  BY <1>1, <1>2, <1>3 DEF Batch, Writes
<1> HIDE DEF S
<1>5. /\ Ordered(r) /\ WritesIn(r) = WritesIn(q) \cup {b.w}
      /\ q \in Seq(Batch) /\ r \in Seq(Batch) /\ Len(r) = Len(q) + 1 /\ Len(q) \in Nat
      /\ r[Len(q) + 1] = b /\ \A i \in 1..Len(q) : r[i] = q[i]
  <2>1. q \in Seq(Batch) /\ \A i \in 1..Len(q) : q[i].id < b.id
    BY <1>1, <1>4 DEF Ordered
  <2> HIDE DEF q
  <2>2. Ordered(r) /\ WritesIn(r) = WritesIn(q) \cup {b.w}
    BY <1>1, <1>4, <2>1, OrderedAppend
  <2> QED BY <1>4, <2>1, <2>2
<1>6. \A u \in Users : queue'[u] = IF u = user THEN r ELSE queue[u]
  BY <1>1
<1> HIDE DEF q, r
<1>7. \A i \in 1..Len(q) : i \in 1..Len(r)
  BY <1>5
<1>8. IdsOK'
  <2>1. queue' \in [Users -> Seq(Batch)]
    BY <1>1, <1>5 DEF r, q
  <2>2. \A i \in 1..Len(r) : r[i].id < nextId + 1
    <3> TAKE i \in 1..Len(r)
    <3>1. CASE i = Len(q) + 1
      BY <3>1, <1>1, <1>4, <1>5
    <3>2. CASE i # Len(q) + 1
      <4>1. i \in 1..Len(q)
        BY <3>2, <1>5
      <4>2. q[i].id < nextId /\ q[i].id \in Nat
        BY <4>1, <1>1, <1>5, BatchFacts DEF q
      <4> QED BY <4>1, <4>2, <1>1, <1>5
    <3> QED BY <3>1, <3>2
  <2>3. \A u \in Users : \A i \in 1..Len(queue[u]) : queue[u][i].id < nextId + 1
    <3> TAKE u \in Users
    <3> TAKE i \in 1..Len(queue[u])
    <3>1. queue[u][i].id \in Nat /\ queue[u][i].id < nextId
      BY <1>1, BatchFacts
    <3> QED BY <3>1, <1>1
  <2> QED BY <1>1, <1>5, <1>6, <2>1, <2>2, <2>3 DEF LogInv, IdsOK
<1>9. CallbacksOK'
  <2> SUFFICES ASSUME NEW c \in callbacks'
               PROVE  /\ c.user \in Users
                      /\ \E i \in 1..Len(queue'[c.user]) :
                            queue'[c.user][i].id = c.id /\ queue'[c.user][i].w = c.w
    BY DEF CallbacksOK
  <2>1. CASE c \in callbacks
    <3>1. c.user \in Users
      BY <2>1 DEF LogInv, CallbacksOK
    <3>2. PICK i \in 1..Len(queue[c.user]) :
               queue[c.user][i].id = c.id /\ queue[c.user][i].w = c.w
      BY <2>1 DEF LogInv, CallbacksOK
    <3>3. i \in 1..Len(queue'[c.user]) /\ queue'[c.user][i] = queue[c.user][i]
      BY <3>1, <3>2, <1>5, <1>6, <1>7 DEF q
    <3> QED BY <3>1, <3>2, <3>3
  <2>2. CASE c = [user |-> user, id |-> b.id, w |-> b.w]
    <3>1. c.user = user /\ c.id = b.id /\ c.w = b.w
      BY <2>2
    <3> DEFINE n == Len(q) + 1
    <3>2. n \in 1..Len(r) /\ r[n] = b
      BY <1>5
    <3>3. queue'[c.user] = r
      BY <3>1, <1>1, <1>6
    <3> HIDE DEF n
    <3> QED BY <3>1, <3>2, <3>3, <1>1
  <2> QED BY <2>1, <2>2
<1>10. WaitersOK'
  <2>1. ASSUME NEW x \in waiters, NEW w \in x.writes,
               \E i \in 1..Len(q) : q[i].w = w /\ q[i].id <= x.upto
        PROVE  \E i \in 1..Len(r) : r[i].w = w /\ r[i].id <= x.upto
    BY <2>1, <1>5, <1>7
  <2> QED BY <2>1, <1>1, <1>6 DEF LogInv, WaitersOK, q
<1>11. ToldOK'
  BY DEF LogInv, ToldOK
<1>12. FreshOK'
  <2>1. UNION {WritesIn(queue'[u]) : u \in Users}
           = {b.w} \cup UNION {WritesIn(queue[u]) : u \in Users}
    BY <1>1, <1>5, <1>6 DEF q
  <2>2. Used' = Used \cup {b.w}
    BY <2>1 DEF Used
  <2>3. (1..issued) \ Used' = S \ {b.w}
    BY <2>2 DEF S
  <2>4. b.w \in 1..issued
    BY <1>2 DEF S
  <2> QED BY <1>2, <1>3, <2>2, <2>3, <2>4 DEF FreshOK
<1>13. QueueStep
  <2> DEFINE v == [u \in Users |-> [i \in DOMAIN queue[u] |-> queue[u][i].w]]
  <2>1. v = [u \in Users |-> Bare(queue[u])] /\ v' = [u \in Users |-> Bare(queue'[u])]
    BY DEF Bare
  <2>2. Bare(r) = Append(Bare(q), b.w)
    BY <1>4, <1>5, BareAppend DEF r
  <2>3. \A u \in Users : {v[u][i] : i \in DOMAIN v[u]} = WritesIn(queue[u])
    <3> TAKE u \in Users
    <3>1. queue[u] \in Seq(Batch) /\ v[u] = Bare(queue[u])
      BY <1>1, <2>1
    <3> DEFINE o == Bare(queue[u])
    <3>2. DOMAIN o = 1..Len(queue[u]) /\ \A i \in 1..Len(queue[u]) : o[i] = queue[u][i].w
      BY <3>1, BareFacts
    <3>3. v[u] = o
      BY <3>1
    <3> HIDE DEF v, o
    <3> QED BY <3>2, <3>3 DEF WritesIn
  <2> HIDE DEF v
  <2>4. v' = [v EXCEPT ![user] = Append(@, b.w)]
    BY <1>1, <1>6, <2>1, <2>2 DEF q
  <2>5. b.w \notin (acked \cup dropped) \cup committed
    BY <1>2 DEF S, Used
  <2>6. \A u \in Users : b.w \notin {v[u][i] : i \in DOMAIN v[u]}
    BY <1>2, <2>3 DEF S, Used
  <2>7. b.w \in Writes
    BY <1>4, BatchFacts
  <2>8. PICK u \in Users : u = user
    BY <1>1
  <2>9. PICK w \in Writes : w = b.w
    BY <2>7
  <2>10. Queue!Submit(u, w)
    BY <2>4, <2>5, <2>6, <2>8, <2>9 DEF Queue!Submit, Queue!Queued, v
  <2> QED BY <2>10, SubmitsToAQueue
<1> QED BY <1>8, <1>9, <1>10, <1>11, <1>12, <1>13 DEF LogInv

----------------------------------------------------------------------------
(* The steps, one by one.                                                  *)

WriteKept == SideOK' /\ AnswersOK' /\ LogInv' /\ QueueStep

LEMMA WriteFacts ==
    ASSUME WriteInv
    PROVE  /\ PipeInv /\ PipeOnly /\ LifeTypeOK /\ LogInv /\ IdsOK /\ SideOK /\ AnswersOK
           /\ user \in Users /\ net \in BOOLEAN /\ stream \in StreamRec
           /\ workQ \in Seq(WorkBlock) /\ authUser \in Users
           /\ Ordered(queue[user]) /\ queue[user] \in Seq(Batch)
           /\ pipe \in Seq(Batch) /\ Starts(pipe, queue[user]) /\ Len(pipe) <= Limit
           /\ Good(Side, queue[user])
<1>1. /\ PipeInv /\ PipeOnly /\ LifeTypeOK /\ LogInv /\ IdsOK /\ SideOK /\ AnswersOK
      /\ user \in Users /\ net \in BOOLEAN /\ stream \in StreamRec
      /\ workQ \in Seq(WorkBlock) /\ authUser \in Users
  BY DEF WriteInv, PipeInv, LifeInv, LifeTypeOK, LogInv
<1>2. Ordered(queue[user]) /\ queue[user] \in Seq(Batch)
  BY <1>1 DEF IdsOK
<1>3. pipe \in Seq(Batch) /\ Starts(pipe, queue[user]) /\ Len(pipe) <= Limit
  BY <1>1, SideFacts DEF SideOK, Good
<1> QED BY <1>1, <1>2, <1>3 DEF SideOK

\* The write side becomes rs, which fits the queue it then serves.
LEMMA SideStep ==
    ASSUME WriteInv, NEW rs, Takes(rs), NEW q, Good(rs, q), queue'[user'] = q,
           committed \subseteq committed',
           \/ rs.wire.acks \in {wire.acks, <<>>}
           \/ wire.acks # <<>> /\ rs.wire.acks = Tail(wire.acks)
    PROVE  SideOK' /\ AnswersOK'
<1>1. /\ stream' = rs.stream /\ pipe' = rs.pipe /\ shook' = rs.shook /\ wire' = rs.wire
      /\ idle' = rs.idle
  BY DEF Takes, Becomes
<1>2. /\ Side'.stream = stream' /\ Side'.pipe = pipe' /\ Side'.shook = shook'
      /\ Side'.wire = wire' /\ Side'.idle = idle'
  BY MadeSide, MadeIdle DEF Side
<1>3. SideOK'
  BY <1>1, <1>2 DEF SideOK, Good
<1>4. AnswersOK'
  <2>1. CASE rs.wire.acks = wire.acks
    BY <2>1, <1>1, WriteFacts DEF AnswersOK
  <2>2. CASE rs.wire.acks = <<>>
    BY <2>2, <1>1 DEF AnswersOK
  <2>3. CASE wire.acks # <<>> /\ rs.wire.acks = Tail(wire.acks)
    <3>1. PICK S : wire.acks \in Seq(S)
      BY <2>3, WriteFacts, AnswerOfCall
    <3> DEFINE a == wire.acks
    <3>2. a \in Seq(S) /\ a # <<>> /\ wire'.acks = Tail(a)
      BY <2>3, <3>1, <1>1
    <3>3. \A i \in 1..Len(a) : a[i] # Hello => a[i].w \in committed
      BY WriteFacts DEF AnswersOK
    <3> HIDE DEF a
    <3>4. /\ Len(Tail(a)) = Len(a) - 1 /\ Len(a) \in Nat
          /\ \A i \in 1..Len(a) - 1 : Tail(a)[i] = a[i + 1] /\ i + 1 \in 1..Len(a)
      BY <3>2
    <3> QED BY <3>2, <3>3, <3>4 DEF AnswersOK
  <2> QED BY <2>1, <2>2, <2>3
<1> QED BY <1>3, <1>4

\* A step of Auth or of the main queue.
LEMMA LifeKept ==
    ASSUME WriteInv, UNCHANGED <<ownerVars, stream, user>>, NoNewTask
    PROVE  WriteKept
<1>1. Side' = Side
  BY DEF Side, ownerVars
<1>2. SideOK' /\ AnswersOK'
  BY <1>1, WriteFacts DEF SideOK, AnswersOK, Good, ownerVars
<1>3. /\ Stores(0) /\ UNCHANGED <<queue, acked, dropped, waited, issued>>
      /\ UNCHANGED <<callbacks, waiters, nextId, user>>
  BY WriteFacts, StoresNothing DEF ownerVars
<1>4. LogInv' /\ QueueStep
  BY <1>3, WriteFacts, LogKept
<1> QED BY <1>2, <1>4 DEF WriteKept

\* A step of the stream alone.
LEMMA SideOnly ==
    ASSUME WriteInv, NEW rs, Takes(rs), Good(rs, queue[user]), NoNewTask,
           rs.wire.acks \in {wire.acks, <<>>},
           UNCHANGED <<queue, acked, dropped, waited, issued>>,
           UNCHANGED <<callbacks, waiters, nextId, user>>, NEW m, Stores(m)
    PROVE  WriteKept
<1>1. committed \subseteq committed'
  BY DEF Stores
<1> DEFINE q == queue[user]
<1>2. Good(rs, q) /\ queue'[user'] = q
  OBVIOUS
<1> HIDE DEF q
<1>3. SideOK' /\ AnswersOK'
  BY <1>1, <1>2, SideStep
<1>4. LogInv' /\ QueueStep
  BY WriteFacts, LogKept
<1> QED BY <1>3, <1>4 DEF WriteKept

\* While the handshake is answered, the call holds the beginning of the queue.
LEMMA CallFacts ==
    ASSUME WriteInv, shook
    PROVE  LET q == queue[user]
               k == Len(wire.acks)
               n == Len(wire.sent) IN
           /\ k \in Nat /\ n \in Nat /\ k + n = Len(pipe) /\ k + n <= Len(q)
           /\ \A i \in 1..k : /\ wire.acks[i] = q[i] /\ wire.acks[i] # Hello
                              /\ q[i].w \in committed
           /\ \A i \in 1..n : wire.sent[i] = q[k + i] /\ q[k + i].w # 0
           /\ \E S : wire.sent \in Seq(S) /\ wire.acks \in Seq(S)
           /\ wire.acks \o wire.sent = pipe
<1> DEFINE q == queue[user]
           a == wire.acks
           s == wire.sent
<1>1. IsOpen(stream) /\ a \o s = pipe /\ \E S : s \in Seq(S) /\ a \in Seq(S)
  BY WriteFacts, SideFacts DEF PipeOnly, Fits
<1>2. PICK S : s \in Seq(S) /\ a \in Seq(S)
  BY <1>1
<1>3. /\ q \in Seq(Batch) /\ pipe \in Seq(Batch) /\ Len(pipe) <= Len(q) /\ Len(q) \in Nat
      /\ \A i \in 1..Len(pipe) : pipe[i] = q[i]
  BY WriteFacts DEF Starts
<1>4. \A i \in 1..Len(a) : a[i] # Hello => a[i].w \in committed
  BY WriteFacts DEF AnswersOK
<1> HIDE DEF q, a, s
<1>5. /\ Len(a) \in Nat /\ Len(s) \in Nat /\ Len(a) + Len(s) = Len(pipe)
      /\ \A i \in 1..Len(a) : a[i] = pipe[i] /\ i \in 1..Len(pipe)
      /\ \A i \in 1..Len(s) : s[i] = pipe[Len(a) + i] /\ Len(a) + i \in 1..Len(pipe)
  <2> DEFINE c == a \o s
  <2>1. /\ Len(a) \in Nat /\ Len(s) \in Nat /\ Len(c) = Len(a) + Len(s)
        /\ \A i \in 1..Len(a) : c[i] = a[i]
        /\ \A i \in 1..Len(s) : c[Len(a) + i] = s[i]
    BY <1>2
  <2>2. c = pipe
    BY <1>1
  <2> HIDE DEF c
  <2> QED BY <2>1, <2>2
<1>6. \A i \in 1..Len(pipe) : q[i] \in Batch /\ pipe[i] = q[i] /\ q[i].w # 0 /\ q[i] # Hello
  BY <1>3, BatchFacts
<1>7. \A i \in 1..Len(a) : a[i] = q[i] /\ a[i] # Hello /\ q[i].w \in committed
  BY <1>4, <1>5, <1>6
<1>8. \A i \in 1..Len(s) : s[i] = q[Len(a) + i] /\ q[Len(a) + i].w # 0
  BY <1>5, <1>6
<1> QED BY <1>1, <1>2, <1>3, <1>5, <1>7, <1>8 DEF q, a, s

\* What the backend stores of a call is the beginning of the queue.
LEMMA StoredOfCall ==
    ASSUME WriteInv, shook, NEW n \in 0..Len(wire.sent),
           committed' = committed \cup {wire.sent[i].w : i \in 1..n}
    PROVE  Stores(Len(wire.acks) + n)
<1> DEFINE q == queue[user]
           k == Len(wire.acks)
           s == wire.sent
<1>1. /\ k \in Nat /\ Len(s) \in Nat /\ k + Len(s) <= Len(q)
      /\ \A i \in 1..k : q[i].w \in committed
      /\ \A i \in 1..Len(s) : s[i] = q[k + i]
  BY CallFacts
<1>2. Len(q) \in Nat /\ n \in Nat /\ n <= Len(s)
  <2>1. q \in Seq(Batch)
    BY WriteFacts
  <2> HIDE DEF q
  <2> QED BY <1>1, <2>1
<1>3. committed' = committed \cup {s[i].w : i \in 1..n}
  OBVIOUS
<1> HIDE DEF q, k, s
<1>4. ASSUME NEW i \in 1..k + n
      PROVE  q[i].w \in committed \cup {s[j].w : j \in 1..n}
  <2>1. CASE i <= k
    BY <2>1, <1>1
  <2>2. CASE i > k
    <3> DEFINE j == i - k
    <3>1. j \in 1..n /\ j \in 1..Len(s) /\ k + j = i
      BY <2>2, <1>1, <1>2
    <3> HIDE DEF j
    <3>2. q[i].w = s[j].w
      BY <3>1, <1>1
    <3> QED BY <3>1, <3>2
  <2> QED BY <2>1, <2>2, <1>1, <1>2
<1>5. ASSUME NEW i \in 1..n
      PROVE  s[i].w \in {q[j].w : j \in 1..k + n}
  <2> DEFINE j == k + i
  <2>1. i \in 1..Len(s) /\ j \in 1..k + n
    BY <1>1, <1>2
  <2>2. s[i] = q[j]
    BY <2>1, <1>1
  <2> HIDE DEF j
  <2> QED BY <2>1, <2>2
<1>6. committed' = committed \cup {q[i].w : i \in 1..k + n}
  BY <1>3, <1>4, <1>5
<1>7. k + n \in 0..Len(q)
  BY <1>1, <1>2
<1> QED BY <1>6, <1>7 DEF Stores, q, k

LEMMA CutOffStores ==
    ASSUME WriteInv, CutOff
    PROVE  \E m : Stores(m)
<1>1. PICK n \in IF shook /\ ~wire.refused THEN 0..Len(wire.sent) ELSE {0} :
           committed' = committed \cup WritesOf(SubSeq(wire.sent, 1, n))
  BY DEF CutOff
<1>2. CASE n = 0
  <2>1. SubSeq(wire.sent, 1, n) = <<>>
    BY <1>2, SubSeqEmpty
  <2>2. WritesOf(<<>>) = {}
    BY DEF WritesOf
  <2> QED BY <1>1, <2>1, <2>2, WriteFacts, StoresNothing
<1>3. CASE n # 0
  <2>1. shook /\ n \in 1..Len(wire.sent)
    BY <1>1, <1>3
  <2>2. PICK S : wire.sent \in Seq(S)
    BY <2>1, CallFacts
  <2> DEFINE t == SubSeq(wire.sent, 1, n)
  <2>3. Len(wire.sent) \in Nat /\ n \in 0..Len(wire.sent)
    BY <2>1, CallFacts
  <2>4. DOMAIN t = 1..n /\ \A i \in 1..n : t[i] = wire.sent[i] /\ i \in 1..Len(wire.sent)
    BY <2>1, <2>2, <2>3
  <2> HIDE DEF t
  <2>5. \A i \in 1..n : t[i].w # 0
    BY <2>1, <2>4, CallFacts
  <2>6. WritesOf(t) = {wire.sent[i].w : i \in 1..n}
    <3>1. Hello.w = 0
      BY DEF Hello
    <3> QED BY <2>4, <2>5, <3>1 DEF WritesOf
  <2> QED BY <1>1, <2>1, <2>3, <2>6, StoredOfCall DEF t
<1> QED BY <1>2, <1>3

\* The head of the worker queue, which is no write, is done.
LEMMA TaskDone ==
    ASSUME NEW kind, Next1(workQ, kind), workQ' = Tail(workQ)
    PROVE  NoNewTask
BY DEF NoNewTask, Next1

LEMMA AppWritesKept ==
    ASSUME WriteInv, AppWrites
    PROVE  WriteKept
<1> DEFINE b == [kind |-> "task", by |-> current, task |-> issued + 1]
           S == (1..issued) \ Used
<1>1. /\ workQ' = Append(workQ, b) /\ issued' = issued + 1 /\ issued < MaxWrites
      /\ UNCHANGED <<queue, nextId, pipe, shook, idle, wire, callbacks, waiters,
                     waited, committed, acked, dropped, stream, user>>
  BY DEF AppWrites, AppEnqueues
<1>2. Side' = Side
  BY <1>1 DEF Side
<1>3. SideOK' /\ AnswersOK'
  BY <1>1, <1>2, WriteFacts DEF SideOK, AnswersOK, Good
<1>4. IdsOK' /\ CallbacksOK' /\ WaitersOK' /\ ToldOK'
  BY <1>1, WriteFacts DEF LogInv, IdsOK, CallbacksOK, WaitersOK, ToldOK
<1>5. /\ issued \in 0..MaxWrites /\ MaxWrites \in Nat /\ Used \subseteq 1..issued
      /\ TasksOK(workQ, S) /\ workQ \in Seq(WorkBlock)
  BY WriteFacts, PipelineAssumption DEF LogInv, FreshOK
<1>6. Used' = Used
  BY <1>1 DEF Used
<1>7. b.task = issued + 1 /\ b.task \notin S /\ S \cup {b.task} = (1..issued + 1) \ Used
  BY <1>5
<1>8. TasksOK(workQ', S \cup {b.task})
  <2> HIDE DEF S, b
  <2> QED BY <1>1, <1>5, <1>7, TasksAppend
<1>9. FreshOK'
  <2>1. issued' \in 0..MaxWrites /\ Used' \subseteq 1..issued'
    BY <1>1, <1>5, <1>6
  <2>2. S \cup {b.task} = (1..issued') \ Used'
    BY <1>1, <1>6, <1>7
  <2> HIDE DEF S, b
  <2> QED BY <2>1, <2>2, <1>8 DEF FreshOK
<1>10. QueueStep
  BY <1>1 DEF QueueStep, Queue!queueVars
<1> QED BY <1>3, <1>4, <1>9, <1>10 DEF WriteKept, LogInv

LEMMA WriteMutationsKept ==
    ASSUME WriteInv, WriteMutations
    PROVE  WriteKept
<1> DEFINE b  == [id |-> nextId, w |-> Head(workQ).task, by |-> Head(workQ).by]
           q  == Append(queue[user], b)
           rs == FillWritePipeline(Side, q, net)
<1>1. /\ workQ # <<>> /\ IsWrite(Head(workQ)) /\ workQ' = Tail(workQ)
      /\ queue' = [queue EXCEPT ![user] = Append(@, b)] /\ nextId' = nextId + 1
      /\ callbacks' = callbacks \cup {[user |-> user, id |-> b.id, w |-> b.w]}
      /\ UNCHANGED <<waiters, waited, issued, acked, dropped, committed, user>>
      /\ Takes(FillWritePipeline(Side, queue'[user], net))
  BY DEF WriteMutations, Next1, IsWrite
<1>2. LogInv' /\ QueueStep
  BY <1>1, WriteFacts, LogSubmit
<1>3. queue'[user'] = q
  BY <1>1, WriteFacts DEF IdsOK
<1>4. Ordered(q)
  BY <1>1, <1>2, <1>3, WriteFacts DEF LogInv, IdsOK
<1>5. Starts(pipe, q)
  <2> DEFINE o == queue[user]
  <2>1. /\ o \in Seq(Batch) /\ Len(o) \in Nat /\ Len(pipe) <= Len(o) /\ Len(pipe) \in Nat
        /\ \A i \in 1..Len(pipe) : pipe[i] = o[i]
    BY WriteFacts DEF Starts
  <2> HIDE DEF o, b
  <2>2. Len(Append(o, b)) = Len(o) + 1 /\ \A i \in 1..Len(o) : Append(o, b)[i] = o[i]
    BY <2>1
  <2> QED BY <2>1, <2>2 DEF Starts, o
<1>6. Good(Side, q)
  BY <1>5, WriteFacts, SideFacts DEF Good
<1> HIDE DEF b, q
<1>7. Good(rs, q) /\ rs.wire.acks = wire.acks
  BY <1>4, <1>6, WriteFacts, SideFacts, FillGood
<1>8. Takes(rs)
  BY <1>1, <1>3
<1> HIDE DEF rs
<1>9. SideOK' /\ AnswersOK'
  BY <1>1, <1>3, <1>7, <1>8, SideStep
<1> QED BY <1>2, <1>9 DEF WriteKept

LEMMA RegisterKept ==
    ASSUME WriteInv, RegisterPendingWritesCallback
    PROVE  WriteKept
<1> DEFINE q == queue[user]
           x == [upto |-> LastId(q), writes |-> WritesOf(q)]
<1>1. /\ NoNewTask /\ waiters' \subseteq waiters \cup {x}
      /\ UNCHANGED <<queue, nextId, pipe, shook, idle, wire, callbacks,
                     waited, issued, committed, acked, dropped, stream, user>>
  BY TaskDone DEF RegisterPendingWritesCallback
<1>2. Side' = Side
  BY <1>1 DEF Side
<1>3. SideOK' /\ AnswersOK'
  BY <1>1, <1>2, WriteFacts DEF SideOK, AnswersOK, Good
<1>4. IdsOK' /\ CallbacksOK' /\ ToldOK'
  BY <1>1, WriteFacts DEF LogInv, IdsOK, CallbacksOK, ToldOK
<1>5. ASSUME NEW w \in WritesOf(q)
      PROVE  \E i \in 1..Len(q) : q[i].w = w /\ q[i].id <= LastId(q)
  <2>1. Ordered(q) /\ q \in Seq(Batch)
    BY WriteFacts
  <2> HIDE DEF q
  <2>2. /\ DOMAIN q = 1..Len(q) /\ Len(q) \in Nat
        /\ \A i \in 1..Len(q) : q[i].id \in Nat
    BY <2>1, BatchFacts
  <2>3. PICK i \in 1..Len(q) : q[i].w = w
    BY <2>2, <1>5 DEF WritesOf
  <2>4. LastId(q) = q[Len(q)].id /\ Len(q) \in 1..Len(q)
    BY <2>2, <2>3 DEF LastId, Last
  <2>5. q[i].id <= LastId(q)
    BY <2>1, <2>2, <2>3, <2>4 DEF Ordered
  <2> QED BY <2>3, <2>5
<1>6. x.upto = LastId(q) /\ x.writes = WritesOf(q)
  OBVIOUS
<1> HIDE DEF x
<1>7. WaitersOK'
  BY <1>1, <1>5, <1>6, WriteFacts DEF LogInv, WaitersOK
<1>8. FreshOK'
  <2> DEFINE S == (1..issued) \ Used
  <2>1. Used' = Used
    BY <1>1 DEF Used
  <2>2. TasksOK(workQ, S)
    BY WriteFacts DEF LogInv, FreshOK
  <2>3. TasksOK(workQ', S)
    <3> HIDE DEF S
    <3> QED BY <1>1, <2>2, WriteFacts, TasksKept
  <2> QED BY <1>1, <2>1, <2>3, WriteFacts DEF LogInv, FreshOK
<1>9. QueueStep
  BY <1>1 DEF QueueStep, Queue!queueVars
<1> QED BY <1>3, <1>4, <1>7, <1>8, <1>9 DEF WriteKept, LogInv

LEMMA CredentialKept ==
    ASSUME WriteInv, HandleCredentialChange
    PROVE  WriteKept
<1> DEFINE u  == Head(workQ).user
           q  == queue[u]
           rs == RestartNetwork(Side, q)
<1>1. /\ user' = u /\ NoNewTask
      /\ UNCHANGED <<queue, callbacks, waited, issued, acked, dropped>>
      /\ waiters' \subseteq waiters /\ (waiters' = {} \/ user' = user)
      /\ nextId' \in {nextId, NextBatchIdFromDb(queue)}
      /\ Next1(workQ, "credential")
  BY TaskDone DEF HandleCredentialChange
<1>2. u \in Users
  <2>1. Head(workQ) \in WorkBlock /\ Head(workQ).kind = "credential"
    BY <1>1, WriteFacts DEF Next1
  <2> QED BY <2>1 DEF WorkBlock
<1>3. queue'[user'] = q /\ Ordered(q)
  BY <1>1, <1>2, WriteFacts DEF IdsOK
<1> HIDE DEF u, q
<1>4. CASE net
  <2>1. Takes(rs) /\ CutOff
    BY <1>4 DEF HandleCredentialChange, u, q
  <2>2. PICK m : Stores(m)
    BY <2>1, CutOffStores
  <2>3. Good(rs, q)
    BY <1>3, WriteFacts, SideFacts, RestartGood
  <2>4. rs.wire.acks = <<>>
    BY WriteFacts, SideFacts, RestartNoCall DEF PipeOnly
  <2> HIDE DEF rs
  <2>5. committed \subseteq committed'
    BY <2>2 DEF Stores
  <2>6. SideOK' /\ AnswersOK'
    BY <1>3, <2>1, <2>3, <2>4, <2>5, SideStep
  <2>7. LogInv' /\ QueueStep
    BY <1>1, <2>2, WriteFacts, LogKept
  <2> QED BY <2>6, <2>7 DEF WriteKept
<1>5. CASE ~net
  <2>1. Takes(Side) /\ committed' = committed
    BY <1>5 DEF HandleCredentialChange
  <2>2. pipe = <<>>
    BY <1>5, WriteFacts DEF PipeOnly
  <2>3. Good(Side, q)
    BY <1>3, <2>2, WriteFacts, SideFacts, NothingStarts DEF Good
  <2>4. SideOK' /\ AnswersOK'
    BY <1>3, <2>1, <2>3, SideFacts, SideStep
  <2>5. LogInv' /\ QueueStep
    BY <1>1, <2>1, WriteFacts, StoresNothing, LogKept
  <2> QED BY <2>4, <2>5 DEF WriteKept
<1> QED BY <1>4, <1>5

LEMMA ResumeKept ==
    ASSUME WriteInv, ResumeStart
    PROVE  WriteKept
<1> DEFINE r    == Head(workQ)
           q    == queue[user]
           no   == FALSE
           open == WriteSide(Opened(stream, r.user), pipe, shook, idle, Call)
           shut == CloseWith(Side, q, net, no)
<1>1. /\ NoNewTask /\ Next1(workQ, "resume") /\ committed' = committed
      /\ UNCHANGED <<queue, acked, dropped, waited, issued>>
      /\ UNCHANGED <<callbacks, waiters, nextId, user>>
  BY TaskDone DEF ResumeStart
<1>2. Stores(0)
  BY <1>1, WriteFacts, StoresNothing
<1>3. CASE r.closes # stream.closes
  <2>1. Takes(Side)
    BY <1>3 DEF ResumeStart
  <2> QED BY <2>1, <1>1, <1>2, WriteFacts, SideFacts, SideOnly
<1>4. CASE r.closes = stream.closes /\ r.ok
  <2>1. Takes(open)
    BY <1>4 DEF ResumeStart
  <2>2. stream.st = "Starting"
    BY <1>1, <1>4, WriteFacts, HeadToken DEF ResumeFindsStarting, PipeInv
  <2>3. ~shook /\ pipe # <<>> /\ ~idle
    <3>1. ~IsOpen(stream) /\ IsStarted(stream)
      BY <2>2 DEF IsOpen, IsStarted
    <3>2. ~shook
      BY <3>1, WriteFacts, SideFacts DEF PipeOnly, Fits
    <3>3. Side.idle = idle
      BY MadeIdle DEF Side
    <3> QED BY <3>1, <3>2, <3>3, WriteFacts, SideFacts DEF Good
  <2>4. /\ open.stream = Opened(stream, r.user) /\ open.pipe = pipe /\ open.idle = idle
        /\ open.shook = shook /\ open.wire = Call
    BY MadeSide, MadeIdle
  <2>5. Side.idle = idle
    BY MadeIdle DEF Side
  <2>6. Call.acks = <<>> /\ Call.refused \in BOOLEAN
    BY DEF Call, Wire
  <2> HIDE DEF open
  <2>7. Good(open, q)
    BY <2>3, <2>4, <2>5, <2>6, WriteFacts, SideFacts DEF Good
  <2> QED BY <2>1, <2>4, <2>6, <2>7, <1>1, <1>2, SideOnly
<1>5. CASE r.closes = stream.closes /\ ~r.ok
  <2>1. Takes(shut)
    BY <1>5 DEF ResumeStart
  <2>2. LeftBy(Side, q, no) = q /\ no \in BOOLEAN
    BY DEF LeftBy, Rejects
  <2> HIDE DEF no, q
  <2>3. Ordered(q) /\ Good(Side, q)
    BY WriteFacts DEF q
  <2>4. Good(shut, q) /\ shut.wire.acks = <<>>
    BY <2>2, <2>3, WriteFacts, SideFacts, CloseGood
  <2> HIDE DEF shut
  <2> QED BY <2>1, <2>4, <1>1, <1>2, SideOnly DEF q
<1> QED BY <1>3, <1>4, <1>5

LEMMA HandshakeKept ==
    ASSUME WriteInv, HandshakeComplete
    PROVE  WriteKept
<1> DEFINE yes == TRUE
           q   == queue[user]
           c   == Send(AckRead, pipe)
           rs  == WriteSide(stream, pipe, yes, idle, c)
<1>1. /\ wire.acks # <<>> /\ ~shook /\ Takes(rs)
      /\ committed' = committed /\ NoNewTask
      /\ UNCHANGED <<queue, acked, dropped, waited, issued>>
      /\ UNCHANGED <<callbacks, waiters, nextId, user>>
  BY DEF HandshakeComplete, NoNewTask
<1>2. wire.acks \o wire.sent = <<Hello>>
  BY <1>1, WriteFacts, AnswerOfCall
<1>3. PICK S : wire.sent \in Seq(S) /\ wire.acks \in Seq(S)
  BY <1>1, WriteFacts, AnswerOfCall
<1>4. Tail(wire.acks) = <<>>
  BY <1>1, <1>2, <1>3, OnlyAnswer
<1>5. c.acks = <<>> /\ c.refused = wire.refused
  BY <1>4 DEF Send, AckRead, Wire
<1>6. /\ ~idle /\ idle \in BOOLEAN /\ wire.refused \in BOOLEAN /\ Side.idle = idle
  BY <1>1, WriteFacts, SideFacts, MadeIdle DEF Good, Side
<1>7. yes /\ yes \in BOOLEAN
  OBVIOUS
<1> HIDE DEF c, yes, q
<1>8. /\ rs.stream = stream /\ rs.pipe = pipe /\ rs.shook = yes /\ rs.wire = c
      /\ rs.idle = idle
  BY MadeSide, MadeIdle
<1> HIDE DEF rs
<1>9. Good(rs, q)
  BY <1>5, <1>6, <1>7, <1>8, WriteFacts, SideFacts DEF Good, q
<1>10. Stores(0)
  BY <1>1, WriteFacts, StoresNothing
<1> QED BY <1>1, <1>5, <1>8, <1>9, <1>10, SideOnly DEF q

\* The head of the pipeline, that of its queue, and what is left of both.
LEMMA HeadFacts ==
    ASSUME WriteInv, pipe # <<>>
    PROVE  /\ queue[user] # <<>> /\ Head(pipe) = Head(queue[user]) /\ Head(pipe) \in Batch
           /\ Tail(pipe) \in Seq(Batch) /\ Len(Tail(pipe)) <= Limit
           /\ Starts(Tail(pipe), Tail(queue[user])) /\ Ordered(Tail(queue[user]))
           /\ Without(queue[user], Head(pipe)) = Tail(queue[user])
<1> DEFINE q == queue[user]
<1>1. /\ Ordered(q) /\ pipe \in Seq(Batch) /\ Starts(pipe, q) /\ Len(pipe) <= Limit
      /\ Limit \in Nat
  BY WriteFacts, PipelineAssumption
<1> HIDE DEF q
<1>2. /\ q # <<>> /\ Head(pipe) = Head(q) /\ Head(pipe) \in Batch
      /\ Tail(pipe) \in Seq(Batch) /\ Len(Tail(pipe)) < Len(pipe)
      /\ Starts(Tail(pipe), Tail(q))
  BY <1>1, StartsTail
<1>3. Len(Tail(pipe)) <= Limit
  <2>1. Len(Tail(pipe)) \in Nat /\ Len(pipe) \in Nat
    BY <1>1, <1>2
  <2> QED BY <2>1, <1>1, <1>2
<1>4. Ordered(Tail(q)) /\ Without(q, Head(q)) = Tail(q)
  BY <1>1, <1>2, OrderedTail, WithoutHead
<1> QED BY <1>2, <1>3, <1>4 DEF q

LEMMA ResultKept ==
    ASSUME WriteInv, MutationResult
    PROVE  WriteKept
<1> DEFINE rest  == Tail(pipe)
           q     == Tail(queue[user])
           fresh == WriteSide(stream, rest, shook, idle, AckRead)
           rs    == FillWritePipeline(fresh, q, net)
<1>1. /\ wire.acks # <<>> /\ shook /\ Settled(Head(pipe))
      /\ Takes(FillWritePipeline(fresh, queue'[user], net))
      /\ acked' = acked \cup {Head(pipe).w}
      /\ UNCHANGED <<committed, workQ, issued, nextId, user>> /\ dropped' = dropped
  BY DEF MutationResult
<1>2. pipe # <<>> /\ Head(pipe).w \in committed
  <2>1. PICK S : wire.sent \in Seq(S) /\ wire.acks \in Seq(S)
    BY <1>1, WriteFacts, AnswerOfCall
  <2>2. wire.acks \o wire.sent = pipe
    BY <1>1, CallFacts
  <2>3. pipe # <<>>
    BY <1>1, <2>1, <2>2, TailOfAnswers
  <2>4. 1 \in 1..Len(wire.acks)
    BY <1>1, <2>1
  <2>5. queue[user][1].w \in committed
    BY <1>1, <2>4, CallFacts
  <2>6. queue[user] \in Seq(Batch) /\ queue[user] # <<>>
    BY <2>3, WriteFacts, HeadFacts
  <2>7. Head(queue[user]) = queue[user][1]
    BY <2>6
  <2> QED BY <2>3, <2>5, <2>7, HeadFacts
<1>3. /\ queue[user] # <<>> /\ Head(pipe) = Head(queue[user])
      /\ rest \in Seq(Batch) /\ Len(rest) <= Limit /\ Starts(rest, q) /\ Ordered(q)
  BY <1>2, HeadFacts
<1>4. acked \subseteq committed
  BY WriteFacts DEF LogInv, ToldOK
<1>5. LogInv' /\ QueueStep /\ queue'[user] = q
  BY <1>1, <1>2, <1>3, <1>4, WriteFacts, LogSettled
<1>6. Takes(rs) /\ queue'[user'] = q
  BY <1>1, <1>5
<1>7. ~idle /\ idle \in BOOLEAN /\ shook \in BOOLEAN /\ wire.refused \in BOOLEAN
  BY <1>2, WriteFacts, SideFacts, MadeIdle DEF Good, Side
<1>8. AckRead.acks = Tail(wire.acks) /\ AckRead.refused = wire.refused
  BY DEF AckRead, Wire
<1> HIDE DEF rest, q
<1>9. /\ IsSide(fresh) /\ fresh.stream = stream /\ fresh.pipe = rest
      /\ fresh.shook = shook /\ fresh.wire = AckRead /\ fresh.idle = idle
  BY MadeSide, MadeIdle
<1> HIDE DEF fresh
<1>10. Good(fresh, q)
  BY <1>1, <1>3, <1>7, <1>8, <1>9 DEF Good
<1>11. Good(rs, q) /\ rs.wire.acks = Tail(wire.acks)
  BY <1>3, <1>8, <1>9, <1>10, WriteFacts, FillGood
<1> HIDE DEF rs
<1>12. SideOK' /\ AnswersOK'
  BY <1>1, <1>6, <1>11, SideStep
<1> QED BY <1>5, <1>12 DEF WriteKept

LEMMA BreaksKept ==
    ASSUME WriteInv, Breaks
    PROVE  WriteKept
<1> DEFINE no == FALSE
           q  == queue[user]
           rs == CloseWith(Side, q, net, no)
<1>1. Rejects(Side, no) = <<>> /\ LeftBy(Side, q, no) = q /\ no \in BOOLEAN
  BY DEF Rejects, LeftBy
<1>2. /\ CutOff /\ Takes(rs) /\ NoNewTask
      /\ UNCHANGED <<queue, acked, dropped, waited, issued>>
      /\ UNCHANGED <<callbacks, waiters, nextId, user>>
  BY <1>1 DEF Breaks, StreamFinish, NoNewTask
<1>3. PICK m : Stores(m)
  BY <1>2, CutOffStores
<1> HIDE DEF no, q
<1>4. Ordered(q) /\ Good(Side, q)
  BY WriteFacts DEF q
<1>5. Good(rs, q) /\ rs.wire.acks = <<>>
  BY <1>1, <1>4, WriteFacts, SideFacts, CloseGood
<1> HIDE DEF rs
<1> QED BY <1>2, <1>3, <1>5, SideOnly DEF q

LEMMA RefusalKept ==
    ASSUME WriteInv, ReadsRefusal
    PROVE  WriteKept
<1> DEFINE yes == TRUE
           q   == queue[user]
           r   == LeftBy(Side, q, yes)
           rs  == CloseWith(Side, q, net, yes)
<1>1. /\ Takes(rs) /\ NoNewTask
      /\ UNCHANGED <<committed, workQ, acked, issued, nextId, user>>
  BY DEF ReadsRefusal, StreamFinish, NoNewTask
<1>2. yes \in BOOLEAN
  OBVIOUS
<1>3. LogInv' /\ QueueStep /\ queue'[user'] = r
  <2>1. CASE Rejects(Side, yes) = <<>>
    <3>1. UNCHANGED <<queue, callbacks, waiters, waited, dropped>> /\ r = q
      BY <2>1 DEF ReadsRefusal, StreamFinish, LeftBy
    <3>2. Stores(0)
      BY <1>1, WriteFacts, StoresNothing
    <3> QED BY <1>1, <3>1, <3>2, WriteFacts, LogKept
  <2>2. CASE Rejects(Side, yes) # <<>>
    <3>1. pipe # <<>> /\ Rejects(Side, yes) = <<Head(pipe)>>
      BY <2>2, SideFacts DEF Rejects
    <3>2. Head(Rejects(Side, yes)) = Head(pipe)
      <4> DEFINE h == Head(pipe)
                 l == Rejects(Side, yes)
      <4>1. l = <<h>>
        BY <3>1
      <4> HIDE DEF h, l
      <4>2. Head(l) = h
        BY <4>1
      <4> QED BY <4>2 DEF h, l
    <3>3. Settled(Head(pipe)) /\ dropped' = dropped \cup {Head(pipe).w}
      BY <2>2, <3>2 DEF ReadsRefusal, StreamFinish
    <3>4. r = Without(q, Head(pipe))
      BY <2>2, SideFacts DEF LeftBy
    <3>5. queue[user] # <<>> /\ Head(pipe) = Head(queue[user]) /\ r = Tail(queue[user])
      BY <3>1, <3>4, HeadFacts
    <3>6. acked \subseteq committed
      BY WriteFacts DEF LogInv, ToldOK
    <3> HIDE DEF r
    <3>7. LogInv' /\ QueueStep /\ queue'[user] = Tail(queue[user])
      BY <1>1, <3>3, <3>5, <3>6, WriteFacts, LogSettled
    <3> QED BY <1>1, <3>5, <3>7
  <2> QED BY <2>1, <2>2
<1> HIDE DEF yes, q
<1>4. Ordered(q) /\ Good(Side, q)
  BY WriteFacts DEF q
<1>5. Good(rs, r) /\ rs.wire.acks = <<>>
  BY <1>2, <1>4, WriteFacts, SideFacts, CloseGood
<1> HIDE DEF rs, r
<1>6. SideOK' /\ AnswersOK'
  BY <1>1, <1>3, <1>5, SideStep
<1> QED BY <1>3, <1>6 DEF WriteKept

LEMMA BackoffKept ==
    ASSUME WriteInv, BackoffElapses
    PROVE  WriteKept
<1> DEFINE t  == BackoffOver(stream)
           q  == queue[user]
           rs == WriteSide(t, pipe, shook, idle, wire)
<1>1. /\ stream.st = "Backoff" /\ Takes(rs) /\ committed' = committed /\ NoNewTask
      /\ UNCHANGED <<queue, acked, dropped, waited, issued>>
      /\ UNCHANGED <<callbacks, waiters, nextId, user>>
  BY DEF BackoffElapses, NoNewTask
<1>2. IsStarted(stream) /\ ~IsOpen(stream)
  BY <1>1 DEF IsStarted, IsOpen
<1>3. Side.idle = idle
  BY MadeIdle DEF Side
<1>4. rs.stream = t /\ rs.pipe = pipe /\ rs.shook = shook /\ rs.wire = wire /\ rs.idle = idle
  BY MadeSide, MadeIdle
<1> HIDE DEF rs, t
<1>5. Good(rs, q)
  BY <1>2, <1>3, <1>4, WriteFacts, SideFacts DEF Good
<1>6. Stores(0)
  BY <1>1, WriteFacts, StoresNothing
<1> QED BY <1>1, <1>4, <1>5, <1>6, SideOnly

LEMMA IdleKept ==
    ASSUME WriteInv, IdleTimeout
    PROVE  WriteKept
<1> DEFINE q  == queue[user]
           rs == StopStream(Side)
<1>1. /\ Takes(rs) /\ committed' = committed /\ NoNewTask
      /\ UNCHANGED <<queue, acked, dropped, waited, issued>>
      /\ UNCHANGED <<callbacks, waiters, nextId, user>>
  BY DEF IdleTimeout, NoNewTask
<1>2. Good(rs, q)
  BY WriteFacts, SideFacts, StopGood
<1>3. rs.wire.acks = <<>>
  BY WriteFacts, SideFacts, StopKeeps, NoCall DEF PipeOnly
<1> HIDE DEF rs
<1>4. Stores(0)
  BY <1>1, WriteFacts, StoresNothing
<1> QED BY <1>1, <1>2, <1>3, <1>4, SideOnly

LEMMA NetworkKept ==
    ASSUME WriteInv, DisableNetwork \/ EnableNetwork \/ ConnectivityChanges
    PROVE  WriteKept
<1> DEFINE q == queue[user]
<1>1. /\ NoNewTask /\ UNCHANGED <<queue, acked, dropped, waited, issued>>
      /\ UNCHANGED <<callbacks, waiters, nextId, user>>
  BY DEF DisableNetwork, EnableNetwork, ConnectivityChanges, NoNewTask
<1>2. CASE DisableNetwork
  <2> DEFINE r  == StopStream(Side)
             rs == [r EXCEPT !.pipe = <<>>]
  <2>1. Takes(rs) /\ CutOff
    BY <1>2 DEF DisableNetwork
  <2>2. PICK m : Stores(m)
    BY <2>1, CutOffStores
  <2>3. /\ IsSide(r) /\ Good(r, q) /\ ~r.idle /\ ~IsStarted(r.stream) /\ r.wire = NoWire
    BY WriteFacts, SideFacts, StopGood, StopKeeps DEF PipeOnly
  <2> HIDE DEF r
  <2>4. /\ rs.stream = r.stream /\ rs.pipe = <<>> /\ rs.shook = r.shook
        /\ rs.idle = r.idle /\ rs.wire = r.wire
    BY <2>3 DEF IsSide
  <2> HIDE DEF rs
  <2>5. Good(rs, q) /\ rs.wire.acks = <<>>
    BY <2>3, <2>4, WriteFacts, NothingStarts, NoCall, PipelineAssumption DEF Good
  <2> QED BY <1>1, <2>1, <2>2, <2>5, SideOnly
<1>3. CASE EnableNetwork
  <2> DEFINE yes == TRUE
             rs  == FillWritePipeline(Side, q, yes)
  <2>1. Takes(rs) /\ committed' = committed
    BY <1>3 DEF EnableNetwork
  <2>2. yes \in BOOLEAN
    OBVIOUS
  <2> HIDE DEF yes
  <2>3. Good(rs, q) /\ rs.wire.acks = wire.acks
    BY <2>2, WriteFacts, SideFacts, FillGood
  <2> HIDE DEF rs
  <2>4. Stores(0)
    BY <2>1, WriteFacts, StoresNothing
  <2> QED BY <1>1, <2>1, <2>3, <2>4, SideOnly
<1>4. CASE ConnectivityChanges
  <2> DEFINE rs == RestartNetwork(Side, q)
  <2>1. Takes(rs) /\ CutOff
    BY <1>4 DEF ConnectivityChanges
  <2>2. PICK m : Stores(m)
    BY <2>1, CutOffStores
  <2>3. Good(rs, q)
    BY WriteFacts, SideFacts, RestartGood
  <2>4. rs.wire.acks = <<>>
    BY WriteFacts, SideFacts, RestartNoCall DEF PipeOnly
  <2> HIDE DEF rs
  <2> QED BY <1>1, <2>1, <2>2, <2>3, <2>4, SideOnly
<1> QED BY <1>2, <1>3, <1>4

\* The backend reads the next request of the call.
LEMMA BackendKept ==
    ASSUME WriteInv, BackendAnswers \/ BackendRefuses
    PROVE  WriteKept
<1>1. /\ wire.sent # <<>> /\ NoNewTask
      /\ UNCHANGED <<queue, acked, dropped, waited, issued>>
      /\ UNCHANGED <<callbacks, waiters, nextId, user, stream, pipe, shook, idle>>
  BY DEF BackendAnswers, BackendRefuses, lifeVars, NoNewTask
<1>2. PICK S : wire.sent \in Seq(S) /\ wire.acks \in Seq(S)
  BY <1>1, WriteFacts, AnswerOfCall
<1>3. ASSUME wire'.refused \in BOOLEAN
      PROVE  SideOK'
  <2>1. /\ Side'.stream = stream /\ Side'.pipe = pipe /\ Side'.shook = shook
        /\ Side'.wire = wire' /\ Side'.idle = idle /\ Side.idle = idle
    BY <1>1, MadeSide, MadeIdle DEF Side
  <2> QED BY <1>1, <1>3, <2>1, WriteFacts, SideFacts DEF SideOK, Good
<1>4. ASSUME NEW m, Stores(m)
      PROVE  LogInv' /\ QueueStep
  BY <1>1, <1>4, WriteFacts, LogKept
<1>5. CASE BackendRefuses
  <2>1. committed' = committed /\ wire'.acks = wire.acks /\ wire'.refused \in BOOLEAN
    BY <1>5 DEF BackendRefuses, Wire
  <2>2. AnswersOK'
    BY <2>1, WriteFacts DEF AnswersOK
  <2> QED BY <2>1, <2>2, <1>3, <1>4, WriteFacts, StoresNothing DEF WriteKept
<1>6. CASE BackendAnswers
  <2> DEFINE a == wire.acks
             s == wire.sent
             h == Head(s)
  <2>1. /\ wire'.acks = Append(a, h) /\ wire'.refused \in BOOLEAN
        /\ committed' = committed \cup WritesOf(<<h>>)
    BY <1>6 DEF BackendAnswers, Wire
  <2>2. a \in Seq(S) /\ s \in Seq(S) /\ s # <<>> /\ h = s[1] /\ 1 \in 1..Len(s)
    BY <1>1, <1>2
  <2>3. \A i \in 1..Len(a) : a[i] # Hello => a[i].w \in committed
    BY WriteFacts DEF AnswersOK
  <2>4. WritesOf(<<h>>) = {h.w} \ {Hello.w}
    BY DEF WritesOf
  <2>5. h # Hello => h.w # Hello.w /\ shook
    <3>1. CASE shook
      <4>1. h.w # 0
        BY <2>2, <3>1, CallFacts
      <4> QED BY <3>1, <4>1 DEF Hello
    <3>2. CASE ~shook
      <4>1. a \o s = <<Hello>>
        BY <1>1, <3>2, WriteFacts, AnswerOfCall
      <4> HIDE DEF a, s, h
      <4>2. Append(a, h) \in Seq(S) /\ Append(a, h) \o Tail(s) = a \o s
        BY <2>2, AnswerMoves DEF h
      <4>3. h \in S /\ Tail(s) \in Seq(S)
        BY <2>2
      <4>4. (Append(a, h) \o Tail(s))[Len(a) + 1] = h /\ Len(a) + 1 \in 1..Len(a \o s)
        <5> DEFINE c == Append(a, h)
        <5>1. /\ c \in Seq(S) /\ Len(c) = Len(a) + 1 /\ c[Len(a) + 1] = h
              /\ Len(a) \in Nat /\ Len(Tail(s)) \in Nat
          BY <2>2, <4>3
        <5> HIDE DEF c
        <5>2. /\ (c \o Tail(s))[Len(a) + 1] = h
              /\ Len(a) + 1 \in 1..Len(c \o Tail(s))
          BY <4>3, <5>1, ConcatProperties
        <5> QED BY <4>2, <5>2 DEF c
      <4>5. \A n \in 1..Len(<<Hello>>) : <<Hello>>[n] = Hello
        OBVIOUS
      <4> QED BY <4>1, <4>2, <4>4, <4>5
    <3> QED BY <3>1, <3>2
  <2>6. \E m : Stores(m)
    <3>1. CASE h = Hello
      BY <3>1, <2>1, <2>4, WriteFacts, StoresNothing
    <3>2. CASE h # Hello
      <4> DEFINE n == 1
      <4>1. {s[i].w : i \in 1..n} = {h.w}
        BY <2>2
      <4>2. committed' = committed \cup {s[i].w : i \in 1..n}
        BY <3>2, <2>1, <2>4, <2>5, <4>1
      <4>3. n \in 0..Len(s)
        BY <2>2
      <4> HIDE DEF n
      <4> QED BY <3>2, <2>5, <4>2, <4>3, StoredOfCall
    <3> QED BY <3>1, <3>2
  <2> HIDE DEF a, s, h
  <2>7. AnswersOK'
    <3>1. \A i \in 1..Len(Append(a, h)) :
             (i \in 1..Len(a) /\ Append(a, h)[i] = a[i]) \/ Append(a, h)[i] = h
      BY <2>2
    <3>2. h # Hello => h.w \in committed'
      BY <2>1, <2>4, <2>5
    <3> QED BY <2>1, <2>3, <3>1, <3>2 DEF AnswersOK
  <2> QED BY <2>1, <2>6, <2>7, <1>3, <1>4 DEF WriteKept
<1> QED BY <1>5, <1>6

LEMMA RestartsKept ==
    ASSUME WriteInv, Restarts
    PROVE  WriteKept
<1> DEFINE no   == FALSE
           yes  == TRUE
           p    == <<>>
           q    == queue[authUser]
           side == WriteSide(NewStream, p, no, no, NoWire)
           rs   == FillWritePipeline(side, q, yes)
<1>1. /\ stream' = rs.stream /\ pipe' = rs.pipe /\ shook' = FALSE /\ idle' = FALSE
      /\ wire' = NoWire /\ user' = authUser /\ CutOff /\ NoNewTask
      /\ UNCHANGED <<queue, acked, dropped, waited, issued>>
      /\ callbacks' \subseteq callbacks /\ waiters' \subseteq waiters /\ waiters' = {}
      /\ nextId' \in {nextId, NextBatchIdFromDb(queue)}
  BY DEF Restarts, NoNewTask
<1>2. Ordered(q) /\ queue'[user'] = q
  BY <1>1, WriteFacts DEF IdsOK
<1>3. /\ ~IsStarted(NewStream) /\ yes \in BOOLEAN /\ no \in BOOLEAN /\ ~no
      /\ p \in Seq(Batch) /\ Len(p) <= Limit /\ Starts(p, q) /\ NoWire.refused \in BOOLEAN
  BY <1>2, NothingStarts, NoCall, PipelineAssumption DEF NewStream, IsStarted
<1> HIDE DEF no, yes, p, q
<1>4. /\ IsSide(side) /\ side.stream = NewStream /\ side.pipe = p /\ side.shook = no
      /\ side.wire = NoWire /\ side.idle = no
  BY MadeSide, MadeIdle
<1> HIDE DEF side
<1>5. Good(side, q)
  BY <1>3, <1>4 DEF Good
<1>6. Good(rs, q) /\ (IsStarted(rs.stream) => rs.pipe # <<>>)
  BY <1>2, <1>3, <1>4, <1>5, FillGood
<1> HIDE DEF rs
<1>7. /\ Side'.stream = stream' /\ Side'.pipe = pipe' /\ Side'.shook = shook'
      /\ Side'.wire = wire' /\ Side'.idle = idle'
  BY MadeSide, MadeIdle DEF Side
<1>8. SideOK'
  BY <1>1, <1>2, <1>3, <1>6, <1>7 DEF SideOK, Good
<1>9. AnswersOK'
  BY <1>1, NoCall DEF AnswersOK
<1>10. PICK m : Stores(m)
  BY <1>1, CutOffStores
<1>11. LogInv' /\ QueueStep
  BY <1>1, <1>10, WriteFacts, LogKept
<1> QED BY <1>8, <1>9, <1>11 DEF WriteKept

----------------------------------------------------------------------------
(* Every step keeps the invariant, and is one of WriteQueue or none.       *)

LEMMA WriteInvInit == Init => WriteInv /\ Queue!QueueInit
<1> SUFFICES ASSUME Init PROVE WriteInv /\ Queue!QueueInit
  OBVIOUS
<1>1. PipeInv
  BY PipeInvInit
<1>2. /\ queue = [u \in Users |-> <<>>] /\ user \in Users /\ issued = 0 /\ workQ = <<>>
      /\ pipe = <<>> /\ wire = NoWire /\ idle = FALSE /\ shook = FALSE /\ nextId = 1
      /\ callbacks = {} /\ waiters = {} /\ waited = {} /\ stream = NewStream
      /\ committed = {} /\ acked = {} /\ dropped = {}
  BY DEF Init, LifeInit
<1>3. SideOK
  <2>1. ~IsStarted(stream) /\ Side.idle = idle
    BY <1>2, MadeIdle DEF Side, NewStream, IsStarted
  <2>2. Starts(pipe, queue[user]) /\ pipe \in Seq(Batch) /\ Len(pipe) <= Limit
    BY <1>2, PipelineAssumption DEF Starts
  <2> QED BY <1>2, <2>1, <2>2, SideFacts, NoCall DEF SideOK, Good
<1>4. AnswersOK
  BY <1>2, NoCall DEF AnswersOK
<1>5. IdsOK /\ CallbacksOK /\ WaitersOK /\ ToldOK
  BY <1>2, OrderedEmpty DEF IdsOK, CallbacksOK, WaitersOK, ToldOK
<1>6. Used = {}
  BY <1>2 DEF Used, WritesIn
<1>7. FreshOK
  BY <1>2, <1>6, PipelineAssumption DEF FreshOK, TasksOK
<1>8. Queue!QueueInit
  BY <1>2 DEF Queue!QueueInit
<1> QED BY <1>1, <1>3, <1>4, <1>5, <1>7, <1>8 DEF WriteInv, LogInv

LEMMA WriteStep ==
    ASSUME WriteInv, [Next]_vars
    PROVE  WriteInv' /\ QueueStep
<1>1. PipeInv'
  BY PipeStep DEF WriteInv
<1> SUFFICES WriteKept
  BY <1>1 DEF WriteKept, WriteInv
<1>2. CASE UNCHANGED vars
  <2>1. UNCHANGED <<ownerVars, stream, user>> /\ NoNewTask
    BY <1>2 DEF vars, lifeVars, NoNewTask
  <2> QED BY <2>1, LifeKept
<1>3. CASE UserChanges \/ TokenError \/ Answering \/ AppWaits
  <2>1. UNCHANGED <<ownerVars, stream, user>> /\ NoNewTask
    <3>1. CASE UserChanges
      BY <3>1 DEF UserChanges, AuthChanges, NoNewTask
    <3>2. CASE TokenError \/ TokenAnswer
      BY <3>2 DEF TokenError, TokenAnswer, AuthAnswers, NoNewTask
    <3>3. CASE TokenRead
      BY <3>3 DEF TokenRead, AuthReads, NoNewTask
    <3>4. CASE Notified
      <4> DEFINE b == [kind |-> "credential", user |-> Head(mainQ).user]
      <4>1. UNCHANGED <<ownerVars, stream, user>> /\ workQ' = Append(workQ, b)
        BY <3>4 DEF Notified, MainNotified
      <4>2. ~IsWrite(b)
        BY DEF IsWrite
      <4> HIDE DEF b
      <4> QED BY <4>1, <4>2 DEF NoNewTask
    <3>5. CASE TokenArrives
      <4> DEFINE t == Head(mainQ)
                 b == [kind |-> "resume", user |-> t.user, ok |-> t.ok, closes |-> t.closes]
      <4>1. /\ UNCHANGED <<ownerVars, stream, user>>
            /\ workQ' = workQ \/ workQ' = Append(workQ, b)
        BY <3>5 DEF TokenArrives, MainToken
      <4>2. ~IsWrite(b)
        BY DEF IsWrite
      <4> HIDE DEF b
      <4> QED BY <4>1, <4>2 DEF NoNewTask
    <3>6. CASE AppWaits
      <4> DEFINE b == [kind |-> "task", by |-> current, task |-> Wait]
      <4>1. UNCHANGED <<ownerVars, stream, user>> /\ workQ' = Append(workQ, b)
        BY <3>6 DEF AppWaits, AppEnqueues
      <4>2. ~IsWrite(b)
        BY DEF IsWrite
      <4> HIDE DEF b
      <4> QED BY <4>1, <4>2 DEF NoNewTask
    <3> QED BY <1>3, <3>1, <3>2, <3>3, <3>4, <3>5, <3>6 DEF Answering
  <2> QED BY <2>1, LifeKept
<1>4. CASE AppWrites
  BY <1>4, AppWritesKept
<1>5. CASE Working
  BY <1>5, WriteMutationsKept, RegisterKept, CredentialKept, ResumeKept DEF Working
<1>6. CASE Streaming \/ Breaks \/ IdleTimeout
  BY <1>6, HandshakeKept, ResultKept, RefusalKept, BackoffKept, BreaksKept, IdleKept
     DEF Streaming
<1>7. CASE DisableNetwork \/ EnableNetwork \/ ConnectivityChanges
  BY <1>7, NetworkKept
<1>8. CASE BackendAnswers \/ BackendRefuses
  BY <1>8, BackendKept
<1>9. CASE Restarts
  BY <1>9, RestartsKept
<1> QED BY <1>2, <1>3, <1>4, <1>5, <1>6, <1>7, <1>8, <1>9 DEF Next

THEOREM WriteInvariant == Spec => []WriteInv
<1>1. Init => WriteInv
  BY WriteInvInit
<1>2. WriteInv /\ [Next]_vars => WriteInv'
  BY WriteStep
<1> QED BY <1>1, <1>2, PTL DEF Spec

----------------------------------------------------------------------------
(* The properties.                                                         *)

\* The pipeline's state keeps its types and the bound kMaxPendingWrites.
THEOREM PipelineTypes == Spec => []TypeOK
<1>1. ASSUME WriteInv PROVE TypeOK
  <2>1. \A u \in Users : \A i \in DOMAIN queue[u] : queue[u][i].w \in Writes
    <3> TAKE u \in Users
    <3>1. queue[u] \in Seq(Batch)
      BY <1>1, WriteFacts DEF IdsOK
    <3> QED BY <3>1, SeqFacts, BatchFacts
  <2>2. shook \in BOOLEAN /\ idle \in BOOLEAN /\ wire.refused \in BOOLEAN
    <3>1. Side.idle = idle
      BY MadeIdle DEF Side
    <3> QED BY <1>1, <3>1, WriteFacts, SideFacts DEF Good
  <2>3. committed \cup acked \cup dropped \subseteq Writes
    <3>1. issued \in 0..MaxWrites /\ Used \subseteq 1..issued /\ MaxWrites \in Nat
      BY <1>1, WriteFacts, PipelineAssumption DEF LogInv, FreshOK
    <3>2. 1..issued \subseteq Writes
      BY <3>1 DEF Writes
    <3> QED BY <3>1, <3>2 DEF Used
  <2> QED BY <1>1, <2>1, <2>2, <2>3, WriteFacts DEF TypeOK, IdsOK
<1> QED BY <1>1, WriteInvariant, PTL

\* The pipeline is how the current user's queue begins: a batch that is
\* acknowledged or rejected is in the database (RemoveMutationBatch asserts it).
THEOREM PipelineBeginsQueue == Spec => []PipelineIsQueuePrefix
<1>1. ASSUME WriteInv PROVE PipelineIsQueuePrefix
  <2> DEFINE q == queue[user]
  <2>1. Ordered(q) /\ pipe \in Seq(Batch) /\ Starts(pipe, q)
    BY <1>1, WriteFacts
  <2> HIDE DEF q
  <2>2. IsPrefix(pipe, q)
    BY <2>1, StartsIsPrefix
  <2> QED BY <2>2 DEF PipelineIsQueuePrefix, q
<1> QED BY <1>1, WriteInvariant, PTL

\* The callback of a write is called for that write, whoever the users were
\* whose queues were loaded in between (LoadNextBatchIdFromDb).
THEOREM CallbackMeetsItsBatch == Spec => []CallbackOfItsBatch
<1>1. ASSUME WriteInv, NEW c \in callbacks
      PROVE  {b.w : b \in {x \in ToSet(queue[c.user]) : x.id = c.id}} = {c.w}
  <2> DEFINE q == queue[c.user]
  <2>1. c.user \in Users /\ \E i \in 1..Len(q) : q[i].id = c.id /\ q[i].w = c.w
    BY <1>1, WriteFacts DEF LogInv, CallbacksOK
  <2>2. Ordered(q) /\ q \in Seq(Batch)
    BY <1>1, <2>1, WriteFacts DEF IdsOK
  <2> HIDE DEF q
  <2>3. PICK i \in 1..Len(q) : q[i].id = c.id /\ q[i].w = c.w
    BY <2>1
  <2>4. /\ DOMAIN q = 1..Len(q) /\ Len(q) \in Nat
        /\ \A j \in 1..Len(q) : q[j].id \in Nat
    BY <2>2, BatchFacts
  <2>5. \A j \in 1..Len(q) : q[j].id = c.id => j = i
    BY <2>2, <2>3, <2>4 DEF Ordered
  <2>6. {x \in ToSet(q) : x.id = c.id} = {q[i]}
    BY <2>3, <2>4, <2>5 DEF ToSet
  <2>7. {b.w : b \in {x \in ToSet(q) : x.id = c.id}} = {c.w}
    BY <2>3, <2>6
  <2> QED BY <2>7 DEF q
<1>2. WriteInv => CallbackOfItsBatch
  BY <1>1 DEF CallbackOfItsBatch
<1> QED BY <1>2, WriteInvariant, PTL

\* Nothing is reported as stored that the backend does not have, across breaks,
\* resends and changes of user (OnWriteStreamMutationResult).
THEOREM AnsweredIsStored == Spec => []AckedIsStored
<1>1. WriteInv => AckedIsStored
  BY DEF WriteInv, LogInv, ToldOK, AckedIsStored
<1> QED BY <1>1, WriteInvariant, PTL

\* waitForPendingWrites never answers early (TriggerPendingWriteCallbacks).
THEOREM WaiterNotToldEarly == Spec => []WaiterToldAfter
<1>1. WriteInv => WaiterToldAfter
  BY DEF WriteInv, LogInv, ToldOK, WaiterToldAfter
<1> QED BY <1>1, WriteInvariant, PTL

\* The idleness timer never takes the stream from a write (MarkIdle,
\* CancelIdleCheck).
THEOREM IdleTimerIsSafe == Spec => []IdleHasNothingToSend
<1>1. ASSUME WriteInv PROVE IdleHasNothingToSend
  <2>1. Side.idle = idle
    BY MadeIdle DEF Side
  <2> QED BY <1>1, <2>1, WriteFacts, SideFacts DEF Good, IdleHasNothingToSend
<1> QED BY <1>1, WriteInvariant, PTL

\* What is given up was sent on the call that failed, after its handshake
\* (HandleWriteError, HandleHandshakeError).
THEOREM GivesUpOnlySent == Spec => DropsOnlySent
<1> DEFINE Sent == \A w \in dropped' \ dropped : w \in WritesOf(wire.acks \o wire.sent)
<1>1. ASSUME WriteInv, [Next]_vars PROVE [Sent]_vars
  <2>1. CASE ~ReadsRefusal /\ ~Breaks
    <3>1. dropped' = dropped
      BY <1>1, <2>1
         DEF Next, vars, ownerVars, UserChanges, TokenError, Answering, TokenRead,
             TokenAnswer, Notified, TokenArrives, AppWrites, AppWaits, Working,
             WriteMutations, RegisterPendingWritesCallback, HandleCredentialChange,
             ResumeStart, Streaming, HandshakeComplete, MutationResult,
             BackoffElapses, IdleTimeout, DisableNetwork, EnableNetwork,
             ConnectivityChanges, BackendAnswers, BackendRefuses, Restarts
    <3> QED BY <3>1
  <2>2. CASE Breaks
    <3>1. dropped' = dropped
      BY <2>2 DEF Breaks, StreamFinish, Rejects
    <3> QED BY <3>1
  <2>3. CASE ReadsRefusal
    <3> DEFINE lost == Rejects(Side, TRUE)
    <3>1. CASE lost = <<>>
      BY <2>3, <3>1 DEF ReadsRefusal, StreamFinish
    <3>2. CASE lost # <<>>
      <4>1. lost = <<Head(pipe)>> /\ shook /\ pipe # <<>>
        BY <3>2, SideFacts DEF Rejects
      <4>2. Head(lost) = Head(pipe)
        <5> DEFINE h == Head(pipe)
        <5>1. lost = <<h>>
          BY <4>1
        <5> HIDE DEF h, lost
        <5>2. Head(lost) = h
          BY <5>1
        <5> QED BY <5>2 DEF h
      <4>3. dropped' = dropped \cup {Head(pipe).w}
        BY <2>3, <3>2, <4>2 DEF ReadsRefusal, StreamFinish
      <4>4. wire.acks \o wire.sent = pipe
        BY <1>1, <4>1, CallFacts
      <4>5. /\ DOMAIN pipe = 1..Len(pipe) /\ 1 \in 1..Len(pipe) /\ Head(pipe) = pipe[1]
            /\ Head(pipe) \in Batch
        BY <1>1, <4>1, WriteFacts
      <4>6. Head(pipe).w \in WritesOf(pipe)
        <5>1. Head(pipe).w # 0
          BY <4>5, BatchFacts
        <5> QED BY <4>5, <5>1 DEF WritesOf, Hello
      <4> QED BY <4>3, <4>4, <4>6
    <3> QED BY <3>1, <3>2
  <2> QED BY <2>1, <2>2, <2>3
<1> QED BY <1>1, WriteInvariant, PTL DEF Spec, DropsOnlySent

\* The app sees durable queues that are stored in order and left from the head:
\* every step of SyncEngine, RemoteStore and the backend is one of WriteQueue,
\* or changes nothing of it.
THEOREM PipelineImplementsQueue == Spec => RefinesWriteQueue
<1>1. Init => Queue!QueueInit
  BY WriteInvInit
<1>2. WriteInv /\ [Next]_vars => QueueStep
  BY WriteStep
<1> QED BY <1>1, <1>2, WriteInvariant, PTL
        DEF Spec, RefinesWriteQueue, Queue!QueueSpec, QueueStep
===============================================================================
