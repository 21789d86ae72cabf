---------------------------- MODULE ReviewsProofs ----------------------------
(***************************************************************************)
(* Proofs about Reviews, for every set of users and worlds, every number   *)
(* of reviews and every depth of the stack of pages.                       *)
(***************************************************************************)
EXTENDS Reviews, FiniteSetInduction

----------------------------------------------------------------------------
(* Every world: the types, and the pages that are not there.               *)

Typed ==
    /\ world \in Worlds
    /\ currentUser \in Credentials
    /\ cache \in [Users -> SUBSET Ids]
    /\ server \in [Users -> SUBSET Ids]
    /\ pending \in [Users -> Seq(Ids)]
    /\ stamp \in [Ids -> Nat]
    /\ clock \in Nat
    /\ depth \in Nat
    /\ listens \in [Depths -> Credentials]
    /\ known \in [Depths -> SUBSET Ids]
    /\ list \in [Depths -> Seq(Ids)]
    /\ input \in [Depths -> [text : BOOLEAN, hint : BOOLEAN]]

NoPageAbove ==
    \A p \in Depths :
        p > depth => listens[p] = NoUser /\ known[p] = {} /\ list[p] = <<>>

RInv == Typed /\ NoPageAbove /\ HintIffEmpty

----------------------------------------------------------------------------
(* A quiet world.                                                          *)

Held(u) == cache[u] \cup ToSet(pending[u])

Order == {e \in Ids \X Ids : Earlier(e[1], e[2])}

\* Each queue but the logged-in user's is empty, and what the phone knows is
\* what the server has.
OneQueue ==
    /\ cache = server
    /\ \A u \in Users : u # currentUser => pending[u] = <<>>

\* Reviews are stamped as they are sent, by a clock that only goes on.
StampsAreOld ==
    /\ \A r \in Ids : stamp[r] <= clock
    /\ \A u \in Users : \A r \in Held(u) : stamp[r] > 0

\* A page has reported a first part of what is there by now, in order.
PageIsAPrefix(p) ==
    /\ listens[p] = NoUser => known[p] = {}
    /\ listens[p] # NoUser =>
          /\ known[p] \subseteq Held(listens[p])
          /\ \A q \in known[p] : \A r \in Held(listens[p]) \ known[p] :
                stamp[q] < stamp[r]
    /\ Enumerates(list[p], known[p], Order)

QuietInv ==
    Quiet => /\ OneQueue
             /\ StampsAreOld
             /\ \A p \in Depths : PageIsAPrefix(p)

----------------------------------------------------------------------------
(* The order of the query.                                                 *)

LEMMA IdsAreFinite == \A S \in SUBSET Ids : IsFiniteSet(S) /\ Cardinality(S) \in Nat
<1>1. IsFiniteSet(Ids)
  BY FS_Interval, ReviewsAssumption DEF Ids
<1> QED
  BY <1>1, FS_Subset, FS_CardinalityType

\* Timestamps, and document ids among equal ones, put reviews in a line.
LEMMA OrderIsLinear ==
    ASSUME stamp \in [Ids -> Nat], NEW S \in SUBSET Ids
    PROVE  IsLinearOrder(Order, S)
<1>1. \A r \in S : r \in Ids /\ r \in Nat /\ stamp[r] \in Nat
  BY DEF Ids
<1>2. \A r, q \in S : <<r, q>> \in Order <=> Earlier(r, q)
  BY DEF Order
<1>3. \A r \in S : ~Earlier(r, r)
  BY <1>1 DEF Earlier
<1>4. ASSUME NEW r \in S, NEW q \in S, NEW t \in S, Earlier(r, q), Earlier(q, t)
      PROVE  Earlier(r, t)
  BY <1>1, <1>4 DEF Earlier
<1>5. ASSUME NEW r \in S, NEW q \in S PROVE r = q \/ Earlier(r, q) \/ Earlier(q, r)
  BY <1>1 DEF Earlier
<1> QED
  BY <1>2, <1>3, <1>4, <1>5 DEF IsLinearOrder

\* The listener's order is an enumeration of what is asked for.
LEMMA QueryEnumerates ==
    ASSUME stamp \in [Ids -> Nat], NEW S \in SUBSET Ids
    PROVE  Enumerates(ByTimestamp(S), S, Order) /\ ByTimestamp(S) \in Seq(S)
<1> DEFINE n == Cardinality(S)
           Fits(s) == /\ ToSet(s) = S
                      /\ \A i, j \in 1..n : i < j => Earlier(s[i], s[j])
<1>1. IsFiniteSet(S) /\ n \in Nat
  BY IdsAreFinite
<1> HIDE DEF n
<1>2. PICK t : Enumerates(t, S, Order)
  BY <1>1, OrderIsLinear, EnumerationExists
<1>3. t \in [1..n -> S] /\ ToSet(t) = S
  BY <1>2 DEF Enumerates, n, ToSet
<1>4. \A i, j \in 1..n : i < j => Earlier(t[i], t[j])
  BY <1>2 DEF Enumerates, n, Order
<1>5. /\ ByTimestamp(S) \in [1..n -> S]
      /\ ToSet(ByTimestamp(S)) = S
      /\ \A i, j \in 1..n : i < j => Earlier(ByTimestamp(S)[i], ByTimestamp(S)[j])
  BY <1>3, <1>4 DEF ByTimestamp, n
<1> DEFINE b == ByTimestamp(S)
<1> HIDE DEF b
<1>6. /\ b \in [1..n -> S] /\ ToSet(b) = S
      /\ \A i, j \in 1..n : i < j => Earlier(b[i], b[j])
  BY <1>5 DEF b
<1>7. \A i, j \in 1..n : i < j => <<b[i], b[j]>> \in Order
  BY <1>6 DEF Order
<1>8. \A r \in S : \E i \in 1..n : b[i] = r
  BY <1>6 DEF ToSet
<1>9. b \in Seq(S)
  BY <1>1, <1>6
<1> QED
  BY <1>6, <1>7, <1>8, <1>9 DEF Enumerates, n, b

\* There is no other.
LEMMA QueryIsTheOrder ==
    ASSUME stamp \in [Ids -> Nat], NEW S \in SUBSET Ids, NEW s, Enumerates(s, S, Order)
    PROVE  s = ByTimestamp(S)
BY IdsAreFinite, OrderIsLinear, QueryEnumerates, EnumerationIsUnique

LEMMA NothingIsOrdered == \A R : Enumerates(<<>>, {}, R)
<1>1. Cardinality({}) = 0
  BY FS_EmptySet
<1> QED
  BY <1>1 DEF Enumerates

----------------------------------------------------------------------------
(* Queues.                                                                 *)

LEMMA ToSetOfAppend ==
    ASSUME NEW s \in Seq(Ids), NEW r \in Ids
    PROVE  ToSet(Append(s, r)) = ToSet(s) \cup {r}
<1>1. /\ Append(s, r) \in Seq(Ids) /\ Len(Append(s, r)) = Len(s) + 1
      /\ Append(s, r)[Len(s) + 1] = r /\ Len(s) \in Nat
      /\ \A i \in 1..Len(s) : Append(s, r)[i] = s[i]
  OBVIOUS
<1>2. DOMAIN Append(s, r) = 1..(Len(s) + 1) /\ DOMAIN s = 1..Len(s)
  BY <1>1
<1>3. 1..(Len(s) + 1) = (1..Len(s)) \cup {Len(s) + 1}
  BY <1>1
<1> QED
  BY <1>1, <1>2, <1>3 DEF ToSet

LEMMA ToSetOfTail ==
    ASSUME NEW s \in Seq(Ids), s # <<>>
    PROVE  /\ Tail(s) \in Seq(Ids) /\ s[1] \in Ids
           /\ ToSet(s) = ToSet(Tail(s)) \cup {s[1]}
<1>1. /\ Len(s) \in Nat \ {0} /\ Tail(s) \in Seq(Ids) /\ Len(Tail(s)) = Len(s) - 1
      /\ s[1] \in Ids
      /\ \A i \in 1..(Len(s) - 1) : Tail(s)[i] = s[i + 1]
  OBVIOUS
<1>2. DOMAIN Tail(s) = 1..(Len(s) - 1) /\ DOMAIN s = 1..Len(s)
  BY <1>1
<1>3. ASSUME NEW i \in 1..Len(s) PROVE s[i] \in ToSet(Tail(s)) \cup {s[1]}
  <2>1. CASE i = 1
    BY <2>1
  <2>2. CASE i # 1
    <3>1. PICK j \in 1..(Len(s) - 1) : i = j + 1
      <4> DEFINE k == i - 1
      <4>1. k \in 1..(Len(s) - 1) /\ i = k + 1
        BY <1>1, <2>2
      <4> HIDE DEF k
      <4> QED
        BY <4>1
    <3>2. s[i] = Tail(s)[j]
      BY <1>1, <3>1
    <3> QED
      BY <1>2, <3>2 DEF ToSet
  <2> QED
    BY <2>1, <2>2
<1>4. ASSUME NEW j \in 1..(Len(s) - 1) PROVE Tail(s)[j] \in ToSet(s)
  <2> DEFINE k == j + 1
  <2>1. k \in 1..Len(s) /\ Tail(s)[j] = s[k]
    BY <1>1
  <2> HIDE DEF k
  <2> QED
    BY <1>2, <2>1 DEF ToSet
<1>5. s[1] \in ToSet(s)
  BY <1>1, <1>2 DEF ToSet
<1> QED
  BY <1>1, <1>2, <1>3, <1>4, <1>5 DEF ToSet

----------------------------------------------------------------------------
(* Every world.                                                            *)

LEMMA ExceptIsTyped ==
    ASSUME NEW A, NEW B, NEW f \in [A -> B], NEW a, NEW b \in B
    PROVE  [f EXCEPT ![a] = b] \in [A -> B]
OBVIOUS

LEMMA WorldsAreTyped ==
    ASSUME Typed
    PROVE  /\ world.reviews \in Nat /\ 1..world.reviews \subseteq Ids /\ Fresh \subseteq Ids
           /\ MaxDepth \in Nat /\ MaxReviews \in Nat
           /\ \A p \in Depths : p \in Nat
           /\ \A u \in Users : Visible(u) \subseteq Ids
<1>1. world \in World
  BY ReviewsAssumption DEF Typed
<1>2. world.reviews \in 1..MaxReviews /\ MaxReviews \in Nat /\ MaxDepth \in Nat
  BY <1>1, ReviewsAssumption DEF World
<1>3. 1..world.reviews \subseteq Ids
  BY <1>2 DEF Ids
<1>4. \A u \in Users : Visible(u) \subseteq Ids
  BY DEF Typed, Visible, ToSet
<1> QED
  BY <1>2, <1>3, <1>4 DEF Fresh, Depths

LEMMA InitRInv == Init => RInv
<1> SUFFICES ASSUME Init PROVE RInv
  OBVIOUS
<1>1. Typed
  BY DEF Init, Typed, EmptyInput, Credentials
<1>2. NoPageAbove
  BY DEF Init, NoPageAbove
<1>3. HintIffEmpty
  BY DEF Init, HintIffEmpty, EmptyInput
<1> QED
  BY <1>1, <1>2, <1>3 DEF RInv

LEMMA OpenPageKeeps == ASSUME RInv, OpenPage PROVE RInv'
<1>1. Typed'
  <2>1. /\ UNCHANGED <<world, server, stamp, known, list, input, currentUser>>
        /\ UNCHANGED <<cache, pending, clock>>
    BY DEF OpenPage, user, phone
  <2>2. /\ depth \in Nat /\ currentUser \in Credentials
        /\ listens \in [Depths -> Credentials]
        /\ depth' = depth + 1 /\ listens' = [listens EXCEPT ![depth + 1] = currentUser]
    BY DEF RInv, Typed, OpenPage
  <2>3. depth' \in Nat /\ listens' \in [Depths -> Credentials]
    BY <2>2, ExceptIsTyped
  <2> QED
    BY <2>1, <2>3 DEF RInv, Typed
<1>2. \A p \in Depths : p > depth' => p > depth /\ p # depth + 1
  BY WorldsAreTyped DEF RInv, Typed, OpenPage
<1>3. NoPageAbove'
  BY <1>2 DEF RInv, Typed, NoPageAbove, OpenPage
<1> QED
  BY <1>1, <1>3 DEF RInv, HintIffEmpty, OpenPage

LEMMA CloseAllKeeps ==
    ASSUME RInv, CloseAll, UNCHANGED <<world, user, server, stamp, phone>>
    PROVE  RInv'
<1>1. Typed'
  BY DEF RInv, Typed, CloseAll, user, phone, Credentials, EmptyInput
<1>2. NoPageAbove'
  BY DEF NoPageAbove, CloseAll
<1>3. HintIffEmpty'
  BY DEF HintIffEmpty, CloseAll, EmptyInput
<1> QED
  BY <1>1, <1>2, <1>3 DEF RInv

LEMMA SwipeBackKeeps == ASSUME RInv, SwipeBack PROVE RInv'
<1>1. Typed'
  <2>1. /\ UNCHANGED <<world, server, stamp, currentUser>>
        /\ UNCHANGED <<cache, pending, clock>>
    BY DEF SwipeBack, user, phone
  <2>2. depth' \in Nat /\ depth - 1 \in Nat
    BY DEF RInv, Typed, SwipeBack
  <2>3. listens' \in [Depths -> Credentials] /\ known' \in [Depths -> SUBSET Ids]
    BY DEF RInv, Typed, SwipeBack, Credentials
  <2>4. list' \in [Depths -> Seq(Ids)]
    <3>1. /\ list \in [Depths -> Seq(Ids)] /\ <<>> \in Seq(Ids)
          /\ list' = [list EXCEPT ![depth] = <<>>]
      BY DEF RInv, Typed, SwipeBack
    <3> QED
      BY <3>1, ExceptIsTyped
  <2>5. input' \in [Depths -> [text : BOOLEAN, hint : BOOLEAN]]
    <3>1. EmptyInput \in [text : BOOLEAN, hint : BOOLEAN]
      BY DEF EmptyInput
    <3> QED
      BY <3>1 DEF RInv, Typed, SwipeBack
  <2> QED
    BY <2>1, <2>2, <2>3, <2>4, <2>5 DEF RInv, Typed
<1>2. NoPageAbove'
  <2> SUFFICES ASSUME NEW p \in Depths, p > depth'
               PROVE  listens'[p] = NoUser /\ known'[p] = {} /\ list'[p] = <<>>
    BY DEF NoPageAbove
  <2>1. p = depth \/ p > depth
    BY WorldsAreTyped DEF RInv, Typed, SwipeBack
  <2> QED
    BY <2>1 DEF RInv, Typed, NoPageAbove, SwipeBack
<1>3. HintIffEmpty'
  BY DEF RInv, Typed, HintIffEmpty, SwipeBack, EmptyInput
<1> QED
  BY <1>1, <1>2, <1>3 DEF RInv

\* One snapshot: what it adds to a list is not what was known.
LEMMA DeliverIs ==
    ASSUME RInv, NEW p \in Depths, Deliver(p)
    PROVE  /\ listens[p] \in Users
           /\ Visible(listens[p]) \in SUBSET Ids
           /\ known' = [known EXCEPT ![p] = Visible(listens[p])]
           /\ ByTimestamp(Visible(listens[p]) \ known[p])
                \in Seq(Visible(listens[p]) \ known[p])
           /\ list' = [list EXCEPT ![p] =
                         list[p] \o ByTimestamp(Visible(listens[p]) \ known[p])]
<1>1. listens[p] \in Users
  BY DEF RInv, Typed, Deliver, Credentials
<1>2. Visible(listens[p]) \in SUBSET Ids
  BY <1>1, WorldsAreTyped DEF RInv
<1>3. Visible(listens[p]) \ known[p] \in SUBSET Ids /\ stamp \in [Ids -> Nat]
  BY <1>2 DEF RInv, Typed
<1> QED
  BY <1>1, <1>2, <1>3, QueryEnumerates DEF Deliver

LEMMA DeliverKeeps == ASSUME RInv, NEW p \in Depths, Deliver(p) PROVE RInv'
<1> DEFINE now == Visible(listens[p])
           more == ByTimestamp(now \ known[p])
<1>1. /\ now \in SUBSET Ids /\ more \in Seq(now \ known[p])
      /\ known' = [known EXCEPT ![p] = now]
      /\ list' = [list EXCEPT ![p] = list[p] \o more]
  BY DeliverIs
<1>2. p \in Nat /\ depth \in Nat /\ ~(p > depth)
  <2>1. listens[p] # NoUser
    BY DEF Deliver
  <2> QED
    BY <2>1, WorldsAreTyped DEF RInv, NoPageAbove, Typed
<1> HIDE DEF now, more
<1>3. more \in Seq(Ids) /\ list[p] \in Seq(Ids)
  BY <1>1 DEF RInv, Typed
<1>4. known' \in [Depths -> SUBSET Ids] /\ list' \in [Depths -> Seq(Ids)]
  BY <1>1, <1>3 DEF RInv, Typed
<1>5. Typed'
  BY <1>4 DEF RInv, Typed, Deliver, user, phone
<1>6. NoPageAbove'
  BY <1>1, <1>2 DEF RInv, NoPageAbove, Typed, Deliver
<1> QED
  BY <1>5, <1>6 DEF RInv, HintIffEmpty, Deliver

\* Each input view sets its placeholder by its own text.
LEMMA EditMessageKeeps == ASSUME RInv, EditMessage PROVE RInv'
<1>1. PICK text \in BOOLEAN :
        LET now == [input EXCEPT ![depth].text = text]
        IN  input' = [p \in Depths |-> [now[p] EXCEPT !.hint = ~now[p].text]]
  BY DEF EditMessage
<1> DEFINE now == [input EXCEPT ![depth].text = text]
<1>2. now \in [Depths -> [text : BOOLEAN, hint : BOOLEAN]]
  BY DEF RInv, Typed
<1>3. input' = [p \in Depths |-> [now[p] EXCEPT !.hint = ~now[p].text]]
  BY <1>1
<1> HIDE DEF now
<1>4. ASSUME NEW p \in Depths
      PROVE  /\ input'[p] \in [text : BOOLEAN, hint : BOOLEAN]
             /\ input'[p].hint = ~input'[p].text
  <2> DEFINE v == now[p]
             no == ~v.text
  <2>1. v \in [text : BOOLEAN, hint : BOOLEAN] /\ no \in BOOLEAN
    BY <1>2
  <2>2. input'[p] = [v EXCEPT !.hint = no]
    BY <1>3
  <2> HIDE DEF v
  <2>3. input'[p].text = v.text /\ input'[p].hint = no
    <3> HIDE DEF no
    <3> QED
      BY <2>1, <2>2
  <2>4. input'[p] \in [text : BOOLEAN, hint : BOOLEAN]
    <3> HIDE DEF no
    <3> QED
      BY <2>1, <2>2
  <2> QED
    BY <2>3, <2>4
<1>5. /\ input' \in [Depths -> [text : BOOLEAN, hint : BOOLEAN]]
      /\ HintIffEmpty'
  BY <1>3, <1>4 DEF HintIffEmpty
<1> QED
  BY <1>5 DEF RInv, Typed, NoPageAbove, EditMessage, user, phone

LEMMA SendKeeps == ASSUME RInv, NEW r \in Ids, Send(r) PROVE RInv'
<1>1. /\ clock' = clock + 1 /\ clock \in Nat
      /\ stamp' = [stamp EXCEPT ![r] = clock + 1]
      /\ UNCHANGED <<world, currentUser, server, cache, depth, listens, known, list>>
      /\ input' = [input EXCEPT ![depth] = EmptyInput]
  BY DEF RInv, Typed, Send, uploadReview, clearMessageText, user
<1>2. pending' \in [Users -> Seq(Ids)]
  <2>1. CASE UNCHANGED pending
    BY <2>1 DEF RInv, Typed
  <2>2. CASE /\ currentUser # NoUser
             /\ pending' = [pending EXCEPT ![currentUser] = Append(@, r)]
    <3>1. currentUser \in Users
      BY <2>2 DEF RInv, Typed, Credentials
    <3>2. Append(pending[currentUser], r) \in Seq(Ids)
      BY <3>1 DEF RInv, Typed
    <3> QED
      BY <2>2, <3>2, ExceptIsTyped DEF RInv, Typed
  <2> QED
    BY <2>1, <2>2 DEF Send, uploadReview
<1>3. stamp' \in [Ids -> Nat] /\ clock' \in Nat
  <2>1. clock + 1 \in Nat /\ stamp \in [Ids -> Nat]
    BY <1>1 DEF RInv, Typed
  <2> QED
    BY <1>1, <2>1, ExceptIsTyped
<1>4. EmptyInput \in [text : BOOLEAN, hint : BOOLEAN] /\ EmptyInput.hint /\ ~EmptyInput.text
  BY DEF EmptyInput
<1>5. input' \in [Depths -> [text : BOOLEAN, hint : BOOLEAN]] /\ HintIffEmpty'
  BY <1>1, <1>4 DEF RInv, Typed, HintIffEmpty
<1> QED
  BY <1>1, <1>2, <1>3, <1>5 DEF RInv, Typed, NoPageAbove

\* What Firestore and the rest of the world do touches no page, but for a
\* listener that ends.
LEMMA OthersKeep ==
    ASSUME RInv,
           \/ Ack \/ Reject
           \/ \E u \in Users : Sync(u) \/ \E r \in Ids, t \in Ids : SendElsewhere(u, r, t)
           \/ \E p \in Depths : ListenerFails(p)
           \/ \E c \in Credentials : SwitchUser(c)
    PROVE  RInv'
<1>1. CASE Ack \/ Reject
  <2>1. /\ currentUser \in Users /\ Tail(pending[currentUser]) \in Seq(Ids)
        /\ Oldest \in Ids
    BY <1>1, ToSetOfTail DEF RInv, Typed, Ack, Reject, Queued, Credentials, Oldest
  <2>2. pending' \in [Users -> Seq(Ids)]
    BY <1>1, <2>1, ExceptIsTyped DEF RInv, Typed, Ack, Reject, Dequeue
  <2>3. server' \in [Users -> SUBSET Ids] /\ cache' \in [Users -> SUBSET Ids]
    <3>1. /\ server[currentUser] \cup {Oldest} \in SUBSET Ids
          /\ cache[currentUser] \cup {Oldest} \in SUBSET Ids
      BY <2>1 DEF RInv, Typed
    <3>2. server \in [Users -> SUBSET Ids] /\ cache \in [Users -> SUBSET Ids]
      BY DEF RInv, Typed
    <3>3. CASE Ack
      <4>1. /\ server' = [server EXCEPT ![currentUser] = server[currentUser] \cup {Oldest}]
            /\ cache' = [cache EXCEPT ![currentUser] = cache[currentUser] \cup {Oldest}]
        BY <3>3 DEF Ack
      <4> QED
        BY <3>1, <3>2, <4>1, ExceptIsTyped
    <3>4. CASE Reject
      BY <3>2, <3>4 DEF Reject
    <3> QED
      BY <1>1, <3>3, <3>4
  <2>4. UNCHANGED <<world, currentUser, stamp, clock, pages>>
    BY <1>1 DEF Ack, Reject, user
  <2> QED
    BY <2>2, <2>3, <2>4 DEF RInv, Typed, NoPageAbove, HintIffEmpty, pages
<1>2. CASE \E u \in Users : Sync(u)
  <2>1. /\ UNCHANGED <<world, currentUser, server, stamp, pending, clock, pages>>
        /\ cache' \in [Users -> SUBSET Ids]
    BY <1>2 DEF RInv, Typed, Sync, user
  <2> QED
    BY <2>1 DEF RInv, Typed, NoPageAbove, HintIffEmpty, pages
<1>3. CASE \E u \in Users : \E r \in Ids, t \in Ids : SendElsewhere(u, r, t)
  <2>1. PICK u \in Users, r \in Ids, t \in Ids : SendElsewhere(u, r, t)
    BY <1>3
  <2>2. UNCHANGED <<world, currentUser, cache, pending, clock, pages>>
    BY <2>1 DEF SendElsewhere, user, phone
  <2>3. server' \in [Users -> SUBSET Ids]
    BY <2>1 DEF RInv, Typed, SendElsewhere
  <2>4. stamp' \in [Ids -> Nat]
    <3>1. t \in Nat
      BY DEF Ids
    <3> QED
      BY <2>1, <3>1, ExceptIsTyped DEF RInv, Typed, SendElsewhere
  <2> QED
    BY <2>2, <2>3, <2>4 DEF RInv, Typed, NoPageAbove, HintIffEmpty, pages
<1>4. CASE \E p \in Depths : ListenerFails(p)
  <2>1. PICK p \in Depths : ListenerFails(p)
    BY <1>4
  <2>2. /\ UNCHANGED <<world, currentUser, server, stamp, cache, pending, clock>>
        /\ UNCHANGED <<depth, known, list, input>>
        /\ listens' = [listens EXCEPT ![p] = NoUser]
    BY <2>1 DEF ListenerFails, user, phone
  <2>3. listens' \in [Depths -> Credentials]
    BY <2>2 DEF RInv, Typed, Credentials
  <2> QED
    BY <2>2, <2>3 DEF RInv, Typed, NoPageAbove, HintIffEmpty
<1>5. CASE \E c \in Credentials : SwitchUser(c)
  <2>1. /\ UNCHANGED <<world, server, stamp, cache, pending, clock, pages>>
        /\ currentUser' \in Credentials
    BY <1>5 DEF SwitchUser, phone
  <2> QED
    BY <2>1 DEF RInv, Typed, NoPageAbove, HintIffEmpty, pages
<1> QED
  BY <1>1, <1>2, <1>3, <1>4, <1>5

LEMMA NextRInv == RInv /\ [Next]_vars => RInv'
<1> SUFFICES ASSUME RInv, [Next]_vars PROVE RInv'
  OBVIOUS
<1>1. CASE UNCHANGED vars
  BY <1>1 DEF RInv, Typed, NoPageAbove, HintIffEmpty, vars, user, phone, pages
<1>2. CASE Back \/ Restart
  BY <1>2, CloseAllKeeps DEF Back, Restart
<1>3. CASE \E p \in Depths : Deliver(p)
  BY <1>3, DeliverKeeps
<1>4. CASE \E r \in Ids : Send(r)
  BY <1>4, SendKeeps
<1> QED
  BY <1>1, <1>2, <1>3, <1>4, OpenPageKeeps, SwipeBackKeeps, EditMessageKeeps, OthersKeep
  DEF Next

\* Every reachable state of every world: the types, no list left of a page
\* that is gone, and each placeholder on the text of its own view.
THEOREM ReviewsInvariance == Spec => []RInv
<1>1. RInv /\ [Next]_vars => RInv'
  BY NextRInv
<1> QED
  BY <1>1, InitRInv, PTL DEF Spec

\* A page shows its placeholder just when its own text is empty, whichever
\* text view's notification it hears (handleTextInputChange,
\* clearMessageText).
THEOREM HintsAreRight == Spec => []HintIffEmpty
<1>1. RInv => HintIffEmpty
  BY DEF RInv
<1> QED
  BY <1>1, ReviewsInvariance, PTL

----------------------------------------------------------------------------
(* What is appended to a list.                                             *)

Places(s, r) == {i \in DOMAIN s : s[i] = r}

LEMMA PlacesBefore ==
    ASSUME NEW s \in Seq(Ids), NEW D, NEW t \in Seq(D), NEW r, r \notin D
    PROVE  Places(s \o t, r) = Places(s, r)
<1> DEFINE u == s \o t
           m == Len(s)
           n == Len(t)
<1>1. /\ m \in Nat /\ n \in Nat /\ DOMAIN s = 1..m /\ DOMAIN u = 1..(m + n)
      /\ \A i \in 1..(m + n) : u[i] = IF i <= m THEN s[i] ELSE t[i - m]
  OBVIOUS
<1>2. \A i \in 1..n : t[i] # r
  OBVIOUS
<1> HIDE DEF u, m, n
<1>3. ASSUME NEW i \in 1..(m + n), u[i] = r PROVE i \in 1..m /\ s[i] = r
  <2>1. CASE i <= m
    BY <1>1, <1>3, <2>1
  <2>2. CASE ~(i <= m)
    <3>1. PICK j \in 1..n : j = i - m
      BY <1>1, <2>2
    <3>2. u[i] = t[j]
      BY <1>1, <2>2, <3>1
    <3> QED
      BY <1>2, <1>3, <3>2
  <2> QED
    BY <2>1, <2>2
<1>4. ASSUME NEW i \in 1..m, s[i] = r PROVE i \in 1..(m + n) /\ u[i] = r
  BY <1>1, <1>4
<1> QED
  BY <1>1, <1>3, <1>4 DEF Places, u

LEMMA StepAddsOnlyNew ==
    ASSUME RInv, Next, NEW p \in Depths, NEW r \in known[p], depth' = depth
    PROVE  Places(list'[p], r) = Places(list[p], r)
<1>1. CASE UNCHANGED list
  BY <1>1
<1>2. CASE Back \/ SwipeBack
  BY <1>2 DEF RInv, Typed, Back, SwipeBack, CloseAll
<1>3. CASE Restart
  <2>1. p \in Nat \ {0} /\ depth = 0
    BY <1>3 DEF Restart, CloseAll, Depths
  <2>2. p > depth
    BY <2>1
  <2> QED
    BY <2>2 DEF RInv, NoPageAbove
<1>4. CASE \E q \in Depths : Deliver(q)
  <2>1. PICK q \in Depths : Deliver(q)
    BY <1>4
  <2> DEFINE D == Visible(listens[q]) \ known[q]
             t == ByTimestamp(D)
  <2>2. t \in Seq(D) /\ list' = [list EXCEPT ![q] = list[q] \o t]
        /\ list \in [Depths -> Seq(Ids)] /\ (p = q => r \notin D)
    BY <2>1, DeliverIs DEF RInv, Typed
  <2> HIDE DEF D, t
  <2>3. CASE p = q
    BY <2>2, <2>3, PlacesBefore
  <2>4. CASE p # q
    BY <2>2, <2>4
  <2> QED
    BY <2>3, <2>4
<1> QED
  BY <1>1, <1>2, <1>3, <1>4
  DEF Next, OpenPage, ListenerFails, EditMessage, Send, Ack, Reject, Sync,
      SendElsewhere, SwitchUser, pages

\* In every world, a snapshot adds to a list only what its listener had not
\* reported: a review is listed again only after it was seen withdrawn
\* (downReview).
THEOREM ListsAddOnlyNew == Spec => AgainOnlyIfWithdrawn
<1>1. ASSUME RInv, [Next]_vars, NEW p \in Depths, NEW r \in known[p], depth' = depth
      PROVE  Places(list'[p], r) = Places(list[p], r)
  BY <1>1, StepAddsOnlyNew DEF vars, pages
<1>2. RInv /\ [Next]_vars =>
        [\A p \in Depths : \A r \in known[p] :
            depth' = depth =>
               Cardinality({i \in DOMAIN list[p] : list[p][i] = r})
             = Cardinality({i \in DOMAIN list'[p] : list'[p][i] = r})]_vars
  BY <1>1 DEF Places
<1> QED
  BY <1>2, ReviewsInvariance, PTL DEF Spec, AgainOnlyIfWithdrawn

----------------------------------------------------------------------------
(* A quiet world, step by step.                                            *)

LEMMA WorldStays == [Next]_vars => (Quiet' <=> Quiet)
<1> SUFFICES ASSUME [Next]_vars PROVE UNCHANGED world
  BY DEF Quiet
<1> QED
  BY DEF Next, OpenPage, Back, SwipeBack, Deliver, ListenerFails, EditMessage, Send, Ack,
         Reject, Sync, SendElsewhere, SwitchUser, Restart, vars

LEMMA VisibleIsHeld ==
    ASSUME OneQueue, NEW u \in Users PROVE Visible(u) = Held(u)
<1>1. ToSet(<<>>) = {}
  BY DEF ToSet
<1> QED
  BY <1>1 DEF OneQueue, Visible, Held

LEMMA HeldIsTyped ==
    ASSUME RInv, NEW u \in Users PROVE Held(u) \subseteq Ids
BY DEF RInv, Typed, Held, ToSet

\* An enumeration stays one while its reviews keep their stamps.
LEMMA OrderStays ==
    ASSUME NEW K \in SUBSET Ids, NEW s, Enumerates(s, K, Order),
           \A q \in K : stamp'[q] = stamp[q]
    PROVE  Enumerates(s, K, Order')
<1> DEFINE n == Cardinality(K)
<1>1. s \in [1..n -> K] /\ \A i, j \in 1..n : i < j => <<s[i], s[j]>> \in Order
  BY DEF Enumerates
<1>2. \A q, r \in K : <<q, r>> \in Order => <<q, r>> \in Order'
  BY DEF Order, Earlier
<1>3. \A i, j \in 1..n : i < j => <<s[i], s[j]>> \in Order'
  <2> HIDE DEF n
  <2> QED
    BY <1>1, <1>2
<1> QED
  BY <1>3 DEF Enumerates

\* A page that is left alone still shows a first part of what is held, when
\* what joined it is later.
LEMMA PageStays ==
    ASSUME RInv, NEW p \in Depths, PageIsAPrefix(p),
           listens'[p] = listens[p], known'[p] = known[p], list'[p] = list[p],
           \A u \in Users : \A q \in Held(u) :
                /\ q \in Held(u)'
                /\ stamp'[q] = stamp[q]
                /\ \A r \in Held(u)' \ Held(u) : stamp[q] < stamp'[r]
    PROVE  PageIsAPrefix(p)'
<1>1. CASE listens[p] = NoUser
  <2>1. known[p] = {}
    BY <1>1 DEF PageIsAPrefix
  <2> QED
    BY <1>1, <2>1, OrderStays DEF PageIsAPrefix
<1>2. CASE listens[p] # NoUser
  <2>0. PICK u \in Users : u = listens[p]
    BY <1>2 DEF RInv, Typed, Credentials
  <2>1. known[p] \in SUBSET Ids
    BY DEF RInv, Typed
  <2>2. /\ known[p] \subseteq Held(u)
        /\ \A q \in known[p] : \A r \in Held(u) \ known[p] : stamp[q] < stamp[r]
        /\ Enumerates(list[p], known[p], Order)
    BY <1>2, <2>0 DEF PageIsAPrefix
  <2>3. known[p] \subseteq Held(u)'
    BY <2>1, <2>2
  <2>4. ASSUME NEW q \in known[p], NEW r \in Held(u)' \ known[p]
        PROVE  stamp'[q] < stamp'[r]
    <3>1. q \in Held(u) /\ stamp'[q] = stamp[q]
      BY <2>1, <2>2
    <3>2. CASE r \in Held(u)
      BY <2>1, <2>2, <3>1, <3>2
    <3>3. CASE r \notin Held(u)
      BY <2>1, <3>1, <3>3
    <3> QED
      BY <3>2, <3>3
  <2>5. Enumerates(list[p], known[p], Order')
    BY <2>1, <2>2, OrderStays
  <2>6. listens'[p] = u /\ u # NoUser
    BY <1>2, <2>0
  <2>7. /\ known'[p] \subseteq Held(u)'
        /\ \A q \in known'[p] : \A r \in Held(u)' \ known'[p] : stamp'[q] < stamp'[r]
        /\ Enumerates(list'[p], known'[p], Order')
    BY <2>3, <2>4, <2>5
  <2> QED
    BY <2>6, <2>7 DEF PageIsAPrefix, Held
<1> QED
  BY <1>1, <1>2

LEMMA EmptyPage ==
    ASSUME NEW p \in Depths, known'[p] = {}, list'[p] = <<>>
    PROVE  PageIsAPrefix(p)'
BY NothingIsOrdered DEF PageIsAPrefix

LEMMA InitQuietInv == Init => QuietInv
<1> SUFFICES ASSUME Init PROVE QuietInv
  OBVIOUS
<1>1. ToSet(<<>>) = {}
  BY DEF ToSet
<1>2. OneQueue
  BY DEF Init, OneQueue
<1>3. StampsAreOld
  BY <1>1 DEF Init, StampsAreOld, Held
<1>4. \A p \in Depths : PageIsAPrefix(p)
  BY NothingIsOrdered DEF Init, PageIsAPrefix
<1> QED
  BY <1>2, <1>3, <1>4 DEF QuietInv

\* What every step below starts from.
Peaceful ==
    /\ RInv
    /\ OneQueue
    /\ StampsAreOld
    /\ \A p \in Depths : PageIsAPrefix(p)

\* What is held, and its stamps, stay; the pages may go.
LEMMA HeldStays ==
    ASSUME Peaceful, UNCHANGED <<stamp, clock>>, OneQueue',
           \A u \in Users : Held(u)' = Held(u),
           \A p \in Depths :
                \/ known'[p] = {} /\ list'[p] = <<>>
                \/ /\ listens'[p] = listens[p]
                   /\ known'[p] = known[p] /\ list'[p] = list[p]
    PROVE  OneQueue' /\ StampsAreOld' /\ \A p \in Depths : PageIsAPrefix(p)'
<1>1. StampsAreOld'
  BY DEF Peaceful, StampsAreOld
<1>2. ASSUME NEW p \in Depths PROVE PageIsAPrefix(p)'
  <2>1. CASE known'[p] = {} /\ list'[p] = <<>>
    BY <2>1, EmptyPage
  <2>2. CASE /\ listens'[p] = listens[p]
             /\ known'[p] = known[p] /\ list'[p] = list[p]
    BY <2>2, PageStays DEF Peaceful
  <2> QED
    BY <2>1, <2>2
<1> QED
  BY <1>1, <1>2

\* The pages come and go, and the user types.
LEMMA PagesStep ==
    ASSUME Peaceful, OpenPage \/ Back \/ SwipeBack \/ Restart \/ EditMessage
    PROVE  OneQueue' /\ StampsAreOld' /\ \A p \in Depths : PageIsAPrefix(p)'
<1>1. UNCHANGED <<currentUser, server, cache, pending, stamp, clock>>
  BY DEF OpenPage, Back, SwipeBack, Restart, EditMessage, user, phone
<1>2. OneQueue' /\ \A u \in Users : Held(u)' = Held(u)
  BY <1>1 DEF Peaceful, OneQueue, Held
<1>3. ASSUME NEW p \in Depths
      PROVE  \/ known'[p] = {} /\ list'[p] = <<>>
             \/ /\ listens'[p] = listens[p]
                /\ known'[p] = known[p] /\ list'[p] = list[p]
  <2>1. CASE OpenPage
    <3>1. CASE p = depth + 1
      <4>1. p > depth
        BY <3>1 DEF Peaceful, RInv, Typed
      <4>2. known[p] = {} /\ list[p] = <<>>
        BY <4>1 DEF Peaceful, RInv, NoPageAbove
      <4> QED
        BY <2>1, <4>2 DEF OpenPage
    <3>2. CASE p # depth + 1
      BY <2>1, <3>2 DEF OpenPage, Peaceful, RInv, Typed
    <3> QED
      BY <3>1, <3>2
  <2>2. CASE Back \/ Restart
    BY <2>2 DEF Back, Restart, CloseAll
  <2>3. CASE SwipeBack
    BY <2>3 DEF SwipeBack, Peaceful, RInv, Typed
  <2>4. CASE EditMessage
    BY <2>4 DEF EditMessage
  <2> QED
    BY <2>1, <2>2, <2>3, <2>4
<1> QED
  BY <1>1, <1>2, <1>3, HeldStays

\* The server takes a review: it leaves its queue for the cache.
LEMMA AckStep ==
    ASSUME Peaceful, Ack
    PROVE  OneQueue' /\ StampsAreOld' /\ \A p \in Depths : PageIsAPrefix(p)'
<1>1. /\ currentUser \in Users /\ pending[currentUser] \in Seq(Ids)
      /\ pending[currentUser] # <<>>
      /\ pending \in [Users -> Seq(Ids)]
      /\ cache \in [Users -> SUBSET Ids] /\ server = cache
  BY DEF Ack, Queued, Peaceful, RInv, Typed, Credentials, OneQueue
<1>2. /\ pending' = [pending EXCEPT ![currentUser] = Tail(pending[currentUser])]
      /\ cache' = [cache EXCEPT ![currentUser] = cache[currentUser] \cup {Oldest}]
      /\ server' = [server EXCEPT ![currentUser] = server[currentUser] \cup {Oldest}]
      /\ UNCHANGED <<currentUser, stamp, clock, listens, known, list>>
  BY DEF Ack, Dequeue, user, pages
<1>3. ToSet(pending[currentUser]) = ToSet(Tail(pending[currentUser])) \cup {Oldest}
  BY <1>1, ToSetOfTail DEF Oldest
<1>4. OneQueue'
  BY <1>1, <1>2 DEF Peaceful, OneQueue
<1>5. ASSUME NEW u \in Users PROVE Held(u)' = Held(u)
  <2>1. CASE u = currentUser
    <3>1. /\ cache'[u] = cache[u] \cup {Oldest}
          /\ pending'[u] = Tail(pending[u])
          /\ ToSet(pending[u]) = ToSet(Tail(pending[u])) \cup {Oldest}
      BY <1>1, <1>2, <1>3, <2>1
    <3> QED
      BY <3>1 DEF Held
  <2>2. CASE u # currentUser
    BY <1>1, <1>2, <2>2 DEF Held
  <2> QED
    BY <2>1, <2>2
<1> QED
  BY <1>2, <1>4, <1>5, HeldStays

\* The user changes with empty queues.
LEMMA SwitchUserStep ==
    ASSUME Peaceful, Quiet, NEW c \in Credentials, SwitchUser(c)
    PROVE  OneQueue' /\ StampsAreOld' /\ \A p \in Depths : PageIsAPrefix(p)'
<1>1. UNCHANGED <<server, cache, pending, stamp, clock, listens, known, list>>
  BY DEF SwitchUser, phone, pages
<1>2. \A u \in Users : pending[u] = <<>>
  <2>1. ~Queued
    BY DEF SwitchUser, Quiet
  <2> QED
    BY <2>1, ReviewsAssumption DEF Queued, Peaceful, OneQueue
<1>3. OneQueue' /\ \A u \in Users : Held(u)' = Held(u)
  BY <1>1, <1>2 DEF Peaceful, OneQueue, Held
<1> QED
  BY <1>1, <1>3, HeldStays

\* A review is sent: it is held from now on, and later than all that is.
LEMMA SendStep ==
    ASSUME Peaceful, NEW r \in Ids, Send(r)
    PROVE  OneQueue' /\ StampsAreOld' /\ \A p \in Depths : PageIsAPrefix(p)'
<1>1. /\ clock \in Nat /\ stamp \in [Ids -> Nat] /\ stamp[r] = 0
      /\ pending \in [Users -> Seq(Ids)] /\ currentUser \in Users \cup {NoUser}
      /\ clock' = clock + 1
      /\ stamp' = [stamp EXCEPT ![r] = clock + 1]
      /\ UNCHANGED <<currentUser, server, cache, listens, known, list>>
  BY DEF Peaceful, RInv, Typed, Send, uploadReview, user, Fresh, Credentials
<1>2. /\ \A q \in Ids : stamp[q] \in Nat /\ stamp[q] <= clock
      /\ \A u \in Users : \A q \in Held(u) : q \in Ids /\ stamp[q] > 0 /\ q # r
  BY <1>1, HeldIsTyped DEF Peaceful, StampsAreOld
<1>3. /\ stamp'[r] = clock + 1
      /\ \A q \in Ids \ {r} : stamp'[q] = stamp[q]
  BY <1>1
<1>4. OneQueue' /\ \A u \in Users : Held(u)' = Held(u) \/ Held(u)' = Held(u) \cup {r}
  <2>1. CASE UNCHANGED pending
    BY <1>1, <2>1 DEF Peaceful, OneQueue, Held
  <2>2. CASE /\ currentUser # NoUser
             /\ pending' = [pending EXCEPT ![currentUser] = Append(@, r)]
    <3>1. currentUser \in Users
      BY <1>1, <2>2
    <3>2. OneQueue'
      BY <1>1, <2>2 DEF Peaceful, OneQueue
    <3>3. ASSUME NEW u \in Users
          PROVE  Held(u)' = Held(u) \/ Held(u)' = Held(u) \cup {r}
      <4>1. CASE u = currentUser
        <5>1. pending'[u] = Append(pending[u], r)
          BY <1>1, <2>2, <4>1
        <5>2. ToSet(pending'[u]) = ToSet(pending[u]) \cup {r}
          BY <1>1, <5>1, ToSetOfAppend
        <5> QED
          BY <1>1, <5>2 DEF Held
      <4>2. CASE u # currentUser
        BY <1>1, <2>2, <4>2 DEF Held
      <4> QED
        BY <4>1, <4>2
    <3> QED
      BY <3>2, <3>3
  <2> QED
    BY <2>1, <2>2 DEF Send, uploadReview
<1>5. StampsAreOld'
  <2>1. ASSUME NEW q \in Ids PROVE stamp'[q] <= clock'
    BY <1>1, <1>2, <1>3
  <2>2. ASSUME NEW u \in Users, NEW q \in Held(u)' PROVE stamp'[q] > 0
    <3>1. CASE q = r
      BY <1>1, <1>3, <3>1
    <3>2. CASE q # r
      <4>1. q \in Held(u)
        BY <1>4, <3>2
      <4> QED
        BY <1>2, <1>3, <3>2, <4>1
    <3> QED
      BY <3>1, <3>2
  <2> QED
    BY <2>1, <2>2 DEF StampsAreOld
<1>6. ASSUME NEW u \in Users, NEW q \in Held(u)
      PROVE  /\ q \in Held(u)'
             /\ stamp'[q] = stamp[q]
             /\ \A t \in Held(u)' \ Held(u) : stamp[q] < stamp'[t]
  <2>1. q \in Held(u)' /\ stamp'[q] = stamp[q]
    BY <1>2, <1>3, <1>4
  <2>2. ASSUME NEW t \in Held(u)' \ Held(u) PROVE stamp[q] < stamp'[t]
    <3>1. t = r
      BY <1>4
    <3>2. stamp[q] \in Nat /\ stamp[q] <= clock
      BY <1>2
    <3>3. stamp[q] < clock + 1
      BY <1>1, <3>2
    <3> QED
      BY <1>3, <3>1, <3>3
  <2> QED
    BY <2>1, <2>2
<1>7. ASSUME NEW p \in Depths PROVE PageIsAPrefix(p)'
  <2>1. /\ RInv /\ PageIsAPrefix(p)
        /\ listens'[p] = listens[p] /\ known'[p] = known[p] /\ list'[p] = list[p]
    BY <1>1 DEF Peaceful
  <2> QED
    BY <1>6, <2>1, PageStays
<1> QED
  BY <1>4, <1>5, <1>7

\* A snapshot adds what is held and was not reported, all of it later than
\* what was.
LEMMA DeliverStep ==
    ASSUME Peaceful, NEW p \in Depths, Deliver(p)
    PROVE  OneQueue' /\ StampsAreOld' /\ \A q \in Depths : PageIsAPrefix(q)'
<1>1. PICK u \in Users : u = listens[p]
  BY DeliverIs DEF Peaceful
<1> DEFINE D == Held(u) \ known[p]
           t == ByTimestamp(D)
<1>2. Visible(u) = Held(u) /\ Held(u) \in SUBSET Ids
  BY VisibleIsHeld, HeldIsTyped DEF Peaceful
<1>3. /\ known' = [known EXCEPT ![p] = Held(u)]
      /\ list' = [list EXCEPT ![p] = list[p] \o t]
  BY <1>1, <1>2, DeliverIs DEF Peaceful
<1>4. UNCHANGED <<currentUser, server, cache, pending, stamp, clock, listens>>
  BY DEF Deliver, user, phone
<1>5. /\ stamp \in [Ids -> Nat] /\ known \in [Depths -> SUBSET Ids]
      /\ list \in [Depths -> Seq(Ids)]
  BY DEF Peaceful, RInv, Typed
<1>6. /\ known[p] \subseteq Held(u)
      /\ \A q \in known[p] : \A r \in Held(u) \ known[p] : stamp[q] < stamp[r]
      /\ Enumerates(list[p], known[p], Order)
  BY <1>1, ReviewsAssumption DEF Peaceful, PageIsAPrefix
<1>7. Enumerates(t, D, Order)
  <2>1. D \in SUBSET Ids
    BY <1>2
  <2> HIDE DEF D
  <2> QED
    BY <1>5, <2>1, QueryEnumerates
<1>8. Enumerates(list[p] \o t, Held(u), Order)
  <2>1. IsFiniteSet(known[p]) /\ IsFiniteSet(D)
    BY <1>2, <1>5, IdsAreFinite
  <2>2. \A q \in known[p] : \A r \in D : <<q, r>> \in Order
    BY <1>2, <1>5, <1>6 DEF Order, Earlier
  <2>3. known[p] \cap D = {} /\ known[p] \cup D = Held(u)
    BY <1>6
  <2> HIDE DEF t, D
  <2>4. Enumerates(list[p] \o t, known[p] \cup D, Order)
    BY <1>6, <1>7, <2>1, <2>2, <2>3, EnumerationsJoin
  <2> QED
    BY <2>3, <2>4
<1>9. Order' = Order /\ \A v \in Users : Held(v)' = Held(v)
  BY <1>4 DEF Order, Earlier, Held
<1>10. OneQueue' /\ StampsAreOld'
  BY <1>4, <1>9 DEF Peaceful, OneQueue, StampsAreOld
<1>11. ASSUME NEW q \in Depths PROVE PageIsAPrefix(q)'
  <2>1. CASE q = p
    <3> DEFINE l == list[p] \o t
    <3>1. known'[q] = Held(u) /\ list'[q] = l /\ listens'[q] = u
      BY <1>1, <1>3, <1>4, <1>5, <2>1
    <3>2. Enumerates(l, Held(u), Order')
      BY <1>8, <1>9
    <3>3. Held(u)' = Held(u) /\ u # NoUser
      BY <1>9, ReviewsAssumption
    <3> HIDE DEF l, t
    <3> QED
      BY <3>1, <3>2, <3>3 DEF PageIsAPrefix, Held
  <2>2. CASE q # p
    <3>1. /\ RInv /\ PageIsAPrefix(q)
          /\ listens'[q] = listens[q] /\ known'[q] = known[q] /\ list'[q] = list[q]
      BY <1>3, <1>4, <2>2 DEF Peaceful
    <3> QED
      BY <1>4, <1>9, <3>1, PageStays
  <2> QED
    BY <2>1, <2>2
<1> QED
  BY <1>10, <1>11

LEMMA NextQuietInv == RInv /\ QuietInv /\ [Next]_vars => QuietInv'
<1> SUFFICES ASSUME RInv, QuietInv, [Next]_vars, Quiet
             PROVE  OneQueue' /\ StampsAreOld' /\ \A p \in Depths : PageIsAPrefix(p)'
  BY WorldStays DEF QuietInv
<1>1. Peaceful
  BY DEF Peaceful, QuietInv
<1>2. CASE UNCHANGED vars
  <2>1. /\ OneQueue' /\ UNCHANGED <<stamp, clock, listens, known, list>>
        /\ \A u \in Users : Held(u)' = Held(u)
    BY <1>1, <1>2 DEF Peaceful, OneQueue, Held, vars, user, phone, pages
  <2> QED
    BY <1>1, <2>1, HeldStays
<1>3. CASE Next
  <2>1. ~Reject /\ \A p \in Depths : ~ListenerFails(p)
    BY DEF Quiet, Reject, ListenerFails
  <2>2. \A u \in Users : ~Sync(u) /\ \A r, t \in Ids : ~SendElsewhere(u, r, t)
    BY <1>1 DEF Peaceful, OneQueue, Quiet, Sync, SendElsewhere
  <2> QED
    BY <1>1, <1>3, <2>1, <2>2, PagesStep, AckStep, SwitchUserStep, SendStep, DeliverStep
    DEF Next
<1> QED
  BY <1>2, <1>3

\* In a quiet world a page only ever falls behind: what it shows is a first
\* part, by timestamp, of what the phone holds of the collection.
THEOREM QuietReviews == Spec => []QuietInv
<1>1. RInv /\ QuietInv /\ [Next]_vars => QuietInv'
  BY NextQuietInv
<1> QED
  BY <1>1, InitQuietInv, ReviewsInvariance, PTL DEF Spec

\* Although a page only appends, it shows what its listener reported, each
\* review once and by timestamp, with one phone, accepted writes and no change
\* of user while one is unacknowledged (downReview).
THEOREM ListsFollowTheQuery == Spec => []ListIsTheQuery
<1>1. RInv /\ QuietInv => ListIsTheQuery
  <2> SUFFICES ASSUME RInv, QuietInv, Quiet, NEW p \in Depths
               PROVE  list[p] = ByTimestamp(known[p])
    BY DEF ListIsTheQuery
  <2>1. /\ stamp \in [Ids -> Nat] /\ known[p] \in SUBSET Ids
        /\ Enumerates(list[p], known[p], Order)
    BY DEF RInv, Typed, QuietInv, PageIsAPrefix
  <2> QED
    BY <2>1, QueryIsTheOrder
<1> QED
  BY <1>1, ReviewsInvariance, QuietReviews, PTL
=============================================================================
