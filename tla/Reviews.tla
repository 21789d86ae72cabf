------------------------------ MODULE Reviews ------------------------------
(***************************************************************************)
(* The reviews of one movie: the collection reviews/<uid>/<title> of each  *)
(* user, and the review pages stacked on the search tab.                   *)
(*                                                                         *)
(* A page reads the collection of the user logged in when it was opened,   *)
(* through a Firestore snapshot listener, and only ever appends: each      *)
(* document a snapshot reports as added goes to the end of its list.  A    *)
(* review is sent to the collection of the user logged in now, and is      *)
(* visible before the server has it (latency compensation).                *)
(*                                                                         *)
(* A snapshot is delivered as the difference between what the listener     *)
(* last reported and what it sees now; the pages already popped keep their *)
(* listeners, which nobody sees and which are left out.                    *)
(***************************************************************************)
EXTENDS Naturals, SequencesExt

CONSTANTS
    Users, NoUser,
    MaxReviews, \* bound: reviews are 1..MaxReviews, numbers standing for
                \* Firestore's random document ids
    MaxDepth,   \* bound: review pages stacked on the search tab
    Worlds      \* the surroundings an instance may have, one for a behaviour

\* reviews and switches bound the reviews made and the changes of user.
World ==
    [reviews           : 1..MaxReviews,
     switches          : Nat,
     otherPhones       : BOOLEAN,  \* the account is used on another phone too
     rejects           : BOOLEAN,  \* the server may refuse a write
     switchWithPending : BOOLEAN,  \* the user may change while a write is
                                   \* unacknowledged
     typing            : BOOLEAN]  \* the user types, and does not only send

ASSUME ReviewsAssumption ==
    /\ NoUser \notin Users
    /\ {MaxReviews, MaxDepth} \subseteq Nat
    /\ Worlds \subseteq World

VARIABLES
    world,
    currentUser,
    switches, \* how often it changed
    server,   \* the collections on the server
    cache,    \* what this phone knows of them
    pending,  \* unacknowledged reviews, per mutation queue, oldest first
    sent,     \* reviews sent from this phone
    stamp,    \* Timestamp(date: Date()) of each review, 0 before it is sent
    clock,    \* the phone's clock, in reviews sent
    depth,    \* review pages on the stack
    listens,  \* whose collection each page listens to
    known,    \* the documents its listener last reported
    list,     \* the reviews it shows, top to bottom
    input     \* its input view: whether it holds text, and whether it shows
              \* the placeholder "Enter Message"

phone == <<cache, pending, sent, clock>>
pages == <<depth, listens, known, list, input>>
user  == <<currentUser, switches>>
vars  == <<world, user, server, stamp, phone, pages>>

Ids         == 1..MaxReviews
Depths      == 1..MaxDepth
Credentials == Users \cup {NoUser}

\* AccessoryView as it is created.
EmptyInput == [text |-> FALSE, hint |-> TRUE]

Init ==
    /\ world \in Worlds
    /\ currentUser \in Credentials
    /\ switches = 0
    /\ server = [u \in Users |-> {}]
    /\ cache = [u \in Users |-> {}]
    /\ pending = [u \in Users |-> <<>>]
    /\ sent = {}
    /\ stamp = [r \in Ids |-> 0]
    /\ clock = 0
    /\ depth = 0
    /\ listens = [p \in Depths |-> NoUser]
    /\ known = [p \in Depths |-> {}]
    /\ list = [p \in Depths |-> <<>>]
    /\ input = [p \in Depths |-> EmptyInput]

----------------------------------------------------------------------------
Fresh == {r \in 1..world.reviews : stamp[r] = 0}

\* What a listener of u sees: the phone's copy of the collection, and the
\* writes of the logged-in user that the server has not answered.
Visible(u) == cache[u] \cup (IF u = currentUser THEN ToSet(pending[u]) ELSE {})

\* order(by: "timestamp"), ties by document id.
Earlier(r, q) ==
    \/ stamp[r] < stamp[q]
    \/ stamp[r] = stamp[q] /\ r < q

ByTimestamp(S) ==
    CHOOSE s \in [1..Cardinality(S) -> S] :
        /\ ToSet(s) = S
        /\ \A i, j \in 1..Cardinality(S) : i < j => Earlier(s[i], s[j])

----------------------------------------------------------------------------
(* The pages.                                                              *)

OpenPage ==
    /\ depth < MaxDepth
    /\ depth' = depth + 1
    /\ listens' = [listens EXCEPT ![depth + 1] = currentUser]
    /\ UNCHANGED <<world, user, server, stamp, phone, known, list, input>>

\* The back button pops to the root of the tab, and so does a second tap on
\* its tab bar item.
CloseAll ==
    /\ depth' = 0
    /\ listens' = [p \in Depths |-> NoUser]
    /\ known' = [p \in Depths |-> {}]
    /\ list' = [p \in Depths |-> <<>>]
    /\ input' = [p \in Depths |-> EmptyInput]

Back ==
    /\ depth > 0
    /\ CloseAll
    /\ UNCHANGED <<world, user, server, stamp, phone>>

\* UIKit's edge swipe takes the top page only; the page under it has gone on
\* listening.
SwipeBack ==
    /\ depth > 0
    /\ depth' = depth - 1
    /\ listens' = [listens EXCEPT ![depth] = NoUser]
    /\ known' = [known EXCEPT ![depth] = {}]
    /\ list' = [list EXCEPT ![depth] = <<>>]
    /\ input' = [input EXCEPT ![depth] = EmptyInput]
    /\ UNCHANGED <<world, user, server, stamp, phone>>

\* Mutant: the query is not ordered.
DeliverUnordered(p) ==
    /\ listens[p] # NoUser
    /\ LET now == Visible(listens[p]) IN
          /\ now # known[p]
          /\ known' = [known EXCEPT ![p] = now]
          /\ list' = [list EXCEPT ![p] = @ \o SetToSortSeq(now \ known[p], <)]
    /\ UNCHANGED <<world, user, server, stamp, phone, depth, listens, input>>

\* Mutant: every change is appended, removals too.
DeliverEveryChange(p) ==
    /\ listens[p] # NoUser
    /\ LET now == Visible(listens[p]) IN
          /\ now # known[p]
          /\ known' = [known EXCEPT ![p] = now]
          /\ list' = [list EXCEPT ![p] = @ \o ByTimestamp(known[p] \ now)
                                           \o ByTimestamp(now \ known[p])]
    /\ UNCHANGED <<world, user, server, stamp, phone, depth, listens, input>>

\* Mutant: the collection is read once, not listened to.
DeliverOnce(p) ==
    /\ listens[p] # NoUser
    /\ known[p] = {}
    /\ LET now == Visible(listens[p]) IN
          /\ now # {}
          /\ known' = [known EXCEPT ![p] = now]
          /\ list' = [list EXCEPT ![p] = @ \o ByTimestamp(now)]
    /\ UNCHANGED <<world, user, server, stamp, phone, depth, listens, input>>

\* One snapshot: the added documents in query order, nothing for the others.
Deliver(p) ==
    /\ listens[p] # NoUser
    /\ LET now == Visible(listens[p]) IN
          /\ now # known[p]
          /\ known' = [known EXCEPT ![p] = now]
          /\ list' = [list EXCEPT ![p] = @ \o ByTimestamp(now \ known[p])]
    /\ UNCHANGED <<world, user, server, stamp, phone, depth, listens, input>>

\* An error ends a listener; the code ignores the empty snapshot.
ListenerFails(p) ==
    /\ world.rejects
    /\ listens[p] # NoUser
    /\ listens' = [listens EXCEPT ![p] = NoUser]
    /\ UNCHANGED <<world, user, server, stamp, phone, depth, known, list, input>>

----------------------------------------------------------------------------
(* The input view of the page on top.                                      *)

\* handleTextInputChange: each page's input view hears of a change of any
\* text view, and looks at its own text.
EditMessage ==
    /\ world.typing
    /\ depth > 0
    /\ \E text \in BOOLEAN :
          LET now == [input EXCEPT ![depth].text = text]
          IN  input' = [p \in Depths |-> [now[p] EXCEPT !.hint = ~now[p].text]]
    /\ UNCHANGED <<world, user, server, stamp, phone, depth, listens, known, list>>

\* Mutant: the placeholder is left to the notification, which a text set by
\* the program does not send.
clearMessageTextOnly == input' = [input EXCEPT ![depth].text = FALSE]

clearMessageText == input' = [input EXCEPT ![depth] = EmptyInput]

\* uploadReview: nothing is written without a logged-in user.
uploadReview(r) ==
    /\ clock' = clock + 1
    /\ stamp' = [stamp EXCEPT ![r] = clock + 1]
    /\ sent' = sent \cup {r}
    /\ \/ currentUser = NoUser /\ UNCHANGED pending
       \/ /\ currentUser # NoUser
          /\ pending' = [pending EXCEPT ![currentUser] = Append(@, r)]

\* wantsToSend: an empty text is sent too, and the text is cleared in every
\* case.
Send(r) ==
    /\ depth > 0
    /\ r \in Fresh
    /\ uploadReview(r)
    /\ clearMessageText
    /\ UNCHANGED <<world, user, server, cache, depth, listens, known, list>>

----------------------------------------------------------------------------
(* Firestore and the rest of the world.                                    *)

Oldest == pending[currentUser][1]

Queued == currentUser # NoUser /\ pending[currentUser] # <<>>

Dequeue == pending' = [pending EXCEPT ![currentUser] = Tail(@)]

Ack ==
    /\ Queued
    /\ Dequeue
    /\ server' = [server EXCEPT ![currentUser] = @ \cup {Oldest}]
    /\ cache' = [cache EXCEPT ![currentUser] = @ \cup {Oldest}]
    /\ UNCHANGED <<world, user, stamp, sent, clock, pages>>

Reject ==
    /\ world.rejects
    /\ Queued
    /\ Dequeue
    /\ UNCHANGED <<world, user, server, stamp, cache, sent, clock, pages>>

SendElsewhere(u, r, t) ==
    /\ world.otherPhones
    /\ r \in Fresh
    /\ stamp' = [stamp EXCEPT ![r] = t]
    /\ server' = [server EXCEPT ![u] = @ \cup {r}]
    /\ UNCHANGED <<world, user, phone, pages>>

Sync(u) ==
    /\ cache[u] # server[u]
    /\ cache' = [cache EXCEPT ![u] = server[u]]
    /\ UNCHANGED <<world, user, server, stamp, pending, sent, clock, pages>>

\* Log out and log in, on the other tab: the pages stay on their stack.
SwitchUser(c) ==
    /\ c # currentUser
    /\ switches < world.switches
    /\ switches' = switches + 1
    /\ ~world.switchWithPending => ~Queued
    /\ currentUser' = c
    /\ UNCHANGED <<world, server, stamp, phone, pages>>

\* The process restarts: cache and mutation queues are on disk.
Restart ==
    /\ CloseAll
    /\ UNCHANGED <<world, user, server, stamp, phone>>

Next ==
    \/ OpenPage \/ Back \/ SwipeBack
    \/ \E p \in Depths : Deliver(p) \/ ListenerFails(p)
    \/ EditMessage
    \/ \E r \in Ids : Send(r)
    \/ Ack \/ Reject
    \/ \E u \in Users : \/ Sync(u)
                        \/ \E r \in Ids, t \in Ids : SendElsewhere(u, r, t)
    \/ \E c \in Credentials : SwitchUser(c)
    \/ Restart

\* Firestore keeps delivering snapshots; it need not reach the server.
Fairness == \A p \in Depths : WF_vars(Deliver(p))

Spec == Init /\ [][Next]_vars
FairSpec == Spec /\ Fairness

----------------------------------------------------------------------------
TypeOK ==
    /\ world \in Worlds
    /\ currentUser \in Credentials
    /\ switches \in 0..world.switches
    /\ server \in [Users -> SUBSET Ids]
    /\ cache \in [Users -> SUBSET Ids]
    /\ pending \in [Users -> Seq(Ids)]
    /\ sent \subseteq Ids
    /\ stamp \in [Ids -> 0..MaxReviews]
    /\ clock \in 0..MaxReviews
    /\ depth \in 0..MaxDepth
    /\ listens \in [Depths -> Credentials]
    /\ known \in [Depths -> SUBSET Ids]
    /\ list \in [Depths -> Seq(Ids)]
    /\ input \in [Depths -> [text : BOOLEAN, hint : BOOLEAN]]

\* No other phone, no rejection, no change of user with a write under way.
Quiet == ~world.otherPhones /\ ~world.rejects /\ ~world.switchWithPending

\* On one phone, with accepted writes and no change of user while one is
\* unacknowledged, a page shows what its listener reported, each review once
\* and by timestamp, although it only appends (downReview).
ListIsTheQuery ==
    Quiet => \A p \in Depths : list[p] = ByTimestamp(known[p])

\* A page shows its placeholder just when its own text is empty, although
\* its input view hears of the texts of all pages and sending clears the
\* text by itself (handleTextInputChange, clearMessageText).
HintIffEmpty == \A p \in Depths : input[p].hint <=> ~input[p].text

\* A review is listed again only after its listener saw it withdrawn.
AgainOnlyIfWithdrawn ==
    [][ \A p \in Depths : \A r \in known[p] :
            depth' = depth =>
               Cardinality({i \in DOMAIN list[p] : list[p][i] = r})
             = Cardinality({i \in DOMAIN list'[p] : list'[p][i] = r}) ]_vars

\* A review that is visible to the listener of a page is eventually shown
\* there, unless it is withdrawn or the page goes first.
VisibleIsListed ==
    \A p \in Depths : \A r \in Ids :
        listens[p] # NoUser /\ r \in Visible(listens[p])
            ~> \/ r \in ToSet(list[p])
               \/ listens[p] = NoUser
               \/ r \notin Visible(listens[p])

\* What is listed, once the page is up to date and nothing is unacknowledged,
\* is what Firestore has (Service.swift 67).
ListedIsStored ==
    \A p \in Depths :
        LET u == listens[p] IN
        u # NoUser /\ known[p] = Visible(u) /\ pending[u] = <<>>
            => ToSet(list[p]) \subseteq server[u]

\* A review that was sent is in Firestore or waits in a mutation queue
\* (Service.swift 56).
SentIsKept ==
    \A r \in sent : \E u \in Users : r \in server[u] \cup ToSet(pending[u])
============================================================================
