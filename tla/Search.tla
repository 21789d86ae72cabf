------------------------------- MODULE Search -------------------------------
(***************************************************************************)
(* The search tab: requests to the Naver API, the answer kept in data, the *)
(* rows the collection view was last told to show, the warning banner and  *)
(* the detail page.                                                        *)
(*                                                                         *)
(* Answers arrive in any order.  Each replaces data at once, and queues a  *)
(* block on the main queue that reloads the rows from whatever data is by  *)
(* then.  Between the two, data and rows differ.                           *)
(***************************************************************************)
EXTENDS Naturals, Sequences, FiniteSets

CONSTANTS
    Requests,  \* requests that may be in flight together
    Movies,
    Answers,   \* the lists of movies the API answers with, <<>> among them
    NoMovie,
    MaxWork    \* bound: requests, reload blocks and animations under way

ASSUME SearchAssumption ==
    /\ Answers \subseteq Seq(Movies)
    /\ NoMovie \notin Movies
    /\ MaxWork \in Nat

VARIABLES
    flying,  \* requests in flight
    items,   \* data?.items
    total,   \* data?.total is 0: "zero", is not: "some", data is nil: "nil"
    blocks,  \* reload blocks waiting on the main queue
    rows,    \* what the collection view shows
    banner,  \* the banner is visible
    timers,  \* animations that will hide it
    detail,  \* the movie of the detail page, NoMovie when the list is on top
    tapped,  \* the movie the row tapped last was showing
    trapped  \* an index was out of range: the app has stopped

view == <<banner, timers, detail, tapped, trapped>>
vars == <<flying, items, total, blocks, rows, view>>

Init ==
    /\ flying = {}
    /\ items = <<>>
    /\ total = "nil"
    /\ blocks = 0
    /\ rows = <<>>
    /\ banner = FALSE
    /\ timers = 0
    /\ detail = NoMovie
    /\ tapped = NoMovie
    /\ trapped = FALSE

----------------------------------------------------------------------------
\* The return key: earlier requests are not cancelled.
SearchMovie(q) ==
    /\ detail = NoMovie
    /\ q \notin flying
    /\ Cardinality(flying) + blocks + timers < MaxWork
    /\ flying' = flying \cup {q}
    /\ UNCHANGED <<items, total, blocks, rows, view>>

\* An answer that could be decoded has both, and the API counts what it found.
TotalOf(found) == IF found = <<>> THEN "zero" ELSE "some"

\* Mutant: the reload is not queued.
AnsweredNoReload(q, found) ==
    /\ q \in flying
    /\ flying' = flying \ {q}
    /\ items' = found
    /\ total' = TotalOf(found)
    /\ UNCHANGED <<blocks, rows, view>>

\* The completion of requestSearchAPI, on the main thread.
Answered(q, found) ==
    /\ q \in flying
    /\ flying' = flying \ {q}
    /\ items' = found
    /\ total' = TotalOf(found)
    /\ blocks' = blocks + 1
    /\ UNCHANGED <<rows, view>>

\* No data, or an answer that cannot be decoded: no completion.
Unanswered(q) ==
    /\ q \in flying
    /\ flying' = flying \ {q}
    /\ UNCHANGED <<items, total, blocks, rows, view>>

\* The queued block: reloadData, and the banner when data is an empty search
\* by the time the block runs.
Reload ==
    /\ blocks > 0
    /\ blocks' = blocks - 1
    /\ rows' = items
    /\ \/ total # "zero" /\ UNCHANGED <<banner, timers>>
       \/ /\ total = "zero"
          /\ banner' = TRUE
          /\ timers' = timers + 1
    /\ UNCHANGED <<flying, items, total, detail, tapped, trapped>>

\* Mutant: the banner is kept while the search on view is an empty one.
HideBannerUnlessEmpty ==
    /\ timers > 0
    /\ timers' = timers - 1
    /\ banner' = (banner /\ total = "zero")
    /\ UNCHANGED <<flying, items, total, blocks, rows, detail, tapped, trapped>>

\* The completion of an animation hides the banner, also one shown since.
HideBanner ==
    /\ timers > 0
    /\ timers' = timers - 1
    /\ banner' = FALSE
    /\ UNCHANGED <<flying, items, total, blocks, rows, detail, tapped, trapped>>

\* Mutant: the rows are not reloaded.
SelectTabNoReload ==
    /\ items' = <<>>
    /\ UNCHANGED <<flying, total, blocks, rows, view>>

\* tabBarController(_:didSelect:): the list is emptied, data?.total is not.
\* On the tab already selected, UIKit also pops its stack.
SelectTab ==
    /\ items' = <<>>
    /\ rows' = <<>>
    /\ \/ UNCHANGED <<detail, tapped>>
       \/ detail' = NoMovie /\ tapped' = NoMovie
    /\ UNCHANGED <<flying, total, blocks, banner, timers, trapped>>

\* didSelectItemAt: the row was drawn from rows, the movie is read from data.
TapRow(i) ==
    /\ detail = NoMovie
    /\ i \in DOMAIN rows
    /\ tapped' = rows[i]
    /\ \/ i \in DOMAIN items /\ detail' = items[i] /\ UNCHANGED trapped
       \/ i \notin DOMAIN items /\ trapped' = TRUE /\ UNCHANGED detail
    /\ UNCHANGED <<flying, items, total, blocks, rows, banner, timers>>

\* cellForItemAt reads data for a row that scrolls into view.
DrawRow(i) ==
    /\ detail = NoMovie
    /\ i \in DOMAIN rows \ DOMAIN items
    /\ trapped' = TRUE
    /\ UNCHANGED <<flying, items, total, blocks, rows, banner, timers, detail, tapped>>

Back ==
    /\ detail # NoMovie
    /\ detail' = NoMovie
    /\ tapped' = NoMovie
    /\ UNCHANGED <<flying, items, total, blocks, rows, banner, timers, trapped>>

Next ==
    /\ ~trapped
    /\ \/ \E q \in Requests : \/ SearchMovie(q) \/ Unanswered(q)
                              \/ \E found \in Answers : Answered(q, found)
       \/ Reload \/ HideBanner
       \/ SelectTab
       \/ \E i \in DOMAIN rows : TapRow(i) \/ DrawRow(i)
       \/ Back

\* The main queue runs its blocks and UIKit its animations.
Fairness == WF_vars(~trapped /\ Reload) /\ WF_vars(~trapped /\ HideBanner)

Spec == Init /\ [][Next]_vars
FairSpec == Spec /\ Fairness

----------------------------------------------------------------------------
TypeOK ==
    /\ flying \subseteq Requests
    /\ items \in Answers \cup {<<>>}
    /\ total \in {"nil", "zero", "some"}
    /\ blocks \in 0..MaxWork
    /\ rows \in Answers \cup {<<>>}
    /\ banner \in BOOLEAN
    /\ timers \in 0..MaxWork
    /\ detail \in Movies \cup {NoMovie}
    /\ tapped \in Movies \cup {NoMovie}
    /\ trapped \in BOOLEAN

\* Once the main queue has run its blocks, the rows on screen are the data
\* that a tap or a scroll will index, whatever the order of the answers and
\* of the tab changes.
SettledRows == blocks = 0 => rows = items

\* The movie that opens is the one the tapped row showed, and no index is
\* out of range, except between an answer and its reload.
TapOpensTheRow ==
    [][ blocks = 0 =>
          /\ trapped' = trapped
          /\ tapped' # tapped => detail' = tapped' ]_vars

\* The banner never stays, whatever the number of animations that overlap.
BannerLeaves == banner ~> ~banner \/ trapped
=============================================================================
