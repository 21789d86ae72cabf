-------------------------- MODULE ResultListProofs --------------------------
(***************************************************************************)
(* Proofs about Search, for every set of requests and answers, and about   *)
(* ResultList, which adds the rows' cells and the posters in them, for any *)
(* number of movies, cells and loads.                                      *)
(***************************************************************************)
EXTENDS ResultList, TLAPS

----------------------------------------------------------------------------
(* The tab by itself.                                                      *)

\* What SettledRows needs to be inductive: the number of queued blocks is a
\* number, so that a block added leaves the state unsettled.
SettledInv == blocks \in Nat /\ SettledRows

LEMMA SettledInit == Init => SettledInv
  BY DEF Init, SettledInv, SettledRows

LEMMA SettledNext == SettledInv /\ [Next]_vars => SettledInv'
<1> SUFFICES ASSUME SettledInv, [Next]_vars PROVE SettledInv'
  OBVIOUS
<1> USE DEF SettledInv, SettledRows
<1>1. ASSUME NEW q \in Requests, NEW found \in Answers, Answered(q, found)
      PROVE  SettledInv'
  BY <1>1 DEF Answered
<1>2. ASSUME NEW q \in Requests, SearchMovie(q) \/ Unanswered(q)
      PROVE  SettledInv'
  BY <1>2 DEF SearchMovie, Unanswered
<1>3. CASE Reload
  BY <1>3 DEF Reload
<1>4. CASE SelectTab
  BY <1>4 DEF SelectTab
<1>5. ASSUME NEW i \in DOMAIN rows, TapRow(i) \/ DrawRow(i)
      PROVE  SettledInv'
  BY <1>5 DEF TapRow, DrawRow
<1>6. CASE HideBanner \/ Back
  BY <1>6 DEF HideBanner, Back
<1>7. CASE UNCHANGED vars
  BY <1>7 DEF vars
<1> QED
  BY <1>1, <1>2, <1>3, <1>4, <1>5, <1>6, <1>7 DEF Next

\* Once the main queue is empty the rows on screen are the data.
THEOREM RowsSettle == Spec => []SettledRows
<1>1. SettledInv => SettledRows
  BY DEF SettledInv
<1> QED
  BY SettledInit, SettledNext, <1>1, PTL DEF Spec

LEMMA TapStep ==
    SettledInv /\ [Next]_vars =>
        [ blocks = 0 => /\ trapped' = trapped
                        /\ tapped' # tapped => detail' = tapped' ]_vars
<1> SUFFICES ASSUME SettledInv, Next, blocks = 0
             PROVE  /\ trapped' = trapped
                    /\ tapped' # tapped => detail' = tapped'
  OBVIOUS
<1>1. rows = items
  BY DEF SettledInv, SettledRows
<1>2. ASSUME NEW i \in DOMAIN rows, TapRow(i) \/ DrawRow(i)
      PROVE  trapped' = trapped /\ detail' = tapped'
  BY <1>1, <1>2 DEF TapRow, DrawRow
<1>3. CASE SelectTab \/ Back
  BY <1>3 DEF SelectTab, Back
<1>4. CASE Reload \/ HideBanner
  BY <1>4 DEF Reload, HideBanner
<1>5. ASSUME NEW q \in Requests,
             SearchMovie(q) \/ Unanswered(q)
               \/ \E found \in Answers : Answered(q, found)
      PROVE  UNCHANGED <<trapped, tapped>>
  BY <1>5 DEF SearchMovie, Unanswered, Answered, view
<1> QED
  BY <1>2, <1>3, <1>4, <1>5 DEF Next

\* With an empty main queue a tap opens the movie its row shows, and no row
\* is out of range.
THEOREM TapsAreSound == Spec => TapOpensTheRow
  BY SettledInit, SettledNext, TapStep, PTL DEF Spec, TapOpensTheRow

----------------------------------------------------------------------------
(* The tab with its cells.                                                 *)

\* What a cell waits for is its movie's poster, or its movie has none.
AwaitsTheRows ==
    \A c \in Cells : task[c] # NoLoad => \/ loads[task[c]] = shows[c]
                                         \/ shows[c] \in Posterless

CellsInv == CellsTypeOK /\ AwaitsTheRows /\ PosterIsTheRows

ListInv ==
    /\ SettledInv
    /\ items \in Seq(Movies)
    /\ row \in [Cells -> Nat]
    /\ CellIsItsRow
    /\ CellsInv

USE DEF CellsTypeOK, PosterIsTheRows

----------------------------------------------------------------------------
(* The cells.                                                              *)

\* Filling a cell: a row without a poster leaves its load to run.
LEMMA FillKeepsCells ==
    ASSUME CellsInv, NEW c \in Cells, NEW m \in Movies,
           \/ P!ShowPosterless(c, m)
           \/ P!ShowUnlinked(c, m)
           \/ \E l \in Loads : P!ShowLinked(c, m, l)
    PROVE  CellsInv' /\ shows' = [shows EXCEPT ![c] = m]
<1>1. CASE P!ShowPosterless(c, m)
  BY <1>1, ListAssumption
     DEF P!PostersAssumption, P!ShowPosterless, P!Reuse, CellsInv, P!TypeOK,
         AwaitsTheRows, P!PosterIsTheRows
<1>2. CASE P!ShowUnlinked(c, m)
  BY <1>2, ListAssumption
     DEF P!PostersAssumption, P!ShowUnlinked, P!Reuse, CellsInv, P!TypeOK,
         AwaitsTheRows, P!PosterIsTheRows
<1>3. CASE \E l \in Loads : P!ShowLinked(c, m, l)
  <2>1. PICK l \in Loads : P!ShowLinked(c, m, l)
    BY <1>3
  \* The new load was not in flight, so no other cell waits for it.
  <2>2. \A d \in Cells : task[d] # l
    BY <2>1, ListAssumption DEF P!PostersAssumption, P!ShowLinked, CellsInv, P!TypeOK
  <2>3. CellsTypeOK' /\ shows' = [shows EXCEPT ![c] = m]
    BY <2>1, <2>2, ListAssumption
       DEF P!PostersAssumption, P!ShowLinked, P!Linked, P!Reuse, CellsInv, P!TypeOK
  <2>4. AwaitsTheRows' /\ PosterIsTheRows'
    BY <2>1, <2>2, ListAssumption
       DEF P!PostersAssumption, P!ShowLinked, P!Linked, P!Reuse, CellsInv, P!TypeOK,
           AwaitsTheRows, P!PosterIsTheRows
  <2>5. QED
    BY <2>3, <2>4 DEF CellsInv
<1>4. QED
  BY <1>1, <1>2, <1>3

\* An answer changes the cell that waits for it, and no other.
LEMMA AnswerKeepsCells ==
    ASSUME CellsInv, NEW l \in Loads, P!Loaded(l) \/ P!LoadFailed(l)
    PROVE  CellsInv' /\ shows' = shows
<1>1. CASE P!Loaded(l)
  BY <1>1, ListAssumption
     DEF P!PostersAssumption, P!Loaded, P!Ends, CellsInv, P!TypeOK, AwaitsTheRows,
         P!PosterIsTheRows
<1>2. CASE P!LoadFailed(l)
  BY <1>2, ListAssumption
     DEF P!PostersAssumption, P!LoadFailed, P!Ends, CellsInv, P!TypeOK, AwaitsTheRows,
         P!PosterIsTheRows
<1>3. QED
  BY <1>1, <1>2

----------------------------------------------------------------------------
(* The rows and the cells.                                                 *)

\* Every step of the list is one of the search tab, or leaves it alone.
LEMMA ListStepsSearch == [ListNext]_listVars => [Next]_vars
<1> SUFFICES ASSUME [ListNext]_listVars PROVE [Next]_vars
  OBVIOUS
<1>1. ASSUME NEW c \in Cells, ScrollAway(c) \/ \E i \in DOMAIN rows : cellForItemAt(c, i)
      PROVE  UNCHANGED vars
  BY <1>1 DEF ScrollAway, cellForItemAt
<1>2. CASE Reloaded
  BY <1>2 DEF Reloaded, Next
<1>3. CASE RowTouched
  BY <1>3 DEF RowTouched, Next
<1>4. CASE OtherSteps
  BY <1>4 DEF OtherSteps, Next
<1>5. CASE PosterArrives
  BY <1>5 DEF PosterArrives
<1>6. CASE UNCHANGED listVars
  BY <1>6 DEF listVars
<1>7. QED
  BY <1>1, <1>2, <1>3, <1>4, <1>5, <1>6 DEF ListNext

\* The data is a list of movies.
LEMMA ItemsAreMovies ==
    ASSUME items \in Seq(Movies), [Next]_vars
    PROVE  items' \in Seq(Movies)
<1>1. CASE \E q \in Requests, found \in Answers : Answered(q, found)
  BY <1>1, SearchAssumption DEF Answered
<1>2. CASE SelectTab
  BY <1>2 DEF SelectTab
<1>3. CASE UNCHANGED items
  BY <1>3
<1>4. QED
  BY <1>1, <1>2, <1>3
     DEF Next, SearchMovie, Unanswered, Reload, HideBanner, TapRow, DrawRow, Back, vars

\* Nothing is on screen at first.
LEMMA ListInvInit == ListInit => ListInv
<1> SUFFICES ASSUME ListInit PROVE ListInv
  OBVIOUS
<1>1. SettledInv /\ items \in Seq(Movies)
  BY SettledInit DEF ListInit, Init
<1>2. row \in [Cells -> Nat] /\ CellIsItsRow
  BY DEF ListInit, OffScreen, CellIsItsRow
<1>3. CellsInv
  BY ListAssumption
     DEF ListInit, P!PostersAssumption, P!Init, CellsInv, P!TypeOK, AwaitsTheRows,
         P!PosterIsTheRows
<1>4. QED
  BY <1>1, <1>2, <1>3 DEF ListInv

\* A step that leaves the cells alone keeps what is known of them.
LEMMA CellsKept ==
    ASSUME CellsInv, UNCHANGED cells
    PROVE  CellsInv' /\ shows' = shows
<1>1. /\ shows' = shows /\ image' = image /\ task' = task
      /\ into' = into /\ loads' = loads
  BY DEF cells
<1>2. CellsTypeOK'
  BY <1>1 DEF CellsInv, P!TypeOK
<1>3. AwaitsTheRows' /\ PosterIsTheRows'
  BY <1>1 DEF CellsInv, AwaitsTheRows, P!PosterIsTheRows
<1>4. QED
  BY <1>1, <1>2, <1>3 DEF CellsInv

\* So does, of the rows they are on screen for, one that draws no cell and
\* does not settle the list.
LEMMA RowsKept ==
    ASSUME row \in [Cells -> Nat], CellIsItsRow, row' = row, shows' = shows,
           rows' = rows, blocks' = 0 => blocks = 0
    PROVE  row' \in [Cells -> Nat] /\ CellIsItsRow'
  BY DEF CellIsItsRow

\* A cell drawn between an answer and its reload may hold another movie than
\* its row shows; the reload takes it back before the list is settled again.
LEMMA ListInvNext == ListInv /\ [ListNext]_listVars => ListInv'
<1> SUFFICES ASSUME ListInv, [ListNext]_listVars PROVE ListInv'
  OBVIOUS
<1>1. SettledInv' /\ items' \in Seq(Movies)
  BY ListStepsSearch, SettledNext, ItemsAreMovies DEF ListInv
<1> SUFFICES row' \in [Cells -> Nat] /\ CellIsItsRow' /\ CellsInv'
  BY <1>1 DEF ListInv
<1>2. ASSUME NEW c \in Cells, NEW i \in DOMAIN rows, cellForItemAt(c, i)
      PROVE  row' \in [Cells -> Nat] /\ CellIsItsRow' /\ CellsInv'
  <2>1. i \in DOMAIN items /\ i \in Nat /\ items[i] \in Movies
    BY <1>2 DEF cellForItemAt, ListInv
  <2>2. CellsInv' /\ shows' = [shows EXCEPT ![c] = items[i]]
    BY <1>2, <2>1, FillKeepsCells DEF cellForItemAt, ListInv
  <2>3. row' = [row EXCEPT ![c] = i] /\ rows' = rows /\ blocks' = blocks
    BY <1>2 DEF cellForItemAt, vars
  <2>4. shows \in [Cells -> Movies \cup {NoMovie}]
    BY DEF ListInv, CellsInv, P!TypeOK
  <2>5. blocks = 0 => rows = items
    BY DEF ListInv, SettledInv, SettledRows
  <2>6. QED
    BY <2>1, <2>2, <2>3, <2>4, <2>5 DEF ListInv, CellIsItsRow
<1>3. ASSUME NEW c \in Cells, ScrollAway(c)
      PROVE  row' \in [Cells -> Nat] /\ CellIsItsRow' /\ CellsInv'
  <2>1. CellsInv' /\ shows' = shows
    BY <1>3, CellsKept DEF ScrollAway, ListInv
  <2>2. row' = [row EXCEPT ![c] = 0] /\ rows' = rows /\ blocks' = blocks
    BY <1>3 DEF ScrollAway, vars, OffScreen
  <2>3. QED
    BY <2>1, <2>2 DEF ListInv, CellIsItsRow, OffScreen
<1>4. CASE Reloaded
  <2>1. CellsInv'
    BY <1>4, CellsKept DEF Reloaded, ListInv
  <2>2. row' = [c \in Cells |-> 0]
    BY <1>4 DEF Reloaded, OffScreen
  <2>3. QED
    BY <2>1, <2>2 DEF CellIsItsRow, OffScreen
<1>5. CASE RowTouched
  <2>1. CellsInv' /\ shows' = shows /\ row' = row
    BY <1>5, CellsKept DEF RowTouched, ListInv
  <2>2. UNCHANGED <<blocks, rows>>
    BY <1>5 DEF RowTouched, TapRow, DrawRow
  <2>3. QED
    BY <2>1, <2>2, RowsKept DEF ListInv
<1>6. CASE OtherSteps
  <2>1. CellsInv' /\ shows' = shows /\ row' = row
    BY <1>6, CellsKept DEF OtherSteps, ListInv
  <2>2. rows' = rows /\ blocks' \in {blocks, blocks + 1}
    BY <1>6 DEF OtherSteps, SearchMovie, Unanswered, Answered, HideBanner, Back
  <2>3. blocks' = 0 => blocks = 0
    BY <2>2 DEF ListInv, SettledInv
  <2>4. QED
    BY <2>1, <2>2, <2>3, RowsKept DEF ListInv
<1>7. CASE PosterArrives
  <2>1. PICK l \in Loads : P!Loaded(l) \/ P!LoadFailed(l)
    BY <1>7 DEF PosterArrives
  <2>2. CellsInv' /\ shows' = shows
    BY <2>1, AnswerKeepsCells DEF ListInv
  <2>3. row' = row /\ rows' = rows /\ blocks' = blocks
    BY <1>7 DEF PosterArrives, vars
  <2>4. QED
    BY <2>2, <2>3, RowsKept DEF ListInv
<1>8. CASE UNCHANGED listVars
  <2>1. UNCHANGED cells /\ row' = row /\ rows' = rows /\ blocks' = blocks
    BY <1>8 DEF listVars, vars
  <2>2. QED
    BY <2>1, CellsKept, RowsKept DEF ListInv
<1>9. CASE \E c \in Cells : ScrollAway(c) \/ \E i \in DOMAIN rows : cellForItemAt(c, i)
  BY <1>9, <1>2, <1>3
<1>10. QED
  BY <1>4, <1>5, <1>6, <1>7, <1>8, <1>9 DEF ListNext

----------------------------------------------------------------------------
\* In every reachable state the data is a list of movies, a settled list is
\* drawn as it is, and a cell waits only for a poster of its movie, or its
\* movie has none (cellForItemAt, reloadData, configure).
THEOREM ListInvariant == ListSpec => []ListInv
  BY ListInvInit, ListInvNext, PTL DEF ListSpec

\* Once the main queue is empty, each cell on screen holds the movie its row
\* shows (cellForItemAt against the reload of searchMovie).
THEOREM CellsAreTheirRows == ListSpec => []CellIsItsRow
<1>1. ListInv => CellIsItsRow
  BY DEF ListInv
<1>2. QED
  BY ListInvariant, <1>1, PTL

\* A cell shows the poster of its own movie or none, except over a movie
\* without a poster (prepareForReuse, configure).
THEOREM PostersAreTheRows == ListSpec => []PosterIsTheRows
<1>1. ListInv => PosterIsTheRows
  BY DEF ListInv, CellsInv
<1>2. QED
  BY ListInvariant, <1>1, PTL

\* A cell waits only for a load in flight that was started for it
\* (Kingfisher's identifiers).
THEOREM CellsTypeCorrect == ListSpec => []CellsTypeOK
<1>1. ListInv => CellsTypeOK
  BY DEF ListInv, CellsInv
<1>2. QED
  BY ListInvariant, <1>1, PTL

\* What Search promises of taps holds with cells drawn and reused in between
\* (didSelectItemAt).
THEOREM ListTapsAreSound == ListSpec => TapOpensTheRow
<1>1. ListInit => Init
  BY DEF ListInit
<1>2. ListSpec => Spec
  BY <1>1, ListStepsSearch, PTL DEF ListSpec, Spec
<1>3. QED
  BY <1>2, TapsAreSound
=============================================================================
