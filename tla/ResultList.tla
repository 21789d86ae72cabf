------------------------------ MODULE ResultList ------------------------------
(***************************************************************************)
(* The search tab as the user sees it: the rows of Search drawn in the     *)
(* cells of Posters.                                                       *)
(*                                                                         *)
(* cellForItemAt gives a cell the movie that data has at its row by then.  *)
(* reloadData sends every cell back to the reuse queue, with the poster it *)
(* may still be loading.                                                   *)
(***************************************************************************)
EXTENDS Search

CONSTANTS Cells, Posterless, Unlinked, NoPoster, NoImage, Loads, NoLoad

VARIABLES
    row,   \* the row a cell is on screen for, OffScreen for one to be reused
    shows, image, task, into, loads

cells    == <<shows, image, task, into, loads>>
listVars == <<vars, row, cells>>

P == INSTANCE Posters WITH
        Cells <- Cells, Movies <- Movies, NoMovie <- NoMovie,
        Posterless <- Posterless, Unlinked <- Unlinked,
        NoPoster <- NoPoster, NoImage <- NoImage,
        Loads <- Loads, NoLoad <- NoLoad,
        shows <- shows, image <- image, task <- task, into <- into, loads <- loads

ASSUME ListAssumption == P!PostersAssumption

OffScreen == 0

ListInit ==
    /\ Init
    /\ P!Init
    /\ row = [c \in Cells |-> OffScreen]

----------------------------------------------------------------------------
Drawn(i) == \E c \in Cells : row[c] = i

\* dequeueReusableCell, movieInfo and didSet for a row that comes into view.
cellForItemAt(c, i) ==
    /\ ~trapped
    /\ detail = NoMovie
    /\ row[c] = OffScreen
    /\ i \in DOMAIN rows \cap DOMAIN items
    /\ ~Drawn(i)
    /\ row' = [row EXCEPT ![c] = i]
    /\ \/ P!ShowPosterless(c, items[i])
       \/ P!ShowUnlinked(c, items[i])
       \/ \E l \in Loads : P!ShowLinked(c, items[i], l)
    /\ UNCHANGED vars

\* A row that is scrolled out of view gives its cell back.
ScrollAway(c) ==
    /\ ~trapped
    /\ row[c] # OffScreen
    /\ row' = [row EXCEPT ![c] = OffScreen]
    /\ UNCHANGED <<vars, cells>>

\* Mutant: the data is replaced without reloadData taking back the cells.
ReloadedInPlace ==
    /\ ~trapped
    /\ Reload \/ SelectTab
    /\ UNCHANGED <<row, cells>>

\* The steps of Search that call reloadData take every cell off screen.
Reloaded ==
    /\ ~trapped
    /\ Reload \/ SelectTab
    /\ row' = [c \in Cells |-> OffScreen]
    /\ UNCHANGED cells

\* Those that touch a row touch one that is drawn, or is to be.
RowTouched ==
    /\ ~trapped
    /\ \E i \in DOMAIN rows : \/ Drawn(i) /\ TapRow(i)
                              \/ ~Drawn(i) /\ DrawRow(i)
    /\ UNCHANGED <<row, cells>>

OtherSteps ==
    /\ ~trapped
    /\ \/ \E q \in Requests : \/ SearchMovie(q) \/ Unanswered(q)
                              \/ \E found \in Answers : Answered(q, found)
       \/ HideBanner
       \/ Back
    /\ UNCHANGED <<row, cells>>

PosterArrives ==
    /\ \E l \in Loads : P!Loaded(l) \/ P!LoadFailed(l)
    /\ UNCHANGED <<vars, row>>

ListNext ==
    \/ \E c \in Cells : \/ ScrollAway(c)
                        \/ \E i \in DOMAIN rows : cellForItemAt(c, i)
    \/ Reloaded \/ RowTouched \/ OtherSteps \/ PosterArrives

ListSpec ==
    ListInit /\ [][ListNext]_listVars /\ WF_listVars(OtherSteps /\ HideBanner)

----------------------------------------------------------------------------
(* Properties.                                                             *)

\* The cells have the types of Posters, and wait only for loads of their own.
CellsTypeOK == P!TypeOK

\* Once the main queue has run its blocks, the movie in a cell is the one a
\* tap on it will open, however cells were reused in between (cellForItemAt
\* reads data, which is ahead of the rows).
CellIsItsRow ==
    blocks = 0 => \A c \in Cells : row[c] # OffScreen =>
        row[c] \in DOMAIN rows /\ shows[c] = rows[row[c]]

\* Its poster is the one of that movie, or none; a row without a poster is the
\* exception (configure).
PosterIsTheRows == P!PosterIsTheRows
===============================================================================
