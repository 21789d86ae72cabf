------------------------------ MODULE Posters ------------------------------
(***************************************************************************)
(* The cells of the result list and the posters loaded into them.          *)
(*                                                                         *)
(* UIKit reuses a cell for another row while the poster of its former row  *)
(* may still be loading.  Kingfisher gives each load of an image view an   *)
(* identifier and drops an answer that is not the latest one's; but a row  *)
(* without a poster sets the image by itself, and leaves a load running.   *)
(***************************************************************************)
EXTENDS Naturals

CONSTANTS
    Cells,
    Movies, NoMovie,
    Posterless,   \* image == "": the row shows the asset "noposter"
    Unlinked,     \* URL(string: image) is nil
    NoPoster,     \* that asset
    NoImage,
    Loads, NoLoad \* identifiers of loads that may be in flight together

\* What is asked of the constants, by the theorems and by ResultList.
PostersAssumption ==
    /\ Posterless \subseteq Movies
    /\ Unlinked \subseteq Movies \ Posterless
    /\ {NoMovie, NoPoster, NoImage} \cap Movies = {}
    /\ NoLoad \notin Loads

VARIABLES
    shows, \* movieInfo of each cell, and the title under its image
    image, \* the image of each cell
    task,  \* the load its image view waits for
    into,  \* the cell each load was started for
    loads  \* and its movie, NoMovie for a load that is not in flight

vars == <<shows, image, task, into, loads>>

Linked == Movies \ (Posterless \cup Unlinked)

Init ==
    /\ shows = [c \in Cells |-> NoMovie]
    /\ image = [c \in Cells |-> NoImage]
    /\ task = [c \in Cells |-> NoLoad]
    /\ into \in [Loads -> Cells]
    /\ loads = [l \in Loads |-> NoMovie]

----------------------------------------------------------------------------
(* prepareForReuse empties the image; didSet of movieInfo fills the cell.  *)

Reuse(c, m, i) ==
    /\ shows' = [shows EXCEPT ![c] = m]
    /\ image' = [image EXCEPT ![c] = i]

\* The image is set directly: Kingfisher still waits for an earlier load.
ShowPosterless(c, m) ==
    /\ m \in Posterless
    /\ Reuse(c, m, NoPoster)
    /\ UNCHANGED <<task, into, loads>>

\* setImage(with: nil) forgets the earlier load.
ShowUnlinked(c, m) ==
    /\ m \in Unlinked
    /\ Reuse(c, m, NoImage)
    /\ task' = [task EXCEPT ![c] = NoLoad]
    /\ UNCHANGED <<into, loads>>

\* Mutant: a cell whose load still runs keeps it, instead of a new one.
ShowLinkedKeepsLoad(c, m, l) ==
    /\ m \in Linked
    /\ loads[l] = NoMovie
    /\ Reuse(c, m, NoImage)
    /\ task' = [task EXCEPT ![c] = IF @ = NoLoad THEN l ELSE @]
    /\ into' = [into EXCEPT ![l] = c]
    /\ loads' = [loads EXCEPT ![l] = m]

ShowLinked(c, m, l) ==
    /\ m \in Linked
    /\ loads[l] = NoMovie
    /\ Reuse(c, m, NoImage)
    /\ task' = [task EXCEPT ![c] = l]
    /\ into' = [into EXCEPT ![l] = c]
    /\ loads' = [loads EXCEPT ![l] = m]

----------------------------------------------------------------------------
(* Kingfisher's answers, on the main thread.                               *)

Ends(l) == loads' = [loads EXCEPT ![l] = NoMovie] /\ UNCHANGED <<shows, into>>

Loaded(l) ==
    /\ loads[l] # NoMovie
    /\ Ends(l)
    /\ \/ /\ task[into[l]] = l
          /\ image' = [image EXCEPT ![into[l]] = loads[l]]
          /\ task' = [task EXCEPT ![into[l]] = NoLoad]
       \/ task[into[l]] # l /\ UNCHANGED <<image, task>>

LoadFailed(l) ==
    /\ loads[l] # NoMovie
    /\ Ends(l)
    /\ task' = [c \in Cells |-> IF task[c] = l THEN NoLoad ELSE task[c]]
    /\ UNCHANGED image

Next ==
    \/ \E c \in Cells, m \in Movies :
          \/ ShowPosterless(c, m) \/ ShowUnlinked(c, m)
          \/ \E l \in Loads : ShowLinked(c, m, l)
    \/ \E l \in Loads : Loaded(l) \/ LoadFailed(l)

Spec == Init /\ [][Next]_vars

----------------------------------------------------------------------------
\* A cell waits only for a load in flight that was started for it.
TypeOK ==
    /\ shows \in [Cells -> Movies \cup {NoMovie}]
    /\ image \in [Cells -> Movies \cup {NoPoster, NoImage}]
    /\ task \in [Cells -> Loads \cup {NoLoad}]
    /\ into \in [Loads -> Cells]
    /\ loads \in [Loads -> Movies \cup {NoMovie}]
    /\ \A c \in Cells : task[c] # NoLoad => /\ into[task[c]] = c
                                           /\ loads[task[c]] # NoMovie

\* However fast a list is scrolled and in whatever order its posters come,
\* a cell shows the poster of its own movie or none.  The exception is a
\* movie without a poster: its cell may receive the one that its former row
\* was waiting for (the branch of configure that does not call setImage).
PosterIsTheRows ==
    \A c \in Cells :
        image[c] \in Movies => image[c] = shows[c] \/ shows[c] \in Posterless
============================================================================
