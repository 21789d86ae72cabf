----------------------------- MODULE MovieTitle -----------------------------
(***************************************************************************)
(* From a search result to the collection of its reviews.                  *)
(*                                                                         *)
(* The search API marks the words it matched with <b> and </b>.  The list  *)
(* and the detail page clean the title where they show it; the review page *)
(* uses the title as it came, as the last part of a Firestore path.        *)
(*                                                                         *)
(* A title is a sequence of tokens: "text" for any text without markup,    *)
(* "<b>" and "</b>".                                                       *)
(***************************************************************************)
EXTENDS Naturals, SequencesExt

CONSTANT Titles  \* titles of the search results, sequences of tokens

VARIABLES
    page,   \* "list", "detail", "reviews", or "stopped" by an exception
    title   \* the title of the selected result

vars == <<page, title>>

\* A token as Firestore's path parser sees it: "c" stands for characters, and
\* a closing tag has a slash between two of them.
Parsed(x) == IF x = "</b>" THEN <<"c", "/", "c">> ELSE <<"c">>

Segments(t) ==
    LET chars == FlattenSeq([i \in DOMAIN t |-> Parsed(t[i])])
    IN  Cardinality({i \in DOMAIN chars :
                        chars[i] = "c" /\ (i = 1 \/ chars[i - 1] = "/")})

\* reviews, <uid>, and the segments of the title.
PathLength(t) == 2 + Segments(t)

Init == page = "list" /\ title = <<>>

SelectResult(t) ==
    /\ page = "list"
    /\ page' = "detail"
    /\ title' = t

\* addList pushes the review page, whose viewDidLoad asks for the reviews.
\* With a logged-in user, Firestore raises on a path of even length.
AddList ==
    /\ page = "detail"
    /\ page' = IF PathLength(title) % 2 = 1 THEN "reviews" ELSE "stopped"
    /\ UNCHANGED title

Back ==
    /\ page \in {"detail", "reviews"}
    /\ page' = "list"
    /\ title' = <<>>

Next == (\E t \in Titles : SelectResult(t)) \/ AddList \/ Back

Spec == Init /\ [][Next]_vars

----------------------------------------------------------------------------
\* Firestore's assertion on the path of a collection, an odd number of
\* segments (Pods, collection_reference.cc 39-47), is never raised by the
\* page of a movie the search found (Service.downReview).
CollectionPathIsOdd == page # "stopped"
=============================================================================
