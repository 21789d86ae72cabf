----------------------------- MODULE Navigation -----------------------------
(***************************************************************************)
(* Which pages are open: two navigation stacks under a tab bar, and one    *)
(* screen that may be presented over them.                                 *)
(*                                                                         *)
(* The profile page takes itself off its stack whenever it disappears      *)
(* (viewWillDisappear): at a change of tab, and under the login cover,     *)
(* which is full-screen; the photo picker, the log out sheet and the link  *)
(* are cards, under which a page does not disappear.  The detail page of a *)
(* movie and its review page open each other without end.                  *)
(***************************************************************************)
EXTENDS Naturals, Sequences

CONSTANTS Movies, NoMovie,
          MaxPages   \* bound: pages on one stack

ASSUME NavigationAssumption ==
    /\ NoMovie \notin Movies
    /\ MaxPages \in Nat \ {0}

VARIABLES
    tab,    \* tabBarController.selectedIndex
    stack,  \* the view controllers of each navigation controller
    modal   \* what is presented over the selected tab

vars == <<tab, stack, modal>>

Tabs   == {"main", "search"}
Modals == {"none", "cover", "picker", "sheet", "link"}
Kinds  == {"root", "profile", "detail", "review"}
Page   == [kind : Kinds, movie : Movies \cup {NoMovie}, wired : BOOLEAN]

Plain(k) == [kind |-> k, movie |-> NoMovie, wired |-> TRUE]
Root     == <<Plain("root")>>

\* AppDelegate builds both stacks; MainViewController presents the cover.
Init ==
    /\ tab = "main"
    /\ stack = [t \in Tabs |-> Root]
    /\ modal \in {"none", "cover"}

Top      == stack[tab][Len(stack[tab])]
Shows(k) == modal = "none" /\ Top.kind = k

Push(p) ==
    /\ Len(stack[tab]) < MaxPages
    /\ stack' = [stack EXCEPT ![tab] = Append(@, p)]
    /\ UNCHANGED <<tab, modal>>

\* viewWillDisappear of the page on top of a stack.
Disappear(s) ==
    IF s[Len(s)].kind = "profile" THEN SubSeq(s, 1, Len(s) - 1) ELSE s

----------------------------------------------------------------------------
(* The tab bar.                                                            *)

\* Mutant: the profile page stays on the stack of the tab left.
SelectTabKeepsProfile(t) ==
    /\ modal = "none"
    /\ tab' = t
    /\ stack' = [stack EXCEPT ![t] = IF t = tab THEN Root ELSE @]
    /\ UNCHANGED modal

\* UIKit pops the tab already selected to its root; leaving a tab makes its
\* page disappear.
SelectTab(t) ==
    /\ modal = "none"
    /\ tab' = t
    /\ stack' = [stack EXCEPT ![tab] = IF t = tab THEN Root ELSE Disappear(@)]
    /\ UNCHANGED modal

\* The placeholder cell of the list selects the other tab.
TapCell ==
    /\ Shows("root")
    /\ tab = "main"
    /\ tab' = "search"
    /\ UNCHANGED <<stack, modal>>

----------------------------------------------------------------------------
(* Movies.                                                                 *)

\* The buttons of the page are wired after its poster has been loaded: an
\* address that fails returns the cell before.
PushDetail(m) ==
    \E wired \in BOOLEAN :
        Push([kind |-> "detail", movie |-> m, wired |-> wired])

TapRow(m) ==
    /\ Shows("root")
    /\ tab = "search"
    /\ PushDetail(m)

\* Mutant: the button works on any page of the movie.
AddListAnywhere ==
    /\ modal = "none"
    /\ Top.movie # NoMovie
    /\ Push([kind |-> "review", movie |-> Top.movie, wired |-> TRUE])

AddList ==
    /\ Shows("detail")
    /\ Top.wired
    /\ Push([kind |-> "review", movie |-> Top.movie, wired |-> TRUE])

TapPoster ==
    /\ Shows("review")
    /\ PushDetail(Top.movie)

MoreMovie ==
    /\ Shows("detail")
    /\ Top.wired
    /\ modal' = "link"
    /\ UNCHANGED <<tab, stack>>

\* The back buttons of both pages pop to the list (popToRootViewController).
Back ==
    /\ Shows("detail") \/ Shows("review")
    /\ stack' = [stack EXCEPT ![tab] = Root]
    /\ UNCHANGED <<tab, modal>>

\* UIKit's edge swipe pops one page: the bar is hidden through its isHidden,
\* which leaves the gesture on.
SwipeBack ==
    /\ Shows("detail") \/ Shows("review")
    /\ stack' = [stack EXCEPT ![tab] = SubSeq(@, 1, Len(@) - 1)]
    /\ UNCHANGED <<tab, modal>>

----------------------------------------------------------------------------
(* The profile page.                                                       *)

TapPerson ==
    /\ Shows("root")
    /\ Push(Plain("profile"))

\* The back button pops; viewWillDisappear pops again, at the root by then.
\* A swipe that is begun makes the page disappear too.
ProfileBack ==
    /\ Shows("profile")
    /\ stack' = [stack EXCEPT ![tab] = Disappear(@)]
    /\ UNCHANGED <<tab, modal>>

OpenCard ==
    /\ Shows("profile")
    /\ modal' \in {"picker", "sheet"}
    /\ UNCHANGED <<tab, stack>>

\* A card is closed, by its buttons or by a swipe.
CloseCard ==
    /\ modal \in {"picker", "sheet", "link"}
    /\ modal' = "none"
    /\ UNCHANGED <<tab, stack>>

\* Mutant: the cover leaves the page under it.
LogoutKeepsPage ==
    /\ modal = "sheet"
    /\ modal' = "cover"
    /\ tab' \in {tab, "main"}
    /\ UNCHANGED stack

\* The cover makes the page pop itself.  The completion then selects the
\* first tab through a page that may have left its tab bar by then.
Logout ==
    /\ modal = "sheet"
    /\ modal' = "cover"
    /\ stack' = [stack EXCEPT ![tab] = Disappear(@)]
    /\ tab' \in {tab, "main"}

\* A login or a registration dismisses the cover.
Uncover ==
    /\ modal = "cover"
    /\ modal' = "none"
    /\ UNCHANGED <<tab, stack>>

----------------------------------------------------------------------------
\* What does not concern the login cover.
Browse ==
    \/ \E t \in Tabs : SelectTab(t)
    \/ TapCell
    \/ \E m \in Movies : TapRow(m)
    \/ AddList \/ TapPoster \/ MoreMovie \/ Back \/ SwipeBack
    \/ TapPerson \/ ProfileBack \/ OpenCard \/ CloseCard

Next == Browse \/ Logout \/ Uncover

Spec == Init /\ [][Next]_vars

----------------------------------------------------------------------------
TypeOK ==
    /\ tab \in Tabs
    /\ stack \in [Tabs -> Seq(Page)]
    /\ \A t \in Tabs : Len(stack[t]) \in 1..MaxPages
    /\ modal \in Modals

\* There is one profile page at most, on top of the selected tab and not
\* under the login cover: none is left behind to be met by another user.
ProfileIsOnScreen ==
    \A t \in Tabs : \A i \in 1..Len(stack[t]) :
        stack[t][i].kind = "profile" => /\ t = tab
                                        /\ i = Len(stack[t])
                                        /\ modal # "cover"

\* Whoever logs in finds a list under the cover, whatever was open, and from
\* whichever tab the log out came.
CoverIsOverARoot ==
    modal = "cover" => Top.kind = "root" /\ Len(stack[tab]) = 1

\* A review page lies on a detail page of its movie whose buttons work, and
\* the pages above the list are all of one movie.
ReviewsLieOnTheirMovie ==
    \A t \in Tabs : \A i \in 2..Len(stack[t]) :
        /\ stack[t][i].movie = stack[t][2].movie
        /\ stack[t][i].kind = "review" => /\ stack[t][i - 1].kind = "detail"
                                          /\ stack[t][i - 1].wired
=============================================================================
