---------------------------- MODULE ScreensProofs ----------------------------
(***************************************************************************)
(* Proofs about Navigation and about Screens, which composes it with the   *)
(* forms of the login cover: for every set of movies and every bound on    *)
(* the length of a stack.                                                  *)
(***************************************************************************)
EXTENDS Screens, Integers, SequenceTheorems, TLAPS

----------------------------------------------------------------------------
(* A stack by itself: its list, then a profile page alone, or pages of one *)
(* movie with each review on a detail page.                                *)

PagesFit(s) ==
    \A i \in 2..Len(s) :
        /\ s[i].kind # "root"
        /\ s[i].kind = "profile" => i = 2 /\ Len(s) = 2
        /\ s[i].movie = s[2].movie
        /\ s[i].kind = "review" => s[i - 1].kind = "detail" /\ s[i - 1].wired

StackOK(s) ==
    /\ s \in Seq(Page)
    /\ Len(s) \in 1..MaxPages
    /\ s[1].kind = "root"
    /\ s[1] = Plain("root")
    /\ PagesFit(s)

Last(s) == s[Len(s)]

\* The three cases of a length.
LEMMA OneOrMore == \A k \in Nat : k = 0 \/ k = 1 \/ (k >= 2 /\ k \in 2..k)
OBVIOUS

\* An index of a stack without its last page.
LEMMA Below ==
    ASSUME NEW k \in Nat, NEW i \in 2..(k - 1)
    PROVE  /\ i \in 2..k /\ i # k
           /\ i \in 1..(k - 1) /\ i - 1 \in 1..(k - 1) /\ 2 \in 1..(k - 1)
OBVIOUS

\* The list by itself is a good stack.
LEMMA RootIsOK == StackOK(Root) /\ Len(Root) = 1 /\ Last(Root).kind = "root"
<1>1. Plain("root") \in Page /\ Plain("root").kind = "root"
  BY DEF Plain, Page, Kinds
<1>2. Root \in Seq(Page) /\ Len(Root) = 1 /\ Root[1] = Plain("root")
  BY <1>1 DEF Root
<1>3. 1 \in 1..MaxPages
  BY NavigationAssumption
<1>4. PagesFit(Root)
  BY <1>2 DEF PagesFit
<1> QED
  BY <1>1, <1>2, <1>3, <1>4 DEF StackOK, Last

LEMMA LastIsTyped ==
    ASSUME NEW s, StackOK(s)
    PROVE  /\ Last(s) \in Page
           /\ Last(s).kind = "root" <=> Len(s) = 1
           /\ Last(s).kind = "profile" => Len(s) = 2
<1>1. s \in Seq(Page) /\ Len(s) \in Nat /\ Len(s) # 0
  BY DEF StackOK
<1>2. CASE Len(s) = 1
  BY <1>2 DEF StackOK, Last, Plain, Page
<1>3. CASE Len(s) # 1
  <2>1. Len(s) \in 2..Len(s)
    BY <1>1, <1>3, OneOrMore
  <2> QED
    BY <1>1, <1>3, <2>1 DEF StackOK, PagesFit, Last
<1> QED
  BY <1>2, <1>3

\* What disappears leaves its list, and nothing else does.
LEMMA DisappearIs ==
    ASSUME NEW s, StackOK(s)
    PROVE  Disappear(s) = IF Last(s).kind = "profile" THEN Root ELSE s
<1>1. CASE Last(s).kind = "profile"
  <2>1. Len(s) = 2 /\ s \in Seq(Page) /\ s[1] = Plain("root")
    BY <1>1, LastIsTyped DEF StackOK
  <2>2. /\ SubSeq(s, 1, Len(s) - 1) \in Seq(Page)
        /\ Len(SubSeq(s, 1, Len(s) - 1)) = 1
        /\ SubSeq(s, 1, Len(s) - 1)[1] = s[1]
    BY <2>1
  <2>3. Root \in Seq(Page) /\ Len(Root) = 1 /\ Root[1] = s[1]
    BY <2>1, RootIsOK DEF Root, StackOK
  <2>4. \A i \in 1..1 : SubSeq(s, 1, Len(s) - 1)[i] = Root[i]
    BY <2>2, <2>3
  <2>5. SubSeq(s, 1, Len(s) - 1) = Root
    BY <2>2, <2>3, <2>4, SeqEqual
  <2> QED
    BY <1>1, <2>5 DEF Disappear, Last
<1>2. CASE Last(s).kind # "profile"
  BY <1>2 DEF Disappear, Last
<1> QED
  BY <1>1, <1>2

LEMMA AppendIsOK ==
    ASSUME NEW s, StackOK(s), NEW p \in Page, Len(s) < MaxPages,
           p.kind # "root", Last(s).kind # "profile",
           p.kind = "profile" => Last(s).kind = "root",
           p.kind = "review" => Last(s).kind = "detail" /\ Last(s).wired,
           Last(s).kind # "root" => p.movie = Last(s).movie
    PROVE  StackOK(Append(s, p)) /\ Last(Append(s, p)) = p
<1> DEFINE n == Len(s)
           a == Append(s, p)
<1>1. s \in Seq(Page) /\ n \in Nat \ {0} /\ MaxPages \in Nat
  BY NavigationAssumption DEF StackOK
<1>2. /\ a \in Seq(Page) /\ Len(a) = n + 1 /\ a[n + 1] = p
      /\ \A i \in 1..n : a[i] = s[i]
  BY <1>1
<1> HIDE DEF a
<1>3. Len(a) \in 1..MaxPages /\ a[1] = s[1]
  BY <1>1, <1>2
<1>4. ASSUME NEW i \in 2..n
      PROVE  /\ a[i].kind # "root"
             /\ a[i].kind # "profile"
             /\ a[i].movie = a[2].movie
             /\ a[i].kind = "review" => a[i - 1].kind = "detail" /\ a[i - 1].wired
  <2>1. i \in 1..n /\ i - 1 \in 1..n /\ 2 \in 1..n /\ i \in 2..Len(s)
    BY <1>1
  <2>2. a[i] = s[i] /\ a[i - 1] = s[i - 1] /\ a[2] = s[2]
    BY <1>2, <2>1
  <2>3. s[i].kind # "profile"
    BY <2>1 DEF StackOK, PagesFit, Last
  <2> QED
    BY <2>1, <2>2, <2>3 DEF StackOK, PagesFit
<1>5. p.movie = a[2].movie
  <2>1. CASE n = 1
    BY <1>2, <2>1
  <2>2. CASE n # 1
    <3>1. n >= 2
      BY <1>1, <2>2, OneOrMore
    <3>2. n \in 2..n /\ 2 \in 1..n /\ n \in 1..n
      BY <1>1, <3>1
    <3>3. s[n].movie = s[2].movie /\ s[n].kind # "root"
      BY <3>2 DEF StackOK, PagesFit
    <3> QED
      BY <1>2, <3>2, <3>3 DEF Last
  <2> QED
    BY <2>1, <2>2
<1>6. p.kind = "profile" => n + 1 = 2
  <2>1. p.kind = "profile" => n = 1
    BY LastIsTyped
  <2> QED
    BY <1>1, <2>1
<1>7. p.kind = "review" => a[n].kind = "detail" /\ a[n].wired
  BY <1>1, <1>2 DEF Last
<1>8. PagesFit(a)
  <2> SUFFICES ASSUME NEW i \in 2..Len(a)
               PROVE  /\ a[i].kind # "root"
                      /\ a[i].kind = "profile" => i = 2 /\ Len(a) = 2
                      /\ a[i].movie = a[2].movie
                      /\ a[i].kind = "review" => a[i - 1].kind = "detail" /\ a[i - 1].wired
    BY DEF PagesFit
  <2>1. CASE i \in 2..n
    BY <2>1, <1>4
  <2>2. CASE i = n + 1
    <3>1. a[i] = p /\ i - 1 = n
      BY <1>1, <1>2, <2>2
    <3> QED
      BY <3>1, <2>2, <1>2, <1>5, <1>6, <1>7
  <2> QED
    BY <1>1, <1>2, <2>1, <2>2
<1>9. Last(a) = p
  BY <1>2 DEF Last
<1> QED
  BY <1>2, <1>3, <1>8, <1>9 DEF StackOK, a

\* What is left when a page of a movie is taken off the top.
LEMMA PopIsOK ==
    ASSUME NEW s, StackOK(s), Last(s).kind \in {"detail", "review"},
           NEW a, a = SubSeq(s, 1, Len(s) - 1)
    PROVE  StackOK(a) /\ Last(a).kind # "profile"
<1>1. s \in Seq(Page) /\ Len(s) \in Nat /\ Len(s) >= 2 /\ Len(s) \in 2..Len(s)
  <2>1. s \in Seq(Page) /\ Len(s) \in Nat /\ Len(s) # 0
    BY DEF StackOK
  <2>2. Len(s) # 1
    BY LastIsTyped
  <2> QED
    BY <2>1, <2>2, OneOrMore
<1> DEFINE n == Len(s) - 1
<1>2. /\ a \in Seq(Page) /\ Len(a) = n /\ n \in 1..MaxPages
      /\ \A i \in 1..n : a[i] = s[i]
  BY <1>1, NavigationAssumption DEF StackOK
<1>3. ASSUME NEW i \in 2..n
      PROVE  /\ a[i].kind # "root"
             /\ a[i].kind # "profile"
             /\ a[i].movie = a[2].movie
             /\ a[i].kind = "review" => a[i - 1].kind = "detail" /\ a[i - 1].wired
  <2>1. i \in 2..Len(s) /\ i # Len(s) /\ i \in 1..n /\ i - 1 \in 1..n /\ 2 \in 1..n
    BY <1>1, Below
  <2>2. a[i] = s[i] /\ a[i - 1] = s[i - 1] /\ a[2] = s[2]
    BY <1>2, <2>1
  <2>3. s[i].kind # "profile"
    BY <2>1 DEF StackOK, PagesFit
  <2> QED
    BY <2>1, <2>2, <2>3 DEF StackOK, PagesFit
<1>4. a[1] = s[1]
  BY <1>1, <1>2
<1>5. PagesFit(a)
  BY <1>2, <1>3 DEF PagesFit
<1>6. Last(a).kind # "profile"
  <2>1. CASE n = 1
    BY <1>2, <1>4, <2>1 DEF StackOK, Last
  <2>2. CASE n # 1
    <3>1. n \in 2..n
      BY <1>1, <1>2, <2>2, OneOrMore
    <3> QED
      BY <1>2, <1>3, <3>1 DEF Last
  <2> QED
    BY <2>1, <2>2
<1> QED
  BY <1>2, <1>4, <1>5, <1>6 DEF StackOK

----------------------------------------------------------------------------
(* The inductive invariant: each stack by itself, and how the tab and the  *)
(* modal screen go with them.                                              *)

CardIsOverItsPage ==
    /\ modal \in {"picker", "sheet"} => Last(stack[tab]).kind = "profile"
    /\ modal = "link" => Last(stack[tab]).kind = "detail"

ProfileIsTop ==
    \A t \in Tabs : Last(stack[t]).kind = "profile" => t = tab /\ modal # "cover"

MainHasNoMovie == Last(stack["main"]).kind \in {"root", "profile"}

NInv ==
    /\ tab \in Tabs
    /\ modal \in Modals
    /\ stack \in [Tabs -> Seq(Page)]
    /\ \A t \in Tabs : StackOK(stack[t])
    /\ CardIsOverItsPage
    /\ ProfileIsTop
    /\ MainHasNoMovie
    /\ modal = "cover" => Len(stack[tab]) = 1

LEMMA InitNInv == Init => NInv
<1> SUFFICES ASSUME Init PROVE NInv
  OBVIOUS
<1>1. \A t \in Tabs : stack[t] = Root
  BY DEF Init
<1>2. tab \in Tabs /\ modal \in Modals /\ modal \notin {"picker", "sheet", "link"}
  BY DEF Init, Tabs, Modals
<1>3. Root \in Seq(Page)
  BY RootIsOK DEF StackOK
<1>4. stack \in [Tabs -> Seq(Page)]
  BY <1>3 DEF Init
<1>5. CardIsOverItsPage
  BY <1>2 DEF CardIsOverItsPage
<1>6. ProfileIsTop
  BY <1>1, RootIsOK DEF ProfileIsTop
<1>7. MainHasNoMovie
  BY <1>1, RootIsOK DEF MainHasNoMovie, Tabs
<1> QED
  BY <1>1, <1>2, <1>4, <1>5, <1>6, <1>7, RootIsOK DEF NInv

----------------------------------------------------------------------------
(* The three things that happen to the stacks.                             *)

\* The selected tab goes back to its list.
LEMMA ToRootStep ==
    ASSUME NInv, stack' = [stack EXCEPT ![tab] = Root],
           tab' \in Tabs, modal' \in {"none", "cover"},
           modal' = "cover" => tab' = tab \/ Len(stack[tab']) = 1
    PROVE  NInv'
<1>1. /\ tab \in Tabs /\ stack'[tab] = Root
      /\ \A t \in Tabs \ {tab} : stack'[t] = stack[t]
  BY DEF NInv
<1>2. stack' \in [Tabs -> Seq(Page)]
  BY RootIsOK DEF NInv, StackOK
<1>3. \A t \in Tabs : StackOK(stack'[t])
  BY <1>1, RootIsOK DEF NInv
<1>4. \A t \in Tabs : Last(stack'[t]).kind # "profile"
  BY <1>1, RootIsOK DEF NInv, ProfileIsTop
<1>5. modal' = "cover" => Len(stack'[tab']) = 1
  BY <1>1, RootIsOK
<1>6. modal' \in Modals
  BY DEF Modals
<1>7. CardIsOverItsPage'
  BY DEF CardIsOverItsPage
<1>8. ProfileIsTop'
  BY <1>4 DEF ProfileIsTop
<1>9. MainHasNoMovie'
  BY <1>1, RootIsOK DEF NInv, MainHasNoMovie, Tabs
<1> QED
  BY <1>2, <1>3, <1>5, <1>6, <1>7, <1>8, <1>9 DEF NInv

\* The stacks stay, under another tab or another modal screen.
LEMMA SameStacksStep ==
    ASSUME NInv, UNCHANGED stack, tab' \in Tabs, modal' \in Modals \ {"cover"},
           tab' = tab \/ Last(stack[tab]).kind # "profile",
           CardIsOverItsPage'
    PROVE  NInv'
<1>1. ProfileIsTop'
  BY DEF NInv, ProfileIsTop
<1>2. MainHasNoMovie'
  BY DEF NInv, MainHasNoMovie
<1> QED
  BY <1>1, <1>2 DEF NInv

\* A page is pushed on the selected tab: a profile page on any list, a page
\* of a movie on the search tab.
LEMMA PushStep ==
    ASSUME NInv, NEW p \in Page, Push(p), modal = "none",
           p.kind # "root", Top.kind # "profile",
           p.kind = "profile" => Top.kind = "root",
           p.kind = "review" => Top.kind = "detail" /\ Top.wired,
           Top.kind # "root" => p.movie = Top.movie,
           p.kind # "profile" => tab = "search"
    PROVE  NInv'
<1>1. /\ tab \in Tabs /\ StackOK(stack[tab]) /\ stack[tab] \in Seq(Page)
      /\ Top = Last(stack[tab]) /\ Len(stack[tab]) < MaxPages
  BY DEF NInv, Top, Last, Push
<1>2. StackOK(Append(stack[tab], p))
  BY <1>1, AppendIsOK
<1>3. /\ stack'[tab] = Append(stack[tab], p)
      /\ \A t \in Tabs \ {tab} : stack'[t] = stack[t]
      /\ tab' = tab /\ modal' = "none"
  BY DEF Push, NInv
<1>4. stack' \in [Tabs -> Seq(Page)]
  BY <1>1 DEF Push, NInv
<1>5. \A t \in Tabs : StackOK(stack'[t])
  BY <1>2, <1>3 DEF NInv
<1>6. CardIsOverItsPage'
  BY <1>3 DEF CardIsOverItsPage
<1>7. ProfileIsTop'
  BY <1>3 DEF NInv, ProfileIsTop
<1>8. MainHasNoMovie'
  <2>1. CASE tab = "main"
    <3>1. Last(stack'[tab]) = p
      BY <1>1, <1>3, AppendIsOK
    <3> QED
      BY <2>1, <3>1 DEF MainHasNoMovie
  <2>2. CASE tab # "main"
    BY <1>3, <2>2 DEF NInv, MainHasNoMovie, Tabs
  <2> QED
    BY <2>1, <2>2
<1> QED
  BY <1>1, <1>3, <1>4, <1>5, <1>6, <1>7, <1>8 DEF NInv, Modals

\* The pages of movies are on the search tab.
LEMMA MoviesAreOnSearch ==
    ASSUME NInv, Top.kind \notin {"root", "profile"} PROVE tab = "search"
BY DEF NInv, MainHasNoMovie, Top, Last, Tabs

\* Nothing changes.
LEMMA Stutter == NInv /\ UNCHANGED vars => NInv'
BY DEF vars, NInv, CardIsOverItsPage, ProfileIsTop, MainHasNoMovie

----------------------------------------------------------------------------
(* Every step is one of the three.                                         *)

LEMMA SelectTabStep == ASSUME NInv, NEW t \in Tabs, SelectTab(t) PROVE NInv'
<1>1. tab' = t /\ modal' = "none" /\ tab \in Tabs /\ StackOK(stack[tab])
  BY DEF SelectTab, NInv
<1>2. CASE t = tab \/ Last(stack[tab]).kind = "profile"
  <2>1. stack' = [stack EXCEPT ![tab] = Root]
    BY <1>1, <1>2, DisappearIs DEF SelectTab
  <2> QED
    BY <1>1, <2>1, ToRootStep
<1>3. CASE t # tab /\ Last(stack[tab]).kind # "profile"
  <2>1. stack' = [stack EXCEPT ![tab] = stack[tab]]
    BY <1>1, <1>3, DisappearIs DEF SelectTab
  <2>2. stack' = stack
    BY <2>1 DEF NInv
  <2>3. CardIsOverItsPage' /\ modal' \in Modals \ {"cover"}
    BY <1>1 DEF CardIsOverItsPage, Modals
  <2> QED
    BY <1>1, <1>3, <2>2, <2>3, SameStacksStep
<1> QED
  BY <1>2, <1>3

LEMMA PushDetailStep ==
    ASSUME NInv, modal = "none", NEW m \in Movies \cup {NoMovie}, PushDetail(m),
           \/ Top.kind = "root" /\ tab = "search"
           \/ Top.kind = "review" /\ Top.movie = m
    PROVE  NInv'
<1>1. PICK w \in BOOLEAN : Push([kind |-> "detail", movie |-> m, wired |-> w])
  BY DEF PushDetail
<1> DEFINE p == [kind |-> "detail", movie |-> m, wired |-> w]
<1>2. p \in Page /\ p.kind = "detail" /\ p.movie = m
  BY DEF Page, Kinds
<1>3. Push(p)
  BY <1>1
<1>4. tab = "search"
  BY MoviesAreOnSearch
<1> HIDE DEF p
<1> QED
  BY <1>2, <1>3, <1>4, PushStep

LEMMA AddListStep == ASSUME NInv, AddList PROVE NInv'
<1> DEFINE p == [kind |-> "review", movie |-> Top.movie, wired |-> TRUE]
<1>1. Top \in Page
  BY LastIsTyped DEF NInv, Top, Last
<1>2. p \in Page /\ p.kind = "review" /\ p.movie = Top.movie
  BY <1>1 DEF Page, Kinds
<1>3. Push(p) /\ modal = "none" /\ Top.kind = "detail" /\ Top.wired
  BY DEF AddList, Shows
<1>4. tab = "search"
  BY <1>3, MoviesAreOnSearch
<1> HIDE DEF p
<1> QED
  BY <1>2, <1>3, <1>4, PushStep

LEMMA TapPersonStep == ASSUME NInv, TapPerson PROVE NInv'
<1>1. Plain("profile") \in Page /\ Plain("profile").kind = "profile"
  BY DEF Plain, Page, Kinds
<1>2. Push(Plain("profile")) /\ modal = "none" /\ Top.kind = "root"
  BY DEF TapPerson, Shows
<1> QED
  BY <1>1, <1>2, PushStep

\* The cover comes over the list that the profile page leaves, or over the
\* list of the first tab when the page is still in its tab bar.
LEMMA LogoutStep == ASSUME NInv, Logout PROVE NInv'
<1>1. /\ tab \in Tabs /\ StackOK(stack[tab])
      /\ Last(stack[tab]).kind = "profile"
  BY DEF Logout, NInv, CardIsOverItsPage
<1>2. stack' = [stack EXCEPT ![tab] = Root] /\ modal' = "cover"
  BY <1>1, DisappearIs DEF Logout
<1>3. tab' \in Tabs /\ (tab' = tab \/ tab' = "main")
  BY <1>1 DEF Logout, Tabs
<1>4. tab' = tab \/ Len(stack[tab']) = 1
  <2>1. CASE tab # tab'
    <3>1. tab' = "main" /\ Last(stack["main"]).kind = "root"
      BY <1>3, <2>1 DEF NInv, MainHasNoMovie, ProfileIsTop, Tabs
    <3> QED
      BY <3>1, LastIsTyped DEF NInv, Tabs
  <2> QED
    BY <2>1
<1> QED
  BY <1>2, <1>3, <1>4, ToRootStep

\* A back button: both pages of a movie, and the profile page.
LEMMA BackStep ==
    ASSUME NInv, Back \/ ProfileBack PROVE NInv'
<1>1. tab' = tab /\ modal' = "none" /\ tab \in Tabs
  BY DEF Back, ProfileBack, Shows, NInv
<1>2. CASE Back
  <2>1. stack' = [stack EXCEPT ![tab] = Root]
    BY <1>2 DEF Back
  <2> QED
    BY <1>1, <2>1, ToRootStep
<1>3. CASE ProfileBack
  <2>1. StackOK(stack[tab]) /\ Last(stack[tab]).kind = "profile"
    BY <1>3 DEF ProfileBack, Shows, Top, Last, NInv
  <2>2. stack' = [stack EXCEPT ![tab] = Root]
    BY <1>3, <2>1, DisappearIs DEF ProfileBack
  <2> QED
    BY <1>1, <2>2, ToRootStep
<1> QED
  BY <1>2, <1>3

\* A swipe uncovers the list or another page of the movie.
LEMMA SwipeBackStep == ASSUME NInv, SwipeBack PROVE NInv'
<1>1. /\ tab \in Tabs /\ StackOK(stack[tab]) /\ tab' = tab /\ modal' = "none"
      /\ Last(stack[tab]).kind \in {"detail", "review"}
  BY DEF NInv, SwipeBack, Shows, Top, Last
<1> DEFINE a == SubSeq(stack[tab], 1, Len(stack[tab]) - 1)
<1>2. StackOK(a) /\ a \in Seq(Page) /\ Last(a).kind # "profile"
  BY <1>1, PopIsOK DEF StackOK
<1>3. stack' = [stack EXCEPT ![tab] = a]
  BY DEF SwipeBack
<1> HIDE DEF a
<1>4. /\ stack' \in [Tabs -> Seq(Page)] /\ stack'[tab] = a
      /\ \A t \in Tabs \ {tab} : stack'[t] = stack[t]
  BY <1>1, <1>2, <1>3 DEF NInv
<1>5. \A t \in Tabs : StackOK(stack'[t])
  BY <1>2, <1>4 DEF NInv
<1>6. ProfileIsTop'
  BY <1>1, <1>2, <1>4 DEF NInv, ProfileIsTop
<1>7. tab = "search"
  BY <1>1, MoviesAreOnSearch DEF Top, Last
<1>8. MainHasNoMovie'
  BY <1>4, <1>7 DEF NInv, MainHasNoMovie, Tabs
<1>9. CardIsOverItsPage'
  BY <1>1 DEF CardIsOverItsPage
<1> QED
  BY <1>1, <1>4, <1>5, <1>6, <1>8, <1>9 DEF NInv, Modals

\* What is presented over a page, or taken away, and the list's own cell.
LEMMA PresentStep ==
    ASSUME NInv, TapCell \/ MoreMovie \/ OpenCard \/ CloseCard \/ Uncover
    PROVE  NInv'
<1>1. Top = Last(stack[tab])
  BY DEF Top, Last
<1>2. UNCHANGED stack
  BY DEF TapCell, MoreMovie, OpenCard, CloseCard, Uncover
<1>3. tab' \in Tabs /\ modal' \in Modals \ {"cover"}
  BY DEF TapCell, MoreMovie, OpenCard, CloseCard, Uncover, Shows, NInv, Tabs, Modals
<1>4. tab' = tab \/ Last(stack[tab]).kind # "profile"
  BY <1>1 DEF TapCell, MoreMovie, OpenCard, CloseCard, Uncover, Shows
<1>5. CardIsOverItsPage'
  BY <1>1, <1>2 DEF TapCell, MoreMovie, OpenCard, CloseCard, Uncover, Shows,
                    CardIsOverItsPage
<1> QED
  BY <1>2, <1>3, <1>4, <1>5, SameStacksStep

LEMMA NextNInv == NInv /\ [Next]_vars => NInv'
<1> SUFFICES ASSUME NInv, [Next]_vars PROVE NInv'
  OBVIOUS
<1>1. CASE \E t \in Tabs : SelectTab(t)
  BY <1>1, SelectTabStep
<1>2. CASE \E m \in Movies : TapRow(m)
  BY <1>2, PushDetailStep DEF TapRow, Shows
<1>3. CASE TapPoster
  <2>1. Top.movie \in Movies \cup {NoMovie}
    BY LastIsTyped DEF NInv, Top, Last, Page
  <2> QED
    BY <1>3, <2>1, PushDetailStep DEF TapPoster, Shows
<1>4. CASE UNCHANGED vars
  BY <1>4, Stutter
<1> QED
  BY <1>1, <1>2, <1>3, <1>4, AddListStep, TapPersonStep, LogoutStep, BackStep,
     SwipeBackStep, PresentStep DEF Next, Browse

----------------------------------------------------------------------------
(* The theorems.                                                           *)

\* Every reachable state: each stack is a list, with a profile page alone or
\* the pages of one movie over it, and the tab and the modal screen fit.
THEOREM NavigationInvariance == Spec => []NInv
<1>1. Init => NInv
  BY InitNInv
<1>2. NInv /\ [Next]_vars => NInv'
  BY NextNInv
<1> QED
  BY <1>1, <1>2, PTL DEF Spec

\* The selected tab, the pages of both stacks and the modal screen keep their
\* types, and no stack is ever empty.
THEOREM NavigationTypeCorrect == Spec => []TypeOK
<1>1. NInv => TypeOK
  BY DEF NInv, StackOK, TypeOK
<1> QED
  BY <1>1, NavigationInvariance, PTL

\* Because the profile page pops itself in viewWillDisappear, none is left on
\* a tab that is not selected, nor under the login cover.
THEOREM ProfileStaysOnScreen == Spec => []ProfileIsOnScreen
<1>1. NInv => ProfileIsOnScreen
  <2> SUFFICES ASSUME NInv, NEW t \in Tabs, NEW i \in 1..Len(stack[t]),
                      stack[t][i].kind = "profile"
               PROVE  t = tab /\ i = Len(stack[t]) /\ modal # "cover"
    BY DEF ProfileIsOnScreen
  <2>1. StackOK(stack[t]) /\ stack[t] \in Seq(Page)
    BY DEF NInv
  <2>2. i # 1
    BY <2>1 DEF StackOK
  <2>3. i \in 2..Len(stack[t])
    BY <2>1, <2>2
  <2>4. i = Len(stack[t])
    BY <2>1, <2>3 DEF StackOK, PagesFit
  <2> QED
    BY <2>4 DEF NInv, ProfileIsTop, Last
<1> QED
  BY <1>1, NavigationInvariance, PTL

\* A log out from either tab leaves the login cover over a list, whether or
\* not its completion still reaches the tab bar.
THEOREM CoverStaysOverARoot == Spec => []CoverIsOverARoot
<1>1. NInv => CoverIsOverARoot
  BY DEF NInv, StackOK, CoverIsOverARoot, Top
<1> QED
  BY <1>1, NavigationInvariance, PTL

\* However many detail and review pages are stacked, they are of one movie,
\* and a review page lies on the detail page whose button opened it.
THEOREM ReviewsStayOnTheirMovie == Spec => []ReviewsLieOnTheirMovie
<1>1. NInv => ReviewsLieOnTheirMovie
  BY DEF NInv, StackOK, PagesFit, ReviewsLieOnTheirMovie
<1> QED
  BY <1>1, NavigationInvariance, PTL

----------------------------------------------------------------------------
(* The forms under the cover.                                              *)

FormsTyped ==
    /\ open \in {{}, {"login"}, Cover!AllForms}
    /\ focus \in Cover!FieldsOf[Cover!Top] \cup {Cover!NoField}
    /\ texts \in [Cover!AllForms -> SUBSET Cover!FieldsOf["registration"]]
    /\ isEnabled \in [Cover!AllForms -> BOOLEAN]
    /\ y \in [Cover!AllForms -> Int]

\* What the buttons rest on: the view model is what the fields hold.
ModelIsTheTexts ==
    /\ viewModel = texts
    /\ \A f \in Cover!AllForms :
        /\ texts[f] \subseteq Cover!FieldsOf[f]
        /\ isEnabled[f] <=> texts[f] = Cover!FieldsOf[f]

\* What the views rest on: one is up by its own shift only under a keyboard
\* that its form, being open, hears leave.
ViewsFit ==
    /\ \A f \in Cover!AllForms :
        /\ y[f] \in {0, -Cover!Shift[f]}
        /\ y[f] # 0 => f \in open /\ focus # Cover!NoField
    /\ open = {} => focus = Cover!NoField

FInv == FormsTyped /\ ModelIsTheTexts /\ ViewsFit

\* The cover is there just while its forms are.
CoverHasForms == modal = "cover" <=> open # {}

ScreensInv == NInv /\ FInv /\ CoverHasForms

----------------------------------------------------------------------------
(* The forms, step by step.                                                *)

\* The first responder is a field of a form, and NoField is not one.
LEMMA FieldsAreNamed ==
    /\ \A f \in Cover!AllForms :
        /\ Cover!NoField \notin Cover!FieldsOf[f]
        /\ Cover!FieldsOf[f] \subseteq Cover!FieldsOf["registration"]
        /\ Cover!Shift[f] \in Int /\ Cover!Shift[f] # 0
    /\ Cover!Top \in Cover!AllForms
    /\ open # {} /\ FormsTyped => Cover!Top \in open
BY DEF Cover!NoField, Cover!FieldsOf, Cover!AllForms, Cover!Shift, Cover!Top, FormsTyped

LEMMA InitForms == Cover!Init => FInv
<1> SUFFICES ASSUME Cover!Init PROVE FInv
  OBVIOUS
<1>1. FormsTyped
  BY DEF FormsTyped, Cover!Init, Cover!AllForms
<1>2. ModelIsTheTexts
  BY DEF ModelIsTheTexts, Cover!Init, Cover!AllForms, Cover!FieldsOf
<1>3. ViewsFit
  BY DEF ViewsFit, Cover!Init
<1> QED
  BY <1>1, <1>2, <1>3 DEF FInv

\* The keyboard comes: each open form is up by its shift.
LEMMA KeyboardShowsFits ==
    ASSUME FInv, Cover!KeyboardShows
    PROVE  /\ y' \in [Cover!AllForms -> Int]
           /\ \A f \in Cover!AllForms :
                /\ y'[f] \in {0, -Cover!Shift[f]}
                /\ y'[f] # 0 => f \in open
<1> SUFFICES ASSUME NEW f \in Cover!AllForms
             PROVE  /\ y'[f] \in Int
                    /\ y'[f] \in {0, -Cover!Shift[f]}
                    /\ y'[f] # 0 => f \in open
  BY DEF Cover!KeyboardShows
<1>1. /\ y'[f] = IF f \in open THEN Cover!keyboardWillAppear(f) ELSE y[f]
      /\ y[f] \in Int /\ y[f] \in {0, -Cover!Shift[f]} /\ Cover!Shift[f] \in Int
      /\ y[f] # 0 => f \in open
  BY FieldsAreNamed DEF Cover!KeyboardShows, FInv, FormsTyped, ViewsFit
<1> QED
  BY <1>1 DEF Cover!keyboardWillAppear

\* The keyboard leaves: each form is back in place.
LEMMA KeyboardHidesFits ==
    ASSUME FInv, Cover!KeyboardHides
    PROVE  y' \in [Cover!AllForms -> Int] /\ \A f \in Cover!AllForms : y'[f] = 0
<1> SUFFICES ASSUME NEW f \in Cover!AllForms PROVE y'[f] = 0
  BY DEF Cover!KeyboardHides
<1>1. /\ y'[f] = IF f \in open THEN Cover!keyboardWillDisappear(f) ELSE y[f]
      /\ y[f] \in Int /\ y[f] \in {0, -Cover!Shift[f]} /\ Cover!Shift[f] \in Int
      /\ y[f] # 0 => f \in open
  BY FieldsAreNamed DEF Cover!KeyboardHides, FInv, FormsTyped, ViewsFit
<1> QED
  BY <1>1 DEF Cover!keyboardWillDisappear

\* Another field of the form on top takes the keyboard.
LEMMA BecomeFirstResponderStep ==
    ASSUME FInv, open # {}, NEW field \in Cover!FieldsOf[Cover!Top],
           Cover!BecomeFirstResponder(field), UNCHANGED open,
           UNCHANGED Cover!entries
    PROVE  FInv'
<1>1. focus' = field /\ field # Cover!NoField /\ Cover!Top' = Cover!Top
  BY FieldsAreNamed DEF Cover!BecomeFirstResponder, Cover!Top
<1>2. /\ y' \in [Cover!AllForms -> Int]
      /\ \A f \in Cover!AllForms :
            y'[f] \in {0, -Cover!Shift[f]} /\ (y'[f] # 0 => f \in open)
  <2>1. CASE Cover!KeyboardShows
    BY <2>1, KeyboardShowsFits
  <2>2. CASE UNCHANGED y
    BY <2>2 DEF FInv, FormsTyped, ViewsFit
  <2> QED
    BY <2>1, <2>2 DEF Cover!BecomeFirstResponder
<1>3. FormsTyped'
  BY <1>1, <1>2 DEF FInv, FormsTyped, Cover!entries
<1>4. ModelIsTheTexts'
  BY DEF FInv, ModelIsTheTexts, Cover!entries
<1>5. ViewsFit'
  BY <1>1, <1>2 DEF ViewsFit
<1> QED
  BY <1>3, <1>4, <1>5 DEF FInv

\* No field has the keyboard any more.
LEMMA ResignFits ==
    ASSUME FInv, Cover!ResignFirstResponder
    PROVE  /\ focus' = Cover!NoField
           /\ y' \in [Cover!AllForms -> Int] /\ \A f \in Cover!AllForms : y'[f] = 0
<1>1. CASE focus # Cover!NoField /\ Cover!KeyboardHides
  BY <1>1, KeyboardHidesFits DEF Cover!ResignFirstResponder
<1>2. CASE focus = Cover!NoField /\ UNCHANGED y
  BY <1>2 DEF Cover!ResignFirstResponder, FInv, FormsTyped, ViewsFit
<1> QED
  BY <1>1, <1>2 DEF Cover!ResignFirstResponder

\* The keyboard leaves the form on top, or the form it was on: in both cases
\* any new set of open forms fits, when their entries do.
LEMMA ResignStep ==
    ASSUME FInv, Cover!ResignFirstResponder,
           open' \in {{}, {"login"}, Cover!AllForms},
           texts' \in [Cover!AllForms -> SUBSET Cover!FieldsOf["registration"]],
           isEnabled' \in [Cover!AllForms -> BOOLEAN],
           ModelIsTheTexts'
    PROVE  FInv'
<1>1. /\ focus' = Cover!NoField
      /\ y' \in [Cover!AllForms -> Int] /\ \A f \in Cover!AllForms : y'[f] = 0
  BY ResignFits
<1>2. FormsTyped'
  BY <1>1 DEF FormsTyped
<1>3. ViewsFit'
  BY <1>1 DEF ViewsFit
<1> QED
  BY <1>2, <1>3 DEF FInv

\* A form created anew is empty, and its button disabled.
LEMMA FreshFits ==
    ASSUME FInv, NEW g \in Cover!AllForms, Cover!Fresh(g)
    PROVE  /\ texts' \in [Cover!AllForms -> SUBSET Cover!FieldsOf["registration"]]
           /\ isEnabled' \in [Cover!AllForms -> BOOLEAN]
           /\ ModelIsTheTexts'
<1>1. /\ texts \in [Cover!AllForms -> SUBSET Cover!FieldsOf["registration"]]
      /\ isEnabled \in [Cover!AllForms -> BOOLEAN] /\ viewModel = texts
  BY DEF FInv, FormsTyped, ModelIsTheTexts
<1>2. /\ texts' = [texts EXCEPT ![g] = {}]
      /\ viewModel' = [viewModel EXCEPT ![g] = {}]
      /\ isEnabled' = [isEnabled EXCEPT ![g] = FALSE]
  BY DEF Cover!Fresh
<1>3. \A f \in Cover!AllForms : {} # Cover!FieldsOf[f]
  BY DEF Cover!AllForms, Cover!FieldsOf
<1>4. ASSUME NEW f \in Cover!AllForms
      PROVE  /\ texts'[f] \subseteq Cover!FieldsOf[f]
             /\ isEnabled'[f] <=> texts'[f] = Cover!FieldsOf[f]
  <2>1. CASE f = g
    BY <1>1, <1>2, <1>3, <2>1
  <2>2. CASE f # g
    BY <1>1, <1>2, <2>2 DEF FInv, ModelIsTheTexts
  <2> QED
    BY <2>1, <2>2
<1>5. viewModel' = texts'
  BY <1>1, <1>2
<1>6. ModelIsTheTexts'
  BY <1>4, <1>5 DEF ModelIsTheTexts
<1> QED
  BY <1>1, <1>2, <1>6

\* Typing or deleting keeps the view model on the texts and the button on
\* the view model.
LEMMA EditStep == ASSUME FInv, Cover!Edit PROVE FInv'
<1> DEFINE g == Cover!Top
           new == IF focus \in texts[g] THEN texts[g] \ {focus} ELSE texts[g] \cup {focus}
<1>1. /\ g \in Cover!AllForms /\ focus \in Cover!FieldsOf[g]
      /\ texts \in [Cover!AllForms -> SUBSET Cover!FieldsOf["registration"]]
      /\ isEnabled \in [Cover!AllForms -> BOOLEAN] /\ viewModel = texts
      /\ texts[g] \subseteq Cover!FieldsOf[g]
      /\ Cover!FieldsOf[g] \subseteq Cover!FieldsOf["registration"]
  BY FieldsAreNamed DEF FInv, FormsTyped, ModelIsTheTexts, Cover!Edit
<1>2. texts' = [texts EXCEPT ![g] = new]
  BY DEF Cover!Edit
<1>3. texts'[g] = new /\ (focus \in new <=> focus \notin texts[g])
      /\ new \subseteq Cover!FieldsOf[g]
  BY <1>1, <1>2
<1>4. viewModel' = [viewModel EXCEPT ![g] = IF focus \in texts'[g]
                                              THEN viewModel[g] \cup {focus}
                                              ELSE viewModel[g] \ {focus}]
  BY DEF Cover!Edit, Cover!textDidChange
<1>5. isEnabled' = [isEnabled EXCEPT ![g] = Cover!FieldsOf[g] \subseteq viewModel'[g]]
  BY DEF Cover!Edit, Cover!textDidChange, Cover!checkTextStatus, Cover!formIsValid
<1>6. viewModel' = texts'
  <2>1. (IF focus \in new THEN texts[g] \cup {focus} ELSE texts[g] \ {focus}) = new
    BY <1>3
  <2> QED
    BY <1>1, <1>2, <1>3, <1>4, <2>1
<1>7. isEnabled' = [isEnabled EXCEPT ![g] = (new = Cover!FieldsOf[g])]
  <2>1. (Cover!FieldsOf[g] \subseteq new) = (new = Cover!FieldsOf[g])
    BY <1>3
  <2> QED
    BY <1>3, <1>5, <1>6, <2>1
<1>8. UNCHANGED <<open, focus, y>>
  BY DEF Cover!Edit
<1> HIDE DEF g, new
<1>9. FormsTyped'
  <2>1. texts' \in [Cover!AllForms -> SUBSET Cover!FieldsOf["registration"]]
    BY <1>1, <1>2, <1>3
  <2>2. isEnabled' \in [Cover!AllForms -> BOOLEAN]
    BY <1>1, <1>7
  <2>3. Cover!Top' = Cover!Top
    BY <1>8 DEF Cover!Top
  <2> QED
    BY <1>8, <2>1, <2>2, <2>3 DEF FInv, FormsTyped
<1>10. ModelIsTheTexts'
  <2>1. ASSUME NEW f \in Cover!AllForms
        PROVE  /\ texts'[f] \subseteq Cover!FieldsOf[f]
               /\ isEnabled'[f] <=> texts'[f] = Cover!FieldsOf[f]
    <3>1. CASE f = g
      BY <1>1, <1>3, <1>7, <3>1
    <3>2. CASE f # g
      BY <1>1, <1>2, <1>7, <3>2 DEF FInv, ModelIsTheTexts
    <3> QED
      BY <3>1, <3>2
  <2> QED
    BY <1>6, <2>1 DEF ModelIsTheTexts
<1>11. ViewsFit'
  BY <1>8 DEF FInv, ViewsFit
<1> QED
  BY <1>9, <1>10, <1>11 DEF FInv

\* The keyboard is announced again, or a view is laid out.
LEMMA ViewsStep ==
    ASSUME FInv, UNCHANGED <<open, focus>>, UNCHANGED Cover!entries,
           \/ focus # Cover!NoField /\ (Cover!KeyboardShows \/ Cover!KeyboardHides)
           \/ \E f \in Cover!AllForms : y' = [y EXCEPT ![f] = 0]
    PROVE  FInv'
<1>1. /\ y' \in [Cover!AllForms -> Int]
      /\ \A f \in Cover!AllForms :
            /\ y'[f] \in {0, -Cover!Shift[f]}
            /\ y'[f] # 0 => f \in open /\ focus # Cover!NoField
  <2>1. CASE focus # Cover!NoField /\ Cover!KeyboardShows
    BY <2>1, KeyboardShowsFits
  <2>2. CASE Cover!KeyboardHides
    BY <2>2, KeyboardHidesFits
  <2>3. CASE \E f \in Cover!AllForms : y' = [y EXCEPT ![f] = 0]
    BY <2>3 DEF FInv, FormsTyped, ViewsFit
  <2> QED
    BY <2>1, <2>2, <2>3
<1>2. Cover!Top' = Cover!Top
  BY DEF Cover!Top
<1>3. FormsTyped'
  BY <1>1, <1>2 DEF FInv, FormsTyped, Cover!entries
<1>4. ModelIsTheTexts'
  BY DEF FInv, ModelIsTheTexts, Cover!entries
<1>5. ViewsFit'
  BY <1>1 DEF FInv, ViewsFit
<1> QED
  BY <1>3, <1>4, <1>5 DEF FInv

\* What the user does in the forms keeps the cover up.
LEMMA FillStep ==
    ASSUME FInv, Cover!Fill PROVE FInv' /\ (open' = {} <=> open = {})
<1>1. CASE \E field \in Cover!FieldsOf[Cover!Top] : Cover!TapField(field)
  BY <1>1, BecomeFirstResponderStep DEF Cover!TapField
<1>2. CASE Cover!TextFieldShouldReturn
  <2>1. "password" \in Cover!FieldsOf[Cover!Top] /\ open # {}
    BY <1>2 DEF Cover!TextFieldShouldReturn, Cover!FieldsOf, Cover!NoField, FInv, ViewsFit
  <2> QED
    BY <1>2, <2>1, BecomeFirstResponderStep DEF Cover!TextFieldShouldReturn
<1>3. CASE Cover!Edit
  BY <1>3, EditStep DEF Cover!Edit
<1>4. CASE Cover!KeyboardAgain
  BY <1>4, ViewsStep DEF Cover!KeyboardAgain
<1>5. CASE \E f \in Cover!AllForms : Cover!Relayout(f)
  BY <1>5, ViewsStep DEF Cover!Relayout
<1>6. CASE Cover!EndEditing \/ Cover!TapSignUp
  <2>1. UNCHANGED open /\ UNCHANGED Cover!entries /\ Cover!ResignFirstResponder
    BY <1>6 DEF Cover!EndEditing, Cover!TapSignUp
  <2>2. ModelIsTheTexts'
    BY <2>1 DEF FInv, ModelIsTheTexts, Cover!entries
  <2> QED
    BY <2>1, <2>2, ResignStep DEF FInv, FormsTyped, Cover!entries
<1>7. CASE Cover!TapAccountButton \/ Cover!ShowLogin
  <2>1. /\ open' \in {{"login"}, Cover!AllForms} /\ open' # {} /\ open # {}
        /\ Cover!ResignFirstResponder
        /\ Cover!Fresh("registration") /\ "registration" \in Cover!AllForms
    BY <1>7 DEF Cover!TapAccountButton, Cover!ShowLogin, Cover!AllForms
  <2> QED
    BY <2>1, FreshFits, ResignStep
<1> QED
  BY <1>1, <1>2, <1>3, <1>4, <1>5, <1>6, <1>7 DEF Cover!Fill

\* The cover leaves with its keyboard, and takes what was typed with it.
LEMMA CoverLeavesStep == ASSUME FInv, Cover!CoverLeaves PROVE FInv' /\ open' = {}
<1>1. FormsTyped'
  BY DEF FormsTyped, Cover!CoverLeaves
<1>2. ModelIsTheTexts'
  BY DEF ModelIsTheTexts, Cover!CoverLeaves, Cover!AllForms, Cover!FieldsOf
<1>3. ViewsFit'
  BY DEF ViewsFit, Cover!CoverLeaves
<1> QED
  BY <1>1, <1>2, <1>3 DEF FInv, Cover!CoverLeaves

LEMMA CoverShownStep == ASSUME FInv, Cover!CoverShown PROVE FInv' /\ open' # {}
<1>1. open = {} /\ open' = {"login"} /\ UNCHANGED <<focus, y>> /\ UNCHANGED Cover!entries
  BY DEF Cover!CoverShown
<1>2. FormsTyped'
  BY <1>1 DEF FInv, FormsTyped, Cover!Top, Cover!entries
<1>3. ModelIsTheTexts'
  BY <1>1 DEF FInv, ModelIsTheTexts, Cover!entries
<1>4. ViewsFit'
  BY <1>1 DEF FInv, ViewsFit
<1> QED
  BY <1>1, <1>2, <1>3, <1>4 DEF FInv

----------------------------------------------------------------------------
(* Pages and forms together.                                               *)

LEMMA InitScreens == ScreensInit => ScreensInv
BY InitNInv, InitForms DEF ScreensInit, ScreensInv, CoverHasForms

\* Only a log out brings the cover, and only its dismissal takes it away.
LEMMA BrowseKeepsTheCover ==
    ASSUME Browse PROVE (modal # "cover" /\ modal' # "cover") \/ UNCHANGED modal
BY DEF Browse, SelectTab, TapCell, TapRow, AddList, TapPoster, PushDetail, Push,
       MoreMovie, Back, SwipeBack, TapPerson, ProfileBack, OpenCard, CloseCard, Shows

LEMMA ScreensStep == ScreensInv /\ [ScreensNext]_<<vars, forms>> => ScreensInv'
<1> SUFFICES ASSUME ScreensInv, [ScreensNext]_<<vars, forms>> PROVE ScreensInv'
  OBVIOUS
<1> USE DEF ScreensInv
<1>1. CASE LogoutCovers
  <2>1. NInv'
    BY <1>1, NextNInv DEF LogoutCovers, Next
  <2>2. FInv' /\ open' # {}
    BY <1>1, CoverShownStep DEF LogoutCovers
  <2>3. modal' = "cover"
    BY <1>1 DEF LogoutCovers, Logout
  <2> QED
    BY <2>1, <2>2, <2>3 DEF CoverHasForms
<1>2. CASE LoginUncovers
  <2>1. NInv'
    BY <1>2, NextNInv DEF LoginUncovers, Next
  <2>2. FInv' /\ open' = {}
    BY <1>2, CoverLeavesStep DEF LoginUncovers
  <2>3. modal' # "cover"
    BY <1>2 DEF LoginUncovers, Uncover
  <2> QED
    BY <2>1, <2>2, <2>3 DEF CoverHasForms
<1>3. CASE BrowsePages
  <2>1. NInv'
    BY <1>3, NextNInv DEF BrowsePages, Next
  <2>2. FInv' /\ UNCHANGED open
    BY <1>3 DEF BrowsePages, forms, FInv, FormsTyped, ModelIsTheTexts, ViewsFit, Cover!Top
  <2>3. modal' = "cover" <=> modal = "cover"
    BY <1>3, BrowseKeepsTheCover DEF BrowsePages
  <2> QED
    BY <2>1, <2>2, <2>3 DEF CoverHasForms
<1>4. CASE FillForms
  <2>1. NInv' /\ UNCHANGED modal
    BY <1>4, NextNInv DEF FillForms, vars
  <2>2. FInv' /\ (open' = {} <=> open = {})
    BY <1>4, FillStep DEF FillForms
  <2> QED
    BY <2>1, <2>2 DEF CoverHasForms
<1>5. CASE UNCHANGED <<vars, forms>>
  <2>1. NInv' /\ UNCHANGED modal
    BY <1>5, NextNInv DEF vars
  <2>2. FInv' /\ UNCHANGED open
    BY <1>5 DEF forms, FInv, FormsTyped, ModelIsTheTexts, ViewsFit, Cover!Top
  <2> QED
    BY <2>1, <2>2 DEF CoverHasForms
<1> QED
  BY <1>1, <1>2, <1>3, <1>4, <1>5 DEF ScreensNext

\* Every reachable state of pages and forms together: the stacks fit, each
\* button is on the texts of its form, a view is up only under a keyboard,
\* and the cover is there just while its forms are.
THEOREM ScreensInvariance == ScreensSpec => []ScreensInv
<1>1. ScreensInit => ScreensInv
  BY InitScreens
<1>2. ScreensInv /\ [ScreensNext]_<<vars, forms>> => ScreensInv'
  BY ScreensStep
<1> QED
  BY <1>1, <1>2, PTL DEF ScreensSpec

\* However the keyboard comes and goes between two forms that both observe
\* it, no view is left shifted when it has gone (keyboardWillDisappear).
THEOREM FormsComeBack == ScreensSpec => []BackInPlace
<1>1. ScreensInv => BackInPlace
  BY DEF ScreensInv, FInv, ViewsFit, BackInPlace, Cover!BackInPlace
<1> QED
  BY <1>1, ScreensInvariance, PTL

\* No edit, visit of the other form or cover parts a button from the texts
\* of its form (textDidChange, checkTextStatus).
THEOREM ButtonsFollowTexts == ScreensSpec => []ButtonFollowsTexts
<1>1. ScreensInv => ButtonFollowsTexts
  BY DEF ScreensInv, FInv, ModelIsTheTexts, ButtonFollowsTexts, Cover!ButtonFollowsTexts
<1> QED
  BY <1>1, ScreensInvariance, PTL

\* The composition adds nothing to the pages: with the forms it is still a
\* behaviour of Navigation, so all its theorems hold of Screens too.
THEOREM ScreensAreNavigation == ScreensSpec => Spec
<1>1. ScreensInit => Init
  BY DEF ScreensInit
<1>2. [ScreensNext]_<<vars, forms>> => [Next]_vars
  BY DEF ScreensNext, LogoutCovers, LoginUncovers, BrowsePages, FillForms, Next
<1> QED
  BY <1>1, <1>2, PTL DEF ScreensSpec, Spec

\* What is left on the stacks at any log out, login or edit of a form: no
\* profile page out of sight, a list under the cover, reviews on their movie.
THEOREM ScreensKeepThePages ==
    ScreensSpec => [](ProfileIsOnScreen /\ CoverIsOverARoot /\ ReviewsLieOnTheirMovie)
BY ScreensAreNavigation, ProfileStaysOnScreen, CoverStaysOverARoot,
   ReviewsStayOnTheirMovie, PTL
=============================================================================
