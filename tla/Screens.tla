------------------------------- MODULE Screens -------------------------------
(***************************************************************************)
(* All that is on screen: the pages of Navigation, and the forms of the    *)
(* login cover while it is up.  The cover is the one place where the two   *)
(* meet: a log out presents it, a login or a registration dismisses it     *)
(* with its forms, its keyboard and what was typed.                        *)
(***************************************************************************)
EXTENDS Navigation

VARIABLES open, focus, texts, viewModel, isEnabled, y

forms == <<open, focus, texts, viewModel, isEnabled, y>>

Cover == INSTANCE Forms

\* MainViewController presents the cover when nobody is logged in.
ScreensInit ==
    /\ Init
    /\ Cover!Init
    /\ modal = "cover" <=> open # {}

LogoutCovers == Logout /\ Cover!CoverShown

LoginUncovers == Uncover /\ Cover!CoverLeaves

BrowsePages == Browse /\ UNCHANGED forms

FillForms == Cover!Fill /\ UNCHANGED vars

ScreensNext == LogoutCovers \/ LoginUncovers \/ BrowsePages \/ FillForms

ScreensSpec == ScreensInit /\ [][ScreensNext]_<<vars, forms>>

----------------------------------------------------------------------------
\* Once the keyboard is gone both forms are back in place, also the login
\* form that moved under the registration form, and after a layout that set
\* a view back while the keyboard was up (keyboardWillDisappear).
BackInPlace == Cover!BackInPlace

\* A button is enabled just when each field of its form holds text, through
\* any edits, deletions, visits of the other form and covers (checkTextStatus).
ButtonFollowsTexts == Cover!ButtonFollowsTexts
==============================================================================
