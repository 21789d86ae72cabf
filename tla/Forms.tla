------------------------------- MODULE Forms -------------------------------
(***************************************************************************)
(* The two forms of the login cover: the texts of their fields, the view   *)
(* model behind each, the button it enables, and the view that makes room  *)
(* for the keyboard.                                                       *)
(*                                                                         *)
(* Both forms observe the keyboard.  The registration form is pushed over  *)
(* the login form, which goes on observing: it moves with a keyboard that  *)
(* was called by the other form.  The requests are those of Session.       *)
(***************************************************************************)
EXTENDS Integers

VARIABLES
    open,      \* the forms of the cover, none when there is no cover
    focus,     \* the first responder; the keyboard is up while there is one
    texts,     \* the fields of each form that hold text
    viewModel, \* the fields its view model takes for not empty
    isEnabled, \* of its button
    y          \* view.frame.origin.y

entries == <<texts, viewModel, isEnabled>>
vars    == <<open, focus, entries, y>>

AllForms == {"login", "registration"}
NoField  == "none"

FieldsOf == [login |-> {"email", "password"},
             registration |-> {"email", "password", "nickname"}]

Shift == [login |-> 80, registration |-> 70]

Top == IF "registration" \in open THEN "registration" ELSE "login"

\* A form is created empty, its button disabled.
Init ==
    /\ open \in {{}, {"login"}}
    /\ focus = NoField
    /\ texts = [f \in AllForms |-> {}]
    /\ viewModel = [f \in AllForms |-> {}]
    /\ isEnabled = [f \in AllForms |-> FALSE]
    /\ y = [f \in AllForms |-> 0]

Fresh(f) ==
    /\ texts' = [texts EXCEPT ![f] = {}]
    /\ viewModel' = [viewModel EXCEPT ![f] = {}]
    /\ isEnabled' = [isEnabled EXCEPT ![f] = FALSE]

----------------------------------------------------------------------------
(* The keyboard.                                                           *)

keyboardWillAppear(f) == IF y[f] = 0 THEN y[f] - Shift[f] ELSE y[f]

\* Mutant: the view moves down at every notification.
keyboardWillDisappearAlways(f) == y[f] + Shift[f]

keyboardWillDisappear(f) == IF y[f] # 0 THEN y[f] + Shift[f] ELSE y[f]

KeyboardShows ==
    y' = [f \in AllForms |-> IF f \in open THEN keyboardWillAppear(f) ELSE y[f]]

KeyboardHides ==
    y' = [f \in AllForms |-> IF f \in open THEN keyboardWillDisappear(f) ELSE y[f]]

\* iOS announces the keyboard again, or not, when it changes fields.
BecomeFirstResponder(field) ==
    /\ focus' = field
    /\ \/ KeyboardShows
       \/ focus # NoField /\ UNCHANGED y

ResignFirstResponder ==
    /\ focus' = NoField
    /\ \/ focus # NoField /\ KeyboardHides
       \/ focus = NoField /\ UNCHANGED y

TapField(field) ==
    /\ open # {}
    /\ field \in FieldsOf[Top] \ {focus}
    /\ BecomeFirstResponder(field)
    /\ UNCHANGED <<open, entries>>

\* touchesBegan outside of the fields.
EndEditing ==
    /\ focus # NoField
    /\ ResignFirstResponder
    /\ UNCHANGED <<open, entries>>

\* Only the login form is its fields' delegate.  In the password field the
\* key asks for a log in, whatever the button, and leaves the form as it is.
TextFieldShouldReturn ==
    /\ Top = "login"
    /\ focus = "email"
    /\ BecomeFirstResponder("password")
    /\ UNCHANGED <<open, entries>>

\* The photo picker hides the keyboard of the form under it and brings it
\* back; another kind of keyboard is announced too.
KeyboardAgain ==
    /\ focus # NoField
    /\ KeyboardShows \/ KeyboardHides
    /\ UNCHANGED <<open, focus, entries>>

\* UIKit lays a view out: its frame starts at 0 again.
Relayout(f) ==
    /\ f \in open
    /\ y' = [y EXCEPT ![f] = 0]
    /\ UNCHANGED <<open, focus, entries>>

----------------------------------------------------------------------------
(* Text.                                                                   *)

\* Mutant: the nickname is forgotten.
formIsValidUnnamed(f, model) == FieldsOf[f] \ {"nickname"} \subseteq model

formIsValid(f, model) == FieldsOf[f] \subseteq model

checkTextStatus(f) ==
    isEnabled' = [isEnabled EXCEPT ![f] = formIsValid(f, viewModel'[f])]

\* The sender's text goes to its place in the view model.
textDidChange(f, sender) ==
    /\ viewModel' = [viewModel EXCEPT ![f] =
                        IF sender \in texts'[f] THEN @ \cup {sender} ELSE @ \ {sender}]
    /\ checkTextStatus(f)

\* Typing, or deleting the last character of a field.
Edit ==
    /\ focus # NoField
    /\ texts' = [texts EXCEPT ![Top] =
                    IF focus \in @ THEN @ \ {focus} ELSE @ \cup {focus}]
    /\ textDidChange(Top, focus)
    /\ UNCHANGED <<open, focus, y>>

----------------------------------------------------------------------------
(* Buttons, and the cover.                                                 *)

\* A field that leaves the window resigns.
TapAccountButton ==
    /\ open = {"login"}
    /\ open' = AllForms
    /\ ResignFirstResponder
    /\ Fresh("registration")

ShowLogin ==
    /\ open = AllForms
    /\ open' = {"login"}
    /\ ResignFirstResponder
    /\ Fresh("registration")

\* handleRegistration: all fields resign before anything else.
TapSignUp ==
    /\ Top = "registration"
    /\ isEnabled[Top]
    /\ ResignFirstResponder
    /\ UNCHANGED <<open, entries>>

\* A request's completion dismisses the cover, with all its forms.
CoverLeaves ==
    /\ open # {}
    /\ open' = {}
    /\ focus' = NoField
    /\ texts' = [f \in AllForms |-> {}]
    /\ viewModel' = [f \in AllForms |-> {}]
    /\ isEnabled' = [f \in AllForms |-> FALSE]
    /\ y' = [f \in AllForms |-> 0]

CoverShown ==
    /\ open = {}
    /\ open' = {"login"}
    /\ UNCHANGED <<focus, entries, y>>

\* What the user does in the forms.
Fill ==
    \/ \E field \in FieldsOf[Top] : TapField(field)
    \/ EndEditing \/ TextFieldShouldReturn \/ Edit \/ KeyboardAgain
    \/ \E f \in AllForms : Relayout(f)
    \/ TapAccountButton \/ ShowLogin \/ TapSignUp

Next == Fill \/ CoverLeaves \/ CoverShown

Spec == Init /\ [][Next]_vars

----------------------------------------------------------------------------
\* A view is in place or up by its own shift, however often the keyboard is
\* announced (the tests of y in keyboardWillAppear and its counterpart), and
\* the first responder is a field of the form on top.
TypeOK ==
    /\ open \in {{}, {"login"}, AllForms}
    /\ focus \in FieldsOf[Top] \cup {NoField}
    /\ texts \in [AllForms -> SUBSET FieldsOf["registration"]]
    /\ viewModel \in [AllForms -> SUBSET FieldsOf["registration"]]
    /\ isEnabled \in [AllForms -> BOOLEAN]
    /\ \A f \in AllForms : y[f] \in {0, -Shift[f]}

\* Once the keyboard is gone both forms are back in place, also the login
\* form that moved under the registration form, and after a layout that set
\* a view back while the keyboard was up (keyboardWillDisappear).
BackInPlace == focus = NoField => \A f \in AllForms : y[f] = 0

\* A button is enabled just when each field of its form holds text, through
\* any edits, deletions and visits of the other form (checkTextStatus).
ButtonFollowsTexts ==
    \A f \in AllForms : isEnabled[f] <=> texts[f] = FieldsOf[f]
============================================================================
