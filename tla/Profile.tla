------------------------------ MODULE Profile ------------------------------
(***************************************************************************)
(* The profile page on top of Session: it asks for the document of the     *)
(* logged-in user, covers itself with a spinner shared by the whole app    *)
(* until the answer, lets the user replace the picture, and holds the only *)
(* way to log out.                                                         *)
(*                                                                         *)
(* Neither the request for the document nor the upload of a picture ends   *)
(* when the page is left.                                                  *)
(***************************************************************************)
EXTENDS Session, Sequences

CONSTANTS Pages,   \* page instances that may have a request in flight
          NoPage   \* the page is not on screen

ASSUME NoPageAssumption == NoPage \notin Pages

VARIABLES
    page,    \* the instance on screen
    asked,   \* whose document each instance waits for, NoUser for none
    shown,   \* whose picture each instance received, NoUser for none
    spinner, \* the instance the shared spinner covers, NoPage when hidden
    chooser, \* the photo picker is open over the page
    upload,  \* what the upload of each object name waits for
    owner,   \* the user an upload was started for
    edits    \* updateData writes in the mutation queues, oldest first

pageVars    == <<page, asked, shown, spinner, chooser>>
editVars    == <<upload, owner, edits>>
profileVars == <<pageVars, editVars>>
allVars     == <<vars, profileVars>>

Edit == [user : Users, name : Blobs, by : Credentials]

ProfileInit ==
    /\ Init
    /\ page = NoPage
    /\ asked = [p \in Pages |-> NoUser]
    /\ shown = [p \in Pages |-> NoUser]
    /\ spinner = NoPage
    /\ chooser = FALSE
    /\ upload = [b \in Blobs |-> "none"]
    /\ owner = [b \in Blobs |-> NoUser]
    /\ edits = <<>>

----------------------------------------------------------------------------
(* The page.                                                               *)

\* viewDidLoad asks for the document, then shows the spinner; without a
\* logged-in user nothing is asked, and the spinner is shown all the same.
OpenPage(p) ==
    /\ modal = "none"
    /\ page = NoPage
    /\ asked[p] = NoUser
    /\ page' = p
    /\ asked' = [asked EXCEPT ![p] = currentUser]
    /\ shown' = [shown EXCEPT ![p] = NoUser]
    /\ spinner' = p
    /\ UNCHANGED <<vars, chooser, editVars>>

\* The document as the phone sees it: a write waiting in another user's
\* queue is not visible.
Readable(u) ==
    /\ docs[u] # NoBlob
    /\ \A c \in Credentials : u \in queue[c] => c = currentUser

\* Mutant: didSet forgets stopIndicate.
FetchOkKeepsSpinner(p) ==
    /\ asked[p] # NoUser
    /\ Readable(asked[p])
    /\ shown' = [shown EXCEPT ![p] = asked[p]]
    /\ asked' = [asked EXCEPT ![p] = NoUser]
    /\ UNCHANGED <<vars, page, spinner, chooser, editVars>>

\* AuthUser.didSet: the picture is shown and the shared spinner stopped,
\* whichever page it covers by now.
FetchOk(p) ==
    /\ asked[p] # NoUser
    /\ Readable(asked[p])
    /\ shown' = [shown EXCEPT ![p] = asked[p]]
    /\ asked' = [asked EXCEPT ![p] = NoUser]
    /\ spinner' = NoPage
    /\ UNCHANGED <<vars, page, chooser, editVars>>

\* Mutant: stopIndicate is called on every answer.
FetchLostStopsSpinner(p) ==
    /\ asked[p] # NoUser
    /\ asked' = [asked EXCEPT ![p] = NoUser]
    /\ spinner' = NoPage
    /\ UNCHANGED <<vars, page, shown, chooser, editVars>>

\* An error, or a document that is not there: no completion.
FetchLost(p) ==
    /\ asked[p] # NoUser
    /\ asked' = [asked EXCEPT ![p] = NoUser]
    /\ UNCHANGED <<vars, page, shown, spinner, chooser, editVars>>

\* The back button, or the other tab, which the spinner does not cover:
\* viewWillDisappear pops the page.
LeavePage ==
    /\ page # NoPage
    /\ ~chooser
    /\ page' = NoPage
    /\ UNCHANGED <<vars, asked, shown, spinner, chooser, editVars>>

Touchable == page # NoPage /\ spinner # page /\ ~chooser

LogoutFromPage ==
    /\ Touchable
    /\ Logout
    /\ page' = NoPage
    /\ UNCHANGED <<asked, shown, spinner, chooser, editVars>>

----------------------------------------------------------------------------
(* Another picture.                                                        *)

OpenChooser ==
    /\ Touchable
    /\ chooser' = TRUE
    /\ UNCHANGED <<vars, page, asked, shown, spinner, editVars>>

CancelChooser ==
    /\ chooser
    /\ chooser' = FALSE
    /\ UNCHANGED <<vars, page, asked, shown, spinner, editVars>>

\* Service.updateUserData keeps the uid of the user logged in now.
PickImage(b) ==
    /\ chooser
    /\ chooser' = FALSE
    /\ \/ currentUser = NoUser /\ UNCHANGED <<named, upload, owner>>
       \/ /\ currentUser # NoUser
          /\ b \notin named
          /\ named' = named \cup {b}
          /\ upload' = [upload EXCEPT ![b] = "putData"]
          /\ owner' = [owner EXCEPT ![b] = currentUser]
    /\ UNCHANGED <<currentUser, accounts, docs, queue, stored, screen, request,
                   live, page, asked, shown, spinner, edits>>

\* After an error too: the branch has no return.
UploadAnswered(b) ==
    /\ upload[b] = "putData"
    /\ upload' = [upload EXCEPT ![b] = "downloadURL"]
    /\ stored' \in {stored, stored \cup {b}}
    /\ UNCHANGED <<currentUser, accounts, docs, queue, named, screen, request,
                   live, pageVars, owner, edits>>

\* Mutant: the URL is taken for granted after a failed upload.
EditUrlUnchecked(b) ==
    /\ upload[b] = "downloadURL"
    /\ upload' = [upload EXCEPT ![b] = "none"]
    /\ owner' = [owner EXCEPT ![b] = NoUser]
    /\ edits' = Append(edits, [user |-> owner[b], name |-> b, by |-> currentUser])
    /\ UNCHANGED <<vars, pageVars>>

\* updateData joins the queue of whoever is logged in by now.
EditUrlOk(b) ==
    /\ upload[b] = "downloadURL"
    /\ b \in stored
    /\ upload' = [upload EXCEPT ![b] = "none"]
    /\ owner' = [owner EXCEPT ![b] = NoUser]
    /\ edits' = Append(edits, [user |-> owner[b], name |-> b, by |-> currentUser])
    /\ UNCHANGED <<vars, pageVars>>

EditUrlFail(b) ==
    /\ upload[b] = "downloadURL"
    /\ upload' = [upload EXCEPT ![b] = "none"]
    /\ owner' = [owner EXCEPT ![b] = NoUser]
    /\ UNCHANGED <<vars, pageVars, edits>>

----------------------------------------------------------------------------
(* The server answers the oldest write in the logged-in user's queue.      *)

Oldest(i) ==
    /\ edits[i].by = currentUser
    /\ \A j \in 1..(i - 1) : edits[j].by # currentUser
    /\ edits[i].user \notin queue[currentUser]

Without(i) ==
    [j \in 1..(Len(edits) - 1) |-> IF j < i THEN edits[j] ELSE edits[j + 1]]

\* updateData needs the document to exist on the server.
EditAcked(i) ==
    /\ Oldest(i)
    /\ docs[edits[i].user] # NoBlob
    /\ \A c \in Credentials : edits[i].user \notin queue[c]
    /\ docs' = [docs EXCEPT ![edits[i].user] = edits[i].name]
    /\ edits' = Without(i)
    /\ UNCHANGED <<currentUser, accounts, queue, stored, named, screen, request,
                   live, pageVars, upload, owner>>

\* Mutant: setData instead of updateData creates a missing document.
EditRejectedCreates(i) ==
    /\ Oldest(i)
    /\ docs' = [docs EXCEPT ![edits[i].user] = edits[i].name]
    /\ edits' = Without(i)
    /\ UNCHANGED <<currentUser, accounts, queue, stored, named, screen, request,
                   live, pageVars, upload, owner>>

EditRejected(i) ==
    /\ Oldest(i)
    /\ edits' = Without(i)
    /\ UNCHANGED <<vars, pageVars, upload, owner>>

----------------------------------------------------------------------------
\* Uploads and requests die with the process; queued writes are on disk.
RestartPage ==
    /\ Restart
    /\ page' = NoPage
    /\ asked' = [p \in Pages |-> NoUser]
    /\ shown' = [p \in Pages |-> NoUser]
    /\ spinner' = NoPage
    /\ chooser' = FALSE
    /\ upload' = [b \in Blobs |-> "none"]
    /\ owner' = [b \in Blobs |-> NoUser]
    /\ UNCHANGED edits

SessionStep ==
    /\ Form \/ (\E a \in Attempts : Answer(a)) \/ WriteAnswer
    /\ UNCHANGED profileVars

ProfileNext ==
    \/ SessionStep
    \/ \E p \in Pages : OpenPage(p) \/ FetchOk(p) \/ FetchLost(p)
    \/ LeavePage \/ LogoutFromPage
    \/ OpenChooser \/ CancelChooser
    \/ \E b \in Blobs : \/ PickImage(b) \/ UploadAnswered(b)
                        \/ EditUrlOk(b) \/ EditUrlFail(b)
    \/ \E i \in DOMAIN edits : EditAcked(i) \/ EditRejected(i)
    \/ RestartPage

ProfileSpec == ProfileInit /\ [][ProfileNext]_allVars

----------------------------------------------------------------------------
ProfileTypeOK ==
    /\ TypeOK
    /\ page \in Pages \cup {NoPage}
    /\ asked \in [Pages -> Credentials]
    /\ shown \in [Pages -> Credentials]
    /\ spinner \in Pages \cup {NoPage}
    /\ chooser \in BOOLEAN
    /\ upload \in [Blobs -> {"none", "putData", "downloadURL"}]
    /\ owner \in [Blobs -> Credentials]
    /\ edits \in Seq(Edit)

\* A page that shows a profile is not under the spinner, which nothing else
\* would lift: its controls, the log out among them, can be touched.
LoadedPageUncovered ==
    page # NoPage /\ shown[page] # NoUser => spinner # page

\* The controls of a page come out of the spinner only at the reading of a
\* profile document, asked for by this page or by an earlier one: an account
\* without a document cannot reach its own log out.
SpinnerLifts ==
    page # NoPage /\ page' = page /\ spinner = page /\ spinner' # page =>
        \E p \in Pages : /\ asked[p] # NoUser
                         /\ asked'[p] = NoUser
                         /\ docs[asked[p]] # NoBlob

SpinnerLiftsForAProfile == [][SpinnerLifts]_allVars

\* The page shows the logged-in user (Service.swift 13).
ShownIsLoggedIn ==
    page # NoPage /\ shown[page] # NoUser => shown[page] = currentUser
============================================================================
