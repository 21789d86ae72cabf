------------------------------ MODULE Session ------------------------------
(***************************************************************************)
(* Who is logged in, which accounts exist, and what covers the app.        *)
(*                                                                         *)
(* The app shows its tab bar under a full-screen login cover whenever it   *)
(* starts, or logs out, without a logged-in user.  The cover holds a login *)
(* form and, pushed on it, a registration form; both start asynchronous    *)
(* requests whose callbacks dismiss the cover.  Registration is a pipeline *)
(* of four calls: store the picture, ask for its URL, create the account,  *)
(* write the profile document that names the picture.                      *)
(*                                                                         *)
(* A request ("attempt") outlives the form that started it.  Callbacks run *)
(* on the main thread, one at a time; the authentication SDK replaces the  *)
(* logged-in user on its own queue, before it dispatches the callback.     *)
(***************************************************************************)
EXTENDS Naturals, FiniteSets

CONSTANTS Users,     \* e-mail addresses, one account each
          NoUser,    \* Auth.auth().currentUser == nil
          Attempts,  \* requests that may be in flight together
          Blobs,     \* object names NSUUID() can draw
          NoBlob     \* no picture

ASSUME NoUserAssumption == NoUser \notin Users
ASSUME NoBlobAssumption == NoBlob \notin Blobs

VARIABLES
    currentUser, \* the SDK's persisted user
    accounts,    \* accounts on the authentication server
    docs,        \* users/<uid>: the picture the profile document names
    queue,       \* Firestore's mutation queues, one per credential
    stored,      \* objects in Storage
    named,       \* names NSUUID() has drawn
    modal,       \* the cover: "none", or its top form
    picker,      \* the photo picker is open over the registration form
    photo,       \* the registration form has a picture
    stage,       \* what each attempt waits for
    email,       \* the e-mail the attempt was started with
    picture,     \* the object name the attempt stores its picture under
    live         \* attempts whose form is still in the presented cover

backend == <<accounts, docs, queue, stored, named>>
screen  == <<modal, picker, photo>>
request == <<stage, email, picture>>
vars    == <<currentUser, backend, screen, request, live>>

LoginStages        == {"signIn", "signedIn"}
RegistrationStages == {"putData", "downloadURL", "createUser",
                       "created", "setData"}
Stages             == {"idle"} \cup LoginStages \cup RegistrationStages
Credentials        == Users \cup {NoUser}

\* A first start of the app: some accounts may have been registered from
\* another phone, or left without a profile there.
Init ==
    /\ currentUser = NoUser
    /\ accounts \in SUBSET Users
    /\ docs \in [Users -> Blobs \cup {NoBlob}]
    /\ \A u \in Users : docs[u] # NoBlob =>
          u \in accounts /\ \A v \in Users : docs[v] = docs[u] => v = u
    /\ queue = [c \in Credentials |-> {}]
    /\ stored = {docs[u] : u \in Users} \ {NoBlob}
    /\ named = stored
    /\ modal = "login"
    /\ picker = FALSE
    /\ photo = FALSE
    /\ stage = [a \in Attempts |-> "idle"]
    /\ email = [a \in Attempts |-> NoUser]
    /\ picture = [a \in Attempts |-> NoBlob]
    /\ live = {}

----------------------------------------------------------------------------
(* Requests: how they start, move on, end, and what their end dismisses.   *)

Starts(a, u, b, first) ==
    /\ stage[a] = "idle"
    /\ stage' = [stage EXCEPT ![a] = first]
    /\ email' = [email EXCEPT ![a] = u]
    /\ picture' = [picture EXCEPT ![a] = b]
    /\ live' = live \cup {a}

MovesOn(a, from, to) ==
    /\ stage[a] = from
    /\ stage' = [stage EXCEPT ![a] = to]
    /\ UNCHANGED <<email, picture, live>>

Ends(a) ==
    /\ stage' = [stage EXCEPT ![a] = "idle"]
    /\ email' = [email EXCEPT ![a] = NoUser]
    /\ picture' = [picture EXCEPT ![a] = NoBlob]

\* The attempt ends and no callback reaches its form.
EndsSilently(a) ==
    /\ Ends(a)
    /\ live' = live \ {a}
    /\ UNCHANGED screen

\* The attempt ends with self.dismiss: nothing for a form that has left the
\* cover, the photo picker if one is open over the form, else the cover.
EndsDismissing(a) ==
    /\ Ends(a)
    /\ UNCHANGED photo
    /\ \/ /\ a \notin live
          /\ UNCHANGED <<modal, picker, live>>
       \/ /\ a \in live
          /\ picker
          /\ picker' = FALSE
          /\ live' = live \ {a}
          /\ UNCHANGED modal
       \/ /\ a \in live
          /\ ~picker
          /\ modal' = "none"
          /\ live' = {}
          /\ UNCHANGED picker

----------------------------------------------------------------------------
(* The login form.                                                         *)

TapLogin(a, u) ==
    /\ modal = "login"
    /\ Starts(a, u, NoBlob, "signIn")
    /\ UNCHANGED <<currentUser, backend, screen>>

\* The server accepts; the SDK replaces the logged-in user on its own queue
\* and then dispatches the callback (Pods, FIRAuth.m 1952-1979).
SignInOk(a) ==
    /\ email[a] \in accounts
    /\ MovesOn(a, "signIn", "signedIn")
    /\ currentUser' = email[a]
    /\ UNCHANGED <<backend, screen>>

\* Mutant: the error branch of the callback forgets its return.
SignInFailFallsThrough(a) ==
    /\ stage[a] = "signIn"
    /\ EndsDismissing(a)
    /\ UNCHANGED <<currentUser, backend>>

SignInFail(a) ==
    /\ stage[a] = "signIn"
    /\ EndsSilently(a)
    /\ UNCHANGED <<currentUser, backend>>

SignInCallback(a) ==
    /\ stage[a] = "signedIn"
    /\ EndsDismissing(a)
    /\ UNCHANGED <<currentUser, backend>>

TapAccount ==
    /\ modal = "login"
    /\ modal' = "registration"
    /\ photo' = FALSE
    /\ UNCHANGED <<currentUser, backend, picker, request, live>>

----------------------------------------------------------------------------
(* The registration form.                                                  *)

\* handleShowLogin pops the form: its attempts go on without it.
TapShowLogin ==
    /\ modal = "registration"
    /\ ~picker
    /\ modal' = "login"
    /\ live' = {a \in live : stage[a] \in LoginStages}
    /\ UNCHANGED <<currentUser, backend, picker, photo, request>>

OpenPicker ==
    /\ modal = "registration"
    /\ ~picker
    /\ picker' = TRUE
    /\ UNCHANGED <<currentUser, backend, modal, photo, request, live>>

PickPhoto ==
    /\ picker
    /\ picker' = FALSE
    /\ photo' = TRUE
    /\ UNCHANGED <<currentUser, backend, modal, request, live>>

CancelPicker ==
    /\ picker
    /\ picker' = FALSE
    /\ UNCHANGED <<currentUser, backend, modal, photo, request, live>>

TapSignUp(a, u, b) ==
    /\ modal = "registration"
    /\ ~picker
    /\ photo
    /\ b \notin named
    /\ named' = named \cup {b}
    /\ Starts(a, u, b, "putData")
    /\ UNCHANGED <<currentUser, accounts, docs, queue, stored, screen>>

----------------------------------------------------------------------------
(* AuthServiece.createUser, one action per answer.                         *)

PutOk(a) ==
    /\ MovesOn(a, "putData", "downloadURL")
    /\ stored' = stored \cup {picture[a]}
    /\ UNCHANGED <<currentUser, accounts, docs, queue, named, screen>>

\* Mutant: a failed upload is tried again, for ever.
PutFailRetries(a) ==
    /\ MovesOn(a, "putData", "putData")
    /\ photo' = ~photo
    /\ UNCHANGED <<currentUser, backend, modal, picker>>

\* The error may also be a lost answer: the object is then in Storage.
PutFail(a) ==
    /\ stage[a] = "putData"
    /\ stored' \in {stored, stored \cup {picture[a]}}
    /\ EndsDismissing(a)
    /\ UNCHANGED <<currentUser, accounts, docs, queue, named>>

UrlOk(a) ==
    /\ picture[a] \in stored
    /\ MovesOn(a, "downloadURL", "createUser")
    /\ UNCHANGED <<currentUser, backend, screen>>

\* guard let profileImageUrl ... else { return }: no completion.
UrlFail(a) ==
    /\ stage[a] = "downloadURL"
    /\ EndsSilently(a)
    /\ UNCHANGED <<currentUser, backend>>

\* The account is created, and the SDK logs it in on its queue.
CreateOk(a) ==
    /\ email[a] \notin accounts
    /\ MovesOn(a, "createUser", "created")
    /\ accounts' = accounts \cup {email[a]}
    /\ currentUser' = email[a]
    /\ UNCHANGED <<docs, queue, stored, named, screen>>

\* The e-mail is taken, refused, or the answer of a creation is lost.
CreateFail(a) ==
    /\ stage[a] = "createUser"
    /\ accounts' \in {accounts, accounts \cup {email[a]}}
    /\ EndsDismissing(a)
    /\ UNCHANGED <<currentUser, docs, queue, stored, named>>

\* setData: visible at once, sent under whoever is logged in by now.
CreatedCallback(a) ==
    /\ MovesOn(a, "created", "setData")
    /\ docs' = [docs EXCEPT ![email[a]] = picture[a]]
    /\ queue' = [queue EXCEPT ![currentUser] = @ \cup {email[a]}]
    /\ UNCHANGED <<currentUser, accounts, stored, named, screen>>

----------------------------------------------------------------------------
(* The server's answer to the profile write of u.  Firestore swaps the     *)
(* mutation queue with the user (Pods, sync_engine.cc 244-260) and sends   *)
(* that queue only; the callback is lost if the app restarted in between.  *)

Waiting(u) == {a \in Attempts : stage[a] = "setData" /\ email[a] = u}

Answered(u) ==
    /\ u \in queue[currentUser]
    /\ queue' = [queue EXCEPT ![currentUser] = @ \ {u}]
    /\ \/ \E a \in Waiting(u) : EndsDismissing(a)
       \/ Waiting(u) = {} /\ UNCHANGED <<screen, request, live>>
    /\ UNCHANGED <<currentUser, accounts, stored, named>>

WriteAcked(u) ==
    /\ Answered(u)
    /\ UNCHANGED docs

\* The local write is reverted (Pods, sync_engine.cc 358-379).
WriteRejected(u) ==
    /\ Answered(u)
    /\ docs' = [docs EXCEPT ![u] = NoBlob]

----------------------------------------------------------------------------
(* Leaving the session, and the process.                                   *)

Logout ==
    /\ modal = "none"
    /\ currentUser' = NoUser
    /\ modal' = "login"
    /\ UNCHANGED <<backend, picker, photo, request, live>>

\* The process dies and starts again.  Requests already sent may still be
\* carried out; the user and the mutation queues are on disk.
Restart ==
    /\ \E landed \in SUBSET {a \in Attempts : stage[a] \in {"putData", "createUser"}} :
          /\ stored' = stored \cup {picture[a] : a \in {x \in landed : stage[x] = "putData"}}
          /\ accounts' = accounts \cup {email[a] : a \in {x \in landed : stage[x] = "createUser"}}
    /\ modal' = IF currentUser = NoUser THEN "login" ELSE "none"
    /\ picker' = FALSE
    /\ photo' = FALSE
    /\ stage' = [a \in Attempts |-> "idle"]
    /\ email' = [a \in Attempts |-> NoUser]
    /\ picture' = [a \in Attempts |-> NoBlob]
    /\ live' = {}
    /\ UNCHANGED <<currentUser, docs, queue, named>>

----------------------------------------------------------------------------
Answer(a) ==
    \/ SignInOk(a) \/ SignInFail(a) \/ SignInCallback(a)
    \/ PutOk(a) \/ PutFail(a) \/ UrlOk(a) \/ UrlFail(a)
    \/ CreateOk(a) \/ CreateFail(a) \/ CreatedCallback(a)

Form ==
    \/ TapAccount \/ TapShowLogin
    \/ OpenPicker \/ PickPhoto \/ CancelPicker
    \/ \E a \in Attempts, u \in Users :
          TapLogin(a, u) \/ \E b \in Blobs : TapSignUp(a, u, b)

WriteAnswer == \E u \in Users : WriteAcked(u) \/ WriteRejected(u)

Next ==
    \/ Form
    \/ \E a \in Attempts : Answer(a)
    \/ WriteAnswer
    \/ Logout
    \/ Restart

\* Every request to the SDK is answered, at worst by its timeout.  Nothing
\* is assumed of the user, of restarts, or of the acknowledgement of a
\* Firestore write, which waits for a connection and for its own user.
Fairness == \A a \in Attempts : WF_vars(Answer(a))

Spec == Init /\ [][Next]_vars
FairSpec == Spec /\ Fairness

----------------------------------------------------------------------------
(* Properties.                                                             *)

\* Every variable has its type, and an attempt that registers carries the
\* picture that the guard of handleRegistration demands.
TypeOK ==
    /\ currentUser \in Credentials
    /\ accounts \subseteq Users
    /\ docs \in [Users -> Blobs \cup {NoBlob}]
    /\ queue \in [Credentials -> SUBSET Users]
    /\ stored \subseteq Blobs
    /\ named \subseteq Blobs
    /\ modal \in {"none", "login", "registration"}
    /\ picker \in BOOLEAN
    /\ photo \in BOOLEAN
    /\ stage \in [Attempts -> Stages]
    /\ email \in [Attempts -> Credentials]
    /\ picture \in [Attempts -> Blobs \cup {NoBlob}]
    /\ live \subseteq Attempts
    /\ \A a \in Attempts :
          /\ stage[a] # "idle" => email[a] \in Users
          /\ stage[a] \in RegistrationStages => picture[a] \in Blobs

\* The picture a profile document names is in Storage: the order of the
\* calls in AuthServiece.createUser, under lost answers and restarts.
DocImageStored == \A u \in Users : docs[u] # NoBlob => docs[u] \in stored

\* The cover leaves the screen only for a logged-in user, or because a
\* registration started from it ended in an error (handleRegistration
\* dismisses after printing the error): never after a failed login, and
\* never by the callback of a form of an earlier cover.
LoginLeaves ==
    modal # "none" /\ modal' = "none" =>
        \/ currentUser' # NoUser
        \/ \E a \in live : /\ stage[a] \in {"putData", "createUser"}
                           /\ stage'[a] = "idle"

LoginLeavesForAReason == [][LoginLeaves]_vars

\* Every request ends, or has issued the profile write it was for.  The end
\* may be the silent one of a failed downloadURL (AuthServiece.createUser).
AttemptsEnd ==
    \A a \in Attempts :
        stage[a] \notin {"idle", "setData"} ~> stage[a] \in {"idle", "setData"}

----------------------------------------------------------------------------
(* The account life this implements.                                       *)

status ==
    [u \in Users |->
        IF u \notin accounts THEN "absent"
        ELSE IF docs[u] # NoBlob
             THEN IF \E c \in Credentials : u \in queue[c] THEN "local" ELSE "saved"
             ELSE IF \E a \in Attempts : stage[a] = "created" /\ email[a] = u
                  THEN "creating" ELSE "broken"]

Life == INSTANCE AccountLife

\* An account gets at most one profile write, and only from the callback of
\* its own creation; an acknowledged profile is never lost; an account left
\* without a profile by a crash, a lost answer or a rejected write stays
\* without one, whatever is retried.
AccountLifeSpec == Life!Spec
============================================================================
