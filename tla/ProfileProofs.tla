---------------------------- MODULE ProfileProofs ----------------------------
(***************************************************************************)
(* Proofs about Session, for every set of users, attempts and object names, *)
(* and about Profile composed with it, for every set of requests and pages. *)
(***************************************************************************)
EXTENDS Profile, TLAPS

----------------------------------------------------------------------------
(* The inductive invariant of Session.                                     *)

\* No form is presented when nothing covers the app.
NoFormUncovered == modal = "none" => live = {}

\* A form whose request has logged somebody in is gone before a logout.
LiveIsLoggedIn ==
    \A a \in live :
        stage[a] \in {"signedIn", "created", "setData"} => currentUser # NoUser

\* A registration past its downloadURL has its picture in Storage.
PictureIsStored ==
    \A a \in Attempts :
        stage[a] \in {"createUser", "created", "setData"} => picture[a] \in stored

\* An account between its creation and the callback has no document yet,
\* and one attempt only is about to write it.
CreatedOnce ==
    \A a \in Attempts : stage[a] = "created" =>
        /\ email[a] \in accounts
        /\ docs[email[a]] = NoBlob
        /\ \A b \in Attempts : stage[b] = "created" /\ email[b] = email[a] => a = b

\* Documents belong to accounts; a queued write is visible, in one queue.
DocHasAccount == \A u \in Users : docs[u] # NoBlob => u \in accounts
QueuedIsVisible ==
    \A c \in Credentials : \A u \in queue[c] :
        /\ docs[u] # NoBlob
        /\ \A d \in Credentials : u \in queue[d] => c = d

IInv ==
    /\ TypeOK
    /\ NoFormUncovered
    /\ LiveIsLoggedIn
    /\ PictureIsStored
    /\ DocImageStored
    /\ CreatedOnce
    /\ DocHasAccount
    /\ QueuedIsVisible

LEMMA InitIInv == Init => IInv
<1> SUFFICES ASSUME Init PROVE IInv
  OBVIOUS
<1> USE NoUserAssumption, NoBlobAssumption DEF Init
<1>1. stored \subseteq Blobs /\ named \subseteq Blobs
  OBVIOUS
<1>2. TypeOK
  BY <1>1 DEF TypeOK, Stages, LoginStages, RegistrationStages, Credentials
<1>3. DocImageStored
  BY DEF DocImageStored
<1>4. /\ NoFormUncovered /\ LiveIsLoggedIn /\ PictureIsStored
      /\ CreatedOnce /\ DocHasAccount /\ QueuedIsVisible
  BY DEF NoFormUncovered, LiveIsLoggedIn, PictureIsStored, CreatedOnce,
         DocHasAccount, QueuedIsVisible
<1> QED
  BY <1>2, <1>3, <1>4 DEF IInv

----------------------------------------------------------------------------
(* How a request ends, whatever it was for.                                *)

FormTyped ==
    /\ modal \in {"none", "login", "registration"}
    /\ picker \in BOOLEAN
    /\ photo \in BOOLEAN
    /\ stage \in [Attempts -> Stages]
    /\ email \in [Attempts -> Credentials]
    /\ picture \in [Attempts -> Blobs \cup {NoBlob}]
    /\ live \subseteq Attempts
    /\ \A a \in Attempts :
          /\ stage[a] # "idle" => email[a] \in Users
          /\ stage[a] \in RegistrationStages => picture[a] \in Blobs

LEMMA EndsFormTyped ==
    ASSUME FormTyped, NEW a \in Attempts, EndsSilently(a) \/ EndsDismissing(a)
    PROVE  FormTyped'
<1>1. Ends(a) /\ photo' = photo
  BY DEF EndsSilently, EndsDismissing, screen
<1>2. modal' \in {"none", "login", "registration"} /\ picker' \in BOOLEAN
  BY DEF FormTyped, EndsSilently, EndsDismissing, screen
<1>3. live' \subseteq live
  BY DEF FormTyped, EndsSilently, EndsDismissing
<1>4. /\ stage' \in [Attempts -> Stages]
      /\ email' \in [Attempts -> Credentials]
      /\ picture' \in [Attempts -> Blobs \cup {NoBlob}]
  BY <1>1 DEF FormTyped, Ends, Stages, Credentials
<1>5. ASSUME NEW b \in Attempts
      PROVE  /\ stage'[b] # "idle" => email'[b] \in Users
             /\ stage'[b] \in RegistrationStages => picture'[b] \in Blobs
  <2>1. CASE b = a
    BY <1>1, <2>1 DEF FormTyped, Ends, Stages, RegistrationStages
  <2>2. CASE b # a
    BY <1>1, <2>2 DEF FormTyped, Ends
  <2> QED
    BY <2>1, <2>2
<1> QED
  BY <1>1, <1>2, <1>3, <1>4, <1>5 DEF FormTyped

\* The ended attempt is idle, the others are as they were, no form joins the
\* live ones, and none is left without a cover.
LEMMA EndsEffect ==
    ASSUME FormTyped, NoFormUncovered, NEW a \in Attempts,
           EndsSilently(a) \/ EndsDismissing(a)
    PROVE  /\ stage'[a] = "idle"
           /\ \A b \in Attempts \ {a} : /\ stage'[b] = stage[b]
                                        /\ email'[b] = email[b]
                                        /\ picture'[b] = picture[b]
           /\ live' \subseteq live
           /\ NoFormUncovered'
  BY DEF FormTyped, NoFormUncovered, EndsSilently, EndsDismissing, Ends, screen

\* An ending that leaves the backend's documents alone keeps the invariant.
LEMMA EndsKeepsIInv ==
    ASSUME IInv, NEW a \in Attempts, EndsSilently(a) \/ EndsDismissing(a),
           UNCHANGED <<currentUser, docs, queue, named>>,
           accounts \subseteq accounts', accounts' \subseteq Users,
           stored \subseteq stored', stored' \subseteq Blobs
    PROVE  IInv'
<1> FormTyped /\ NoFormUncovered
  BY DEF IInv, TypeOK, FormTyped
<1>1. FormTyped'
  BY EndsFormTyped
<1>2. /\ stage'[a] = "idle"
      /\ \A b \in Attempts \ {a} : /\ stage'[b] = stage[b]
                                   /\ email'[b] = email[b]
                                   /\ picture'[b] = picture[b]
      /\ live' \subseteq live
      /\ NoFormUncovered'
  BY EndsEffect
<1>3. TypeOK'
  BY <1>1 DEF IInv, TypeOK, FormTyped
<1>4. LiveIsLoggedIn'
  BY <1>2 DEF IInv, TypeOK, LiveIsLoggedIn
<1>5. PictureIsStored' /\ DocImageStored'
  BY <1>2 DEF IInv, PictureIsStored, DocImageStored
<1>6. CreatedOnce'
  BY <1>2 DEF IInv, CreatedOnce
<1>7. DocHasAccount' /\ QueuedIsVisible'
  BY DEF IInv, DocHasAccount, QueuedIsVisible
<1> QED
  BY <1>2, <1>3, <1>4, <1>5, <1>6, <1>7 DEF IInv

----------------------------------------------------------------------------
(* Every step keeps the invariant, action by action.                       *)

LEMMA SignInFailStep == ASSUME IInv, NEW a \in Attempts, SignInFail(a) PROVE IInv'
  BY EndsKeepsIInv DEF SignInFail, IInv, TypeOK, backend

LEMMA SignInCallbackStep == ASSUME IInv, NEW a \in Attempts, SignInCallback(a) PROVE IInv'
  BY EndsKeepsIInv DEF SignInCallback, IInv, TypeOK, backend

LEMMA UrlFailStep == ASSUME IInv, NEW a \in Attempts, UrlFail(a) PROVE IInv'
  BY EndsKeepsIInv DEF UrlFail, IInv, TypeOK, backend

LEMMA PutFailStep == ASSUME IInv, NEW a \in Attempts, PutFail(a) PROVE IInv'
<1>1. picture[a] \in Blobs
  BY DEF PutFail, IInv, TypeOK, RegistrationStages
<1> QED
  BY <1>1, EndsKeepsIInv DEF PutFail, IInv, TypeOK

LEMMA CreateFailStep == ASSUME IInv, NEW a \in Attempts, CreateFail(a) PROVE IInv'
<1>1. email[a] \in Users
  BY DEF CreateFail, IInv, TypeOK
<1> QED
  BY <1>1, EndsKeepsIInv DEF CreateFail, IInv, TypeOK

LEMMA SignInOkStep == ASSUME IInv, NEW a \in Attempts, SignInOk(a) PROVE IInv'
<1> USE NoUserAssumption, NoBlobAssumption
    DEF IInv, TypeOK, SignInOk, MovesOn, backend, screen
<1>1. TypeOK'
  BY DEF Stages, LoginStages, RegistrationStages, Credentials
<1>2. NoFormUncovered' /\ LiveIsLoggedIn'
  BY DEF NoFormUncovered, LiveIsLoggedIn, LoginStages
<1>3. PictureIsStored' /\ DocImageStored'
  BY DEF PictureIsStored, DocImageStored, CreatedOnce, RegistrationStages
<1>4. CreatedOnce'
  BY DEF CreatedOnce, DocHasAccount
<1>5. DocHasAccount' /\ QueuedIsVisible'
  BY DEF DocHasAccount, QueuedIsVisible, CreatedOnce, RegistrationStages, Credentials
<1> QED
  BY <1>1, <1>2, <1>3, <1>4, <1>5

LEMMA PutOkStep == ASSUME IInv, NEW a \in Attempts, PutOk(a) PROVE IInv'
<1> USE NoUserAssumption, NoBlobAssumption
    DEF IInv, TypeOK, PutOk, MovesOn, screen
<1>1. TypeOK'
  BY DEF Stages, LoginStages, RegistrationStages, Credentials
<1>2. NoFormUncovered' /\ LiveIsLoggedIn'
  BY DEF NoFormUncovered, LiveIsLoggedIn, LoginStages
<1>3. PictureIsStored' /\ DocImageStored'
  BY DEF PictureIsStored, DocImageStored, CreatedOnce, RegistrationStages
<1>4. CreatedOnce'
  BY DEF CreatedOnce, DocHasAccount
<1>5. DocHasAccount' /\ QueuedIsVisible'
  BY DEF DocHasAccount, QueuedIsVisible, CreatedOnce, RegistrationStages, Credentials
<1> QED
  BY <1>1, <1>2, <1>3, <1>4, <1>5

LEMMA UrlOkStep == ASSUME IInv, NEW a \in Attempts, UrlOk(a) PROVE IInv'
<1> USE NoUserAssumption, NoBlobAssumption
    DEF IInv, TypeOK, UrlOk, MovesOn, backend, screen
<1>1. TypeOK'
  BY DEF Stages, LoginStages, RegistrationStages, Credentials
<1>2. NoFormUncovered' /\ LiveIsLoggedIn'
  BY DEF NoFormUncovered, LiveIsLoggedIn, LoginStages
<1>3. PictureIsStored' /\ DocImageStored'
  BY DEF PictureIsStored, DocImageStored, CreatedOnce, RegistrationStages
<1>4. CreatedOnce'
  BY DEF CreatedOnce, DocHasAccount
<1>5. DocHasAccount' /\ QueuedIsVisible'
  BY DEF DocHasAccount, QueuedIsVisible, CreatedOnce, RegistrationStages, Credentials
<1> QED
  BY <1>1, <1>2, <1>3, <1>4, <1>5

LEMMA CreateOkStep == ASSUME IInv, NEW a \in Attempts, CreateOk(a) PROVE IInv'
<1> USE NoUserAssumption, NoBlobAssumption
    DEF IInv, TypeOK, CreateOk, MovesOn, screen
<1>1. TypeOK'
  BY DEF Stages, LoginStages, RegistrationStages, Credentials
<1>2. NoFormUncovered' /\ LiveIsLoggedIn'
  BY DEF NoFormUncovered, LiveIsLoggedIn, LoginStages
<1>3. PictureIsStored' /\ DocImageStored'
  BY DEF PictureIsStored, DocImageStored, CreatedOnce, RegistrationStages
<1>4. CreatedOnce'
  BY DEF CreatedOnce, DocHasAccount
<1>5. DocHasAccount' /\ QueuedIsVisible'
  BY DEF DocHasAccount, QueuedIsVisible, CreatedOnce, RegistrationStages, Credentials
<1> QED
  BY <1>1, <1>2, <1>3, <1>4, <1>5

LEMMA CreatedCallbackStep == ASSUME IInv, NEW a \in Attempts, CreatedCallback(a) PROVE IInv'
<1> USE NoUserAssumption, NoBlobAssumption
    DEF IInv, TypeOK, CreatedCallback, MovesOn, screen
<1>1. TypeOK'
  BY DEF Stages, LoginStages, RegistrationStages, Credentials
<1>2. NoFormUncovered' /\ LiveIsLoggedIn'
  BY DEF NoFormUncovered, LiveIsLoggedIn, LoginStages
<1>3. PictureIsStored' /\ DocImageStored'
  BY DEF PictureIsStored, DocImageStored, CreatedOnce, RegistrationStages
<1>4. CreatedOnce'
  BY DEF CreatedOnce, DocHasAccount
<1>5. DocHasAccount' /\ QueuedIsVisible'
  BY DEF DocHasAccount, QueuedIsVisible, CreatedOnce, RegistrationStages, Credentials
<1> QED
  BY <1>1, <1>2, <1>3, <1>4, <1>5

LEMMA TapLoginStep == ASSUME IInv, NEW a \in Attempts, NEW u \in Users, TapLogin(a, u) PROVE IInv'
<1> USE NoUserAssumption, NoBlobAssumption
    DEF IInv, TypeOK, TapLogin, Starts, backend, screen
<1>1. TypeOK'
  BY DEF Stages, LoginStages, RegistrationStages, Credentials
<1>2. NoFormUncovered' /\ LiveIsLoggedIn'
  BY DEF NoFormUncovered, LiveIsLoggedIn, LoginStages
<1>3. PictureIsStored' /\ DocImageStored'
  BY DEF PictureIsStored, DocImageStored, CreatedOnce, RegistrationStages
<1>4. CreatedOnce'
  BY DEF CreatedOnce, DocHasAccount
<1>5. DocHasAccount' /\ QueuedIsVisible'
  BY DEF DocHasAccount, QueuedIsVisible, CreatedOnce, RegistrationStages, Credentials
<1> QED
  BY <1>1, <1>2, <1>3, <1>4, <1>5

LEMMA TapSignUpStep == ASSUME IInv, NEW a \in Attempts, NEW u \in Users, NEW b \in Blobs, TapSignUp(a, u, b) PROVE IInv'
<1> USE NoUserAssumption, NoBlobAssumption
    DEF IInv, TypeOK, TapSignUp, Starts, screen
<1>1. TypeOK'
  BY DEF Stages, LoginStages, RegistrationStages, Credentials
<1>2. NoFormUncovered' /\ LiveIsLoggedIn'
  BY DEF NoFormUncovered, LiveIsLoggedIn, LoginStages
<1>3. PictureIsStored' /\ DocImageStored'
  BY DEF PictureIsStored, DocImageStored, CreatedOnce, RegistrationStages
<1>4. CreatedOnce'
  BY DEF CreatedOnce, DocHasAccount
<1>5. DocHasAccount' /\ QueuedIsVisible'
  BY DEF DocHasAccount, QueuedIsVisible, CreatedOnce, RegistrationStages, Credentials
<1> QED
  BY <1>1, <1>2, <1>3, <1>4, <1>5

LEMMA TapAccountStep == ASSUME IInv, TapAccount PROVE IInv'
<1> USE NoUserAssumption, NoBlobAssumption
    DEF IInv, TypeOK, TapAccount, backend, request
<1>1. TypeOK'
  BY DEF Stages, LoginStages, RegistrationStages, Credentials
<1>2. NoFormUncovered' /\ LiveIsLoggedIn'
  BY DEF NoFormUncovered, LiveIsLoggedIn, LoginStages
<1>3. PictureIsStored' /\ DocImageStored'
  BY DEF PictureIsStored, DocImageStored, CreatedOnce, RegistrationStages
<1>4. CreatedOnce'
  BY DEF CreatedOnce, DocHasAccount
<1>5. DocHasAccount' /\ QueuedIsVisible'
  BY DEF DocHasAccount, QueuedIsVisible, CreatedOnce, RegistrationStages, Credentials
<1> QED
  BY <1>1, <1>2, <1>3, <1>4, <1>5

LEMMA TapShowLoginStep == ASSUME IInv, TapShowLogin PROVE IInv'
<1> USE NoUserAssumption, NoBlobAssumption
    DEF IInv, TypeOK, TapShowLogin, backend, request
<1>1. TypeOK'
  BY DEF Stages, LoginStages, RegistrationStages, Credentials
<1>2. NoFormUncovered' /\ LiveIsLoggedIn'
  BY DEF NoFormUncovered, LiveIsLoggedIn, LoginStages
<1>3. PictureIsStored' /\ DocImageStored'
  BY DEF PictureIsStored, DocImageStored, CreatedOnce, RegistrationStages
<1>4. CreatedOnce'
  BY DEF CreatedOnce, DocHasAccount
<1>5. DocHasAccount' /\ QueuedIsVisible'
  BY DEF DocHasAccount, QueuedIsVisible, CreatedOnce, RegistrationStages, Credentials
<1> QED
  BY <1>1, <1>2, <1>3, <1>4, <1>5

LEMMA OpenPickerStep == ASSUME IInv, OpenPicker PROVE IInv'
<1> USE NoUserAssumption, NoBlobAssumption
    DEF IInv, TypeOK, OpenPicker, backend, request
<1>1. TypeOK'
  BY DEF Stages, LoginStages, RegistrationStages, Credentials
<1>2. NoFormUncovered' /\ LiveIsLoggedIn'
  BY DEF NoFormUncovered, LiveIsLoggedIn, LoginStages
<1>3. PictureIsStored' /\ DocImageStored'
  BY DEF PictureIsStored, DocImageStored, CreatedOnce, RegistrationStages
<1>4. CreatedOnce'
  BY DEF CreatedOnce, DocHasAccount
<1>5. DocHasAccount' /\ QueuedIsVisible'
  BY DEF DocHasAccount, QueuedIsVisible, CreatedOnce, RegistrationStages, Credentials
<1> QED
  BY <1>1, <1>2, <1>3, <1>4, <1>5

LEMMA PickPhotoStep == ASSUME IInv, PickPhoto PROVE IInv'
<1> USE NoUserAssumption, NoBlobAssumption
    DEF IInv, TypeOK, PickPhoto, backend, request
<1>1. TypeOK'
  BY DEF Stages, LoginStages, RegistrationStages, Credentials
<1>2. NoFormUncovered' /\ LiveIsLoggedIn'
  BY DEF NoFormUncovered, LiveIsLoggedIn, LoginStages
<1>3. PictureIsStored' /\ DocImageStored'
  BY DEF PictureIsStored, DocImageStored, CreatedOnce, RegistrationStages
<1>4. CreatedOnce'
  BY DEF CreatedOnce, DocHasAccount
<1>5. DocHasAccount' /\ QueuedIsVisible'
  BY DEF DocHasAccount, QueuedIsVisible, CreatedOnce, RegistrationStages, Credentials
<1> QED
  BY <1>1, <1>2, <1>3, <1>4, <1>5

LEMMA CancelPickerStep == ASSUME IInv, CancelPicker PROVE IInv'
<1> USE NoUserAssumption, NoBlobAssumption
    DEF IInv, TypeOK, CancelPicker, backend, request
<1>1. TypeOK'
  BY DEF Stages, LoginStages, RegistrationStages, Credentials
<1>2. NoFormUncovered' /\ LiveIsLoggedIn'
  BY DEF NoFormUncovered, LiveIsLoggedIn, LoginStages
<1>3. PictureIsStored' /\ DocImageStored'
  BY DEF PictureIsStored, DocImageStored, CreatedOnce, RegistrationStages
<1>4. CreatedOnce'
  BY DEF CreatedOnce, DocHasAccount
<1>5. DocHasAccount' /\ QueuedIsVisible'
  BY DEF DocHasAccount, QueuedIsVisible, CreatedOnce, RegistrationStages, Credentials
<1> QED
  BY <1>1, <1>2, <1>3, <1>4, <1>5

LEMMA LogoutStep == ASSUME IInv, Logout PROVE IInv'
<1> USE NoUserAssumption, NoBlobAssumption
    DEF IInv, TypeOK, Logout, backend, request
<1>1. TypeOK'
  BY DEF Stages, LoginStages, RegistrationStages, Credentials
<1>2. NoFormUncovered' /\ LiveIsLoggedIn'
  BY DEF NoFormUncovered, LiveIsLoggedIn, LoginStages
<1>3. PictureIsStored' /\ DocImageStored'
  BY DEF PictureIsStored, DocImageStored, CreatedOnce, RegistrationStages
<1>4. CreatedOnce'
  BY DEF CreatedOnce, DocHasAccount
<1>5. DocHasAccount' /\ QueuedIsVisible'
  BY DEF DocHasAccount, QueuedIsVisible, CreatedOnce, RegistrationStages, Credentials
<1> QED
  BY <1>1, <1>2, <1>3, <1>4, <1>5

LEMMA RestartStep == ASSUME IInv, Restart PROVE IInv'
<1> USE NoUserAssumption, NoBlobAssumption DEF IInv, TypeOK, Restart, backend
<1>1. PICK landed \in SUBSET {a \in Attempts : stage[a] \in {"putData", "createUser"}} :
         /\ stored' = stored \cup {picture[a] : a \in {x \in landed : stage[x] = "putData"}}
         /\ accounts' = accounts \cup {email[a] : a \in {x \in landed : stage[x] = "createUser"}}
  OBVIOUS
<1>2. stored' \subseteq Blobs /\ stored \subseteq stored'
  BY <1>1 DEF RegistrationStages
<1>3. accounts' \subseteq Users /\ accounts \subseteq accounts'
  BY <1>1
<1>4. TypeOK'
  BY <1>2, <1>3 DEF Stages, LoginStages, RegistrationStages, Credentials
<1>5. NoFormUncovered' /\ LiveIsLoggedIn' /\ PictureIsStored' /\ CreatedOnce'
  BY DEF NoFormUncovered, LiveIsLoggedIn, PictureIsStored, CreatedOnce
<1>6. DocImageStored' /\ DocHasAccount' /\ QueuedIsVisible'
  BY <1>2, <1>3 DEF DocImageStored, DocHasAccount, QueuedIsVisible
<1> QED
  BY <1>4, <1>5, <1>6

LEMMA AnsweredStep ==
    ASSUME IInv, NEW u \in Users, WriteAcked(u) \/ WriteRejected(u) PROVE IInv'
<1> USE NoUserAssumption, NoBlobAssumption
<1>1. /\ u \in queue[currentUser]
      /\ queue' = [queue EXCEPT ![currentUser] = @ \ {u}]
      /\ UNCHANGED <<currentUser, accounts, stored, named>>
      /\ \/ \E a \in Attempts : EndsDismissing(a)
         \/ UNCHANGED <<screen, request, live>>
      /\ docs' = docs \/ docs' = [docs EXCEPT ![u] = NoBlob]
  BY DEF WriteAcked, WriteRejected, Answered, Waiting
<1>2. FormTyped /\ NoFormUncovered /\ currentUser \in Credentials
  BY DEF IInv, TypeOK, FormTyped
<1>3. FormTyped' /\ NoFormUncovered'
  <2>1. CASE \E a \in Attempts : EndsDismissing(a)
    BY <1>2, <2>1, EndsFormTyped, EndsEffect
  <2>2. CASE UNCHANGED <<screen, request, live>>
    BY <1>2, <2>2 DEF FormTyped, NoFormUncovered, screen, request
  <2> QED
    BY <1>1, <2>1, <2>2
<1>4. /\ live' \subseteq live
      /\ \A b \in Attempts : \/ stage'[b] = "idle"
                             \/ /\ stage'[b] = stage[b]
                                /\ email'[b] = email[b]
                                /\ picture'[b] = picture[b]
  <2>1. CASE \E a \in Attempts : EndsDismissing(a)
    BY <1>2, <2>1, EndsEffect
  <2>2. CASE UNCHANGED <<screen, request, live>>
    BY <2>2 DEF request
  <2> QED
    BY <1>1, <2>1, <2>2
<1>5. TypeOK'
  BY <1>1, <1>2, <1>3 DEF IInv, TypeOK, FormTyped
<1>6. LiveIsLoggedIn' /\ PictureIsStored'
  BY <1>1, <1>4, <1>3 DEF IInv, TypeOK, FormTyped, LiveIsLoggedIn, PictureIsStored
<1>7. DocImageStored' /\ DocHasAccount'
  BY <1>1 DEF IInv, TypeOK, DocImageStored, DocHasAccount
<1>8. CreatedOnce'
  BY <1>1, <1>4 DEF IInv, TypeOK, CreatedOnce
<1>9. QueuedIsVisible'
  BY <1>1, <1>2 DEF IInv, TypeOK, QueuedIsVisible
<1> QED
  BY <1>3, <1>5, <1>6, <1>7, <1>8, <1>9 DEF IInv

LEMMA NextIInv == IInv /\ [Next]_vars => IInv'
<1> SUFFICES ASSUME IInv, [Next]_vars PROVE IInv'
  OBVIOUS
<1>1. CASE Form
  BY <1>1, TapAccountStep, TapShowLoginStep, OpenPickerStep, PickPhotoStep,
     CancelPickerStep, TapLoginStep, TapSignUpStep DEF Form
<1>2. CASE \E a \in Attempts : Answer(a)
  BY <1>2, SignInOkStep, SignInFailStep, SignInCallbackStep, PutOkStep,
     PutFailStep, UrlOkStep, UrlFailStep, CreateOkStep, CreateFailStep,
     CreatedCallbackStep DEF Answer
<1>3. CASE WriteAnswer
  BY <1>3, AnsweredStep DEF WriteAnswer
<1>4. CASE Logout \/ Restart
  BY <1>4, LogoutStep, RestartStep
<1>5. CASE UNCHANGED vars
  BY <1>5 DEF vars, backend, screen, request, IInv, TypeOK, NoFormUncovered,
     LiveIsLoggedIn, PictureIsStored, DocImageStored, CreatedOnce,
     DocHasAccount, QueuedIsVisible
<1> QED
  BY <1>1, <1>2, <1>3, <1>4, <1>5 DEF Next

\* The inductive invariant of the session, over every order of the callbacks.
THEOREM Invariance == Spec => []IInv
  BY InitIInv, NextIInv, PTL DEF Spec

\* Every variable keeps its type, with any number of users and requests.
THEOREM TypeCorrect == Spec => []TypeOK
<1>1. IInv => TypeOK
  BY DEF IInv
<1> QED
  BY Invariance, <1>1, PTL

\* AuthServiece.createUser never leaves a document naming a missing picture.
THEOREM DocImageIsStored == Spec => []DocImageStored
<1>1. IInv => DocImageStored
  BY DEF IInv
<1> QED
  BY Invariance, <1>1, PTL

----------------------------------------------------------------------------
(* The cover leaves for a reason.                                          *)

LEMMA DismissingUncovers ==
    ASSUME NEW a \in Attempts, EndsDismissing(a), modal # "none", modal' = "none"
    PROVE  a \in live
  BY DEF EndsDismissing

LEMMA LoginLeavesStep == IInv /\ [Next]_vars => [LoginLeaves]_vars
<1> SUFFICES ASSUME IInv, Next, modal # "none", modal' = "none"
             PROVE  LoginLeaves
  BY DEF LoginLeaves
<1> USE DEF LoginLeaves
<1>1. CASE Form
  BY <1>1 DEF Form, TapAccount, TapShowLogin, OpenPicker, PickPhoto,
              CancelPicker, TapLogin, TapSignUp, screen
<1>2. ASSUME NEW a \in Attempts, Answer(a) PROVE LoginLeaves
  <2>1. CASE SignInCallback(a)
    BY <2>1, DismissingUncovers DEF SignInCallback, IInv, LiveIsLoggedIn
  <2>2. CASE PutFail(a) \/ CreateFail(a)
    BY <2>2, DismissingUncovers DEF PutFail, CreateFail, EndsDismissing, Ends, IInv, TypeOK
  <2>3. CASE ~(SignInCallback(a) \/ PutFail(a) \/ CreateFail(a))
    BY <1>2, <2>3 DEF Answer, SignInOk, SignInFail, PutOk, UrlOk, UrlFail, CreateOk,
                      CreatedCallback, EndsSilently, screen
  <2> QED
    BY <2>1, <2>2, <2>3
<1>3. ASSUME NEW u \in Users, WriteAcked(u) \/ WriteRejected(u) PROVE LoginLeaves
  <2>1. PICK a \in Waiting(u) : EndsDismissing(a)
    BY <1>3 DEF WriteAcked, WriteRejected, Answered, screen
  <2>2. a \in live /\ stage[a] = "setData" /\ currentUser' = currentUser
    BY <1>3, <2>1, DismissingUncovers DEF Waiting, WriteAcked, WriteRejected, Answered
  <2> QED
    BY <2>2 DEF IInv, LiveIsLoggedIn
<1>4. CASE Logout
  BY <1>4 DEF Logout
<1>5. CASE Restart
  BY <1>5 DEF Restart
<1> QED
  BY <1>1, <1>2, <1>3, <1>4, <1>5 DEF Next, WriteAnswer

\* The login cover never leaves for a failed login, nor for the callback of
\* a form that belonged to an earlier cover.
THEOREM CoverLeavesForAReason == Spec => LoginLeavesForAReason
  BY Invariance, LoginLeavesStep, PTL DEF Spec, LoginLeavesForAReason

----------------------------------------------------------------------------
(* Session implements AccountLife.                                         *)

Creating(u) == \E a \in Attempts : stage[a] = "created" /\ email[a] = u

LEMMA StatusInit == Init => Life!Init
  BY DEF Init, Life!Init, status

\* Only accounts, documents, queues and the creations under way matter.
LEMMA SameStatus ==
    ASSUME UNCHANGED <<accounts, docs, queue>>,
           \A u \in Users : Creating(u)' <=> Creating(u)
    PROVE  Life!Advance \/ UNCHANGED status
  BY DEF status, Creating

LEMMA EndsKeepCreating ==
    ASSUME FormTyped, NEW a \in Attempts, EndsSilently(a) \/ EndsDismissing(a),
           stage[a] # "created", NEW u
    PROVE  Creating(u)' <=> Creating(u)
  BY DEF FormTyped, EndsSilently, EndsDismissing, Ends, Creating

LEMMA MovesKeepCreating ==
    ASSUME FormTyped, NEW a \in Attempts, NEW from, NEW to, MovesOn(a, from, to),
           from # "created", to # "created", NEW u
    PROVE  Creating(u)' <=> Creating(u)
  BY DEF FormTyped, MovesOn, Creating

LEMMA StartsKeepCreating ==
    ASSUME FormTyped, NEW a \in Attempts, NEW v, NEW b, NEW first,
           Starts(a, v, b, first), first # "created", NEW u
    PROVE  Creating(u)' <=> Creating(u)
  BY DEF FormTyped, Starts, Creating

LEMMA StatusStep == IInv /\ [Next]_vars => [Life!Advance]_status
<1> SUFFICES ASSUME IInv, [Next]_vars PROVE Life!Advance \/ UNCHANGED status
  OBVIOUS
<1> FormTyped
  BY DEF IInv, TypeOK, FormTyped
<1>1. CASE Form
  BY <1>1, SameStatus, StartsKeepCreating
  DEF Form, TapAccount, TapShowLogin, OpenPicker, PickPhoto, CancelPicker,
      TapLogin, TapSignUp, backend, request, Creating
<1>2. ASSUME NEW a \in Attempts, Answer(a)
      PROVE  Life!Advance \/ UNCHANGED status
  <2>1. CASE SignInFail(a) \/ SignInCallback(a) \/ PutFail(a) \/ UrlFail(a)
    BY <2>1, SameStatus, EndsKeepCreating
    DEF SignInFail, SignInCallback, PutFail, UrlFail, backend
  <2>2. CASE SignInOk(a) \/ PutOk(a) \/ UrlOk(a)
    BY <2>2, SameStatus, MovesKeepCreating DEF SignInOk, PutOk, UrlOk, backend
  <2>3. CASE CreateOk(a)
    <3>1. \A u \in Users : \/ status'[u] = status[u]
                           \/ status[u] = "absent" /\ status'[u] = "creating"
      BY <2>3 DEF CreateOk, MovesOn, status, IInv, TypeOK, DocHasAccount
    <3>2. status' \in [Users -> Life!Statuses]
      BY DEF status, Life!Statuses
    <3> QED
      BY <3>1, <3>2 DEF Life!Advance, Life!Moves
  <2>4. CASE CreateFail(a)
    <3>1. \A u \in Users : Creating(u)' <=> Creating(u)
      BY <2>4, EndsKeepCreating DEF CreateFail
    <3>2. \A u \in Users : \/ status'[u] = status[u]
                           \/ status[u] = "absent" /\ status'[u] = "broken"
      BY <2>4, <3>1 DEF CreateFail, status, Creating, IInv, TypeOK, DocHasAccount, CreatedOnce
    <3>3. status' \in [Users -> Life!Statuses]
      BY DEF status, Life!Statuses
    <3> QED
      BY <3>2, <3>3 DEF Life!Advance, Life!Moves
  <2>5. CASE CreatedCallback(a)
    <3>1. status[email[a]] = "creating" /\ status'[email[a]] = "local"
      BY <2>5, NoBlobAssumption
      DEF CreatedCallback, MovesOn, status, IInv, TypeOK, CreatedOnce,
          RegistrationStages, Credentials
    <3>2. \A u \in Users \ {email[a]} : status'[u] = status[u]
      BY <2>5 DEF CreatedCallback, MovesOn, status, IInv, TypeOK
    <3>3. status' \in [Users -> Life!Statuses]
      BY DEF status, Life!Statuses
    <3> QED
      BY <3>1, <3>2, <3>3 DEF Life!Advance, Life!Moves
  <2> QED
    BY <1>2, <2>1, <2>2, <2>3, <2>4, <2>5 DEF Answer
<1>3. ASSUME NEW u \in Users, WriteAcked(u) \/ WriteRejected(u)
      PROVE  Life!Advance \/ UNCHANGED status
  <2>1. \A v \in Users : Creating(v)' <=> Creating(v)
    <3>1. CASE \E a \in Waiting(u) : EndsDismissing(a)
      BY <3>1, EndsKeepCreating DEF Waiting
    <3>2. CASE UNCHANGED <<screen, request, live>>
      BY <3>2 DEF request, Creating
    <3> QED
      BY <1>3, <3>1, <3>2 DEF WriteAcked, WriteRejected, Answered
  <2>2. status[u] = "local" /\ status'[u] \in {"saved", "broken"}
    BY <1>3, <2>1
    DEF WriteAcked, WriteRejected, Answered, status, Creating, IInv, TypeOK,
        QueuedIsVisible, DocHasAccount, CreatedOnce
  <2>3. \A v \in Users \ {u} : status'[v] = status[v]
    BY <1>3, <2>1
    DEF WriteAcked, WriteRejected, Answered, status, Creating, IInv, TypeOK
  <2>4. status' \in [Users -> Life!Statuses]
    BY DEF status, Life!Statuses
  <2> QED
    BY <2>2, <2>3, <2>4 DEF Life!Advance, Life!Moves
<1>4. CASE Logout
  BY <1>4, SameStatus DEF Logout, backend, request, Creating
<1>5. CASE Restart
  <2>1. accounts \subseteq accounts'
    BY <1>5 DEF Restart
  <2>2. \A u \in Users : ~Creating(u)'
    BY <1>5 DEF Restart, Creating
  <2>3. UNCHANGED <<docs, queue>>
    BY <1>5 DEF Restart
  <2>4. \A u \in Users : \/ status'[u] = status[u]
                         \/ status[u] \in {"absent", "creating"} /\ status'[u] = "broken"
    BY <2>1, <2>2, <2>3 DEF status, Creating, IInv, DocHasAccount
  <2>5. status' \in [Users -> Life!Statuses]
    BY DEF status, Life!Statuses
  <2> QED
    BY <2>4, <2>5 DEF Life!Advance, Life!Moves
<1>6. CASE UNCHANGED vars
  BY <1>6, SameStatus DEF vars, backend, request, Creating
<1> QED
  BY <1>1, <1>2, <1>3, <1>4, <1>5, <1>6 DEF Next, WriteAnswer

\* Registration, its failures and restarts included, never writes a profile
\* twice, loses an acknowledged one, or gives one to a broken account.
THEOREM ImplementsAccountLife == Spec => AccountLifeSpec
  BY Invariance, StatusInit, StatusStep, PTL DEF Spec, AccountLifeSpec, Life!Spec

----------------------------------------------------------------------------
(* The inductive invariant: that of Session, and what the composition adds *)
(* to it.                                                                  *)

EditsTyped ==
    /\ edits \in Seq(Edit)
    /\ asked \in [Pages -> Credentials]
    /\ shown \in [Pages -> Credentials]
    /\ owner \in [Blobs -> Credentials]
    /\ \A b \in Blobs : upload[b] # "none" => owner[b] \in Users
    /\ upload \in [Blobs -> {"none", "putData", "downloadURL"}]

\* A queued updateData names a picture that is in Storage.
EditsAreStored == \A i \in DOMAIN edits : edits[i].name \in stored

PInv == IInv /\ EditsTyped /\ EditsAreStored /\ LoadedPageUncovered

LEMMA InitPInv == ProfileInit => PInv
<1> SUFFICES ASSUME ProfileInit PROVE PInv
  OBVIOUS
<1>1. IInv
  BY InitIInv DEF ProfileInit
<1>2. EditsTyped /\ EditsAreStored
  BY DEF ProfileInit, EditsTyped, EditsAreStored, Credentials
<1>3. LoadedPageUncovered
  BY NoPageAssumption DEF ProfileInit, LoadedPageUncovered
<1> QED
  BY <1>1, <1>2, <1>3 DEF PInv

\* Storage only grows, and named is free: IInv does not mind.
LEMMA StoredGrowsIInv ==
    ASSUME IInv, UNCHANGED <<currentUser, accounts, docs, queue, screen, request, live>>,
           stored \subseteq stored', stored' \subseteq Blobs, named' \subseteq Blobs
    PROVE  IInv'
  BY DEF IInv, TypeOK, NoFormUncovered, LiveIsLoggedIn, PictureIsStored,
         DocImageStored, CreatedOnce, DocHasAccount, QueuedIsVisible, screen, request

\* Replacing the picture of an existing document keeps IInv.
LEMMA DocReplacedIInv ==
    ASSUME IInv, NEW u \in Users, NEW b \in stored, docs[u] # NoBlob,
           docs' = [docs EXCEPT ![u] = b],
           UNCHANGED <<currentUser, accounts, queue, stored, named, screen, request, live>>
    PROVE  IInv'
<1>1. b \in Blobs /\ b # NoBlob
  BY NoBlobAssumption DEF IInv, TypeOK
<1>2. \A v \in Users : docs'[v] # NoBlob <=> docs[v] # NoBlob
  BY <1>1 DEF IInv, TypeOK
<1>3. TypeOK'
  BY <1>1 DEF IInv, TypeOK, screen, request
<1>4. NoFormUncovered' /\ LiveIsLoggedIn' /\ PictureIsStored'
  BY DEF IInv, NoFormUncovered, LiveIsLoggedIn, PictureIsStored, screen, request
<1>5. DocImageStored'
  BY DEF IInv, TypeOK, DocImageStored
<1>6. CreatedOnce'
  BY <1>2 DEF IInv, TypeOK, CreatedOnce, RegistrationStages, request
<1>7. DocHasAccount' /\ QueuedIsVisible'
  BY <1>2 DEF IInv, TypeOK, DocHasAccount, QueuedIsVisible
<1> QED
  BY <1>3, <1>4, <1>5, <1>6, <1>7 DEF IInv

----------------------------------------------------------------------------
\* A queued write, if any answer removes it, was well-formed, and the rest
\* of the queue still is.
LEMMA WithoutIsTyped ==
    ASSUME edits \in Seq(Edit), NEW i \in DOMAIN edits
    PROVE  /\ edits[i] \in Edit
           /\ Without(i) \in Seq(Edit)
           /\ \A j \in DOMAIN Without(i) : \E k \in DOMAIN edits : Without(i)[j] = edits[k]
<1> DEFINE n == Len(edits)
<1>1. n \in Nat /\ DOMAIN edits = 1..n /\ i \in 1..n /\ n - 1 \in Nat
  OBVIOUS
<1>2. \A j \in 1..n : edits[j] \in Edit
  BY <1>1
<1>3. \A j \in 1..(n - 1) : j \in 1..n /\ j + 1 \in 1..n
  BY <1>1
<1>4. Without(i) = [j \in 1..(n - 1) |-> IF j < i THEN edits[j] ELSE edits[j + 1]]
  BY DEF Without
<1>5. Without(i) \in [1..(n - 1) -> Edit]
  BY <1>2, <1>3, <1>4
<1>6. Without(i) \in Seq(Edit) /\ DOMAIN Without(i) = 1..(n - 1)
  BY <1>1, <1>5
<1> QED
  BY <1>1, <1>2, <1>3, <1>4, <1>6

\* Session's steps add to Storage, and never take from it.
LEMMA NextStored == [Next]_vars => stored \subseteq stored'
  BY DEF Next, Form, Answer, WriteAnswer, TapAccount, TapShowLogin, OpenPicker,
         PickPhoto, CancelPicker, TapLogin, TapSignUp, SignInOk, SignInFail,
         SignInCallback, PutOk, PutFail, UrlOk, UrlFail, CreateOk, CreateFail,
         CreatedCallback, WriteAcked, WriteRejected, Answered, Logout, Restart,
         vars, backend

----------------------------------------------------------------------------
(* Every step keeps the invariant.                                         *)

LEMMA PageFrame ==
    ASSUME PInv, IInv', UNCHANGED profileVars, stored \subseteq stored'
    PROVE  PInv'
  BY DEF PInv, EditsTyped, EditsAreStored, LoadedPageUncovered, profileVars,
         pageVars, editVars

LEMMA SessionKeepsPInv == ASSUME PInv, SessionStep PROVE PInv'
<1>1. [Next]_vars
  BY DEF SessionStep, Next
<1>2. IInv' /\ stored \subseteq stored'
  BY <1>1, NextIInv, NextStored DEF PInv
<1> QED
  BY <1>2, PageFrame DEF SessionStep

\* The page's own steps leave Session and the edits alone.
LEMMA PageKeepsPInv ==
    ASSUME PInv, NEW p \in Pages,
           OpenPage(p) \/ FetchOk(p) \/ FetchLost(p)
    PROVE  PInv'
<1> USE NoPageAssumption
<1>1. UNCHANGED <<vars, editVars>>
  BY DEF OpenPage, FetchOk, FetchLost
<1>2. IInv'
  BY <1>1, NextIInv DEF PInv
<1>3. EditsTyped'
  BY <1>1 DEF PInv, EditsTyped, OpenPage, FetchOk, FetchLost, editVars,
              IInv, TypeOK, Credentials
<1>4. EditsAreStored'
  BY <1>1 DEF PInv, EditsAreStored, editVars, vars, backend
<1>5. LoadedPageUncovered'
  BY DEF PInv, EditsTyped, LoadedPageUncovered, OpenPage, FetchOk, FetchLost
<1> QED
  BY <1>2, <1>3, <1>4, <1>5 DEF PInv

LEMMA LeavingKeepsPInv == ASSUME PInv, LogoutFromPage \/ RestartPage PROVE PInv'
<1>1. [Next]_vars
  BY DEF LogoutFromPage, RestartPage, Next
<1>2. IInv' /\ stored \subseteq stored'
  BY <1>1, NextIInv, NextStored DEF PInv
<1>3. EditsTyped' /\ EditsAreStored'
  BY <1>2 DEF PInv, EditsTyped, EditsAreStored, LogoutFromPage, RestartPage,
              editVars, Credentials
<1>4. LoadedPageUncovered'
  BY DEF LogoutFromPage, RestartPage, LoadedPageUncovered
<1> QED
  BY <1>2, <1>3, <1>4 DEF PInv

LEMMA PickKeepsPInv == ASSUME PInv, NEW b \in Blobs, PickImage(b) PROVE PInv'
<1>1. IInv'
  BY StoredGrowsIInv DEF PickImage, PInv, IInv, TypeOK
<1>2. EditsTyped'
  BY DEF PickImage, PInv, EditsTyped, IInv, TypeOK, Credentials
<1>3. EditsAreStored' /\ LoadedPageUncovered'
  BY DEF PickImage, PInv, EditsAreStored, LoadedPageUncovered
<1> QED
  BY <1>1, <1>2, <1>3 DEF PInv

LEMMA UploadKeepsPInv ==
    ASSUME PInv, NEW b \in Blobs, UploadAnswered(b) \/ EditUrlFail(b) PROVE PInv'
<1>1. /\ UNCHANGED <<currentUser, accounts, docs, queue, named, screen, request, live>>
      /\ stored \subseteq stored' /\ stored' \subseteq Blobs
  BY DEF UploadAnswered, EditUrlFail, PInv, IInv, TypeOK, vars, backend
<1>2. IInv'
  BY <1>1, StoredGrowsIInv DEF PInv, IInv, TypeOK
<1>3. EditsTyped'
  BY DEF UploadAnswered, EditUrlFail, PInv, EditsTyped, Credentials, pageVars
<1>4. EditsAreStored' /\ LoadedPageUncovered'
  BY <1>1 DEF UploadAnswered, EditUrlFail, PInv, EditsAreStored,
              LoadedPageUncovered, pageVars
<1> QED
  BY <1>2, <1>3, <1>4 DEF PInv

LEMMA EditUrlKeepsPInv == ASSUME PInv, NEW b \in Blobs, EditUrlOk(b) PROVE PInv'
<1> DEFINE e == [user |-> owner[b], name |-> b, by |-> currentUser]
<1>1. IInv'
  BY NextIInv DEF EditUrlOk, PInv
<1>2. e \in Edit /\ b \in stored /\ edits \in Seq(Edit) /\ edits' = Append(edits, e)
  BY DEF EditUrlOk, PInv, EditsTyped, IInv, TypeOK, Edit
<1> HIDE DEF e
<1>3. edits' \in Seq(Edit)
  BY <1>2
<1>4. EditsTyped'
  BY <1>3 DEF EditUrlOk, PInv, EditsTyped, Credentials, pageVars
<1>5. \A j \in DOMAIN edits' : \/ j \in DOMAIN edits /\ edits'[j] = edits[j]
                               \/ edits'[j] = e
  BY <1>2
<1>6. e.name = b
  BY DEF e
<1>7. stored' = stored
  BY DEF EditUrlOk, vars, backend
<1>8. EditsAreStored'
  BY <1>2, <1>5, <1>6, <1>7 DEF PInv, EditsAreStored
<1>9. LoadedPageUncovered'
  BY DEF EditUrlOk, PInv, LoadedPageUncovered, pageVars
<1> QED
  BY <1>1, <1>4, <1>8, <1>9 DEF PInv

LEMMA EditAnswerKeepsPInv ==
    ASSUME PInv, NEW i \in DOMAIN edits, EditAcked(i) \/ EditRejected(i)
    PROVE  PInv'
<1>1. /\ edits[i] \in Edit
      /\ Without(i) \in Seq(Edit)
      /\ \A j \in DOMAIN Without(i) : \E k \in DOMAIN edits : Without(i)[j] = edits[k]
  BY WithoutIsTyped DEF PInv, EditsTyped
<1>2. edits[i].user \in Users /\ edits[i].name \in stored
  BY <1>1 DEF Edit, PInv, EditsAreStored
<1>3. CASE EditAcked(i)
  <2>1. IInv'
    BY <1>2, <1>3, DocReplacedIInv DEF EditAcked, PInv
  <2>2. EditsTyped' /\ EditsAreStored' /\ LoadedPageUncovered'
    BY <1>1, <1>3 DEF EditAcked, PInv, EditsTyped, EditsAreStored,
                      LoadedPageUncovered, pageVars
  <2> QED
    BY <2>1, <2>2 DEF PInv
<1>4. CASE EditRejected(i)
  <2>1. IInv' /\ stored' = stored
    BY <1>4, NextIInv DEF EditRejected, PInv, vars, backend
  <2>2. EditsTyped' /\ EditsAreStored' /\ LoadedPageUncovered'
    BY <1>1, <1>4, <2>1 DEF EditRejected, PInv, EditsTyped, EditsAreStored,
                            LoadedPageUncovered, pageVars
  <2> QED
    BY <2>1, <2>2 DEF PInv
<1> QED
  BY <1>3, <1>4

LEMMA NextPInv == PInv /\ [ProfileNext]_allVars => PInv'
<1> SUFFICES ASSUME PInv, [ProfileNext]_allVars PROVE PInv'
  OBVIOUS
<1>1. CASE SessionStep \/ LogoutFromPage \/ RestartPage
  BY <1>1, SessionKeepsPInv, LeavingKeepsPInv
<1>2. ASSUME NEW p \in Pages, OpenPage(p) \/ FetchOk(p) \/ FetchLost(p) PROVE PInv'
  BY <1>2, PageKeepsPInv
<1>3. CASE LeavePage \/ OpenChooser \/ CancelChooser
  <2>1. UNCHANGED <<vars, editVars, asked, shown, spinner>>
    BY <1>3 DEF LeavePage, OpenChooser, CancelChooser
  <2>2. IInv'
    BY <2>1, NextIInv DEF PInv
  <2>3. EditsTyped' /\ EditsAreStored'
    BY <2>1 DEF PInv, EditsTyped, EditsAreStored, editVars, vars, backend
  <2>4. LoadedPageUncovered'
    BY <1>3, <2>1 DEF PInv, LoadedPageUncovered, LeavePage, OpenChooser, CancelChooser
  <2> QED
    BY <2>2, <2>3, <2>4 DEF PInv
<1>4. ASSUME NEW b \in Blobs,
             PickImage(b) \/ UploadAnswered(b) \/ EditUrlOk(b) \/ EditUrlFail(b)
      PROVE  PInv'
  BY <1>4, PickKeepsPInv, UploadKeepsPInv, EditUrlKeepsPInv
<1>5. ASSUME NEW i \in DOMAIN edits, EditAcked(i) \/ EditRejected(i) PROVE PInv'
  BY <1>5, EditAnswerKeepsPInv
<1>6. CASE UNCHANGED allVars
  <2>1. UNCHANGED vars /\ UNCHANGED profileVars
    BY <1>6 DEF allVars
  <2>2. IInv' /\ stored \subseteq stored'
    BY <2>1, NextIInv, NextStored DEF PInv
  <2> QED
    BY <2>1, <2>2, PageFrame
<1> QED
  BY <1>1, <1>2, <1>3, <1>4, <1>5, <1>6 DEF ProfileNext

\* The invariant of the page with the session under it: no step of the page
\* disturbs registration, and no step of registration disturbs the page.
THEOREM ProfileInvariance == ProfileSpec => []PInv
  BY InitPInv, NextPInv, PTL DEF ProfileSpec

\* A page that has shown a profile is never left under the shared spinner.
THEOREM LoadedPagesAreUncovered == ProfileSpec => []LoadedPageUncovered
<1>1. PInv => LoadedPageUncovered
  BY DEF PInv
<1> QED
  BY ProfileInvariance, <1>1, PTL

\* With changed pictures too, uploads that fail and fall through included,
\* no document names a missing picture.
THEOREM EditedDocImageIsStored == ProfileSpec => []DocImageStored
<1>1. PInv => DocImageStored
  BY DEF PInv, IInv
<1> QED
  BY ProfileInvariance, <1>1, PTL

----------------------------------------------------------------------------
(* The types of the page.                                                  *)

PageTyped ==
    /\ page \in Pages \cup {NoPage}
    /\ spinner \in Pages \cup {NoPage}
    /\ chooser \in BOOLEAN

LEMMA NextPageTyped == PageTyped /\ [ProfileNext]_allVars => PageTyped'
<1> SUFFICES ASSUME PageTyped, [ProfileNext]_allVars PROVE PageTyped'
  OBVIOUS
<1> USE DEF PageTyped
<1>1. CASE SessionStep \/ UNCHANGED allVars
  BY <1>1 DEF SessionStep, profileVars, pageVars, allVars
<1>2. ASSUME NEW p \in Pages, OpenPage(p) \/ FetchOk(p) \/ FetchLost(p)
      PROVE  PageTyped'
  BY <1>2 DEF OpenPage, FetchOk, FetchLost
<1>3. CASE \/ LeavePage \/ LogoutFromPage \/ OpenChooser \/ CancelChooser
           \/ RestartPage
  BY <1>3 DEF LeavePage, LogoutFromPage, OpenChooser, CancelChooser, RestartPage
<1>4. ASSUME NEW b \in Blobs,
             PickImage(b) \/ UploadAnswered(b) \/ EditUrlOk(b) \/ EditUrlFail(b)
      PROVE  PageTyped'
  BY <1>4 DEF PickImage, UploadAnswered, EditUrlOk, EditUrlFail, pageVars
<1>5. ASSUME NEW i \in DOMAIN edits, EditAcked(i) \/ EditRejected(i)
      PROVE  PageTyped'
  BY <1>5 DEF EditAcked, EditRejected, pageVars
<1> QED
  BY <1>1, <1>2, <1>3, <1>4, <1>5 DEF ProfileNext

\* Every variable of the page and of the session keeps its type.
THEOREM ProfileTypeCorrect == ProfileSpec => []ProfileTypeOK
<1>1. ProfileInit => PageTyped
  BY DEF ProfileInit, PageTyped
<1>2. PInv /\ PageTyped => ProfileTypeOK
  BY DEF PInv, IInv, EditsTyped, PageTyped, ProfileTypeOK
<1> QED
  BY <1>1, <1>2, NextPageTyped, ProfileInvariance, PTL DEF ProfileSpec

----------------------------------------------------------------------------
(* What a step of the page does to the session: it is one of the session's *)
(* steps, or it changes only documents, Storage and names.                 *)

\* docs keeps its documents, if not their pictures.
QuietStep ==
    /\ UNCHANGED <<currentUser, accounts, queue, screen, request, live>>
    /\ \A u \in Users : docs'[u] = NoBlob <=> docs[u] = NoBlob

LEMMA ProfileStepIsQuiet ==
    ASSUME PInv, [ProfileNext]_allVars
    PROVE  [Next]_vars \/ QuietStep
<1> USE DEF QuietStep
<1>1. CASE SessionStep \/ LogoutFromPage \/ RestartPage
  BY <1>1 DEF SessionStep, LogoutFromPage, RestartPage, Next
<1>2. CASE UNCHANGED allVars
  BY <1>2 DEF allVars
<1>3. ASSUME NEW p \in Pages, OpenPage(p) \/ FetchOk(p) \/ FetchLost(p)
      PROVE  UNCHANGED vars
  BY <1>3 DEF OpenPage, FetchOk, FetchLost
<1>4. CASE LeavePage \/ OpenChooser \/ CancelChooser
  BY <1>4 DEF LeavePage, OpenChooser, CancelChooser
<1>5. ASSUME NEW b \in Blobs,
             PickImage(b) \/ UploadAnswered(b) \/ EditUrlOk(b) \/ EditUrlFail(b)
      PROVE  UNCHANGED vars \/ QuietStep
  BY <1>5 DEF PickImage, UploadAnswered, EditUrlOk, EditUrlFail
<1>6. ASSUME NEW i \in DOMAIN edits, EditAcked(i) PROVE QuietStep
  <2>1. edits[i].user \in Users /\ edits[i].name \in stored
    BY WithoutIsTyped DEF PInv, EditsTyped, EditsAreStored, Edit
  <2>2. edits[i].name # NoBlob
    BY <2>1, NoBlobAssumption DEF PInv, IInv, TypeOK
  <2> QED
    BY <1>6, <2>1, <2>2 DEF EditAcked, PInv, IInv, TypeOK
<1>7. ASSUME NEW i \in DOMAIN edits, EditRejected(i) PROVE UNCHANGED vars
  BY <1>7 DEF EditRejected
<1> QED
  BY <1>1, <1>2, <1>3, <1>4, <1>5, <1>6, <1>7 DEF ProfileNext

\* With the page's log out too, the login cover never leaves for a failed
\* login, nor for the callback of a form of an earlier cover.
THEOREM CoverLeavesForAReasonWithPage == ProfileSpec => LoginLeavesForAReason
<1>1. PInv /\ [ProfileNext]_allVars => [LoginLeaves]_vars
  <2> SUFFICES ASSUME PInv, [ProfileNext]_allVars PROVE [LoginLeaves]_vars
    OBVIOUS
  <2>1. CASE [Next]_vars
    BY <2>1, LoginLeavesStep DEF PInv
  <2>2. CASE QuietStep
    BY <2>2 DEF QuietStep, screen, LoginLeaves
  <2> QED
    BY <2>1, <2>2, ProfileStepIsQuiet
<1> QED
  BY <1>1, ProfileInvariance, PTL DEF ProfileSpec, LoginLeavesForAReason

\* Replacing a picture never changes the life of an account: a document is
\* neither created by updateData nor taken from its account.
THEOREM ProfileImplementsAccountLife == ProfileSpec => AccountLifeSpec
<1>1. PInv /\ [ProfileNext]_allVars => [Life!Advance]_status
  <2> SUFFICES ASSUME PInv, [ProfileNext]_allVars
               PROVE  Life!Advance \/ UNCHANGED status
    OBVIOUS
  <2>1. CASE [Next]_vars
    BY <2>1, StatusStep DEF PInv
  <2>2. CASE QuietStep
    BY <2>2 DEF QuietStep, status, request
  <2> QED
    BY <2>1, <2>2, ProfileStepIsQuiet
<1>2. ProfileInit => Life!Init
  BY StatusInit DEF ProfileInit
<1> QED
  BY <1>1, <1>2, ProfileInvariance, PTL DEF ProfileSpec, AccountLifeSpec, Life!Spec

----------------------------------------------------------------------------
\* The spinner comes off a page on screen only when some page has read a
\* profile document: errors and missing documents never stop it.
THEOREM SpinnerLiftsOnlyForAProfile == ProfileSpec => SpinnerLiftsForAProfile
<1>1. PInv /\ [ProfileNext]_allVars => [SpinnerLifts]_allVars
  <2> SUFFICES ASSUME PInv, ProfileNext,
                      page # NoPage, page' = page, spinner = page, spinner' # page
               PROVE  \E p \in Pages : /\ asked[p] # NoUser
                                       /\ asked'[p] = NoUser
                                       /\ docs[asked[p]] # NoBlob
    BY DEF SpinnerLifts
  <2>1. ~SessionStep
    BY DEF SessionStep, profileVars, pageVars
  <2>2. \A p \in Pages : ~OpenPage(p) /\ ~FetchLost(p)
    BY DEF OpenPage, FetchLost
  <2>3. ~LeavePage /\ ~LogoutFromPage /\ ~OpenChooser /\ ~CancelChooser /\ ~RestartPage
    BY DEF LeavePage, LogoutFromPage, Touchable, OpenChooser, CancelChooser, RestartPage
  <2>4. \A b \in Blobs : /\ ~PickImage(b) /\ ~UploadAnswered(b)
                         /\ ~EditUrlOk(b) /\ ~EditUrlFail(b)
    BY DEF PickImage, UploadAnswered, EditUrlOk, EditUrlFail, pageVars
  <2>5. \A i \in DOMAIN edits : ~EditAcked(i) /\ ~EditRejected(i)
    BY DEF EditAcked, EditRejected, pageVars
  <2>6. PICK p \in Pages : FetchOk(p)
    BY <2>1, <2>2, <2>3, <2>4, <2>5 DEF ProfileNext
  <2> QED
    BY <2>6 DEF FetchOk, Readable, PInv, EditsTyped
<1> QED
  BY <1>1, ProfileInvariance, PTL DEF ProfileSpec, SpinnerLiftsForAProfile
==============================================================================
