# MMPL, a movie play list app: TLA+ models, checks and proofs

The program is an iOS app (UIKit, Firebase Authentication, Firestore and Storage,
the Naver movie search API). Its own code is about 3,600 lines of Swift under
`src/MoviePlayList/MoviePlayList/`, of which about 2,800 are in the sources of the
Xcode target; `src/MoviePlayList/Pods/` is third-party code that the repository
carries. Paths below are relative to `src/MoviePlayList/MoviePlayList/`, those that
begin with `Pods/` to `src/MoviePlayList/`, and names ending in `.cc` are files of
`Pods/FirebaseFirestore/Firestore/core/src/`.

The app has no server of its own. All its difficulty is in callbacks: requests that
outlive the screen that made them, a logged-in user that changes under them, screens
that remove themselves, and Firestore's local view of data the server has not yet
accepted. The app relies on Firestore to carry every write, for the right user, through
outages, changes of user and restarts, and to bring each listener the result of its query;
both parts of Firestore are modelled too.

## 1. Inventory

| part | state | operations | interacts with |
|---|---|---|---|
| Session and registration (`Login/Controller`, `API/AuthService`, `Main/MainViewController`, `Resource/AppDelegate`) | the persisted user, accounts, profile documents, stored pictures, the full-screen login cover and its forms, the photo picker, requests in flight | log in; register (store the picture, ask for its URL, create the account, write the document); log out; start | Firebase Auth, Storage, Firestore; its callbacks dismiss the cover |
| Profile page (`Profile/Controller`, `API/Service`) | the page, the user it shows, the app's one spinner, uploads of a new picture | open and fetch, change the picture, leave, log out | Session (user, documents, cover), Storage, Firestore |
| Reviews (`AddMovie`, `API/Service`) | stacked review pages, each with a snapshot listener, its list and its input view; the mutation queue | open, receive a snapshot, type, send, go back | Firestore, Session (user at opening, user at sending) |
| Search (`Search/Controller/MakeListViewController`, `API/APIManager`) | requests in flight, the answer, the rows on screen, the warning banner, the selected movie | search, answer, reload, select, change tab, back | Naver API, the main queue, the tab bar |
| Result cells (`Search/View/MakeListMovieCollectionViewCell`) | the row each cell shows, its image, the poster it waits for | reuse, fill, receive a poster | Search (rows), Kingfisher |
| Titles (`Resource/Extensions`, `API/Service`) | none | clean a title for display; turn the raw title into a collection path | Search, Reviews |
| Navigation (`AppDelegate` and every controller) | selected tab, two navigation stacks, what is presented over them | select a tab, push, pop, swipe, present, dismiss | all screens |
| Forms (`Login`) | texts, view models, buttons, first responder, the views' places | edit, change field, return, move with the keyboard, push and pop the registration form | Session (cover, requests), UIKit's keyboard notifications |
| Firestore's write path (`core/sync_engine.cc`, `remote/remote_store.cc`, `remote/stream.cc`, `remote/write_stream.cc`, `local/leveldb_mutation_queue.cc`, `auth/firebase_credentials_provider_apple.mm`, `FIRAuth.m`) | Auth's user, the main queue, the worker queue, a mutation queue per user on disk, the write pipeline, the write stream, callbacks | write, wait for pending writes, change of user, token, open, handshake, answer, refuse, break, back off, idle, network off and on, restart | the app's writes; Auth; the backend |
| Firestore's watch side (`remote/remote_store.cc`, `remote/remote_event.cc`, `remote/online_state_tracker.cc`, `core/sync_engine.cc`, `core/view.cc`, `local/local_store.cc`, `local/index_free_query_engine.cc`) | the online state and its timer, the targets listened to with their resume tokens, the changes collected until the next snapshot, the views, documents in limbo and their lookups, the document and target caches on disk | listen, stop, open, messages of the backend (added, removed, current, document, existence filter, refusal, snapshot), break, back off, idle, time out, change of network, restart | the app's listeners; the backend |
| Main list (`Main`, `View/MakeListCollectionViewCell`) | one placeholder cell | scroll | none |
| Views and layout | none | build views | none |
| Code outside the app target (`Resource/AuthManager`, `Resource/DataBaseManager`, `Login/NewUserViewController`, `Model/Core`, ...) | - | earlier versions of registration, a Core Data store | nothing reaches it |
| Other Pods (the rest of Firebase, gRPC, BoringSSL, leveldb, abseil, nanopb) | - | - | below what the app calls |

What makes each part correct, and hard to test:

- **Session**: the cover must leave for a reason, although two requests may be
  answered in any order and dismiss whatever is on screen by then; the profile
  document of a registration must be the created user's and name a picture that is
  there, at whatever call the pipeline breaks off; no retry and no restart may write
  a second profile for an account.
- **Profile**: one spinner for the whole app, shown by each page and lifted by the
  answer to any; a document asked for one user and shown under another; uploads that
  outlive a log out.
- **Reviews**: a list that only grows has to equal an ordered query, under
  acknowledgements, refusals, another phone and a change of user.
- **Search and its cells**: rows and data change at different times, a row is tapped or drawn
  by its index in the data, and a cell is another row's by the time its poster arrives.
- **Forms**: both forms move with every keyboard notification, the hidden one too, and must
  be back in place once it is gone; the buttons follow the texts through view models kept beside them.
- **Navigation**: a page that pops itself whenever it disappears, whatever made it
  disappear; pages of one movie that open each other without end.
- **Firestore's write path**: a token asked for one user and answered after another has
  logged in; answers without an id, linked to writes by order alone; a pipeline that is a copy
  of a queue which a change of user replaces; a stream started in five places that must not be left
  stopped with writes to send; an idle timer against a write that comes in.
- **Firestore's watch side**: a view must be what the backend has, although messages are relative to
  what was sent before, to a listen since dropped, or to a token from before a restart; documents that the cache
  puts in a result and the backend does not are each looked up, and no longer than needed; the timer of the online state
  must not outlive the attempt it times.

Nothing is multi-threaded in the app's own code: callbacks come on the main thread.
The interleavings there are those of callbacks, taps, animations and SDK queues. In
Firestore three serial queues take part: Auth's work queue, the main queue and Firestore's
worker queue.

## 2. Modules

| module | models | uses |
|---|---|---|
| `AccountLife` | abstract: the life of an account and its profile document | |
| `Session` | users, accounts, cover, requests, registration | implements `AccountLife` |
| `Profile` | the profile page composed with the session | EXTENDS `Session` |
| `Reviews` | review pages, listeners, mutation queue | |
| `Search` | the search tab | |
| `Posters` | cells and the posters they load | |
| `ResultList` | the rows of the search tab drawn in cells | EXTENDS `Search`, INSTANCE `Posters` |
| `MovieTitle` | titles as collection paths | |
| `Navigation` | tab, stacks, modal screens | |
| `Forms` | the two forms of the cover and the keyboard | |
| `Screens` | all that is on screen: pages, and the forms while the cover is up | EXTENDS `Navigation`, INSTANCE `Forms` |
| `StreamStates` | one Firestore stream as a value | |
| `StreamLife` | abstract: whose user's token opens a stream; Auth, main queue and worker queue | EXTENDS `StreamStates` |
| `WriteQueue` | abstract: what an app may rely on when it writes | |
| `WritePipeline` | the write path: queues, pipeline, stream, callbacks | EXTENDS `StreamLife`; implements `LifeSpec` and `WriteQueue` |
| `OnlineTracker` | the online state as a value | |
| `WatchChanges` | the watch change aggregator as a value | |
| `WatchClient` | targets, requests and limbo lookups of the client as a value | EXTENDS `WatchChanges` |
| `WatchTargets` | the watch side: connection, targets, backend, caches, views | EXTENDS `StreamStates`, `OnlineTracker`, `WatchClient` |
| `ProfileProofs` | proofs about `Session` and `Profile` | EXTENDS `Profile` |
| `ResultListProofs` | proofs about `Search` and `ResultList` | EXTENDS `ResultList` |
| `ScreensProofs` | proofs about `Navigation` and `Screens` | EXTENDS `Screens` |
| `FiniteSetInduction` | induction over finite sets; maxima and enumerations of finite sets | |
| `ReviewsProofs` | proofs about `Reviews` | EXTENDS `Reviews`, `FiniteSetInduction` |
| `WritePipelineProofs` | proofs about `StreamLife`, the write pipeline as owner of its stream, and the queues it sends from; it implements `WriteQueue` | EXTENDS `WritePipeline`, `FiniteSetInduction` |
| `WatchProofs` | proofs about the watch side: connection, targets, lookups | EXTENDS `WatchTargets`, `FiniteSetInduction` |
| `WatchResultProofs` | a synced view is the backend's result | EXTENDS `WatchProofs` |
| `MC...` | finite instances and symmetry | their module |

Definitions keep the names of the code where it has one (`SignInOk` and the like name
the answers to calls that have no handler of their own). A definition named after an
action with a suffix and commented "Mutant" is a plausible wrong version of that
action; no specification uses it.

### Session

State: `currentUser` is `Auth.auth().currentUser`; `accounts` and `docs` are the
server's accounts and the profile documents as the phone sees them (`docs[u]` is the
picture the document names); `queue` holds, per credential, the users whose profile
write is unacknowledged; `stored` and `named` are the objects in Storage and the names
drawn by `NSUUID()`. `modal`, `picker` and `photo` are the screen; `stage`, `email` and
`picture` are the requests; `live` is the set of requests whose form is still in the
presented cover, which is what `self.dismiss` in a callback depends on.

A log in is `TapLogin`, then `SignInOk` or `SignInFail` (the server), then
`SignInCallback`: the SDK replaces the user on its own queue before it dispatches the
callback (`Pods/FirebaseAuth/.../FIRAuth.m` 1952-1979), so the two are separate steps.
A registration is `TapSignUp`, `PutOk`/`PutFail`, `UrlOk`/`UrlFail`,
`CreateOk`/`CreateFail`, `CreatedCallback`, and much later `WriteAcked` or
`WriteRejected`. Each `...Fail` includes the lost answer: the effect took place and
the program is told it did not. `EndsDismissing` is what `dismiss` does: nothing for
a form that has left the cover, the picker if one is open over the form, else the cover.

### Profile

`asked` and `shown` are the user whose document each page instance waits for or shows;
`spinner` is the page the static spinner of `Extensions.swift` covers; `upload`, `owner`
and `edits` follow `Service.updateUserData` from the upload to the queued write.
`LeavePage` is the back button and the change of tab alike. `LogoutFromPage` composes the
page's button with `Session`'s `Logout`, `RestartPage` with `Restart`.

### Reviews

`Visible(u)` is what a listener on u's collection sees: the phone's cache and, for the
logged-in user, the unacknowledged writes. `Deliver(p)` is one snapshot: the difference
to what was last reported, of which the code appends the added documents and ignores
the others. `Ack`, `Reject`, `Sync`, `SendElsewhere` are Firestore and the other phone;
`SwitchUser` a log out and log in on the other tab; `Restart` loses the pages and keeps
cache and queue. `input` is each page's `AccessoryView`: `EditMessage` is a change of the top
page's text, of which the input views of all pages hear; `Send` clears it. `world` is chosen
once and never changes: it says which of the troubles (refusals, another phone, a change of user
with writes pending) this behaviour may meet, so that one run compares the list with the query
where the query promises it and shows what is left elsewhere.

### Search, Posters, ResultList

`items` and `total` are `data`, `rows` what the collection view was last told, `blocks`
the reload blocks on the main queue, `timers` the animations that will hide the banner.
`Answered` sets the data, `Reload` runs a block later. `trapped` is an index out of
range, which stops the app.

In `Posters` a cell `shows` a movie and its image view waits for a load (`task`, Kingfisher's task
identifier). `Loaded` drops an answer that is not for the latest identifier. `ShowPosterless` is the
branch of `configure` that sets the image by itself: it leaves `task` alone.

`ResultList` puts the two together: `row[c]` is the row a cell is on screen for.
`cellForItemAt` takes a cell that is off screen and fills it from `items`, which an answer may
already have replaced; `Reloaded` are the steps of `Search` that call `reloadData`, at which all
cells go back to be reused with the posters they wait for; a tap or a row drawn touches a row
that is drawn or is to be.

### MovieTitle

One title from the result to the path of its collection, which is the raw title with its
`<b>` and `</b>`.

### Navigation

`stack[t]` is the list of pages of tab t; a page has a kind, its movie, and whether its
buttons were wired (`MovieDetailViewController` wires them after the poster has been
loaded, and returns before on a failure). `Disappear` is `viewWillDisappear` of the
profile page. `SelectTab` on the selected tab is UIKit's pop to root. `SwipeBack` is the
edge gesture, which `navigationBar.isHidden` leaves on. `Logout` presents the cover over
the profile page; the page pops itself; the completion selects the first tab if the page
still knows its tab bar, so both tabs are possible.

### Forms

`open` is the cover's stack of forms, `focus` the first responder: the keyboard is up while
there is one, and `BecomeFirstResponder` and `ResignFirstResponder` bring its notifications to all
open forms. `y` is the origin of each view, which UIKit sets to 0 again when it lays the view
out (`Relayout`), also while the keyboard is up. `CoverLeaves` is any completion of `Session`
that dismisses.

### Screens

The cover is the one place where pages and forms meet. `LogoutCovers` is `Navigation`'s `Logout` with
`Forms`' `CoverShown`, `LoginUncovers` is `Uncover` with `CoverLeaves`; all else leaves one side alone.

### StreamStates, StreamLife

`StreamStates` has a stream as a record (its state of `remote/stream.h`, `close_count_`, and
the user whose token opened its call) and one operator for each thing `stream.cc` does to it.

`StreamLife` is the hand-off of the user. `authUser` is Auth's, on its work queue; `current` and
`counter` are what the credentials provider knows, on the main queue; `user` is the sync
engine's, on the worker queue. `mainQ` and `workQ` are the blocks on the two queues, in order;
`asks` are the tokens asked of Auth, which reads its user (`AuthReads`) some time before it answers
(`AuthAnswers`). `MainNotified` and `MainToken` are the blocks of the main queue,
`WorkerCredential`, `WorkerResume`, `WorkerTask` those of the worker queue. What the owner of the stream
makes of it in each is left open (`OwnersChoice`): the module says what holds for any owner.

### WriteQueue, WritePipeline

`WritePipeline` is such an owner. `queue[u]` is u's mutation queue in leveldb, `nextId` the next
batch id, `pipe` the write pipeline of `RemoteStore`, `shook` and `idle` the handshake and the
idle timer of the stream, `wire` the call (what the backend has not read, what the phone has not
read, and whether the backend has refused). The write side of `RemoteStore` is a value (`Side`)
and its functions are operators on it, composed by each action as the code calls them: `WriteMutations`
queues a batch and fills the pipeline, `HandleCredentialChange` swaps queues and restarts the
streams, `ResumeStart` opens the stream or closes it with an error, `HandshakeComplete`,
`MutationResult`, `ReadsRefusal` and `Breaks` are what the call brings, then `BackoffElapses`,
`IdleTimeout`, `DisableNetwork`, `EnableNetwork`, `ConnectivityChanges` and `Restarts`.
`BackendAnswers` and `BackendRefuses` are the backend, which is external: it reads requests in
order. A call that is cut off may still be stored up to some request (`CutOff`).

`WriteQueue` is what the app sees of all this: a durable queue per user, stored in order, left from the
head. `RefinesWriteQueue` maps batches to the writes they carry and forgets the rest.

### OnlineTracker, WatchChanges, WatchClient, WatchTargets

The first three have the parts of the client as values with one operator per function, which the actions of
`WatchTargets` compose as the code calls them. `online` is `OnlineStateTracker`; `client.agg` is the
`WatchChangeAggregator`, with the outstanding responses that make a target deaf to what is said of an earlier listen;
`client.listens` and `client.tokens` are `listen_targets_`; `client.refs`, `active`, `resolving`,
`received` and `waiting` are `SyncEngine`'s limbo documents. `views[q]` is the view of q and its entry in `LocalStore`'s
maps, `disk` the document cache (with the version each document was read at) and the target cache.

`Listen` allocates the target, executes the query (from the target's keys and what was read
since the last limbo-free snapshot, or from the whole collection) and starts the stream or sends the request;
`StopListening` releases it. `AnswerWatch`, `AnswerUnwatch`, `SendDocument`, `SendCurrent`, `SendFilter` and `RejectLookup`
are the messages that `OnWatchStreamChange` hands to the aggregator; `SendSnapshot` is the one at which it raises an
event: `RaiseWatchSnapshot`, `LocalStore::ApplyRemoteEvent`, then the views, their limbo documents and the lookups these start or
end, in one task of the worker queue as in the code. `StreamFails`, `BackoffElapses`, `IdleTimeout`, `TimerFires`,
`RestartNetwork` and `Crash` are the troubles.

The backend (`server`) has every version of the data (`history`), and for each target what it last sent of each document. A
listen resumes from the content at its token; if the token is older than `horizon` the backend has forgotten what left the
result since, and sends a count (`SendFilter`). Two fields of a view are not in the code. `misled` notes that
the backend took the listen up from other keys than the view has, which `watch_empty` shows to happen (see 6). `flawed` stays
with the view once that was so for its last listen, or once cache and view did not agree with what the backend took the
listen up from (`Flawing`): a document that is not sent again and that the cache has lost to the refusal of a lookup, or one that is no news to the cache and
that the view does not show; or once a refusal struck a document that is among the view's keys. `SyncedIsTheResult` is about the other views.

## 3. What is checked

The longest run takes about two and a half minutes. "Violation" runs confirm a disagreement
between the code and what it, or a library assertion it runs into, says.

| run | instance | properties | what it shows |
|---|---|---|---|
| `session` | 2 users, 2 requests, 2 object names, fairness | `LoginLeavesForAReason`, `AttemptsEnd` | the cover leaves only for a user or a failed registration of its own; a request ends, silently if its picture's URL cannot be had, or has issued its profile write |
| `profile` | the same with 2 page instances | `LoadedPageUncovered`, `DocImageStored`, `SpinnerLiftsForAProfile`, `AccountLifeSpec` | a page showing a profile is not under the spinner; the spinner lifts only at the reading of a document; documents name stored pictures; session and page implement `AccountLife` |
| `profile_shown` | 1 page | `ShownIsLoggedIn` | violation: see 6 |
| `reviews` | 2 pages; a quiet world of 3 reviews, a rough one of 2; 2 changes of user; fairness | `ListIsTheQuery`, `HintIffEmpty`, `AgainOnlyIfWithdrawn`, `VisibleIsListed` | in the quiet world the appended list is the ordered query; in both, a review is listed again only if it was withdrawn; placeholders follow the texts |
| `reviews_ghost`, `reviews_lost` | 2 reviews, 1 page | `ListedIsStored`, `SentIsKept` | violations: see 6 |
| `result_list` | 2 requests, lists of length 0, 1 and 3 over 4 movies (2 with a poster, 1 without, 1 with an address that is no URL), 2 cells, 2 loads, fairness | `SettledRows`, `CellIsItsRow`, `PosterIsTheRows`, `TapOpensTheRow`, `BannerLeaves` | rows, data and cells agree when no block waits; taps then are sound; posters go to their row; the warning banner leaves |
| `screens` | 2 movies, 9 pages per stack | `ProfileIsOnScreen`, `CoverIsOverARoot`, `ReviewsLieOnTheirMovie`, `BackInPlace`, `ButtonFollowsTexts` | the shape of the stacks under the cover; the cover's forms are back in place without the keyboard, and their buttons follow the texts |
| `movie_title` | 4 titles with 0, 1 or 2 matched words | `CollectionPathIsOdd` | violation: see 6 |
| `writes` | 2 users, 3 writes, a pipeline of 2, 2 troubles, fairness | `OwnStream`, `CredIsUser`, `TaskRunsAsIssued`, `ResumeFindsStarting`, `AnswersMatchPipeline`, `PipelineIsQueuePrefix`, `CallbackOfItsBatch`, `AckedIsStored`, `WaiterToldAfter`, `IdleHasNothingToSend`, `DropsOnlySent`, `RefinesStreamLife`, `RefinesWriteQueue`, `QueueDrains` | no write travels under another's token, answers are credited to their write, nothing unsent is dropped, the queue drains; the two refinements |
| `watch` | 1 query, 2 documents, 2 versions of the data, 2 requests, 1 trouble, 2 lookups for each document, fairness | `TypeOK`, `SyncedIsTheResult`, `ChangesFitViews`, `OnlineStateSound`, `LimboIsLookedUp`, `EventuallySynced` | a synced view is the backend's result with its data, the changes of an event fit the views (assertions of the code), the online state and its timer agree with stream and views, what enters limbo is looked up and nothing else, until it leaves limbo or is refused, and a view that stays is synced in the end |
| `watch_empty` | the same with 1 request, without troubles | `SyncedIsUpToDate` | violation: see 6 |

Why the bounds are enough to be of interest:

- Two requests and two users give every pair of overlapping log in and registration,
  with the same or another e-mail; a third request adds no new pair. Two object names
  let one registration end and another start, or a picture change race either. Where a
  property is proved (4), it holds for any number.
- Two page instances are what the shared spinner needs: an answer to a page that has
  gone, over the next.
- Two stacked review pages with listeners of different users need one change of user
  in between; two changes return to the first user.
- Two requests with answers of different lengths let a row index be inside the rows
  and outside the data and the other way round, and an empty answer end in the banner. `MaxWork`
  bounds the sum of requests, blocks and animations. Two cells and two loads let one cell wait for
  its row's poster while the other is reused with its first poster still on the way.
- Nine pages are a list and four rounds of detail and review; the shapes repeat after two.
- Three writes and a pipeline of two let a write wait outside the full pipeline. A trouble is a change of
  user, a token that fails, a broken call, an outage, a change of connectivity, a refused handshake, a wait or a
  restart: two of them give every pair, so that one meets the other half way. Enabling the network again, the
  idle timer and the refusal of a write cost nothing.

- One query and two documents let one document leave the result while the other stays, which is what a count and a
  limbo document need; two versions give a token older than the data; two requests a listen dropped before its answer and made
  anew. The trouble is a failed call, an idle timeout, a change of connectivity or a kill. Documents match the query or do not exist
  at first; later they may also exist without matching. Instances with one document and three versions, or one document and two
  troubles, have been checked too, without error.

`MaxReviews`, `MaxDepth`, `world`'s counts, `MaxWork`, `MaxPages`, `MaxWrites`, `MaxVersion`, `MaxRequests`,
`Attempts` and `MaxTrouble` are bounds of the models, not of the code; `Limit` is `kMaxPendingWrites`, 10 in the code, `MaxResolutions`
is `kMaxConcurrentLimboResolutions`, 100 in the code, and `MaxFailures` is `kMaxWatchStreamFailures`, 1 in both. Symmetry is used only in runs without liveness,
over sets whose members the definitions never distinguish; `writes` starts with one user logged in instead. Deadlock
is checked except where the system stops by itself (`trapped`, an exception on a path, every write
answered) or names run out under a bound.

Fairness. `Session`: every call to the SDK is answered, at worst by its timeout;
nothing is assumed of the user, and not that a queued Firestore write is ever
acknowledged. `Reviews`: Firestore delivers a snapshot to a listener that has one
coming; no assumption on the server. `ResultList`: UIKit's animations end. `WritePipeline`: one weak fairness over the
queues' blocks, what the call brings, the backoff timer, Auth's answers and the backend's: some of these is
run while there is any, as serial queues do. Nothing is assumed of the app, the user or the network; the
troubles are finite by `MaxTrouble`, without which a call may break for ever.
`WatchTargets`: the stream's opening and its backoff timer are run, and the backend sends what it has to send. The timer of the
online state, changes of the data and the user are not assumed. The invariants of types of `Navigation` and `Profile` are proved (4)
and not run.

## 4. What is proved

TLAPS checks these for every value of the constants, from the named assumptions of the
modules (`NoUser` is no user, `NoBlob` no object, `None` no document of the backend or the cache, `Limit` is positive,
finitely many users have a queue in LevelDB, and the like).

**Session** (`ProfileProofs`). The inductive invariant `IInv` adds to `TypeOK` and
`DocImageStored`:
`NoFormUncovered` (without a cover no request has a live form: a callback then dismisses
nothing), `LiveIsLoggedIn` (a live request that has logged somebody in means somebody is
logged in: log out needs the cover gone), `PictureIsStored` (past `downloadURL` the
picture is there; without it the write of a document could not be shown to name one),
`CreatedOnce` (between creation and callback one request only is about to write), and
`DocHasAccount`, `QueuedIsVisible` (a queued write is visible and in one queue, so a
refusal brings an account from `local` to `broken` and never from `saved`).
From it: `Invariance`, `TypeCorrect`, `DocImageIsStored`, `CoverLeavesForAReason` (action
property) and `ImplementsAccountLife` (initial states map to initial states, each action
to a move of each account or a stutter).

**Profile** (`ProfileProofs`). `PInv` adds that queued edits name stored pictures and that
a loaded page is uncovered. The steps of `Session` keep their proofs; the page's own steps
change `named`, `stored` or one document and have lemmas for these. Results:
`ProfileInvariance`, `ProfileTypeCorrect`, `LoadedPagesAreUncovered`,
`EditedDocImageIsStored`, `CoverLeavesForAReasonWithPage`, `ProfileImplementsAccountLife`,
`SpinnerLiftsOnlyForAProfile`.

**Search and ResultList** (`ResultListProofs`). For the tab by itself: `RowsSettle` and the action
property `TapsAreSound`: when no block waits, rows and data are equal, so an index of one is an index of
the other. For the tab with its cells `ListInv` adds that the data is a list of movies, that every cell on
screen was filled from the data as it is when no block waits (it has to be taken off screen by the reload, or
a cell filled before the answer would outlive it), that a load was started for one cell, and that what a cell waits for
is its row's poster, unless the row has none. Results: `ListInvariant`, `CellsAreTheirRows`,
`PostersAreTheRows`, `CellsTypeCorrect`, `ListTapsAreSound`.

**Navigation** (`ScreensProofs`). `NInv` describes each stack by itself (`StackOK`: the list, then one
profile page alone, or pages of one movie with each review on a wired detail page) and how
tab and modal screen fit: a card lies over the page that opened it (needed for the log out: its
sheet is over a profile page), the profile page is on top of the selected tab, and the first tab
holds no movie page. The last is what makes `CoverIsOverARoot` inductive: a log out on the
search tab may select the first tab, which must be at its list. Every step puts a tab back to
its list, pushes a page, pops a movie page, or leaves the stacks; the proof has one lemma for
each. Results: `NavigationInvariance`, `NavigationTypeCorrect`, `ProfileStaysOnScreen`,
`CoverStaysOverARoot`, `ReviewsStayOnTheirMovie`.

**Screens** (`ScreensProofs`). `ScreensInv` joins `NInv` to an invariant of the forms: the view model is what the fields hold
(`ModelIsTheTexts`), a view is up by its own shift only while its form is open and a field has the keyboard (`ViewsFit`, which covers
the login form moved by the other form's keyboard), and the cover is there just while its forms are. Results: `ScreensInvariance`,
`FormsComeBack`, `ButtonsFollowTexts`, and `ScreensKeepThePages`: the composition implements `Navigation`, so its
properties hold of it too.

**Finite sets** (`FiniteSetInduction`). Lemmas the proofs below rest on, about no part of the code. The library's induction theorems take an operator, which the provers cannot instantiate;
over a finite set the induction can be stated over a family of its subsets instead (`FiniteStrongInduction`, from the
well-foundedness of the strict subset relation). From it: a finite set of numbers has a greatest one, which the next batch
id is drawn from, and a finite set in a linear order has one enumeration and only one (`EnumerationExists`, `EnumerationIsUnique`),
and enumerations of an earlier and a later part join (`EnumerationsJoin`).

**Reviews** (`ReviewsProofs`). `RInv` holds in every world: the types, nothing left of a page that is gone, and
each placeholder on its own text. In a quiet world `QuietInv` says why appending is enough: only the logged-in user's
queue holds anything and the cache is the server's (`OneQueue`), so that neither an acknowledgement nor a change of user changes
what is held; stamps are drawn by a clock that only goes on (`StampsAreOld`), so what joins the
held reviews is later than all of them; hence what a page has reported is a first part of what is held,
and its list is the enumeration of that part (`PageIsAPrefix`). Results: `HintsAreRight` and the action property `ListsAddOnlyNew` for every
world, `QuietReviews` and `ListsFollowTheQuery` for the quiet ones.

**Streams** (`WritePipelineProofs`). That an open call is the current user's (`CredIsUser`) is far from inductive: it
depends on what is on two queues. `LifeInv` follows each notice and each token. The last "changed" block of the main
queue, or `current` if there is none, is Auth's user; the last "credential" block of the worker queue,
or `user`, is the provider's (`Ends`); every task and every token on the worker queue is of the user that
the credential blocks before it lead to (`InOrder`); a token with the counter of now is of the provider's user,
since a notice in between would have raised the counter or still be waiting in front of it; and one request at
most carries the close count of now, none a later one, which is what `close_count_` is for. Results:
`LifeInvariant`, `StreamIsTheUsers`, `TasksInOrder`, `ResumeAssertionHolds`, for any owner of the stream.

**Write pipeline** (`WritePipelineProofs`). Each action is shown to be a step of `StreamLife`
(`PipelineIsStreamOwner`), so that `LifeInv` holds of it without being proved again. `PipeInv` adds that a
user's queue, and the pipeline, hold batches of that user, that the pipeline is empty while the network is off, and
that the call carries the handshake or the pipeline in order (`Fits`); the operators on the write side have a lemma each,
and the actions compose them. Results: `PipeInvariant`, `AnswersAreForTheHead`, `WritesTravelAsTheirUser`,
`WriteStreamIsTheUsers`, for any number of users, writes and failures and any limit.

**Write queue** (`WritePipelineProofs`). That the pipeline is a first part of the queue (`PipelineIsQueuePrefix`) is inductive only with
the order of the batches: ids of a queue increase and are below the next one (`IdsOK`; after a change of user or a
relaunch the next one is drawn above all stored ones), so that what is filled in after the last batch of the pipeline is the
queue's next. `WriteInv` adds to `PipeInv` what hangs on these ids: a callback's batch is still queued (`CallbacksOK`), a waiter's writes
are answered or queued up to its batch (`WaitersOK`), an answer still to be read is about a stored write (`AnswersOK`), the
idle timer runs only over an empty pipeline, and writes are made once each (`FreshOK`: those on the worker queue are new to
everything else). An answer then removes the head of the queue it is about. Results: `WriteInvariant`, `PipelineTypes`,
`PipelineBeginsQueue`, `CallbackMeetsItsBatch`, `AnsweredIsStored`, `WaiterNotToldEarly`, `IdleTimerIsSafe`, `GivesUpOnlySent`, and the
refinement `PipelineImplementsQueue`.

**Watch side** (`WatchProofs`, `WatchResultProofs`). `ConnectionInv` joins to `OnlineStateSound` the types of what its argument uses. Each function of the
tracker has a lemma; an action is shown from the lemmas of those it calls. Two points carry it: the timer
is armed only for a first attempt, and every function that ends an attempt disarms it or starts another; and an event never makes a view
current while Offline, because the message that completes it has made the state Online (`HeardStep`, `EventViews`), while
a change to Offline strikes the views in the same task. Result: `OnlineStateAlwaysSound`, for any number of queries, documents, versions
and troubles and any limit on failures.

`WatchInv` is about the targets. For each target (`TargetSound`) the outstanding responses are the requests on their way, which is why a
target that hears hears only of its latest listen; what is collected for it fits `RemoteKeys`, and nothing is left of an event
taken, so that the keys may move to what the event told. For the lookups (`ClientCore`, `Lookups`) each is of its document, is what `active` says, is
in some view's limbo, and has one request on its way at most, so that an answer or a refusal is its own. Without a call the aggregator is new
(`Unheard`). The functions of the aggregator share one relation (`Heard`: the deaf targets stay, the others stay fitting), and the
client's loops over sequences are unfolded turn by turn (`Turns`, `FoldExists`), each with what a turn keeps: `Tracked` says, of the loops that move documents
in and out of limbo, that no document enters limbo without its lookup and that a fresh id is left for each. Results:
`WatchInvariance`, `WatchTypes`, `WatchChangesFit`, `WatchLooksUpLimbo`, for any queries, versions, requests and troubles. They assume `FewKeys`: no more documents
than lookups at a time (100 in the code). It is needed: see the queue of lookups in 6.

`ResultInv` (`WatchResultProofs`) is about the results: that a synced view is the backend's result says nothing of the messages, so what was sent of each target is
followed from the backend's session into what is collected, the cache and the view. The backend's documents have the versions they changed in (`Dated`);
a cached document is not from after the last snapshot, and is the backend's or older (`CacheTrue`); one collected is not from before it (`PendingTrue`),
or taking it could turn the cache back. No token, of RemoteStore, a view, the disk or a lookup, is ahead of the last snapshot, and the cache is
not behind what a query matched at its token (`GoodToken`), which is why a listen may be resumed there; a lookup with a
token at which its document was there has received it (`LimboToken`). While the stream is open, for each query that hears (`QueryTrue`): its keys with what is collected
hold all that was sent, and nothing else once the backend has no removal left to send (`Complete`); a document that was sent as it is now is in the cache or
collected (`Arriving`); and what the cache has of the result is shown (`Showing`). A count that does not match excuses the target
(`Miscounted`) until it is listened to anew. At a snapshot all has been sent, so `Complete` and `Arriving` turn into `ViewTrue`: a view current at the last
snapshot has the result as its keys, and shows it from a cache that has its data. A step either leaves history and cache alone and moves
one target (lemmas for listens, answers, documents and counts), changes a document, raises a snapshot (the event, the cache, the views and
the lookups in turn), or is a refusal, whose views are flawed. Result: `SyncedAlwaysTheResult`, under `FewKeys` too, since a
lookup without a target would leave a limbo document unresolved in a way that `WatchInv` does not describe.

**Model-checked only.** Liveness (`AttemptsEnd`, `VisibleIsListed`, `BannerLeaves`, `QueueDrains`, `EventuallySynced`), which the
proof system's backends do not reach with fairness. `MovieTitle`, whose split of a title is a fold. Every other safety property of a
passing run is stated by a theorem.

## 5. Abstractions

- A document's content is the picture it names; a password, a nickname and a text are left out.
- In `Session` and `Reviews`, `docs` and `Visible` show the effect of a write at once (latency compensation) and a
  refusal reverts it; mutation queues are swapped with the user (`sync_engine.cc` 244-260, 358-379).
- Snapshots are coalesced: `Deliver` may report several changes at once, and one at a time.
- Listeners of pages already popped are left out: nobody sees their lists.
- The photo picker, the log out sheet and the link are cards or sheets: the page under them does not
  disappear. The login cover is full-screen: it does.
- How `stringChange` cleans a title for display is left out: nothing but labels depends on it.
- A crash, a `fatalError` and a kill by the system are the same `Restart`.
- `present` from `viewDidLoad` of the first screen is assumed to succeed.
- A profile page that is swiped away, or whose swipe is given up half-way, either goes or stays.
- In `Forms` a text is there or not; a field that leaves the window resigns. Return in the password
  field and the log in button ask for a log in, which is `Session`'s, and leave the form as it is.
- In `Posters` an image in Kingfisher's memory cache is a load answered at once. Kingfisher 5.15 is a Swift
  package, not in the repository: what is modelled of it is how its loads are identified.
- In `WritePipeline` a batch is its id, its write and the user it was made by; stream tokens, the effect of a write on
  the local cache and transactions are left out. A write on a call that the backend has ended may make gRPC
  drop answers not read yet (`grpc_stream.cc` 313); the model reads every answer before the status. The backend stores some
  prefix of what it was sent when a call is cut off, at once, although it may do so later. A call that the backend itself ends
  with status OK is left out; `OnWriteStreamClose` takes OK for a stop of its own and asserts that no write waits (`remote_store.cc` 453-458).
- When the process starts, the user of Auth, of the credentials provider and of the worker queue are the same (`LifeInit`, `Restarts`). Auth loads
  its user asynchronously (`FIRAuth.m` 498-521); the app reads `currentUser`, which waits for that on Auth's queue,
  before it uses Firestore (`MainViewController.swift` 45).
- In `WatchTargets` a message of the backend is read when it is sent; one sent earlier tells an earlier version, of which
  the backend cannot have sent more. The backend completes a snapshot only when every target is current and has all its news,
  with a token for all; a count is sent to current targets only, as the comment of `HandleExistenceFilter` presumes. The refusal of a
  query, `RESET` messages, limits, queries ordered by more than the key, local mutations, `EnableNetwork` and
  `DisableNetwork`, bundles and the collection of cache garbage are left out. A lookup is refused as the answer to its listen, not later. A document's data is the set of queries it matches.
- The limit on lookups (100) is not reached in the run.
- The watch stream shares Auth, queues and user with the write stream; `StreamLife` speaks of either by itself.
- Third-party facts are taken from the Pods sources quoted in the modules and are
  marked external where the app's code has no line for them.

## 6. Where the code disagrees with what it says

- `profile_shown`: a log in still in flight when the cover left is answered under an open profile page; the page goes on showing the user it
  asked for. `API/Service.swift` 13: "Firebase에서 로그인한 User 정보 가져오기".
- `reviews_ghost`: only `.added` changes are handled (`API/Service.swift` 77), so a review the server
  refuses stays listed. Line 67: "Firebase에서 영화 리뷰한 데이터 가져오기".
- `reviews_lost`: without a user `uploadReview` returns before it writes, the page clears
  the text. Line 56: "Firebase에 영화 리뷰 저장하기".
- `movie_title`: a title with one matched word has one slash more, hence a path of even length, on
  which Firestore raises ("Collection references must have an odd number of segments").
- `watch_empty`: after a count that does not match, `RemoteStore` drops the target's token and listens anew, but
  `LocalStore` has stored the token of the same snapshot with a target emptied of its keys (`local_store.cc` 280). A listener removed
  before the answer and attached again resumes from that token: the backend sends nothing, no cached document is read, and an
  empty result is shown as synced. `FIRSnapshotMetadata.h` 38-41: "Returns YES if the snapshot was created from
  cached data rather than guaranteed up-to-date server data".

Also visible in the models, without a line that says otherwise: the cover is dismissed after a
failed registration, an account without a profile document never gets one, and its owner
cannot reach the log out, because the spinner is never lifted for it; a result without a poster, in a
reused cell, receives the poster of the cell's former row when that arrives late; of two pictures picked one after
the other the one uploaded last wins, and of two searches the one answered last; an empty
review can be sent; return in the password field asks for a log in while the button is disabled. In Firestore: the refusal of
a lookup deletes the document from the cache whoever else has it (`HandleRejectedListen`, `sync_engine.cc` 302-340), so that a query whose keys hold it, or that resumes
from a token at which it was in the result, is synced without it, since the backend has no reason to send it again (two queries over one document, a path of 16 steps: it came up when
`SyncedIsTheResult`, then stated with `misled` alone, was to be proved; hence `flawed`); a document that
leaves limbo while it waits for its turn stays in `enqueued_limbo_resolutions_` (`sync_engine.cc` 557) and is looked up later for
nobody; when a lookup is refused, `HandleRejectedListen` (`sync_engine.cc` 302-340) forgets it and `UpdateLimboDocuments` (`view.cc` 375-406) leaves the limbo of
a view that is not current as it is, so that the document, should another query bring it back, is in the limbo of the first view, once that is
current, without being looked up again (this takes two queries, one resumed from other keys than it has; it came up when the
invariant was to be proved, and TLC confirms it along a path of 38 steps; hence the form of `LimboIsLookedUp`, which speaks of entering limbo); a stop while the stream is starting clears the timer of the online state, and the next listen, finding the stream started,
does not arm it again.

## 7. Not modelled

- The main list's paging: one placeholder cell, the arithmetic always gives page 0.
- Views and layout: no behaviour (a reused cell's title piles up constraints, which changes nothing but its layout).
- Code outside the app target.
- The listeners that nobody removes (`API/Service.swift` 75 drops the registration): they go on receiving for pages
  that are gone, and nothing shows what they receive.
- Pods other than Firestore's write path and watch side. What the models need of them is stated as external definitions.

## 8. Plan

Done, in the order of importance: `Session` with `AccountLife`, `Profile`, `Reviews`, `Search`, `MovieTitle`,
`Navigation`, `Posters`, `Forms`; the write path with its two abstract specifications; search and cells composed; pages and
forms composed; the watch side; and the proofs above. Next:

1. The watch side with local mutations, which puts `WritePipeline`'s queue under the views; `Reviews`' `Sync` and `Deliver`, its
   `pending`, `Ack` and `Reject` are uses of the two.
2. `App`: `Session`, `Profile`, `Reviews` and `Screens` composed, with the cover, the page on screen and the
   depth of review pages as one state. The violation runs `profile_shown` and `reviews_lost` then start from the taps that lead there.
3. `WatchTargets` with a limit on lookups that is reached, so that the queue of lookups has a property.
4. `WatchLooksUpLimbo` and `SyncedAlwaysTheResult` without `FewKeys`, for a queue of lookups as 3 has it.
