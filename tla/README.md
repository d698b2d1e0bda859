# SpotiFriend in TLA+

SpotiFriend is an iOS app: users see pins on a map, each pin is a Spotify
playlist left at a place, and a user who goes there "finds" it. The app has no
server of its own. Every screen talks to Firebase directly: Auth for accounts,
Firestore for the documents, Storage for the profile pictures. All the logic is
in about 1,500 lines of Swift (`src/SpotiFriend/SpotiFriend/`), mostly nested
completion handlers; there are no tests. The rest of `src/` is vendored
libraries (`Pods/`).

The modules here model that Swift code with the parts of Firebase it depends on,
and, below it, the two parts of the vendored Firestore client that all of it rests on:
how a write gets from the app to the backend, and how a query gets its answer, C++ code
that the app is compiled with. TLC checks small instances, and TLAPS proves for all instances the main facts
about finding and adding playlists, the pins and the deletion of old ones, accounts, profile pictures, the write path and the read path.

Paths below are relative to `src/SpotiFriend/SpotiFriend/`; `map`, `addPlaylist`,
... stand for `view Controllers/mapVC.swift`, `view Controllers/addPlaylistVC.swift`, ...
Files `*.cc`, `*.mm` are under `src/SpotiFriend/Pods/FirebaseFirestore/Firestore/core/src/`.

## 1. The system

| Component | State | Operations |
|---|---|---|
| User session, `Models/UserSingleton.swift` | the signed-in user (Auth's, persistent), the singleton `sharedUserInfo` with email, username, picture URL, radius and two counts (in memory) | `logIn`, `signUp`, `profile.logOutClicked`, `SceneDelegate` on a start of the app, `map.viewWillAppear` → `getUserInfo`: clear the singleton, query `userInfo`, fill the singleton in the callback |
| Finding playlists (`map`) | `hasFound` of each playlist document, `totalPlaylistsFound` of each user's document | the tap on a callout: `checkMasterPlaylists`, `checkUserPlaylists`, each a chain query → write → query → write → change of the singleton |
| Adding a playlist (`addPlaylist`) | documents of `userPlaylists`, `totalPlaylistsCreated` | `addPlaylistClicked`: `addDocument`, and beside it query → write → change of the singleton → segue to the map |
| Profile and picture (`profile`) | `profilePicURL`, files in Storage | `storeProfilePic`: upload → URL → deletion of the old file, and beside it query → write → change of the singleton |
| Accounts (`signUp`, `logIn`, `editAccount`, `settings`) | Auth's record and the `userInfo` document of each account | sign up, log in, `updateClicked` for email, password and username, `deleteAccountClicked` |
| Pins (`map`, `settings`) | annotations on the map, `radius` | `addStaticAnnotations`, `addUserAnnotations` with the expiry after seven days, `viewFor`, `updateMapRadiusClicked` |
| Firestore client, writes (vendored) | worker queue; mutation queue of each account (on disk), closures waiting for writes; write pipeline, write stream with its state, close count, timers and gRPC call; credentials | `addDocument`, `setData(merge:)`, `delete` → `SyncEngine::WriteMutations` → `RemoteStore::FillWritePipeline` → `Stream`; results, errors and changes of account the other way |
| Firestore client, reads (vendored) | the same worker queue; listeners and views of each query; online state and its timer; targets with their resume tokens and the documents (on disk); watch stream, its gRPC call, and what has come over it since the last global snapshot | `getDocuments` → `EventManager::AddQueryListener` → `SyncEngine::Listen` → `RemoteStore::Listen`; watch changes → `WatchChangeAggregator` → `LocalStore::ApplyRemoteEvent` → `View` → `QueryListener`, and the removal of the listener after its first snapshot |
| App start, tab bar | none | |

The app's components interact in two ways only: through the documents in Firestore, which
several phones write, and through the singleton, which the callbacks of one phone
read and write. Nothing is ever awaited: an operation returns as soon as its first
request is sent, the screens stay usable, and callbacks run on the main queue
one at a time, in whatever state they find the app.

What is hard about it:

* **Read, then write what was computed from it.** `hasFound` is read, extended and
  written as a whole; counts are taken from the singleton, written, and the
  singleton bumped only when the write completes. Other callbacks, taps and phones
  come in between.
* **Late callbacks.** An answer to a query of one session or appearance of the map
  arrives in another, and fills the singleton without looking.
* **Partial failure.** Each chain can end at each link, by an error or by the end
  of the app; there is no transaction anywhere.
* **Restarts.** Unsent writes survive them, the closures waiting for the writes do
  not (`SyncEngine::NotifyUser`: "Mutations restored from persistence won't have
  callbacks"), nor does the singleton.
* **Lost acknowledgements.** A write that was applied may be sent, and applied,
  again, after the writes of others.
* **Responses without names.** The backend's answer to a write says nothing of which
  write it answers (`remote/remote_store.h:296`: "purely based on order"), on a
  stream that is closed and opened again at any time.
* **Answers to a question asked before.** A target keeps its id from one listen to the next, and
  responses to the last one may still be coming when the next is sent; they are told apart by
  counting acknowledgements (`remote/remote_event.cc`).
* **Two records of one thing.** A resume token on disk says which changes the cached documents
  have; one that is ahead of them makes the backend leave some out for good.
* **Accounts change under the client.** Writes of several accounts are on disk, tokens
  are fetched asynchronously, and a write must go out under the account that made it.
* **The same fact in two services.** Email and password are in Auth and in
  `userInfo`, a picture is in Storage and linked from `userInfo`; the two are
  changed by separate requests.

What makes each component correct:

* *Finding*: no list names a finder twice or loses one; the number of playlists a
  user has found is the number of lists that name them, and is what the profile
  shows; a tap is followed through to the end.
* *Adding*: a playlist names its author and is counted once.
* *Picture*: the linked picture is in Storage, and nothing else is.
* *Accounts*: Auth and `userInfo` agree; a deleted account has no document.
* *Pins*: a pin per playlist within the radius, none of an expired playlist.
* *Write path*: writes of an account are applied in their order, under that account,
  none is forgotten, each closure hears of its own write, and everything is sent in the end.
* *Read path*: each get is answered once, with data that was right at some time and, where it is said to
  be synchronised, at no time before the call; no get is forgotten.

Much of this does *not* hold in every behaviour of the code. The modules therefore
state for each component what holds always, and the conditions (in the modules
`Patient...`) under which the rest holds.

## 2. Modules

```
                 Session, WriteQueue                               Accounts
    ___________________|_____________________________________          |
    |                  |                 |                  |    PatientAccounts
PlaylistsFound   PlaylistsCreated   ProfilePicture   PlaylistBoard
    |                  |                 |
PatientFinding   PatientCreating    PatientPicture
  (implements FindRegister)

WritePipeline (implements PendingWrites)          OneShotGets

SessionProofs: lemmas about Session and WriteQueue, used by
PlaylistsFoundProofs, PlaylistsCreatedProofs, PlaylistBoardProofs and ProfilePictureProofs;
AccountsProofs, WritePipelineProofs and OneShotGetsProofs stand alone.
PlaylistsFoundProofs (with FindRegister), PlaylistsCreatedProofs, ProfilePictureProofs and AccountsProofs
are also about the Patient modules above.
```

`MCxxx` instantiates `xxx` for TLC.

**Session**: accounts signed in (`auth`) and the singleton (`info`) of every phone,
and the `getUserInfo` queries. Every module that extends it names one of the
singleton's optional fields (`field`), because each operation uses the email and one other. `GetUserInfo`
is `map.getUserInfo`; `SignIn`, `MapAppears`, `SignOut`, `Relaunch` are the ways to get
there and away. A load has three steps (sent, answered, arrived), since what the
callback does depends on the time of the answer and on the time it runs.

**WriteQueue**: two operators for Firestore's queue of pending writes: what a query
of the same phone sees through it, and what a restart leaves of it.

**PlaylistsFound**: `Tap` is `calloutAccessoryControlTapped`; `CheckArrives` the
callback of either `check...Playlists` query; `CommitMark` the `hasFound` write with
its completion, which sends the next query; `TallyArrives` that query's callback;
`CommitCount` the count write with its completion. Each has its error branch
(`CheckFails`, `RejectMark`, ...). Queues of writes are per phone, per signed-in
account and per document, as the client's are; a write is applied only while its
account is signed in. `finds` and `recorded` are history variables.

**PlaylistsCreated**: `Click`, the two requests it sends, and their callbacks. The
completion of the count write clears and reloads the singleton because it shows the map.

**ProfilePicture**: `Pick` is the upload, `PutDone` and `UrlArrives` its two callbacks,
`EraseDone` Storage's deletion, `LookupArrives` and `CommitLink` the rest of the chain.
A picture stands both for its file and for its URL. `used` (names taken so far)
and `taken` (pictures that Storage has taken) are history variables.

**PlaylistBoard**: the pins. `UpdateAnnotations` removes them and sends the two queries
(`AddAnnotations`), on the reload button or a new location (`ReloadClicked`, `LocationUpdates`);
a new map view (`OpenMap`) has none to remove. `AnswerBoard` and `BoardArrives` are a query's answer and its
callback, which adds pins by the radius and the location of *that* moment and queues the deletion of
what is too old. `UpdateMapRadiusClicked`, `EditArrives` and `CommitRadius` are the edit of the radius, with
both readings of the text field. `calm` is a history variable: true while nothing that the
last reload depends on has changed. Choices made here: documents have a pin's fields (`"pin"`) or `hasFound` alone
or nothing; a new playlist appears on the server at once (a document that is still queued has no date,
hence no pin); age is one event, `Expire`, on a clock all phones agree on; finding (PlaylistsFound)
appears as the write of `hasFound` it makes, and only for user playlists, since nothing deletes master playlists.

**Accounts**: self-contained, because here the email of an account, which identifies the user in the
other modules, changes. `calls` are requests to Auth, `queries` and `writes` those
to Firestore; `CallReturns` and `QueryReturns` dispatch on the operation they belong
to. A callback that reads a text field again takes what the field had at the click, or,
for the operations in the constant `Retypes`, anything (`Reread`).

**PatientFinding, PatientCreating, PatientPicture, PatientAccounts** restrict the
next-state relation of the module they extend: users act only when nothing is
outstanding, on a phone of their own, and no request fails. The
variable `patient` is chosen at the start and says which of the two
relations a history follows (`Histories`), so that one run checks both kinds; what is claimed of patient
histories only has `patient` for a premise. `HastyTaps`, `HastyLoads` and `HastyClicks` bound the
histories of the other kind. `DeletingSpec` of PatientAccounts has patient histories with
the deletion of accounts.

**FindRegister** is the abstract specification of finding: who has found what, and how many of
a user's finds are counted. PatientFinding implements it, with `found` read off the `hasFound` lists and `counted` off
`totalPlaylistsFound`; a resent write, a query or a callback is a stutter.

**WritePipeline** is the client's write path. `Issue` puts a write on the worker queue
(`tasks`), `RunWrite` stores it as a batch and keeps its closure, `FillWritePipeline` moves batches
into the pipeline and out on the stream. `remote` is one record for RemoteStore, its write stream and
that stream's gRPC call, because closing the stream touches all three: `out` and `in` are the messages on their way
to and from the backend. `ReadHandshake` and `ReadResult` are the stream's
responses, `StreamFails` and `WriteRejected` the two ways a failed call is handled, `IdleTimerFires` and
`BackoffElapses` the timers. `AuthChanges` is Firebase Auth's notification (sign-in, sign-out, a refreshed token),
`RunCredential` what the worker queue makes of it; `TokenAnswered` and `RunToken` are a token request's answer and
the moment the stream sees it. `Serve`, `Refuse` and `CallBreaks` are the backend and the connection.
`Restart` kills and starts the app; the worker queue, the closures and the call are gone, the mutation queues stay.
`issuer`, `ends`, `refused`, `lost`, `failures` and `restarts` are history variables.
Each handler runs on the worker queue to its end, so it is one action; app and Auth
operations keep their order (`AsyncQueue` is first in, first out), while gRPC completions and timers may fall anywhere
between them. When a call has ended, unread responses are still there if a read finds out first, and are dropped if a write does
(`CallOver`, `GrpcStream::FinishGrpcCall`).
Choices: a token notification and its enqueueing are one step (they are under one lock in
`firebase_credentials_provider_apple.mm`); the backend has finished with the messages of a dropped call before it reads those of the
next; it does not end a call with status OK while writes are pending; which writes it refuses is left open.

**PendingWrites** is the promise the app modules rely on: writes of an account are pending in their order, applied only
after those before them and only while pending, and resolved from the front, an acknowledged one after it was applied. WritePipeline
implements it, with the queues on disk for what is pending. The app modules resend the front of a queue only; by
WritePipeline a whole window may be applied again (1, 2, 1, 2), which ends in the same documents since a write sets fields to values.

**OneShotGets** is the client's read path. `Ask` is `getDocuments`, which puts a listen on the worker queue;
`RunListen` is `EventManager::AddQueryListener` with all it calls (a view over the cache if the query has none, and the target's
watch request, or the start of the stream); `Deliver` is the main queue running the listener of `Query::GetDocuments`, whose
first snapshot answers the get and queues the removal, `RunUnlisten`. `stream` is one record for RemoteStore, the watch stream, its
call and the aggregator, since they are closed together: `held` has the tokens in memory, `targets` and `docs` are the
aggregator's, `out` and `in` the messages on their way, `served`, `due` and `at` what the backend knows of the call.
`ReadAck`, `ReadDocs`, `ReadCurrent` and `ReadSnapshot` are the watch changes; only a global snapshot changes the cache, the tokens and the
views, and one that is older than the last does nothing. `StreamFails`, `TokenFails`, `BackoffElapses`, `IdleTimerFires`,
`OnlineTimerFires` and `RunCredential` are the ways the stream ends and starts again, with what each means for the online state:
offline, a get is answered from the cache. `Serve`, `SendDocs`, `SendCurrent` and `SendSnapshot` are the backend. The data is the
number of changes so far, and what a client has of a query is a set of changes, so that
a missed one shows. `floor`, `hasty` and `gone` are history variables: the version a get may not be older than, the gets whose
target was watched again before its unwatch was acknowledged, and those that a restart ended.
Choices: every change concerns every query; a snapshot the backend sends may be older than a
target it has only just added, as long as it has not said that the target is current; tokens that come without documents
are stored or not (the code goes by a time of five minutes); a dropped call takes everything in flight with it.
Left out: what the app's own writes do to a view (the overlay is in WriteQueue), limbo documents and existence
filters, listens the backend refuses, the eviction of cached documents, the query engine's choice between a full and an
incremental query, and calls the backend ends with status OK.

### How Firebase is modelled

* Each query is answered at some moment with the server's documents, overlaid
  with the phone's own pending writes (`LocalDocumentsView`), and its callback
  runs at some later moment. Two callbacks of one phone may run in the other order
  than their answers came. The client's main queue is first in, first out, so the model
  has behaviours the client does not have; what holds of the model holds of the client.
  Neither of the two counterexamples of the app modules needs one.
* Each write is applied in the order it was queued per document, an acknowledgement reaches
  the phone or is lost (and the write applied again), or the write is rejected for good.
  The order across documents is left open (PlaylistsFound, PlaylistsCreated,
  ProfilePicture) or kept (Accounts, where it matters).
* A completion runs in the step that delivers the acknowledgement.
* `Accepts` in Accounts is what Auth requires: unused email, right password, an
  account that exists. Any request may also fail for no reason the app can see.

## 3. Runs

Passing runs. All check interleavings of every enabled step, the phone's and the backend's.

| Run | What it shows |
|---|---|
| `found` | All histories of two phones, two accounts, one playlist, two taps and two appearances of the map, with all failures, lost acknowledgements and restarts: types; no duplicate in a list (`NoDuplicateFinders`); nobody is looked up or counted for a playlist whose document never had them (`CountOnlyAfterRecorded`); no count, stored or shown, exceeds twice the number of finds (`CountBounded`). The factor two is real: a late load can bring in the stored number before the completion bumps it once more. Patient histories of three users, two of them on one phone, two playlists at two places and four taps, with lost acknowledgements: lists and stored numbers implement the abstract register of `FindRegister` step by step, so no finder is lost and no find counted early, twice or after the next one (`ImplementsRegister`); when nothing is outstanding, the stored number is the number of lists that name the user (`EachFindAddsOne`) and the singleton is the current user's (`ProfileIsCurrent`). |
| `found_live` | One phone, two accounts, a master and a user playlist on one spot: if an account stays signed in, every request and queued write of the phone is eventually done (`Drains`). |
| `created` | All histories of two phones and two clicks: types, and `CreatedBounded`, as `CountBounded`. Patient histories of three users and four clicks: each stored playlist is counted once (`EachAddAddsOne`). That it names who clicked (`AuthorIsClicker`) is proved rather than run. |
| `picture` | All histories of two phones and two pictures, with failures and restarts: no profile, queued write or singleton ever names a picture that Storage has not taken, nor one whose upload failed or was cut off before that (`LinkedAfterStored`, with the history variable `taken`); a picture still on its way to a profile is not being deleted (`NeverErasesUnlinked`). Patient histories of three users and three pictures: when nothing is outstanding, Storage holds exactly the linked pictures (`StorageMatchesProfiles`). |
| `board_safety` | Two phones, a master playlist out of every radius, a user playlist within the initial one only, with sessions, finds, expiry, failures and restarts; edits of the radius with one phone in use: types; a reload that starts alone, and during which nothing changes that it depends on, ends with exactly one pin for every playlist that ought to have one (`MapIsRight`); a document is deleted only if it is too old, however old the answer that says so (`OnlyExpiredDeleted`); a document without coordinates is one of an expired playlist (`NoCurrentGhost`). |
| `accounts` | All histories of two phones, two accounts and three actions, with failures and restarts: types, and no document has an email or password that Auth never had (`NeverAheadOfAuth`), as long as users leave those two fields alone while a request is on its way. Patient histories of five actions (sign up, log in and out, edits, returns to the map): when nothing is outstanding, documents agree with Auth (`MatchesAuth`) and the singleton with the document (`SingletonMatches`). |
| `pipeline` | Three writes and a pipeline of two, two accounts, two upsets (a change of account or token, a broken call or refused token, a restart), any refusals: what the backend has answered and has not is together the pipeline (`RepliesMatchPipeline`); a write is applied under the account that issued it (`RightAccount`), after the older ones of its queue (`AppliedInOrder`), and once acknowledged nothing older follows (`AcknowledgedIsLatest`), so that when nothing of an account is pending the write applied last for it has ended and no acknowledged one is newer (`SettledIsKnown`; it may have been reported as rejected, see `pipeline_blames_front`); every write is in exactly one place and only a restart loses one, from the worker queue (`NoWriteForgotten`); a closure is told once, and of its own write, although ids are used again (`CompletionsAreRight`); two assertions of the C++ code (`IdleOnlyWhenDone`, `CredentialsAreAwaited`); the client implements PendingWrites (`KeepsPromise`); the current account's writes all reach an end (`Drains`). |
| `gets` | Two gets of one query, while the data changes twice and one thing goes wrong (a broken call, a failed token request, a change of credentials, a restart): no callback runs twice, although its listener goes on raising snapshots until it is removed (`AnsweredOnce`); what it is given is the data of some moment, never a mix, and what is given as synchronised is not older than the call, except in the case of `gets_current` (`AnswersAreRight`); assertions of the C++ code, and that the requests counted as pending are those whose acknowledgement has not been read (`AssertionsHold`); while a get waits, the client or the backend has something left to do for it (`NoneForgotten`). |

Runs that end in a counterexample: the code does something else than its comments say.

| Run | Comment | What happens |
|---|---|---|
| `found_list_loses` | `mapVC.swift:411` "add emial to list" | Two phones read the same list, each adds its user and writes the list back: the first finder is gone (`NoFinderLost`), though counted. |
| `pipeline_blames_front` | `remote_store.cc:494` "the request itself was the problem" | Three writes are on their way. The backend applies and acknowledges the first and refuses the second, which ends the call; before the acknowledgement is read, sending the third fails, and the gRPC layer drops what is unread. The client takes the first write for the refused one, tells its closure so, and sends the second again (`RejectedWasRefused`). |
| `gets_current` | `remote_event.cc:158` "We have a freshly added target, so we need to reset any state that we had previously" | A get is answered and stops listening; the same query is asked again before the backend has acknowledged the unwatch. The target's state survives with its current flag, which that reset does not clear, so the next global snapshot, though it is older than the second get, makes the new view current: the get is given old data as server data (`FreshAnswer`). |
| `accounts_orphan` | `settingsVC.swift:97` "update database of users" | The account is deleted and its user signed out before the deletion of the document is sent; it never will be (`NoOrphans`). |

Other things that fall outside the stated conditions, and can be seen by dropping the condition
named: a picture whose link fails after the old one was deleted leaves the profile naming a
deleted picture (add `RejectLink` to `PatientStep`); overlapping reloads show a playlist twice
(`Undisturbed` in `KeepsCalm`); after signing in the first pins are those within 25 miles, whatever the
user's radius (let `KeepsCalm` compare `Visible` without the singleton); a `hasFound` write that comes after the
deletion creates a document with nothing but `hasFound`, which no query by coordinates and no expiry ever
finds again (`NoCurrentGhost` without its conclusion); two clicks on the add button, or two playlists at
the coordinates of one pin, count one instead of two (drop `AllQuiet` from the click;
`LocationOf` constant); a click before `getUserInfo` came back stores a
playlist of nobody (drop `AllQuiet`); a second picture picked while the first is on its way stays in
Storage for good (drop `AllQuiet`); typing on while `updateEmail` is on its way gives the document
another email than Auth (`"email"` in `Retypes`); a username edit that overlaps a deletion creates the
document again with nothing but a username (drop `Settled`); a load of the previous user fills
the singleton of the next (drop `AllQuiet`).

Of the read path: `online_state_tracker.h` has the ten-second timer run for each connection attempt, "including on each backoff
attempt", and `online_state_tracker.cc:45` has it there "rather than waiting indefinitely". But when the last target is given up
while the stream is still starting or backing off, `RemoteStore::StopListening` (`remote_store.cc:168`) sets the state to Unknown,
which stops the timer, and neither the next listen, which finds the stream started, nor the stream's further attempts start it again. A get that
comes then waits for the call to fail, however long that takes. (`NoneForgotten` still holds: the call's end is on its way, and the timer is not in `MustGoOn`.)

### Bounds

| Constant | Values | Why enough |
|---|---|---|
| `Device`, `User` | two phones and two accounts; three accounts, two sharing a phone, in patient histories | the hazards are between two phones or between two sessions of one phone |
| `MaxTaps`, `MaxClicks`, `Picture` | 2 (3 in `accounts`) in histories that are not patient, 3 to 5 in patient ones (`HastyTaps`, `HastyClicks` are the former) | two overlapping chains of requests already interleave in every way; chains that wait for one another need length |
| `MaxLoads`, `HastyLoads` | 2 in histories that are not patient, 4 or 5 in patient ones | one load per session, or one overtaken by the next |
| `Playlist`, `Location` | one playlist where phones compete for it; two, of both collections, where counts add up | |
| `MaxReloads`, `MaxActs` | 2 reloads, 1 tap or edit | two reloads overlap on one phone, or two phones see each other's deletions; taps and edits touch different state |
| `Place`, `Radius`, `Distance` | one place and "no location"; one radius besides the initial one; the user playlist between the two, the master playlist beyond both | each side of both comparisons |
| `EditsAlone` (a constraint) | edits of the radius only while one phone is in use | the radius reaches other phones through `getUserInfo` only, which the session modules cover |
| `MaxPendingWrites`, `MaxWrites` | 2 and 3; 3 and 3 in `pipeline_blames_front` | a full pipeline with a write waiting behind it, several messages in flight each way; the counterexample needs an answered, a refused and an unsent message at once |
| `MaxUpsets` | 2; 0 in `pipeline_blames_front` | an account change during a retry, a restart during an account change, two broken calls. With 3 the run has 2,971,678 states and passes too, in a little over five minutes |
| `Small` (a constraint) | in `found`, `created`, `picture` and `accounts`, the smaller bounds of this table for histories that are not patient: two users, one spot to find, two loads and two clicks or pictures; two emails, one password and one username | the larger ones are for patient histories, where little interleaves |
| `MaxGets`, `MaxCommits`, `MaxUpsets`, `Window` | `gets`: 2 gets, 2 changes, 1 upset, 3 responses on their way; `gets_current`: 2, 1, 0, 3 | the second get shares the view of the first, finds its target still watched, being given up, or gone; one change before it and one after tell old data from new; an acknowledgement, a document and a snapshot are on their way at once |
| `Query` | one | gets of one query share a target, its token and its view, and that is where the hazards are. With one query a global snapshot is trivially consistent across targets; two queries with one change and no upset pass too (529,543 states) |
| `MaxAccounts`, `Email`, ... | two accounts, one more email than accounts in the patient run | an email can be freed and taken again |

Queues need no bound: in the app nothing retries by itself, so they are bounded by taps and clicks, and in the write path
by writes and upsets. Symmetry is used where phones (or emails) can be exchanged: in `found_list_loses`, `picture`, `board_safety` and `accounts`, none of which checks liveness. Deadlock checking is off: users may stop using the app,
and the bounds stop them.

### Fairness

`FairSpec` of PlaylistsFound: the backend answers and acknowledges (a load, check or
lookup that stays outstanding is eventually answered and its callback run; the queue
of a signed-in account moves on). That is the client's retry with backoff and the main queue. Nothing is
assumed of users, of failures or of restarts; an acknowledgement may be lost any finite number of times.

`FairSpec` of WritePipeline justifies the retrying part of that: the worker queue runs what it is given, the backoff timer fires,
token requests and calls are answered or end, responses that have come are read, and a backend with a message serves or refuses it.
Nothing is assumed of the app, of accounts, of the idle timer or of failures, which are finitely many by `MaxUpsets`; without
a bound on failures no write need ever arrive.

OneShotGets states no fairness. That no get is forgotten is the invariant `NoneForgotten`: what is enabled while one waits is always
a step the worker queue, the main queue, gRPC or the backend will take, not one that depends on the app, on a failure or on a timer.

## 4. Proofs

`PlaylistsFoundProofs` proves, for every set of phones, users and playlists and all bounds,
from `SessionAssumption` and `FoundAssumption` alone (the last three, which are about PatientFinding, from its `PhoneAssumption` too):

| Theorem | Statement | Argument |
|---|---|---|
| `TypeCorrect` | `Spec => []TypeOK` | `TypeOK` is inductive. The session's part is a lemma per action in `SessionProofs`, stated for any set of values of `field`, so the other modules can use it. |
| `NoDuplicates` | `Spec => []NoDuplicateFinders` | Not inductive alone: lists come from queued writes, which come from answers. `DistinctInv` says it of stored, queued and answered lists; a list is only ever extended by an email it lacks (`Mark`, `IsNew`). |
| `CountsFollowRecords` | `Spec => []CountOnlyAfterRecorded` | `RecordedInv` adds that a queued list has the email it was queued for, so the write that completes has stored it. `recorded` only grows. |
| `CountsAreBounded` | `Spec => []CountBounded` | Two invariants. `OnceInv`: a tap completes one mark per playlist, because it has one check per collection and each check queues its marks as it leaves; so every completion is a new element of `finds`. `WorthInv`: a completed find is worth two; from that is taken what is still to come of it, two for a lookup on its way and one for a queued count whose closure exists (`Pending`). Some `b` no more than the rest (`Worth`) bounds every number there is: stored, queued, answered or shown (`Within`). Computing a count and bumping the singleton each raise `b` by one, and `Worth` too. |
| `FindsAreCounted` | `OnePerSpot` implies `Histories => []EachFindAddsOne` | `PatientInv`, an invariant of patient histories. A find passes through one request at a time, and some phone is at one of these points (`InPhase`): `Loading` its user's number, `Checking` both collections, `Marking` (the list is queued and perhaps applied), `Tallying` (the user's document is looked up), `Counting` (the number is queued and perhaps applied), or nothing is under way (`AtRest`). Each says whose stored number is the number of lists that name them (`Right`), whose lags behind by the one playlist under way (`RightBut`), and what every phone shows. `OnePerSpot` (no two playlists have the same coordinates) is what makes one of the two checks `Idle`: with a playlist in each collection at one spot, two chains run side by side and only one is counted. `OwnPhone` keeps a user's number off other phones, `FiniteFinds` lets the lists that name a user be counted. |
| `ProfilesAreCurrent` | `OnePerSpot` implies `Histories => []ProfileIsCurrent` | From `PatientInv` at rest: every phone is `Ready`. |
| `ImplementsFindRegister` | `OnePerSpot` implies `Histories => ImplementsRegister` | The refinement, step by step: the `hasFound` write that stores a new list is `Find`, the write of the number, applied while it still lags behind, is `Count`, and everything else (checks, callbacks, loads, a write applied once more) is a stutter. |

`PlaylistsCreatedProofs` proves, from `SessionAssumption` and `CreatedAssumption` alone (the last two, which are about
PatientCreating, from its `PhoneAssumption` too):

| Theorem | Statement | Argument |
|---|---|---|
| `TypeCorrect` | `Spec => []TypeOK` | `TypeOK` is inductive, with the lemmas of `SessionProofs`. |
| `CountsAreBounded` | `Spec => []CreatedBounded` | `WorthInv`, as above: a click is worth two, less one for its lookup and then for its queued write as long as the closure exists (`Open`). The number a click computes is one up at once, since it is computed before the lookup. |
| `AuthorsAreClickers` | `Histories => []AuthorIsClicker` | Three invariants of patient histories (`PatientInv`). `InPhase`: a click passes through one request at a time, and at any moment one phone is loading its user's number, looking a document up or writing (`Loading`, `Looking`, `Writing`), or nothing is under way (`AtRest`); each phase says what every phone shows meanwhile. `DocsInv`: the documents, stored and queued, are those of the clicks, and name who clicked. `OwnPhone`: each user uses their own phone, which is why no other singleton is stale. |
| `AddsAreCounted` | `Histories => []EachAddAddsOne` | From `PatientInv` again: at rest every stored number is the number of the user's clicks (`due`), while a click is under way everybody else's is, and what is looked up with and then written is its user's; a write whose acknowledgement was lost stores the same number once more. |

`PlaylistBoardProofs` proves, from `SessionAssumption` and `BoardAssumption` alone:

| Theorem | Statement | Argument |
|---|---|---|
| `TypeCorrect` | `Spec => []TypeOK` | `TypeOK` is inductive; it is split into the parts the actions leave alone together (`Typed`) and the history variable (`CalmTyped`). |
| `GhostsAreExpired` | `Spec => []NoCurrentGhost` | Not inductive alone: the document may be deleted between a tap's query and the write. `DeletionInv` adds that every queued deletion is of an expired playlist, and every tap and queued `hasFound` write of a published one (`Born`); `BornGrows` says that neither is ever undone. |
| `DeletionsAreDue` | `Spec => OnlyExpiredDeleted` | An action property, from the same invariant: a document becomes empty only by applying the oldest queued write (`OldestWrite`), a deletion. |
| `CalmReloadsAreRight` | `Spec => []MapIsRight` | `MapInv`. Every query is sound (`BoardsSound`): its number is below `reloads`, it was not asked of a view that appeared later, and what it found had been published. During a calm reload a playlist has no pin until the callback for its collection has run, and exactly the pin it is due from then on (`CalmAt`); an answer that has not come back yet goes on showing what is visible, because what it found stays published and undeleted until it is too old, and growing too old ends the calm (`StillShowsStays`). |

`AccountsProofs` proves, from `AccountsAssumption` alone (any sets of phones and texts, any number of accounts and clicks), of Accounts
and, in the last two theorems, of PatientAccounts:

| Theorem | Statement | Argument |
|---|---|---|
| `TypeCorrect` | `Spec => []TypeOK` | Not inductive alone: a form is taken apart again by its fields, and a username edit that completes puts its text in the singleton. `Typed` says that every text is one of its field (`GoodForms`), that whoever is signed in has an email, that an answered call names an account, and that a write with a closure has a username. |
| `DocumentsFollowAuth` | `LeftAlone` implies `Spec => []NeverAheadOfAuth` | `HeldInv`: every document, answered call, query and queued write has only emails and passwords that Auth has had (`Accepted`), and a username edit has none. A call is answered "ok" only in the step that adds its texts to `held`; the callback passes on the same texts, because by `LeftAlone` (`Retypes \subseteq {"username"}`, the condition stated with the property and that of the run) the fields have not been retyped. Every write queued is an earlier one or has an accepted form (`WritesFrom`). |
| `AuthIsMatched` | `LeftAlone` implies `Histories => []MatchesAuth` | `PatientInv`. `InPhase`: the one request under way is a call to Auth that is not accepted (`Calling`) or accepted with its callback still to run (`Called`), the lookup of the document to edit (`Looking`), a queued write, perhaps applied already (`Writing`), beside which after a sign-up `getUserInfo` may be on its way, or that query alone (`Loading`); else nothing is (`AtRest`). From `Called` to `Writing` the document lacks just what the form of the call, query or write has: the document merged with the form is what Auth has (`Agrees`). All other accounts are `Recorded` meanwhile. `Apart` (accounts, and documents, have different emails) is why a lookup by email finds the one document it is for, though emails are freed and taken again. |
| `SingletonsMatch` | `LeftAlone` implies `Histories => []SingletonMatches` | From `PatientInv` at rest: every phone is `Ready`, it knows its user's email as Auth does and shows the document. During an edit the phases say which of the two texts is ahead of the document (`Looking`, `Shown`), so that the completion of the write makes them equal again. |

`ProfilePictureProofs` proves, from `SessionAssumption` and the assumption of ProfilePicture (the last, which is about
PatientPicture, from its `PhoneAssumption` too):

| Theorem | Statement | Argument |
|---|---|---|
| `TypeCorrect` | `Spec => []TypeOK` | `TypeOK` is inductive, with the lemmas of `SessionProofs`. |
| `LinksAreStored` | `Spec => []LinkedAfterStored` | From `UploadInv`: every upload takes a picture of its own, which is in `puts` and then in `lookups`, once and never in both; until it has left both, no document, queued write, answer or singleton names it. It passes to `lookups` only from a request that Storage has answered, so the pictures in `lookups`, and with them all that anybody knows (`Known`), are in `taken`, the history of what Storage has taken; a picture whose upload failed or was cut off before that is in neither. |
| `DeletionsAreOfLinked` | `Spec => []NeverErasesUnlinked` | From `UploadInv` too: what the singleton names is known, so it is not on its way. |
| `StorageFollowsProfiles` | `Histories => []StorageMatchesProfiles` | `PatientInv`, with the phases `Loading`, `Putting`, `Looking`, `Writing` and `AtRest`. In each of them Storage holds the pictures in use and those whose deletion is on its way, and no others (`MediaIs`), the deletion running beside the lookup and the write; no two profiles link to one picture (`OwnPicture`), so what is deleted is not another user's; and the singleton names the picture that the profile links to (`Ready`), so what is deleted is the old one. That the new picture is not the old one again is `UploadInv`. |

`WritePipelineProofs` proves, from `PipelineAssumption` alone (any finite set of accounts, any positive pipeline length, any
number of writes and upsets):

| Theorem | Statement | Argument |
|---|---|---|
| `Invariance` | `Spec => []IInv` | The inductive invariant. Beside the types it says of the stream (`RemoteInv`) what each of its states implies and how `in`, `out` and the pipeline fit together; of the queues that an account's has only writes issued under it; of the worker queue (`TasksInv`) that a write or token in it will run under the account it is for, once the account changes before it have run; of token requests (`AskedInv`) that one not overtaken by a notification is for the current account; and (`AnswersInv`) that at most one answer is due for the stream's current start. The proof has a lemma per operator (`FillWritePipeline`, `Close`, `Start`, `Send`, ...) and one per action. |
| `TypeCorrect`, `ResponsesBelongToTheFront`, `WritesGoOutUnderTheirAccount`, `IdleStreamHasNothingToDo`, `AssertionInResumeHolds` | `TypeOK`, `RepliesMatchPipeline`, `RightAccount`, `IdleOnlyWhenDone`, `CredentialsAreAwaited` | each follows from `IInv`. |

Its second part proves, from the same assumption, what the write path promises the app. All of it rests on `HistoryInv`, which with
`IInv` is inductive (`HistoryInvariance`):

| Theorem | Statement | Argument |
|---|---|---|
| `WritesAreAppliedInOrder` | `Spec => []AppliedInOrder` | `QueueInv`: every queue ascends in batch ids and in writes, the next id is larger than all of them, and the pipeline is the beginning of the current account's queue. Since a call sends the pipeline from its front, what has been applied of a queue is a beginning of it. |
| `AcknowledgedStayApplied` | `Spec => []AcknowledgedIsLatest` | `AppliedInv`: for every response under way, the last that was applied for the account is the write it answers or a later one (`Latest`); an older write is never sent after the response to a later one has been read, because a response only removes the front. |
| `SettledDocumentsAreKnown` | `Spec => []SettledIsKnown` | `AcknowledgedIsLatest` makes the last applied write as new as every acknowledged one; it is neither queued nor waiting, because what waits is newer than what has been applied (`OrderInv`), nor lost, because a write that never had a queue is never applied (`LostInv`, one more invariant); so it has ended. That it was acknowledged does not follow, and is false. |
| `ClosuresHearOfTheirWrites` | `Spec => []CompletionsAreRight` | `QueueInv` again: a closure waits for a batch of the queue it was put in, and without a restart every batch has its closure, so a response finds the right one though ids are used again. |
| `EveryWriteIsAccountedFor` | `Spec => []NoWriteForgotten` | `OrderInv`: writes run in the order they are issued, what has run is older than what waits, what has ended is older than what is queued for its account, and every write is somewhere; so it is in one place only. |
| `ImplementsPendingWrites` | `Spec => KeepsPromise` | The refinement, step by step: running a write's task is `Put`, serving one is `Apply`, a response or a permanent error that is read is `Resolve` of the front, and every other action leaves the queues, the log and the results alone. |

`OneShotGetsProofs` proves, from `GetsAssumption` alone (any finite set of queries, any number of gets, changes, upsets and
responses under way):

| Theorem | Statement | Argument |
|---|---|---|
| `TypeCorrect` | `Spec => []TypeOK` | `pending \in Nat` is what is not inductive alone: an acknowledgement counts it down. `StreamInv` says that it is the number of requests in `out` and acknowledgements in `in` for the target, so whoever reads one finds it positive (`AckIsAwaited`). `GetsInv` says that listeners, tasks and events are of gets that were asked. |
| `AssertionsAlwaysHold` | `Spec => []AssertionsHold` | `StreamInv` again, with counting lemmas for appending to and taking from a sequence, and `OnlineInv`: the timer runs only while a stream is starting or open, and the stream idles only without listeners. |
| `CalledBackOnce` | `Spec => []AnsweredOnce` | a part of the invariant. |

Its second part proves, from the same assumption alone, the property that the read path is for:

| Theorem | Statement | Argument |
|---|---|---|
| `AnswersAlwaysRight` | `Spec => []AnswersAreRight` | From `IInv` with three invariants more. `StateInv`: what the cache holds, and what it will hold once any of the responses under way have been read, is a state of the data (`IsState`), a resume token never claims more than its cache has, and the requests in flight end in what the client wants (`DataInv`). `TasksInv`: a listen in the worker queue either joins a get that may be given no older data (`Joins`) or finds nobody listening (`Alone`), so it starts a target of its own. `FreshInv`: where a listener is owed data from its call on (`Owed`), the backend has served its query since then at the latest (`InTime`), and what the client takes as current reaches that far (`Known`). A view shows the cache, so what it hands out is a state (`StatesArePrefixes`) and, if synchronised, late enough (`RightFromInv`). There are lemmas per operator for each invariant and one per action, put together in `InvNext`, `NextStates`, `NextTasks` and `NextFresh`. |

The lemmas of `SessionProofs` are about the operators: the types that
session steps keep and the bounds on the singleton's number (`FieldsWithin`), appending to a repetition-free list, the overlay, detaching a queue, its head and tail,
and how the number of queued writes that still have their closure changes with each of these: one more, one less (by an
injection of the places of the writes, which all move up), or no more.
`OnceInv` and `WorthInv` of both modules were also checked by TLC on the instances of `found` and `created`, `DeletionInv` and `MapInv`
on that of `board_safety`, `Typed` and `HeldInv` on that of `accounts`, `LostInv` on that of `pipeline`, and the four `PatientInv`, for patient histories, on those of
`found`, `created`, `picture` and `accounts`.

Model-checked only: `NoneForgotten` of OneShotGets, which says with `ENABLED` which steps are possible, and the liveness properties
`Drains` of PlaylistsFound and WritePipeline; both are out of the prover's reach. Every other property that a passing run checks is
proved, two kinds of them under a condition that the instances meet: `OnePerSpot` for what is said of PatientFinding, `LeftAlone` for what is
said of texts in Accounts and PatientAccounts. What the four runs with a counterexample check is false.

## 5. Not modelled

* What does not change the app's state: opening the link in Spotify, drawing,
  alerts, layout.
* The pictures `viewFor` puts on the pins, the permission dialog and the zoom: they change nothing the app reads again.
* Wrong clocks, and the arithmetic of dates and coordinates.
* In the app modules, answers from the cache of a phone that is offline, and old answers as in `gets_current`: `getDocuments` is
  taken to reach the backend, or fail. OneShotGets shows when it does not.
* A phone's other documents and fields: the modules take one chain of requests at a time
  each. Their only common state is the singleton, which Session covers
  for each, and `getUserInfo` reads fields one by one.
* Of the Firestore client: what section 2 lists under OneShotGets as left out; what the app never calls (transactions, `waitForPendingWrites`,
  disabling the network, listeners that stay); the stream token, which is stored and sent and decides nothing; message encoding, and the documents
  inside a batch, which WriteQueue and the app modules stand for.
* All else under `Pods/`: Firebase Auth and Storage, whose services the app modules model from how the app uses them, and gRPC, BoringSSL, abseil, leveldb, nanopb,
  image and keyboard libraries. They are over 99% of the lines in `src/` and have nothing of this program's logic: what this
  project covers is the app, all of its stateful operations, and the two paths of the vendored code whose ordering and
  recovery the app's correctness rests on.

## 6. State of the project

Every operation of the app that changes state is modelled, and below it the Firestore client's write path and the way it answers a query.
Still open, in the order in which they would add most:

1. **Deletion and failure in Accounts**: what holds of Auth and `userInfo` when requests
   fail or edits overlap; a conditional form of `MatchesAuth`.
2. **Both paths together**: a write's batch leaves the overlay when it is acknowledged, and its document comes
   over the watch stream; between the two a get can answer without it.
3. **Proofs**: the app modules take from the write path what PendingWrites promises (a queue per account, applied in order, its front
   perhaps again); WritePipeline is proved to implement PendingWrites, but that the queues of the app modules do is argued here only.
