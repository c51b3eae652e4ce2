# FileMaker Data API Tools: TLA+ models and proofs

These modules model the parts of the VS Code extension *FileMaker Data API Tools*
(`extension/src`) whose correctness depends on order: which continuation of which
request runs first, which answer is lost or late, what the user does meanwhile.
TLC checks them on small instances; TLAPS proves the most important results for
every value of the constants.

All paths below are relative to the repository root unless they start with `services/`,
`performance/`, `utils/`, `ai/`, ... which are under `extension/src/`.

## 1. The system

The extension keeps one FileMaker Data API session per connection profile, sends
every record, find, script and container request through it, and runs long batch
work as jobs. JavaScript executes one continuation at a time; everything hard
happens *between* two awaits.

| Component | State it keeps | Operations | Interacts with |
|---|---|---|---|
| Session lifecycle (`services/fmClient.ts`, `services/fmClient/transport.ts`, `services/session/sessionTokenTracker.ts`) | age of the token, `inFlightRefresh`, `authPauses`, `sessionLimitBackoff`, `proactiveSuspended` | `requestWithAuth`, `ensureSessionToken`, `renewRejectedSession`, `createSession`, `deleteSession`, `retireSession`, `clearAuthPause` | secret store, FileMaker Server, Connect and Disconnect commands, wizard |
| Secret store (`services/secretStore.ts`) | session token, password, proxy key | get / set / delete, served one after another | session lifecycle, wizard |
| Profile store and wizard (`services/profileStore.ts`, `webviews/connectionWizard/*`) | profiles, active profile | save, remove, repoint | secret store, session lifecycle |
| Batch update and export (`services/batchService.ts`) | queue, rows in flight, `stoppedReason`, results | `batchUpdate`, `batchExportFind` | breaker, concurrency limit, session lifecycle, job runner |
| Circuit breaker, adaptive concurrency (`performance/*`) | state, counters, `openUntil`; limit, streaks, latencies | `canRequest`, `recordSuccess`, `recordFailure` | batch update |
| Job runner (`services/jobRunner.ts`) | status, cancellation flag, recent jobs | start, cancel, persist | batch service, views |
| Error normalisation (`utils/normalizeError.ts`, `services/errors.ts`, `utils/fileMakerCodes.ts`) | none | classify a failure | everybody who retries |
| Schema service, layout caches, snapshots (`services/schemaService.ts`, `services/fmClient/metadata.ts`) | caches with time to live, ETags | fetch, invalidate, compare | session lifecycle, offline mode |
| AI tools, MCP server, chat (`ai/*`) | consent, quotas, confirmations, audit; sockets | tool calls, dialogs, session reset | record operations, user |
| FM bridge (`services/fmBridgeServer.ts`, `services/bridgeRateLimiter.ts`) | server, token, bucket, budget | start, stop, handle a request | record operations |
| Offline mode (`offline/*`) | index and files of captured layouts | capture, read, toggle | schema service |
| Saved queries, history (`services/savedQueriesStore.ts`, `services/historyStore.ts`) | lists in the workspace state | save, import, migrate | views |
| Record editor and other webviews (`webviews/*`) | loaded record and modId, saving flag | load, save, conflict | record operations |
| Export writers (`utils/atomicExport.ts`, `utils/csvStreamWriter.ts`, `utils/jsonlWriter.ts`) | temporary file | append, close, abort | batch export |
| Environments and roles, settings, TLS, proxy client, diagnostics, plugins, views, snippets, type generation, fmWeb, `designer-ui`, `runtime-next`, `shared`, `tools` | little or none | mostly pure functions, display, generated text | |

### What makes them correct

* **Session lifecycle.** Parallel requests share one sign-in. Whoever waits for it is
  woken however it ends. A password the client heard FileMaker reject is not tried again and
  again, because FileMaker locks the account. Sessions the program replaced are closed,
  and the one in use never is. A logout uses the session it closes.
* **Batch update.** Each row is begun once and gets one verdict, and the verdict is true
  although answers are lost, edits arrive late, and other people edit the same records.
  After a cancellation no row begins or is retried. The job ends, and only for a
  reason it can name.
* **Breaker and limit.** An open breaker is probed again; the limit never reaches zero.
* **Job runner.** The status tells what happened to the work, also when a
  cancellation arrives as it ends.
* **Caches.** What came from the server is not served beyond its time to live, "not modified" means what the
  server confirmed, and one account is not shown another's answers, except by calls under way when it
  signed in. What offline mode read from the disk has no age and no account, but it is gone one time to live after the mode.
* **AI tools.** No record beyond the quota, no read without consent of *this* session, a
  refusal a waiting call heard stands, no write after a cancellation or a dialog answered under a policy that has changed.
* **MCP server.** No server nobody could stop, none the user did not ask for, in any window.
* **Bridge.** One server at a time; never more requests than the budget.
* **Offline, saved queries.** No entry is lost by two writers or by a reload in the middle.
* **Record editor.** The modId a save is checked against belongs to the values shown.
* **Export.** The destination is the old file or the complete new one, and only a temporary file that could not be removed stays.

The hard behaviours, each at its line of code, are the `hazards` of `PROJECT.json`.

## 2. Modules

| Module | Models |
|---|---|
| `FMSession` | the session of one profile: requests, Connects, Disconnects, the server and the clock |
| `CircuitBreaker`, `AdaptiveConcurrency` | the two classes as operators on a record |
| `BatchUpdate` | one update job; composes the two modules above |
| `UpdateLedger` | the abstract promise a batch update makes about its rows |
| `JobRunner` | jobs, their cancellation and the list of recent jobs; the task is what `EXTENDS` it |
| `BatchExport` | the export as the task of a job: pages, probe, writers, publishing by rename; composes `JobRunner` |
| `OfflineCache` | files and index of the offline metadata cache as operators |
| `SchemaCache` | layout metadata from the server through ETags, caches and disk to the user; composes `OfflineCache` |
| `SavedQueries` | the lists of saved queries, their migration, and the removal of a profile |
| `RecordEditor` | page and host of the record editor, talking by messages, and other people's edits |
| `AiToolSession` | parallel calls of the AI tools: approvals, quota, confirmations, resets, cancellations |
| `AiMcpController` | start, stop and memory of the AI server in every window |
| `MCFMSession`, `MCBatchUpdate`, `MCSchemaCache`, `MCStores`, `MCAiToolSession`, `MCAiMcpController` | instances, symmetry and views for TLC; `MCStores` extends `SchemaCache` and `SavedQueries`, which share no state, and runs them in one instance |
| `FMSessionProofs`, `BatchUpdateProofs`, `BatchExportProofs`, `SchemaCacheProofs`, `SavedQueriesProofs`, `RecordEditorProofs`, `AiToolSessionProofs`, `AiMcpControllerProofs` | theorems about the module each is named for |

Definitions that are the mutated form of another one, kept to show that a property
depends on the code, are marked `Mutant:`; no specification uses them.

### FMSession

One profile is the whole state: every map of `FMClient` is keyed by profile id. A process
is one authenticated request, one run of Connect or one of Disconnect. An action is the
code between two awaits:

* `RequestBegins` / `Ensure*` are `ensureSessionToken`: read the store, then reuse, join
  or start. The read and the decision are two actions because the await is between them.
* `SignIn*` are `createSession`: password read (refused by a pause or not), POST,
  answer, token stored, token noted. `Settles*` are the `then` / `catch` / `finally` of the
  registered promise; they wake everybody who joined.
* `RequestRejected`, `Renew*`, `RequestBeginsAgain` are the 401 path (`renewRejectedSession`
  and the single retry of `requestWithAuth`).
* `Connect*` is the Connect command with `retryWithBackoff`; it signs in outside the
  mutex, as the code does. `Disconnect*`, `Logout*`, `SignOut*` are `deleteSession`.
* `Retire*`, `SessionEnds`, `PasswordChanges`, `TimePasses`, `ProfileSaved`,
  `WindowReloads` are the background logout and the environment.

Calls to the secret store take effect when made and return in order (`calls` is the queue); they never fail (the fallback to the workspace state is not modelled).
An age matters only against two thresholds, so it stops growing at `MaxAge` and no bound on
time is needed. `waitDelay` stands for the number of attempts of `sessionLimitBackoff`.
`answer` says what the server said; the answer to a sign-in may be lost whether it was accepted
(`SignInLost`) or rejected (`SignInRejectionLost`). `strikes`, `earlyStrikes` and `writtenOff` are history:
no action of the program reads them. `strikes` counts the rejections of needed sign-ins from the first one whose answer
arrives on, heard or not; `earlyStrikes` counts all of those ahead of expiry. `writtenOff` holds the sessions the program
cannot close by itself: the answer that carried the token, or the logout, was lost;
the token had outlived its age when it was rejected; the renewal that should have
closed it failed; or the window was reloaded.

### BatchUpdate

`phase` is where the scheduling loop stands: `turn` (the while condition and
`scheduleNext`), `checking` (nothing in flight: the second `canRequest`), `pausing`
(`sleep(300)`), `waiting` (`Promise.race`), `draining` (`Promise.all`), `done`. Answers,
wake-ups and cancellations are delivered only when no continuation of the loop is due.

A row is one `updateOneWithRetry`: obtain a token (`signing`; all of FMSession is
behind this step), send, perhaps renew the token after a 401 and send again, then settle,
sleep and retry, or reread after a 306. `attempt`, `unknown` and `outcome` are the
locals `attempt` and `outcomeUnknown` and the verdict. A failure is one of nine
classes, those the code treats differently (see the comment of `Failures`); a sign-in meets the same ones.

The server side says which rows a record has *held* (`held`), which it holds
now (`intact`), whom others edited (`others`) and which lost edits may still be carried out
(`lurking`). Carrying out an edit and answering it are one step; for a lost answer they are
not: the edit may land much later, after retries and after the result.

`openUntil` is counted down. Counters saturate where the code stops distinguishing values.
The average latency is the verdict drawn from it, chosen freely. Dry runs, the metadata
check, field types, progress and wording are left out.

### UpdateLedger

The abstract specification knows rows begun, their verdicts, what was written, who else
changed the record, whether the job is halted and whether the result was handed out. It
promises that a row begins once, only while the job is neither cancelled nor stopped; that
its verdict never changes; that "updated" is said only of a row whose values the record has
held, "changed since the export" only of a row never written (then or later) whose record
somebody else changed; and that the result comes when all begun rows have a verdict.
`BatchUpdate` implements it under the mapping `Ledger`, stated as the property
`KeepsTheLedger`.

### JobRunner and BatchExport

`JobRunner` has one action per call of the runner (`StartJob`, `CancelJob`, `TaskReturns`,
`TaskThrows`) and leaves the task to the module that extends it. In `BatchExport`
`place` is the await at which `batchExportFind` stands: `open` and `metadata` before the
loop, `page` in it, `probe` for "are there more than the maximum?", `closing` (for CSV first the
copy of the rows under the header), `unclosed` (a `close` that failed and cleaned up after itself; the catch block
aborts once more), `renamed`, `aborting`. Each of them may fail, and so may the removal of each temporary
file: `Leftovers` is what stays, `refused` (history) the files whose own removal failed. The
cancellation is read where the code reads it, so `tooLate` (history) separates a cancellation
that came before the decision between abort and close from one after it. `temps` are the
temporary files; two jobs write to the same `target`. `Reload` loses everything but the disk
and the list of recent jobs.

### OfflineCache and SchemaCache

A call is a `getLayoutSchema` or the refresh of the offline cache. `request` and `reply` are
the round trip of `getLayoutMetadata`: validator and cached metadata are read in the turn that
sends the request (`sent`, `seen`), and the answer is stored or confirmed in the turn it arrives
in. `file`, `index`, `change` and `write` are the four awaits of `cacheLayoutMetadata`; other
calls run between them, `fs.writeFile` empties the index before it fills it (`OpenIndex`), and the
index two calls write at once may be unreadable (`Torn`). The index keeps `MaxIndexed` items (1000 in the code): an item is the file and the
set of layouts ahead of it, so that `Unshifted` can move one to the head and cut the list. A call in offline mode reads index and file and puts
what it found into the cache of the schema service like any other answer (`from` says "disk"); `lastOffline` (history) is when the mode was last on. `Drops` is `invalidateProfileCache` for a
sign-in, perhaps as another account. The layout changes with every tick, so its version is the
clock. `late` (history) are calls under way when the caches were dropped.

### SavedQueries

Two lists, each in a Memento that answers with its new value at once and stores it later (`Flush`). A call
waits for its own updates only; a reload reads `disk`. A migration is merge, version and
removal of the old key, one awaited update each. `wish` is what a list should hold. `overwritten`
records the known way to lose a query: `removeQueriesForProfile` reads both lists before its
first await and writes the second one after it.

### RecordEditor

Page and host each handle one message at a time but their handlers interleave at awaits.
`toHost` and `toPage` are the two directions of `postMessage`. Handlers of different request keys
overlap in the host: a load has the key of its record, a save the key `write`. `busy` is the page's own
lock, released by any answer *and by any error message*, also one about another request
(`OtherRequestFails`, then `astray`). `written` is the last accepted edit: whom it was for, the copy
the user saw, and the version it replaced.

### AiToolSession

`heard` (history) is what the user answered in this session while a call that was not cancelled waited. A call passes the gate, joins or opens the dialog of its layout (`consentInFlight`), reserves records
before each request and settles them after it; a write then confirms, perhaps by typing the id,
rechecks and sends. `generation` is the session: a reset starts a new one and leaves dialogs of the old
one open. The user may answer any open dialog at any time; the policy may change; the client may cancel.

### AiMcpController

`attempt` is the shared promise of `start()`; `listening` counts real sockets. Tasks are the start/stop
command, the start on activation and one handler per change of the setting; they interleave at awaits.
`flag` and `epoch` are the memory of workspaces and of the permission. `crossed` (history) records two overlaps the code
does not keep apart: a start under way in one window while a setting seen off is being dealt with in any, and a setting that
changes again before every window has dealt with its last change. The properties about the setting are stated
without them, the one about sockets is not. Every other overlap of these tasks, in one window or in several, is covered; a window has one
command task, and its dialog is confirmed under the setting it was shown for (section 5).

## 3. What the runs check

| Run | Instance | Shows |
|---|---|---|
| `session_traffic` | 2 requests, one spurious 401, one lost answer or logout | `TypeOK`; `NoOrphan`: every open session is stored, on its way to be closed, part of a sign-in under way, or written off; `RetireSparesStored`: the background logout never hits the stored session |
| `session_credentials` | 2 requests, 2 passwords, one change by the administrator, one save, one lost answer | `LockoutBound`: between two acts of the user, or a successful sign-in, the same credentials are rejected at most once ahead of expiry, and for real not again once the client has heard of a rejection |
| `session_commands` | a request, a Connect with 2 attempts, a Disconnect, one reload | `OneAutomaticSignIn`: at most one automatic sign-in, always the registered one; `NobodyWaitsForNothing` |
| `session_ends` | 2 requests, fair | `EverythingEnds`: whatever was begun ends |
| `batch_rows` | 3 rows on 2 records behind one slot that may become two, 2 attempts, fair | `TypeOK`; `KeepsTheLedger`: the refinement; `NoAttemptAfterCancel`; `JobEnds` |
| `batch_export` | 2 jobs on one file, up to 4 records, at most 3 exported, pages of 2, fair | `TypeOK`; `TargetWhole`, `VerdictTrue`, `TempsLeftByRefusalOnly`, `CancelledWithoutFile`, `NoRequestAfterCancel`; `ExportEnds` |
| `record_editor` | 2 records, 2 versions, one stray error, fair | `TypeOK`; `NoLostUpdateWhileWaiting`, `PageAndHostAgree`; `EveryRequestEnds` |
| `stores_kept` | caches: 2 calls on one layout, 2 accounts, one event, offline mode on and off; index: 2 calls on 3 layouts, 2 items; queries: 2 calls, one query in 2 lists, one restart | `TypeOK`, `OldOnlyFromDisk`, `NotModifiedMeansCurrent`, `IndexNamesFiles`, `ForeignIsLateOrFromDisk`, `KeptIsFound`; `KeepsItsWord` |
| `ai_tools` | 3 calls on one layout, quota 3, one reset, one change of policy | `TypeOK`; `QuotaKept`, `AnswersOfThisSession`, `OneDialogPerLayout`, `HeardNoStands`, `NothingSentAfterCancel`, `WritesUnderPolicy` |
| `ai_server_windows` | 2 windows, 2 changes of the setting by hand, 2 epochs | `TypeOK`; `NoServerLeaked`, `SettingOffEndsAlone`, `RunsByInvitation` |

Two runs show a disagreement between a comment and the code:

| Run | What the counterexample shows |
|---|---|
| `session_logout_token` | Disconnect reads the token twice; a renewal between the reads makes it log the old session out with the new token and then forget the new session |
| `editor_lost_update` | an error of another request ends the page's wait for a load; the user saves the old draft, and the host checks it against the version the load has just brought |

### Bounds, and why they are enough

* Two requests give every race of the session code: one starts, one joins; one renews ahead of
  expiry, one meets a 401; one wakes late. A third only joins what the second could join.
  The mutex and the lockout bound are proved for any number.
* `MaxAge = Lead = 1` lets a token be fresh or due, with every order of renewal and
  401. `FirstWait = 1, MaxWait = 2` gives one doubling. Each event of the environment happens at
  most once per run (`Budget`); server failures other than lost answers, expiry and
  the clock are unbounded.
* The runs about sessions and the ones about passwords use views that drop values
  nothing reads any more (`OrphanView`, `LockoutView`). Symmetry over requests, and over the two passwords in
  `session_credentials`, is used in safety runs only; so are the views and symmetries of the other MC modules.
* `batch_rows`: two attempts let a late edit meet a retry and the reread after a 306. The files are
  the three of `Triples`: a checked row, its duplicate and an unchecked row; a row without values, which must
  not hide the row behind it; a row with NUL, which does hide it. The breaker's thresholds are small so that it opens, is probed,
  closes and reopens within three rows.
* `batch_export`: with pages of 2 and a maximum of 3 the last page is shortened, the found set ends within a
  page, at its end, at the maximum or beyond it, and the CSV sample is full before the end or not.
* `record_editor`: every save needs one version more, so two versions give one edit of the user or of
  somebody else between any two steps; loads are unbounded. One stray error is enough to go astray.
* `stores_kept`: two calls give every overlap of the index (a third would overlap the same way); one event
  is one sign-in, reload or failed write; offline mode may be switched on and off. The caches of different layouts are apart, so one
  layout is enough for them; three layouts and an index of two items let one drop out while the other two follow it. There the
  account, the clock and the mode stay as they are: the index reads none of them. Saved queries are independent of each other, except by the removal of a
  profile, which takes them one by one: one query in two lists is enough. The proofs have no such bound.
* `ai_tools`: three calls that each want two of three records exceed the quota unless it holds; two would wait for
  one dialog while a third asks anew. `ai_server_windows`: two windows show one that is told late or is closed.
* `CHECK_DEADLOCK FALSE` is set where the system may stop: jobs that ended, calls that are over, bounds used up.

### Fairness

`FMSession!FairSpec`: continuations run, timers fire, and every HTTP call ends because axios
bounds it by `requestTimeoutMs`; each process is therefore weakly fair in `Continues`. Nobody
has to begin a request, and the server may refuse or lose whatever the budget allows.
`BatchUpdate!FairSpec`: the loop, each row and the clock go on. Nobody has to
cancel, edit or lose anything; the number of attempts is bounded by the code itself.
`BatchExport!FairSpec`: every step of a running task, which is a bounded request or a call of the file system.
`RecordEditor!FairSpec`: messages are delivered and handlers continue; a dialog is answered or dismissed.
The other modules state no fairness.

## 4. What is proved

Each proof starts from the named assumptions of its module only and holds for every value of its
constants. `IInv` is always the inductive invariant.

`FMSessionProofs`:

* `TypeCorrect`: `TypeOK`, for any processes, passwords and times.
* `OneSignInAtATime`: `inFlightRefresh` is a mutex. It needs `ConnectsApart`, because a Connect
  signs in without registering and must never be mistaken for a registered one.
* `AccountNotLocked`: `LockoutBound`, for any number of lost answers. A rejection counts on the server when it is sent and
  pauses the profile only when its answer is processed; between the two the user may save
  another password, and a pause for one password may be overwritten by a late rejection
  of another. `RealInv` therefore says: if the current password was rejected, the
  profile is paused for it or a rejection still on its way will pause it (`Pausing`), and a
  sign-in still carrying an older password means the current one was never rejected.
  A rejection whose answer is lost is counted only behind one whose answer arrives: until then the client cannot know of it, and pauses
  nothing (section 5). `EarlyInv` says the same of renewals ahead of expiry and `proactiveSuspended`; any failure suspends those, so there every
  rejection counts.
* `WaitersAreWoken`: `NobodyWaitsForNothing`, which is inductive as it stands: who joins finds a registered sign-in in the
  same turn, and every step that clears the registration wakes everybody who joined.
* `RetiredStaysRetired`: `RetireSparesStored`, with any number of Connects and Disconnects. Its invariant `TokenInv` numbers
  the tokens as the server issues them: one that a sign-in has obtained but not stored is nowhere else yet (`Fresh`),
  so storing it cannot bring back a token somebody is about to retire; and who has stored its token no longer
  holds the stored one as the one it replaced (`Replaced`).
* `RequestsLeaveNothingOpen`: `OnlyRequests => (Spec => []NoOrphan)`. The hypothesis says that there are neither Connects nor
  Disconnects, as in `session_traffic`; with them the property is false (section 5). `OrphanInv` rests on
  the order of the secret store: a request whose copy of the stored token has become stale stands in the queue before
  the call that made it stale (`Ordered`), so it comes back while that sign-in is still registered and joins
  it instead of replacing the token a second time. `LiveKept` then finds for each open session who answers for it.

`BatchUpdateProofs`:

* `BatchTypes`: `TypeOK`; the limit stays within 1 and its maximum.
* `CancelHonoured`: `NoAttemptAfterCancel`.
* `LedgerKept`: `Spec => KeepsTheLedger`, the refinement. Its inductive invariant says
  of each row (`RowInv`): a row never in doubt is unwritten and has no late edit under way, so
  that a plain 306 is somebody else's doing (`OnlyOwnEdit`: no other sendable row has the same
  record); and there are fewer late edits than attempts. `IntactHeld` (what a record holds now
  it has held) makes a matching reread a proof of the write. Each step then maps to a step
  of the ledger or to a stutter (`LoopOnLedger`, `RowStepOnLedger`, `WorldOnLedger`).

`BatchExportProofs`: `ExportTypes` (among them: the list of recent jobs is bounded and names no job twice), `NoPartialFile`, `VerdictsTrue`, `LeftOnlyByRefusal`, `CancelledMeansNoFile`,
`SilentAfterCancel`. `JobInv` ties the place of a task to what it has read and written: who stands at `closing`
has read all there is or reached the maximum, unless cancelled too late; temporary files exist only
between opening and the end, unless `refused` names one whose removal failed; who was cancelled before the decision never reaches `closing`.

`SchemaCacheProofs`: `CacheTypes`, `OldIsFromDisk`, `ConfirmedIsCurrent`, `ForeignIsExplained`, `IndexIsBacked`, `CachedStaysFound`.
`ValidatorsMatch` (a validator in the cache belongs to the metadata beside it) and the reading of both in one turn give
"sent is seen" for a request under way; with the server's answer this is "got is what was confirmed". `CallInv` also says
that a call began before its answer was made, and that only a late call holds another account's answer. `OfflineInv` says of what offline mode reads that it began while the mode was on
(`lastOffline`), so that what it stores has run out once the mode has been off for one time to live, however late it is stored.
`DiskInv`: what a call once read from the index is still on disk, because files are only added. `KeptInv` says that a call
about to write the index has read everything `kept` names, unless another write is under way beside it, whose
overlap empties `kept`. The set ahead of an item is among the layouts cached after it (`newer`), which
is why fewer than `MaxIndexed` of those leave it in the list (`HasRoom`). The assumption that `Nothing` is neither a value nor a file keeps "not
in the index" apart from what is.

`SavedQueriesProofs`: `ListsKeepTheirWord`. `Holds` says of a list not yet migrated that merging the old key into it
gives what it should be, in memory and on disk at once, so that a restart between any two updates keeps it;
`CallInv` says how far both migrations are when a call has come to its place.

`RecordEditorProofs`: `EditorTypes`, `NothingOverwrittenUnseen`, `FormAndHostAgree`. `OneRequest` says where the one request of
a page that was not led astray is: nowhere, posted, handled by one handler, or answered; at each place, who holds the copy
the form shows.

`AiToolSessionProofs`: `ToolTypes`, `CallsKeepToQuota`, `AnswersAreReal`, `AskedByOneDialog`, `RefusalStands`, `CancelledCallsSendNothing`, `WritesObeyPolicy`.
`PromptsShown` and `DialogsKnown` say that `consentInFlight` holds exactly the open dialogs of this session, each about
an undecided layout; a leftover dialog has an older generation and changes nothing. `NoIsRecorded`: every "no" in `heard` is in `declined`,
because the turn that ends the dialog runs its waiters, and one that was not cancelled and belongs to this session records it; `NoGetsPast` and
`NoAsksAgain` follow for every action. `QuotaInv`, for the quota, says that only a
call at its request holds a reservation, made under this generation or an earlier one. What calls hold in flight is the size
of a set with one element per reserved record, so that a step of one call changes that size by what the call
reserves or settles (`OneCallCounts`): no induction over calls is needed.

`AiMcpControllerProofs`: `ControllerTypes`, `EverySocketIsKnown`. A closed window has neither task nor attempt, and an attempt
is made only where no server runs; then every step keeps the sum. `SettingOffIsKept` and `InvitationIsKept` share the
invariant `WordInv`: a handler at work has read what the setting is (`ReadSetting`); once the setting was seen off, or a handler is
about to note it, no workspace remembers a start under the current epoch (`OffForgets`); attempts stand only where the
setting permits them and the user asked (`StartsPermitted`); and a server that is no longer permitted or wanted has a task
that will stop it (`OffStops`, `UnwantedStops`). All but two parts hold only until something was crossed.
Overlapping tasks of one window need no exclusion.

Every invariant that a passing run checks is stated by a theorem, and so is every action property. Only model-checked
is liveness (`EverythingEnds`, `JobEnds`, `ExportEnds`, `EveryRequestEnds`): temporal proofs under fairness and
ENABLED are out of the prover's reach. The two expected violations are, of course, shown by TLC only. `NoOrphan` is
proved for requests only, and `SettingOffEndsAlone` and `RunsByInvitation` say nothing about crossed behaviours, because the code does
not keep them there.

The prover also shaped two operators: a library fold or `SelectSeq` takes an operator as a parameter and cannot be unfolded, so
`InFlightRecords` is a cardinality and `Without` removes a position. The latter is the code's `filter` because
`RecentTypeOK` says that a job is in the list at most once.

## 5. Known limits and observations

* `NoOrphan` is about requests. A Connect never closes the session it replaces, and a
  Disconnect whose logout fails, or that deletes a token stored meanwhile, leaves a session
  to time out on the server.
* Observed without a run of their own: in high-scale mode a configured concurrency of 1
  becomes 2 (`batchService.ts:220`); the batch retries more FileMaker codes than the one
  (301) `USER_GUIDE.md` lists; a row whose first edit was lost and whose retry is refused with
  a definite code other than 306 is reported as failed although the first edit may have been
  applied ("failed" promises nothing about the record in `UpdateLedger`).
* Sessions: the same credentials are rejected twice without the user acting, once ahead of expiry and once for the 401
  (`docs/FILEMAKER_FAILURE_MODES.md` says "no repeated automatic credential attempts"; two is the proved bound). A request whose
  token was rejected may join a sign-in that yields that very token and send it again (`fmClient.ts:706`).
* Sessions: a rejected sign-in whose answer is lost counts on the server, but it has no FileMaker code, so `recordSignInFailure`
  (`fmClient.ts:600`) pauses nothing and the next automatic request sends the same password again, as often as answers are lost.
  `USER_GUIDE.md` (423) promises a pause so that "repeated failures cannot lock the account". `LockoutBound` holds from the first rejection
  that is heard. The retries of a Connect are the user's own and not counted.
* Batches: the breaker's time may run out between the two calls of `canRequest` (`batchService.ts:365`, `369`); the job then
  ends with rows queued (`JobEnds` does not tell). An edit still obtaining or renewing its token is sent after the cancellation (`transport.ts:25`, `62`).
* Exports: a job cancelled after it decided to close its files says "Cancelled; no file was written" although it was
  (`jobRunner.ts:120`); `CancelledWithoutFile` is stated without those. The found set does not change during a run.
  `USER_GUIDE.md` (582) says a failed or cancelled export "removes the temporary file". A removal that fails (`atomicExport.ts:29`, `38`,
  `csvStreamWriter.ts:36`) leaves its file, and that of the data file also keeps the file of rows from being removed, since
  `csvStreamWriter.ts:95` awaits it first; a cancelled job then ends as failed. `TempsLeftByRefusalOnly` says that nothing else leaves one.
* Caches: metadata that arrives after an invalidation fills the cache again, also for another account, for
  one time to live (`schemaService.ts:126`). Offline mode puts what it reads from the disk, of any age and any account of the
  profile, into the same cache with a fresh time to live (`schemaService.ts:91`); when the mode is switched off it is served online until
  it runs out. `ForeignIsLateOrFromDisk` and `OldOnlyFromDisk` allow these and nothing else.
* Offline index: overlapping writes lose entries (`offlineModeService.ts:146`), and the list is cut at 1000 items (`164`), so that a layout
  drops out when 1000 others were cached after it. `KeptIsFound` allows these and nothing else. Layouts whose names differ only in characters
  `sanitizeFileName` replaces may share a file within a millisecond (`offlineModeService.ts:125`); in the model every file is its own.
* ETags: a server sends one with every full answer or with none (`validators`). If it sent them only sometimes, an answer without one
  would leave the old ETag beside newer metadata (`metadata.ts:143`), and a later 304 would confirm the wrong one.
* Saved queries: an old query without an id gets a new id from every migration that reads it;
  `removeQueriesForProfile` overwrites a user-wide save made while it awaits (`savedQueriesStore.ts:140`).
* AI tools: a "no" to a layout is recorded by the calls that waited for it; if all were cancelled it is lost (`aiToolService.ts:460`), and the
  next call asks again, although ADR-0004 says that a declined layout "is not asked about again in the same session". `HeardNoStands`
  is about every other "no". A call in flight when the tools are switched off still reads. A delete reads the record again after its last
  recheck (`writes.ts:169`), outside the quota, and then deletes without asking the policy: `WritesUnderPolicy` holds it to the policy of the moment
  its second dialog is answered. The rates per minute are not modelled. Calls that wait for a dialog run before
  other continuations once it is answered.
* AI server: turning the setting off during a start leaves a server running under the new epoch
  (`aiMcpController.ts:140`); off, on and off again with overlapping handlers leaves `seen` stale. Both are
  what `crossed` excludes. All windows are assumed to see one global state at once. Discovery files are not modelled.
  Nothing keeps the start/stop command from running twice at once in a window (`commands/aiMcp.ts:27`); the model has one per window. The
  command looks at the setting before its dialog (`aiMcp.ts:37`), the model when it is confirmed: if an automatic start succeeds while the dialog is open and
  the setting is then turned off, "Start Here" may remember a start just before the handler stops the server. That is outside
  `SettingOffEndsAlone`.
* Record editor: create, validate, preview, export, copy, trust checks and the reload button of a conflict are not
  modelled; `UserConfirms` looks at `saving` again, which matters only for a create. Every record is taken to have a modification id, as FileMaker
  sends one; without it a save goes out unchecked (`recordEditor/index.ts:418`, `430`).

### Not modelled

* `FmBridge`: `ensureStarted` looks at `this.server` and then awaits `listen` (`fmBridgeServer.ts:51`), so two callers may start two
  servers; a request checked against profile A may run on B if the active profile changes between the check and the call. Listed
  under `hazards`, without a property.
* Because there is no state to go wrong: settings, roles, environment comparison, type
  generation, snippets, views, diagnostics, chat prompts. Because libraries
  decide: TLS, certificates. `designer-ui`, `runtime-next`, `tools`: separate programs. They are most of the repository's lines.

## 6. Plan

Done: sessions, batch updates and exports, caches, saved queries, the record editor, the AI tools and the AI server,
with their proofs. What is left, in this order:

1. `FmBridge` with its rate limiter and the change of the active profile.
2. `FMSession` with a secret store whose calls can fail and with profile edits that change the server or the account;
   composed with `SchemaCache`, whose `Drops` stands for its sign-ins.
3. The create of the record editor, which shares the key of a save; the query builder's runs.
4. `AiMcpController` with several runs of the start/stop command in a window and a dialog that outlives its setting.
5. What the sign-in of a Connect would have to do for `NoOrphan` to hold beside it, and the proof of it.
