# Vehicle Care in TLA+

Vehicle Care records vehicles, odometer readings, refuelling, services and
maintenance reminders. A client (React, IndexedDB) works offline and keeps an
outbox of edits; a server (Go, PostgreSQL, Redis) applies them, numbers them per
account and gives every device the numbered feed of changes. This directory
holds models of the parts where order, concurrency and failure decide
correctness, the TLC runs that check them, and proofs checked by TLAPS.

Paths below are relative to the repository: `server/internal/...`,
`client/src/...`.

## 1. The system

### 1.1 Components

| Component | State it keeps | Operations | Correct if |
|---|---|---|---|
| Sync store (`adapters/postgres`, `application/datasync`) | entity tables, `account_sequences`, `change_feed`, `processed_mutations`, `devices` | `CreateAccount`, `RegisterDevice`, `Push` (one transaction per mutation), `Pull` (two statements) | the feed is numbered without gaps, a mutation takes effect at most once, answers stay true, rows satisfy the cross-row rules |
| Outbox and local store (`data/`) | entity tables, `outbox` by `localSeq`, `syncMeta` | `enqueueMutation`, `repairBlockedMutation` | no edit is lost; edits leave in the order they were made |
| Sync run (`sync/`) | cursor, the run's own locals between awaits, the account lock | `runSync` (bootstrap, push, pull), `restoreFromServer`, resume | the device comes to the server's state, never over an unsent edit, never backwards |
| Orchestration and badge (`sync/autoSync.ts`, `stores/useSyncStore.ts`, `components/layout`) | the status shown, the timer of each tab, who waits for the lock | wake events, timer, Retry, restore, `WorkspaceRecovery` | a pending edit is sent without the user; a restore destroys nothing twice and does not retry by itself |
| Repositories (`data/repositories`) and formulas (`domain/`) | none of their own | one transaction per user action; pure functions | what they enqueue the server's rules accept; history, costs and reminders agree with the rows |
| Accounts, sessions, tokens (`application/user`, `adapters/redis`) | `accounts.auth_version`, sessions, one-time tokens | signup, login, logout, resolve and refresh, verification, reset | what is let in rests on present credentials |
| Google sign-in and linking | `auth_identities`, transactions in Redis | begin, callback, link | one identity, one account; a link rests on the password it asked for |
| Client session store (`stores/useSessionStore.ts`), guard, time zone | the account shown, a generation, a hydration revision, the cached profile | hydrate, refresh, login, logout, reset, verify, save of the zone | a late answer never replaces a newer session |
| Pages and forms (`pages/`, `components/log-entry`, ...) | React state of the mounted page, dialogs, busy flags | edit, confirm, save, leave | what is written is what the user confirmed, for the record shown |
| Rate limiting, PWA update, wire types, configuration, mail, telemetry, migrations, generated SQL code | | | not modelled (section 6) |

### 1.2 How they interact

    user ── pages ── repositories ──> entity tables + outbox   (one IndexedDB transaction)
                                            │ wake events, timer, Retry, account lock
                                            v
         sync run ── POST /sync/push (one mutation) ──> applyOneMutation ──> rows, feed, ACK
            ^   └─── GET /sync/pull (page) <─────────── change_feed
            │
         session guard ── account and generation ── session store ── cookies ── Redis session
                                                                        └── accounts.auth_version

- A push handler locks the account's row of `account_sequences` and holds it to
  COMMIT, so the pushes of an account are serial. Pull takes no lock.
- `part_types.id` is unique over all accounts: the one place where transactions
  of two accounts meet.
- The tabs of a browser share IndexedDB and take one Web Lock per account for
  sync and restore; local edits take no lock and may fall between any two awaits
  of a run.
- Redis and PostgreSQL share no transaction. A session or reset token carries
  the `auth_version` it was made at, and counts only while the account still has
  it.
- The tabs of a browser share the cookie and the cached profile, not the store.

### 1.3 What is hard here

Concurrent pushes and retries of one mutation; a failure between any two
statements; a commit whose answer is lost; a pull between two commits; edits
during a run; answers to older revisions; rounding by NUMERIC; a rejected edit
with newer ones queued behind it; a restore cut short; requests of a run that was
given up that still arrive; a reset between a login's password check and its
session; a logout between a session's read and its refresh; two first sign-ins at
once; an answer to a tab that has signed in as somebody else; a retry nobody asked
for; a dialog closed by the answer to another. `PROJECT.json` lists each of these
at its line with the properties that watch it.

## 2. The modules

| Module | Models | Built on |
|---|---|---|
| `ChangeLog` | what the server promises the devices of an account: a log that only grows and one answer per mutation | |
| `SyncStore` | the server's transactions, statement group by statement group | |
| `SyncStoreRefinement` | the mapping under which `SyncStore` implements `ChangeLog` | `SyncStore`, `ChangeLog` |
| `Sync` | the devices of one account and the network, against `ChangeLog` | `ChangeLog` |
| `OpenApp` | the devices of `Sync` where the app is open: what starts their runs by itself, and what this makes sure of | `Sync` |
| `SyncShell` | who starts a run, when, and what the badge says, in several tabs | |
| `Garage` | repositories, the server's rows they lead to, and the queries and formulas over rows | |
| `Screens` | pages, forms and dialogs over the repository calls | |
| `Auth` | accounts, sessions, tokens, Google identities on the server | |
| `ClientSession` | the session store of each tab, over the session routes | |
| `MC...` | instances for TLC | |
| `SyncStoreProofs`, `SyncStoreRefinementProofs`, `SyncProofs`, `SyncShellProofs`, `GarageProofs`, `ScreensProofs`, `AuthProofs`, `ClientSessionProofs` | theorems (section 4) | |

How they fit together: `SyncStore` implements `ChangeLog`, and `Sync` uses the
actions of `ChangeLog` as its server. This is why an exchange with the server is
one action in `Sync`: a push takes effect at its COMMIT, and a pull page is exact
(`PagesAreExact`) although it is two statements. `SyncShell` takes from `Sync` only
the outcome of a run; `Garage` takes delivery for granted and looks at what is
delivered; `Screens` takes from `Garage` only the fields its pages look at.
`ClientSession` takes from `Auth` that a session is live or not.

In every module some definitions are preceded by a variant whose comment begins
"Fault": the same definition with a plausible mistake. They are not part of the
specification; each property is known to fail when one of them takes the place of
the definition after it (`PROJECT.json`, "mutants").

### 2.1 SyncStore

Variables are the tables by account (`rows`, `feed`, `seqRow`, `processed`), the
row lock (`seqLock`), and for each push handler how far it is (`pc`), its batch and
position (`job`, `at`) and what its open transaction has written (`staged`).
Nothing staged is visible before `Commit` (READ COMMITTED).

| `pc` | The code |
|---|---|
| `ready` | `Service.Push` is at a mutation: `RejectInvalid`, or `LockAccountSequenceForUpdate` |
| `locked` | the lock is held: `findProcessedResult` answers a retry, else `checkCurrentState` |
| `checked` | `applyMutableMutation`, `applyAppendOnlyMutation`, or a refusal by the write itself (`rejectAtWrite`: ROLLBACK TO SAVEPOINT and a recorded rejection; `rejectConstraint`: a CHECK after rounding, nothing recorded) |
| `staged` | `Commit`, or `CommitUnheard` when nobody learns of it |
| any | `Abort`: an error, a cancelled request, a lost process |

A payload keeps the references the rules read (vehicle, part type, reading, code,
deleted); all other values are one opaque member `val`. Whether they pass
validation, or pass it and break a CHECK once NUMERIC has rounded them, is the
field `check`. The checks that the row lock makes unreachable inside one account
(a foreign key or unique key that fails although the rule before it held) remain
in the model as guards of the write. A sign-up seeds fresh ids, so `CreateAccount`
waits for its seeds to be unused (`SeedsFree`). `replies` is a history of what
clients were told.

### 2.2 Sync

A device is one browser profile. `run[d]` is what the holder of the account's lock
remembers from one await to the next; everything else it reads anew, as the code
does. Each IndexedDB transaction and each exchange with the server is an action,
and between any two a local edit, another device, a failure (`fail`) or the end of
the tab (`abandon`) may come.

- A row is the mutation whose values it shows (`by`), whether the values are
  those the server stored (`canonical`), and its number (`seq`). An ACK sets only
  the number; the stored values come with the pull of the same number.
- The outbox of a device is the set of its rows, `IsNext` the one of least `localSeq`.
- A page is the set of its changes. `AppliedTo` says what applying them as they
  ascend comes to (the newest change of each row decides), `Applies` that none of
  them refers to a vehicle that is not there when its turn comes. The loop of
  `pullChanges` does the same: `MCSync` compares the rows over every page of up to
  three changes (`PagesInTurn`), `PagesAreAppliedInTurn` proves it for all.
- `stale` are requests whose sender has given up. They may still be served, at any
  later time, or never.
- `fail` stands for network errors, unusable answers, `retryable_error` and failed
  transactions. `abandon` stands for a closed tab or a session that is no longer
  the current one: it writes nothing.
- The server of the model refuses a mutation whenever it likes (any of
  `SyncStore`'s rules may be broken by another device), and does so unrecorded for
  the numbers in `Malformed`.
- After an error only the user, or another tab that had already asked for the
  lock, starts a run (`Retry`).

### 2.3 OpenApp and SyncShell

`OpenApp` adds to `Sync` what decides whether a run ever starts: of each device with
the app open (`OpenApps`), whether `autoSync` has its timer set. `check` is one action: it
clears the timer, and sets it again unless it meets an error on record
(`autoSync.ts:38-50`). The other devices are those of `Sync` and may stop at any time.


Every tab has its session, its badge (`status`) and the state of its `autoSync`
effect (`check`: none, reading, running, its timer set, or without a timer because it
met an error);
the sync metadata, the outbox and the Web Lock (`queue`, its holder first) are
shared. A run goes from one request to the next (`pushing`, `pulling`,
`finishing`), and what it writes to the metadata and the badge on the way is
written with that step. Whether the session a run was started for is still the
current one is the field `current`, in place of the generation number. The
instance starts with a device that has synced before and all tabs closed.

### 2.4 Garage

The device `Here` has an outbox and may be offline as long as it likes; `There`
edits the rows it has pulled and pushes at once, so it stands for all other
devices. A repository call is one action. Amounts are thousandths and the server's
rounding to its NUMERIC columns is modelled: 0.004 litres pass `validation.ts` but
are 0.00 as `numeric(6,2)`, which a CHECK refuses. Instants are plain numbers, an
account's zone is an offset, and days and months are runs of instants, enough to
tell local from UTC dates. `serverSyncedAt` goes with `seq`. The formulas of
`domain/` (reminder progress, odometer bounds, history, cost per kilometre) are
operators on rows.

### 2.5 Screens

One tab: `route` is the page and whom it is about, `form` and `dialog` are the
React state of the mounted page, `calls` the repository calls that have not been
answered. A call keeps its answers' effects although its page has gone, as a
closure does. An instant is half a minute, the control shows minutes, and the zone
`dst` puts the clock back and forward again, so that two instants show the same
wall clock. What other devices do to the rows is `GarageChanges`.

### 2.6 Auth

Every call of a handler to PostgreSQL or Redis is an action; `req[h]` is what
the handler remembers between two calls. Reads that come one after the other are
one action where what they test can only become false for good: a session that is
gone stays gone and a version only grows, so a second read that succeeds says the
first would have (`LinkSessionHolds`, `BeginLink`, `TakeGoogleState`). Reads that a
write of another handler can invalidate stay apart: the read of an account at
login and the write of the session, the read of a session, its refresh script and
the read of the account, the check of a reset token and the UPDATE.

`opened`, `mails` and `resets` are histories: the credential each session was
opened with, what each token was issued for, the tokens that changed a password.
A user holds every token that was ever issued, so a late or older mail is always
possible.

### 2.7 ClientSession

A call in flight keeps what the code captured when it was sent (account,
generation, hydration revision) and the cookie it carries. Calls are served and
answered in any order; the cookie that an answer sets lands when the answer
arrives. A reload makes the calls of a tab orphans (`tab = None`): they are still
served and still set the cookie, so an instance with one tab also shows what a
closed tab does to a later one. `expire` clears the cached profile and the store in
one step.

## 3. What the runs check

| Run | Instance | Shows |
|---|---|---|
| `store_reminders` | 1 account, 2 devices, 2 handlers; 5 mutations on a vehicle and two reminders of one scope, one of them deleted and undeleted | `DenseFeed`, `OneActiveReminder`, `RepliesHold` with every interleaving, retry and abort |
| `store_logs` | 1 handler, 1 puller, two vehicles, a reading of either under one id, a fuel log of one, pages of 1 | `FuelReadingOfItsVehicle`, `ReferencesComeFirst`, `PagesAreExact` |
| `store_parttypes` | 2 accounts with their own locks, 2 handlers, one part type id, another code for a seed, a malformed update, a value that rounds to zero | `RowIsLatestChange`, `PartTypeHasOneOwner`, `ImplementsChangeLog`, and with fairness `HandlersFinish` |
| `sync_two` | 2 devices, a vehicle and a log of it, 3 mutations of which the second is malformed, pages of 1, runs cut short at any step | `NothingLost`, `ServerKeepsLocalOrder`, `LastEditShows`, `RestIsServerState`, `PageAlwaysApplies` |
| `open_app` | 2 devices, the app open on one, a seed, one edit, one run of the open app cut short, under fairness | `DevicesConverge`, `RestoreEnds` |
| `shell` | 2 tabs, one of them visible, 2 runs waiting | `RestoringHasNoQueue`, `ResumeDestroysNothing`, `ArmedUntilErrorCleared` |
| `shell_retry` | 1 tab, under fairness | a violation of `FailedRestoreWaits`, see section 5 |
| `garage` | 2 vehicles, 2 part types, 2 readings, a refuelling, 2 services; 2 edits here, 1 there, 2 clock ticks | `QueueIsAcceptable`, `SyncedDevicesAgree`, `HistoryAndCostsAgree`, `ServiceClearsReminder` |
| `screens` | 2 vehicles, 2 records, 2 calls in flight, 1 of them of a page that was left | `BusyEnds`, `LoweringIsConfirmed`, `DatesAreTheUsers`, `WritesGoToTheirRecord` |
| `auth_signin` | 1 account and address, 2 passwords, 1 Google subject, 2 handlers; 2 sessions, 1 token, 1 transaction | `SessionsMatchCredentials`, `ResetRevokesSessions`, `LinkIsReauthenticated`, `EndedSessionsStayEnded`, `SignInFindsItsAccount` |
| `auth_tokens` | the same with 1 session and 2 tokens | `ResetsUseOwnToken`, `OnlyNewestTokenLives` |
| `session` | 1 tab, 2 accounts, 2 calls in flight, 2 sessions, 1 save of a zone, 3 generations, 2 revisions | `SavedZoneStays`, `SaveLockIsReleased`, `OldAnswersSwitchNobody`, `SavesReachOwnAccount`, `NothingCachedForNobody` |

Deadlock is checked except in `garage` and `screens`: their bounded clock, edits
and calls come to an end and nothing is left to do. The type invariants are
proved for `SyncStore`, `Sync`, `SyncShell`, `Garage`, `Screens`, `Auth` and `ClientSession` and are not repeated in the runs.

**Bounds.** Two handlers are enough for every pairwise race in `SyncStore`, because
the row lock lets at most one handler of an account past `locked`; two accounts
are needed only for part types. `Sync` is bounded by `MaxMinted`, the mutations ever
made; runs fail or are cut short any number of times, and leave requests under way
(`stale`). In `OpenApp`, whose properties are about what an app comes to that stays
open, its runs are cut short at most `MaxCutShort` times. Three mutations give
an older edit, a newer edit of the same row and its repair, or a vehicle, a log and
an edit, on either device. Pages of 1 and 2 make pulls of several pages with commits
in between. `Auth` has two configurations because both at once exceed a run of five
minutes: sessions race with resets and links in one, tokens with each other in the
other. With one address there is at most one account, and first sign-ins collide.
In `ClientSession`, generation and revision bound only what a page submits; what is
in flight always ends. Symmetry is used in `sync_two`, `auth_signin`, `auth_tokens`
and `session`, none of which has a liveness property.

**Fairness.** `SyncStore`: strong fairness of the steps of a handler, since PostgreSQL
queues those who wait for a row lock. `OpenApp`, on the devices with the app open:
weak fairness of the steps of a run (an awaited call settles: every fetch has a
timeout or an error) and of a timer that is set; strong fairness of resuming an
interrupted restore, which the recovery screen starts on mount and the lock grants in
order. `SyncShell`: weak fairness of the steps of runs and of the effects of the
shell. Nothing is fair about the user or the surroundings: no edit, retry, repair or
restore ever has to happen, and no event has to wake an app that has no timer. So
`DevicesConverge` holds up to an error that is shown, a restore that has failed, or a
timer lost to an error (section 5). `Sync` itself has no fairness, and `sync_two`
checks only what no step may break.

## 4. What is proved

All theorems hold for all values of the constants that satisfy the assumptions of
the module, which TLC evaluates in every run. These say what the code guarantees:
ids are random UUIDs (`MutationAssumption`, `SeedAssumption`), a body holds one
device's mutations (`BatchAssumption`), a payload names only what its table has
columns for (`ReferenceAssumption`), Google reports an address
(`EmailOfAssumption`), `null` is no value, no row and no form (`NoneAssumption`,
`FormAssumption`), ids of two tables differ and are finitely many (`IdAssumption`),
typed amounts are integers of thousandths (`AmountAssumption`), the two devices of
`Garage` are two (`DeviceAssumption`), bounds are numbers.

| Module | Theorem | States |
|---|---|---|
| `SyncStoreProofs` | `TypeCorrect` | `Spec => []TypeOK` |
| | `FeedIsDense` | `DenseFeed`: the committed changes of an account are 1 to `current_seq`, each once |
| | `PullPagesAreExact` | `PagesAreExact`: a page holds exactly what lies between its cursors, now and later |
| | `RowsAreLatestChanges`, `ActiveReminderIsOne`, `FuelReadingStays`, `ReferencesPrecede`, `PartTypeOwnerIsOne` | the rules between rows |
| | `AnswersAreFinal` | `RepliesHold`: what a client was told stays true |
| `SyncStoreRefinementProofs` | `StoreImplementsChangeLog` | the refinement `ImplementsChangeLog` |
| `SyncShellProofs` | `TypeCorrect`, `RestoringIsEmpty`, `ResumesKeepRows`, `ArmedTillCleared` | `TypeOK`, `RestoringHasNoQueue`, `ResumeDestroysNothing`, `ArmedUntilErrorCleared` |
| `AuthProofs` | `TypeCorrect`, `CredentialsMatch`, `ResetRevokes`, `ResetsAreAuthorized`, `EndedStayEnded`, `NewestTokenLives`, `LinkReauthenticates`, `SignInIsServed` | every property of the two `auth` runs |
| `ClientSessionProofs` | `TypeCorrect`, `SwitchesAreCurrent`, `SavesAreExpected`, `NobodyStaysUncached` | the action properties of `session` |
| | `SaveLockEnds`, `SavedZoneIsKept`, `StartupAwaited` | the invariants of `session`; a loading tab always awaits the answer that ends it |
| `ScreensProofs` | `TypeCorrect`, `ButtonsComeBack` | `TypeOK`, `BusyEnds` |
| | `WarningsPrecedeLowering`, `EditsKeepTheirDates`, `SavesReachTheirRecord` | the action properties of `screens` |
| `SyncProofs` | `TypeCorrect`, `NothingIsLost`, `LastEditIsShown`, `RestIsServers`, `PagesApply` | `TypeOK`, `NothingLost`, `LastEditShows`, `RestIsServerState`, `PageAlwaysApplies` |
| | `OrderIsKept` | `ServerKeepsLocalOrder` |
| | `PagesAreAppliedInTurn` | `AppliedTo` and `Applies` are what the loop over a page of any length does |
| `GarageProofs` | `TypeCorrect`, `QueueIsAccepted`, `DevicesAgree`, `HistoryAddsUp` | `TypeOK`, `QueueIsAcceptable`, `SyncedDevicesAgree`, `HistoryAndCostsAgree` |
| | `ServiceClears` | `ServiceClearsReminder` |

### 4.1 SyncStore

`DenseFeed` is not inductive: `Commit` adds whatever number was staged. `IInv` adds
`StagedIsNext` (a staged number is the next one of its account, or the current one
for an answer without a change), `LockHeld` (from the draw of a number to COMMIT
the handler holds the row lock, so nobody else moves the sequence) and
`AccountsFirst` (before its sign-up an account has nothing, so the seeds are
numbered from 1). For the pages, `PullsBehind` says that the bound a pull has read
is at most the committed sequence. The lemma `FirstOfDense` turns `ORDER BY ...
LIMIT` into arithmetic: the first n elements of a dense set are the n next numbers.

The rules need to know why what a transaction found is still so at COMMIT. `Knows`
says it: with the lock held nobody else writes for the account, so the checks of
`checkCurrentState` stay true (`LocksApart`, `PublishLeavesOthers`). Part types are
the exception, and `InsertsApart` says that two open transactions never write one
id. `TypesStay` keeps an id to one type. `RepliesFollow` ties every reply to what is
recorded, and `AnswersFit` what is recorded to the feed.

For the refinement, entry n of the abstract log is the change numbered n and the
mutation whose recorded answer has that number. This is a function because no two
applied mutations have one number (`AppliedOnce`). A sign-up maps to `Open`, COMMIT
to `Apply`, `Find` or `Refuse`, every other step to a stutter.

### 4.2 Auth

`CInv` says of each handler what it may still rely on of what it read some
statements ago (`ReqFits`): the account is still there, its version has only grown,
and at the same version the same credential opens it. Nothing of this is ever taken
back, so a step of one handler cannot disturb another's part, and the proof shows
this once (`ReqFitsLater`) for all steps. The same is kept for sessions, Google
transactions and mails; `ResetsFit` says that version n + 1 of an account was made
by a token of version n. `TokensFit` (a live token is the one its index names) gives
`OnlyNewestTokenLives`, and `LInv` (what the advisory lock and `FOR UPDATE` keep
while a handler links or creates) gives the two action properties of Google.

### 4.3 ClientSession

`Types` says what a call in flight is by kind, though stores change under it. For
one tab, `Fits` says that no question is ahead of its tab, that the save awaited is
one and the lock carries its generation, and that a loading tab awaits an answer that
will end it. `ZonesFit` says that an answer which may still be shown is no older than
what has been shown: the revision counts the saves, so an older answer fails the
comparison. The theorems hold for any number of tabs, where the run has one.

### 4.4 SyncShell

`WInv`: a run in progress is the head of the queue, only a sync pushes, and a restore
that has begun has marked the workspace. Whatever a step writes after its outcome,
the outbox of a marked workspace stays empty: an edit is refused while the mark is
there, and the mark is set in the transaction that clears the outbox.
`ArmedUntilErrorCleared` is about a step, and needs of `WInv` that the error on record
is cleared for as long as a run is in progress: then only the beginning of a run can
take an error from a check that waits for it. Each action is shown to leave the check
of a tab as it was (`Still`) or to put it where it is well (`Fresh`).

### 4.5 Sync

None of the five invariants of `sync_two` is inductive alone: whether an ACK may set
a number, or a page a row, rests on what the server has let in before. `SInv` adds:

- `AnswersFit`, `LogFits`, `MintedFits`: a mutation has one answer, an applied one its
  place in the log, a change comes after its vehicle's, every number minted is fresh.
- `OrderFits`: a mutation that has taken effect or still may (`Live`: applied, or
  under way and not refused) lies in front of the rest of its device's queue. This is
  what a retry after a lost answer relies on: only the head is sent, a blocked row is
  refused for good, and a request whose sender has given up is the head's, or of a
  mutation that has left the queue. `ServerKeepsLocalOrder` follows: what takes effect
  and is not dropped is still queued, behind all that has taken effect.
- `QueuedLate`: the change of a queued mutation is beyond the cursor and beyond the
  number its row shows. So an ACK sets a number no smaller than before, and a row
  whose queue has become empty is confirmed beyond the cursor (`Confirmed`).
- `RunFits`: what a run remembers over an await is still so: the row it sent is the
  one in the queue, the verdict is the server's, the page holds the changes behind
  the cursor.
- `EditsShow`, `RestFits`: `LastEditShows` and `RestIsServerState` of one device.

`NoEdit` proves once that a step which edits nothing keeps all of it while the
server goes on, `OneDevice` the same for a step that changes the rows of one device,
and `Minting` for the two that make a mutation. `PagedRow` is the pull: the newest
change of a row behind the cursor, or the row itself if it has been confirmed beyond
the page. Its existence needs the greatest element of a set of numbers, which
`Least` and `Greatest` take from the well-foundedness of `<`.

`PagesAreAppliedInTurn` follows the loop over a page: after k changes the newest of
each row so far decides (`RowsAfter`), because of two changes of a row the newer one
wins whatever the row was (`NewerDecides`).

### 4.6 Screens

`BusyEnds` says that a call is in flight for every button that works; it does not say
that its answer is heard. `IInv` adds which page makes which calls (`MadeHere`), so
that an answer to a call made elsewhere neither frees nor blocks a button here, and
that the call of the reading sheet is made by the sheet that is open or by one closed
on the same page (`SheetFits`). For the action properties, a form is that of its page
(`FormFits`), an untouched date still shows the entry's instant (`DateFits`), and who
is asked to confirm has been warned (`ConfirmFits`). The fields of an open interval
dialog are those of its reminder (`DialogFits`), whatever answers close other dialogs
in between. Answers to calls come in any order: what is left of `calls` after one of
them is a choice (`Left`), and `LeftFrom` gives what proofs need of it.

### 4.7 Garage

`QueueIsAcceptable` looks ahead: after n mutations of the queue the rest must still
be acceptable. `IInv` says it of now. Every mutation there is, on the device, in the
queue or on the server (`Held`), has the fields of its id and amounts that passed some
device's domain rules (`HeldFits`), and no two of them disagree about the vehicle of a
reading (`OneVehicle`). What a row refers to is in its table, what a queued mutation
refers to is on the server or earlier in the queue (`Closed`), and a reading is queued
once (`ReadOnce`). Nineteen repository calls keep this for one reason: `WritesFit`
says what their writes must satisfy, `WriteKeeps` proves once that such writes keep
`IInv`, and each call is shown to satisfy `WritesFit`. That the server is ready for
the n-th mutation (`AheadFits`) is then a least counterexample over n. The reminder of
a vehicle and a part type is one because its id is made of both.

`DevicesAgree` rests on how a row stands to the server's: a stamp is one the server
has given (`Stamped`), what it had at the last pull is here (`Pulling`), and a row of
which nothing waits is the server's unless a change of it is still to come
(`UpToDate`). With an empty queue and nothing to pull, the tables are equal but for
`created` (`Alike`). The order of readings looks at `created` only between equal
stamps; `Numbered` says that two rows have one stamp only if both devices started
with them, and no reading is among those.

`ServiceClears` goes through the formulas: the service is the newest reading and the
last of its part, so both cycles of its reminder start at it (`ServiceCounts`), and
the intervals are positive (`HeldFits`).

`HistoryAddsUp` compares a fold over the logs with a fold over the same logs in
another order. `SpentSums` shows that the fold is the running sum its loop computes:
the function the definition chooses exists as far as any n. `OrderIsFree` says that
reordering leaves a sum as it is (take away the element that comes last, `SumsWithout`),
`AllSortable` that a descending order exists (insert one more), so that the choice in
`NewestFirst` is one of them. The induction over n in each is a least counterexample
(`Least`, `Everywhere`), because the induction rule of the library takes an operator.

### 4.8 What stays with TLC

- Liveness and everything that rests on ENABLED: `HandlersFinish`,
  `DevicesConverge`, `RestoreEnds`, and the violation of `FailedRestoreWaits`. The
  prover has no rule for fairness or ENABLED.
- `SyncShell` takes the outcome of a run for granted (section 7).

Every other property of a run is a theorem. Some definitions are written so that
proofs can use them, where the code filters, sorts or folds: `SyncShell` takes the
subsequence of a queue as a choice (`Without`), `Screens` the calls that are left
(`Left`), `Garage` the order of the history (`NewestFirst`), and
`Sync` lets the newest change of a row decide.

## 5. Where code and documents differ

**A failed restore retries by itself** (run `shell_retry`, listed under "findings").
`.docs/decision.md:471` says a recorded error stops automatic retry until the user
acts, and `:478` that a failed restore waits for the user. But
`WorkspaceRecovery.tsx:12` queues a resumed restore also in the tab that is running
the restore. It waits for the lock; when the restore fails it finds the operation
`restore_failed`, not `idle`, and starts.

**An open tab can be left without a timer.** `decision.md:469-470` says that a timer
checks open tabs, and `:471` that an error stops automatic retry until the user acts.
But a check that meets an error returns without a timer (`autoSync.ts:42`), and the
Retry of the badge or of the dialog (`SyncStatusBadge.tsx:125`, `:189`) calls
`runSync` and not `check`. Once the Retry has succeeded there is neither error nor
timer: later edits stay on the device, and changes of other devices outside it, until
a wake event (`online`, `visibilitychange`, a change of the session) or the user's
next click. The models have this behaviour, and the properties name it instead of
assuming it away: `ArmedUntilErrorCleared` says that the run which clears an error is
the only step after which a page may be without both, and `DevicesConverge` speaks of
devices whose timer is set. Without these exemptions TLC finds both violated.

Met while modelling, not listed as findings:

- `handleSignOut` (`SettingsPage.tsx:43-47`) clears cache and session after a late
  answer to logout whoever is signed in by then; `decision.md:286-287` says an old
  answer changes nothing. `OldAnswersSwitchNobody` exempts the answers of a login and
  of a logout for this reason. `hydrate` clears the store on 401 but keeps the cached
  account. `decision.md:289-294` accepts some of this.
- `performSync` clears the recorded error when it starts, so of two tabs that wake
  at once the second may retry after the failure of the first. `restore.ts:29`
  returns without a status, so a tab that loaded `restoring` from the metadata keeps
  its badge disabled until the next automatic sync. Retry during a failed restore
  runs a normal sync that ends as `synced`. A double click can queue two restores.
- `validation.ts:12-14` lets 0.004 litres through; stored as `numeric(6,2)` that is
  0.00, which the CHECK refuses, so the mutation is blocked. `decision.md:113` and
  `:118-121` leave rounding to the server.
- `UpdateOdometerSheet` has no key (`HomePage.tsx:61`): browser back from one vehicle
  to another keeps the typed reading, which is then saved to the other.
  `GarageList` and `HistoryTimeline` have one `busyId` for all rows; a late answer
  may close the dialog of another item or leave a page the user has opened since.
  Edit forms write all fields as they were at mount. Editing a record that was
  deleted elsewhere succeeds and shows nothing. `ReminderManagement.onToggle` has no
  `catch`.

## 6. What is not modelled

- Inside the modelled parts: wording and codes of errors; the fields of payloads that
  no rule reads; rate limits; CSRF tokens, which live and die with their session;
  the transport of mail; the content of Google's answer. The lock of a browser
  without Web Locks serialises one tab only (`accountLock.ts`); `decision.md:473-474`
  promises nothing across tabs there.
- In `Sync` a restore may be followed by the arrival of a mutation that it discarded
  while the request was under way. The code cannot prevent it and the properties
  allow it by name (`dropped`).
- In `Screens`: the pages of costs and part types, `EditVehicleSheet`,
  `PartTypeFormSheet`, `ReminderEditor` and the toggle of a reminder; a restore
  that unmounts the page; a dialog's closing animation; live queries lag only for
  the list of vehicles.
- The client side of Google sign-in, rate limiting, PWA update, wire types, process
  and configuration, generated code: `PROJECT.json` gives the reason for each.

## 7. Plan

Every component of the plan has its module, its runs and its mutants, and every
safety property its theorem. What is left:

- `SyncShell` and `Sync`: that the outcome of a run that the one takes for granted is
  an outcome the other has.
