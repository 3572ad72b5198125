# Letter Box: specifications and proofs

TLA+ specifications of the Letter Box mail client (NestJS API, BullMQ workers,
PostgreSQL, Redis, IMAP, Electron desktop), checked with TLC and proved with
TLAPS. Paths below are relative to `src/`; `backend/` stands for
`apps/backend/src/`, `desktop/` for `apps/desktop/`.

Contents: [system](#the-system) · [modules](#the-modules) ·
[runs](#the-runs) · [fairness](#fairness) · [proofs](#proofs) ·
[findings](#what-the-checks-found) · [known limits](#known-limits) ·
[not modelled](#what-is-not-modelled) · [plan](#plan)

## The system

Three kinds of process share one PostgreSQL and one Redis. The **API**
(`backend/main.ts`) answers the desktop and runs the scheduler; the **worker**
(`backend/worker.ts`) works off three BullMQ queues: `mailbox-sync` (concurrency
`SYNC_WORKER_CONCURRENCY`), tagging (concurrency 1) and token refresh
(concurrency 1); the **desktop** has an Electron main process and one renderer
per window. IMAP, SMTP, OAuth providers and Ollama are outside.

| component | state | operations | hard behaviour | what makes it correct |
|---|---|---|---|---|
| Folder and account locks (`backend/sync/mailbox-folder.lock.ts`) | Redis keys with a token and a time-to-live | acquire with a deadline, release by token, expiry | holders die or outlive their lease; syncs take two keys | exclusion per key while leases last, holders a lease apart beyond that; nobody waits for good; keys of the dead come back |
| IMAP mirror (`backend/mail/mail.service.ts`, `imap.service.ts`, `prisma-mail.repository.ts`) | `Message` rows with flags and bodies, `Mailbox.uidValidity/backfilledUid`, `MailboxState.uidValidity` | incremental sync, history walk in batches, "load older", move/archive/delete, flags, reconnect, folder list | IMAP answers that are stale when saved; saves without a lock; a crash between saving and moving the cursor; UIDVALIDITY changes | rows show the messages the UIDs name; no hole in the imported history; rows and flags converge to the server |
| Job queue, scheduler and worker (`backend/sync/sync-queue.service.ts`, `sync-scheduler.service.ts`, `backend/worker.ts`) | BullMQ jobs by stable id, `activeJobs` | `enqueueSync`, `enqueueBackfill`, `enqueueAndWait`, ticks, queue events | duplicate ids, retries, stalled jobs, a full worker | INBOX is synced for ever; whoever waits is answered |
| Accounts and credentials (`backend/account/*`) | account rows with status and backoff, an encrypted credential file, an in-memory map per process | create, reconnect, connect, remove, `ensureFresh`, `refreshDue` | read-modify-write of one file; two processes with a copy each; refreshes beside reconnects | an account stays with its owner; a good credential is used in the end |
| Tagging (`backend/ai/*`) | `classificationStatus`, `tagAttempts`, `classificationText`; tag jobs | claim, classify, complete, release, fail; sweep; boot catch-up | four kinds of actor update one row by conditional updates; outages; crashes | attempts stay bounded; tagged stays tagged; every message gets tagged |
| Authentication (`backend/auth/*`, `desktop/src/shared/api/client.ts`, `desktop/electron/session-store.ts`) | live refresh tokens; a session file; a copy of it per window | register, login, refresh (rotation), logout | each window and the main process refresh with their own copy | a refresh token works once; no request hangs |
| OAuth onboarding (`desktop/electron/oauth/*`, `AccountDialog.tsx`) | the one active authorization, a loopback server, a token file, the dialog | authorize, submit code, cancel, store | replaced authorizations that end late; redirects of old tabs; timeouts | what waits can be cancelled; each authorization ends and saves no tokens after that |
| Sending (`backend/mail/smtp.service.ts`, `ComposeDialog.tsx`, `desktop/electron/main.ts`) | drafts and windows in the main process, a form per window, the Sent folder | open, change account, send, close | a connection breaks after the server has acted; retries; the form changes under a send | the user is told what happened; duplicates and copies have a cause |
| Desktop UI (`desktop/src/pages`, `state`) | caches of what the API said | views, optimistic updates, background syncs | server events beside requests, some lost | what is shown is what is stored |
| Shell (`backend/main.ts`, `database`, `health`, `events`) | none of its own | bootstrap, schema, web socket fan-out | | |

The components meet in few places. The scheduler queues a sync per folder; the
sync worker calls `MailService.syncMailbox`, which takes the account key and
then the folder key, asks IMAP, stores the answer in one transaction, enqueues
tag jobs and lets the worker chain `enqueueBackfill`; the backfill worker walks
the history under the folder key only. API requests touch the same rows with no
key at all, and tell the window by their reply; syncs tell it by an event. Tag
jobs, the sweep and syncs meet in the `Message` row. Jobs and requests take
their credentials from the copy of their process, which both processes write
back to one file. The desktop's windows and its main process share one session
file; the onboarding stores accounts through the API with that session.

## The modules

| module | models | proofs |
|---|---|---|
| `Mutex` | the abstract specification: a set of keys, at most one job in the section of each | |
| `FolderLock` (`MCFolderLock`) | the Redis lease lock as the sync worker uses it; implements `Mutex` for the jobs whose lease lasts | `FolderLockProofs` |
| `UidSelection` | `selectMetadataUids` and `selectBackfillUids` on sets of UIDs | |
| `MailboxSync` | one folder: IMAP server, sync, history walk, paging, removal, reconnect, folder list, crash | `MailboxSyncProofs` |
| `SyncQueue` (`MCSyncQueue`) | the queue of one account: ticks, stable ids, slots, retries, stalls, backoff, requests that wait | `SyncQueueProofs` |
| `Accounts` (`MCAccounts`) | account rows, the credential file and its two copies; calls, sync jobs, the token refresh job | `AccountsProofs` |
| `Tagging` | tag jobs, sweep, boot catch-up, syncs that write the same rows, BullMQ's retries and kept jobs, Ollama | `MessageProofs` |
| `AuthSessions` (`MCAuthSessions`) | refresh tokens, windows, the session file, the main process | `AuthSessionsProofs` |
| `Onboarding` (`MCOnboarding`) | authorizations of the main process and the account dialog | `OnboardingProofs` |
| `MailActions` (`MCMailActions`) | flags, moves and bodies between handlers, syncs, other clients and the query cache of a window | |
| `Sending` (`MCSending`) | compose windows, the form's mutation, SMTP endpoints, the copy in Sent | `SendingProofs` |

Each module names the neighbour that has the rest: `SyncQueue` takes what a sync
does from `MailboxSync` and the lock from `FolderLock`; `MailActions` keeps the
UIDVALIDITY fixed, whose changes are in `MailboxSync`; `Onboarding` leaves the
session to `AuthSessions`; `Sending` leaves the status of an account to
`Accounts`. The MC modules only declare the model values and functions their
configurations use.

Operators named as mutants in a comment are wrong versions of the definition
they stand before. Substituting one must break the property it is listed with in
`PROJECT.json`; no specification uses them.

### FolderLock and Mutex

A key is `owner[k]` and `ttl[k]`. `TryAcquire` is `SET k token PX LOCK_TTL NX`,
`Release` the Lua script that compares the token; `Tick` lets time pass for the
keys (`ttl`), for the `acquire()` loops (`wait`, up to `LOCK_WAIT`) and for the
holders (`held`). A sync goes `account → folder → section → leaving` and a
backfill batch `folder → section`, the nesting of `syncMailbox` and
`withFolderLock`. `GiveUp` is the deadline, with the `finally` of the outer lock
a sync still has to run; `Crash` runs no `finally`. The 250 ms poll is a choice
of moment. `Prompt` bounds a section by `MaxSection` ticks, as every run needs a
bound the code does not have. It may well be longer than the lease, and is in the
run: then the key expires under its holder, another job takes it, and the first
one goes on as a straggler that still releases with its old token.

`InLease` says who is in a section while the lease of its key lasts. The jobs
in lease are what `Mutex` sees (`Enter` is a `SET NX` that succeeds, `Leave` an
end, a crash or an expiry), and two jobs that are in one section at once are a
whole `LOCK_TTL` apart (`LeaseApart`): that is what the lock gives without any
assumption on times, and exclusion is a corollary where sections fit.

### MailboxSync

A message is its UID, and a row its UIDVALIDITY (`rows[u]`): rows with an old
one show another message than the server would. The folder has its two records
of UIDVALIDITY (`cursor.uidValidity` of the `Mailbox` row and `mailboxState`),
the history cursor, and one of each thing in flight: a sync, a backfill job with
its batch, a page, removals. Steps end where the code awaits something another
actor can affect: `SyncRead` (rows and records, under the lock), `SyncFetch`
(the IMAP session), `SyncApply` (one transaction), `SyncEnqueue`; `BatchRead`,
`BatchFetch`, `BatchSave`, `BatchCursor`. The lock is a mutex whose owner may
die (`orphan`); `FolderLock` justifies it, and the hazard `lease` gives it up.

`Hazards` selects the environment, so that each property is checked where it is
claimed: `uidvalidity`, `search` (SEARCH answers `false`, read as an empty
folder), `lease`, `paging` (`loadOlder` with any `beforeUid`, a local one or
not), `reconnect`, `early` (a backfill before the first
sync), `vanish` (expunged between SEARCH and FETCH), `straddle` (a UID is given
to another message between the two halves of a removal), `relist` (the folder is
missing from one LIST).

Abstractions: the reads at the start of a session are one step, since rows and
records change under the folder lock or by the hazards that are steps of their
own; flags, headers, bodies and attachments are left out; the backfill is
enqueued in the step that decides it. `events` bounds failures and requests,
`skipped` is a history variable that names the one way (`SyncBurst`) in which
syncs leave messages out.

### SyncQueue

A job is its BullMQ record under its stable id (`<<"sync", f>>`,
`<<"backfill", f>>`): its state, the attempts that failed, whether it has
stalled once. `Added` is `queue.add`, which ignores an id that exists.
`TickInbox` and `TickFolders` skip an account in backoff or with its lock taken,
and queue nothing while no worker slot is free (`tickAccounts`). A sync starts
(`Start`), waits for the account lock (`TakeLock`, `LockTimeout`) and ends
(`Synced`, which resets the backoff and chains the walk; `SyncFails`, which
begins it); a walk is one step to `WalkCompletes` or `WalkFails`. `Crash` kills
the worker with every active job: `Stalled` takes each back once and fails it
the second time. `Ask`, `Join` and `WaitEnds` are a request of the desktop in
`enqueueAndWait`: it finds or adds the job, then waits, and the job may be gone
between the two. Priorities and delays are choices of moment.

### Accounts

A credential is a number, fresh ones are larger. `file` is the encrypted file,
`memory` the map of each process, `row` the account row: owner, status, and
whether its backoff is running. An actor is a call of the API, a sync job or the
token refresh job; `act[p]` says how far it is and what it holds, and one
session of IMAP goes `EnsureFresh → Refreshed → Load → Store → Accepted`, with
`RefreshRefused`, `Rejected` (which renews once, `RejectedAgain` being the wrong
version that does so for ever), `RefreshLost` and `Disconnected` beside it.
Reading the file (`Load`) and writing it (`Store`) are two steps.
`Create`, `Ask`, `WriteRow`, `Answer` are `saveAndTest`, `connect` and `remove`
of the controllers; `Reload` the reload a sync job begins with; `Plan` and
`Pick` are `refreshDue`; `Boot` a restart with `resetConnectionStatuses` and
`upsertStored`. `Revoke` and `Toggle` are the provider and the IMAP server.

### Tagging

A row is `tagStatus`, `tagAttempts` and whether `classificationText` is set. The
worker's place in a job is `tag[m]`; `claim`, `complete`, `release`, `markFailed`
and `currentAttempts` are steps of their own, because the boot catch-up, which
runs beside the queue, and syncs may update the row between any two. A job is
BullMQ's: tried again until `MaxAttempts`, taken back once after a stall, kept
with its id after failing for good until `KeepFailed` (50) others failed.
`Prepare` is a sync that finds an unread row without a text and overwrites its
status. The model abstracts the tags (one outcome), the limits of the sweeps
(200, 300, 500 and 2000 rows: more than there are messages here), priorities and
backoff delays, and the `important` pass, which changes tags only.

### AuthSessions

A session is the number of its refresh token; `login[t]` is the login it
descends from, `expired` the newest one whose access token is too old (access
tokens expire in the order in which they were issued). Rotation is two steps,
`RotateFind` and `RotateCommit`, with the counted deletion between the two
deciding. Registration is `RegisterBegin` and `RegisterCommit` under `LOCK
TABLE`. A window has its session in memory, one shared refresh (`refreshPromise`),
requests that come back with 401 and wait for it, an IPC message to the main
process on its way (`ipc`) and a `session:updated` coming back (`inbox`); the
onboarding refreshes in the main process with the session of the file.
`RefreshLost` loses an answer, `Close` and `Open` a window.

### Onboarding

`flow[f]` is the place of an authorization: a loopback server that listens and
exchanges, a pasted code that is waited for and tried (`opening`, `waiting`,
`trying`), then the address is asked for (`asking`) and the account is stored
(`checking`). `active` is `this.active`; `Cut` is what `cancel()` reaches, and
`Finally` the `finally` that clears `active` only for its own strategy. The
dialog is open or not, with step, `busy` and error: events carry no id, so
whatever flow reports changes it. With `FixedPort` the redirects of old tabs
(`tab`) reach the server of the new flow, and `Accepted` compares the state.

### MailActions

Messages are numbered by date; `box` and `boxFlags` are the IMAP side, `rows`,
`rowFlags` and `bodies` the database. A request goes `Finds` (read the row) →
`Commands` (IMAP) → `Saves` (the flags of the row as it was read before IMAP,
with the one flag changed, are written as a whole set, or the row is removed) →
`Answers` (for which the row is read again); each may be refused, fail or lose
its answer. A sync reads (`SyncReads`) and commits (`SyncCommits`) with any of
these between. The window has the pages of one list, which are fetched one by
one (`FetchPage`), the message in the reader, and notices on their way:
`Delivered` invalidates as `invalidate` of `SyncProvider.tsx` does, `EventLost`
and `ReplyLost` lose one. `InboxPage` is `listInbox`: the newest `offset + limit`
rows of each account, merged and sliced. `untold` is a history variable: rows
changed and nothing that reached the window said so.

### Sending

`bridge` says whether the app runs in Electron, where a composition is a window
with a draft in the main process, or in the one dialog. `form[w]` is the account
shown, the request the mutation watches and the round (how often the form was
started afresh). A request goes over the endpoints of its account: `HandOver`,
`Breaks` (before or after the server took the message) and `Rejects`; then
`Append` copies it to Sent under `withClient`: `Stores`, `AppendBreaks` (again
before or after), `AppendDenied` (which renews the token once) and
`AppendFails`, and the outcome is success either way. Not so `LookupFails`: the
name of the Sent folder is read from the database before the `try` that protects
the copy (`mail.service.ts:579`), and a request that ends there answers an error
for a message that is out (`unfiled`). `Answer` reaches the form
if it still watches the request; `AnswerLost` and `Crash` cut it off.
`delivered`, `unsure` and `copies` count what has happened to the message.

## The runs

The runs take between a few seconds and four minutes with two workers.

| run | specification and bounds | checks | shows |
|---|---|---|---|
| `LockLeases` | two syncs of one account, a backfill of one of the folders; 5 tokens, TTL 2, wait 1, section 3 | `FolderExclusion` `AccountExclusion` `LeaseHonoured` `ImplementsMutex` `CallsSettle` `OrphansExpire` | sections outlive their leases, and still the lock is a mutex of those in lease, stragglers disturb nobody, and whoever shares a section is a lease apart |
| `SyncMirror` | 4 UIDs, 2 UIDVALIDITYs, 2 events; `uidvalidity`, `relist` | `TypeOK` `NoGap` `NoStaleRow` `EventuallyMirrors` | resets wipe everything, no hole opens between the cursor and the newest message, and the rows converge to the server |
| `SyncLive` | 2 UIDs, 2 UIDVALIDITYs, 1 event; eight hazards at once | `WalkEnds` `GhostsGo` | walks end, and rows of deleted messages, brought back by late saves, do not stay |
| `SyncBurst` | 4 UIDs, limit 1, no hazard | `HistoryWalkFinished` | *violated*: see findings |
| `Polling` | 2 folders, one asked for and one imported; 2 slots, 2 attempts, 2 events | `TypeOK` `WaitersHaveAJob` `InboxSynced` `HistoryImported` | INBOX is synced for ever and its history imported; nobody waits for a job that is not there |
| `Credentials` | 1 OAuth account at Gmail, 2 users, 2 calls, a sync job and the token job; 2 grants, 2 events | `TypeOK` `OwnersKept` `EveryCallEnds` `Recovers` | accounts stay with their owners, calls end, a good credential connects again and again |
| `TagSettles` | 2 messages, 2 attempts, 1 kept job, 1 event | `TypeOK` `TaggedStays` `SettlesOrParks` | attempts stay bounded, tagged stays tagged, every message ends tagged or in one of two named states |
| `SignIn` | 2 registrations, a window with 2 requests, the onboarding; 3 tokens, 1 event | `OneTokenPerLogin` `ClosedRegistration` `RefusedByOthers` `Settles` | rotation is exclusive, a window never signs itself out, nothing hangs |
| `Connecting` | 2 authorizations of any kind, a fixed port, 3 events | `WaitingIsActive` `NoDeadSpinner` `EndedSavesNothing` `FlowsEnd` | what waits can be cancelled and ends; what has ended saves no tokens, though its tab is still open |
| `MailActions` | 3 messages of 2 accounts, 2 requests, pages of 1, the list of unread messages; 2 events | `OwnChangesShown` `PagesInOrder` `RowsSettle` `ListSettles` | pages in order; rows and list settle although flags are written back whole and events are lost |
| `StaleReader` | 2 messages of 2 accounts, 1 event | `MessageQueriesFollow` | *violated*: see findings |
| `Sending` | 2 compositions, 2 requests, 2 accounts with 1 and 2 endpoints, one with tokens and a Sent folder; 1 retry, 1 event | `DraftsOfWindows` `OutcomesAreHonest` `DuplicatesHaveCause` `CopyOfDelivered` `SendSettles` | users are told what happened, with the two exceptions that are named; duplicates and copies have their cause; no form waits for ever |

The runs leave out the `TypeOK` of `FolderLock`, which is proved, and those of
`AuthSessions`, `Onboarding`, `MailActions` and `Sending`, which were checked
while the modules were written: the other properties of these runs break first.

Why the bounds are enough. *Locks*: two jobs compete for each key, one of them
holding another key. A wait of 1 is inside the TTL of 2, as the code's 90 s are
inside its 120 s; a section may last 3, so a holder can lose its key, see it
taken and taken back, or end before any of it, and a sync may lose its account
key while it waits for its folder. Five tokens are two for each
sync and one for the backfill; the proofs need no bound. *Folder*: a limit of 1 against 4 UIDs makes a first
sync leave out three messages, a batch of 2 makes a walk of two or more batches,
two UIDVALIDITYs make one renumbering at any moment; two events allow a crash of
a crash's retry, or a crash beside a removal or a second request. `SyncLive`
pays for eight hazards with 2 UIDs and batches of 1, which still walk in two
batches. *Queue*: two slots are filled by a sync and a walk of one folder, so
every job of the other one meets a full worker; two attempts and two events make
a job fail for good, or stall twice. *Accounts*: two calls and two jobs are
enough for every pair of operations to overlap on one account, in one process
or in two; two users contend for it; a second grant is a rotation or a
reconnect. *Tagging*: one event is an outage, a bad answer, a failed
preparation, a crash or a removal; outages, once there, last as long as TLC
likes, so they fail both tries of both jobs and evict the one kept job, and
re-preparation brings messages to their second attempt. *Sessions*: two requests
share a refresh, the onboarding races them; three tokens are a login, a rotation
and one more of either. *Onboarding*: the second authorization replaces the
first; every race of the code is one of two. *Mail*: a page of one message makes
each arrival shift a page boundary; two requests are two handlers on one row, or
two rows; two events are a user action and a failure, or a change elsewhere and
a lost event. *Sending*: the fallback needs two endpoints, the retry one, and
the second request is a resend or another window's.

`CHECK_DEADLOCK FALSE` is said where the bounds run out: `SignIn` has a bounded
number of tokens, `Credentials` of account ids and events, `Sending` of windows
and requests.

The matrix of `NoStaleRow`, established while modelling: it holds under
`search`, `reconnect`, `relist`, `straddle` and `vanish`, alone and together as
long as not both records of UIDVALIDITY can be lost (`reconnect` with `relist`);
it fails under `lease`, `paging` and `early`. The proof assumes exactly that.
`NoGap` holds under `uidvalidity` and `relist` and under no other.

## Fairness

* `FolderLock`: time passes, and a live job reaches its deadline, settles its
  section and runs its `finally`; nothing is assumed about who gets a key, so
  `CallsSettle` also counts giving up. A section settles because the
  IMAP client and the database driver end connections that hang.
* `MailboxSync`: weak fairness for steps of a job that runs, since the worker's
  event loop returns to them. Strong fairness for the two steps that need the
  lock (`SyncRead`, `BatchDone \/ BatchRead`): both poll every 250 ms for 90 s,
  and the scheduler (`tickInbox`, `tickFolders`) queues a folder again every
  minute or five, so a job that finds the key free again and again gets it. No
  fairness for messages, users, failures and crashes, and `WalkEnds` counts a
  job that fails for good as ended.
* `SyncQueue`: the worker takes waiting jobs in turn (strong for `Start`, since
  slots are taken and given back) and polls for the lock (strong for
  `TakeLock`); what runs goes on, delays, backoffs and leases end. The tick of
  INBOX is strong: it comes every minute and a sync is much shorter, so it does
  not find the account locked, or the worker full, every time it comes. The tick
  of the other folders is only weak, as it fires together with every fifth tick
  of INBOX: nothing is claimed for other folders.
* `Accounts`: calls and jobs run on; ticks and the ends of backoffs come as long
  as they can. Nothing is assumed of users, networks or providers; `Recovers`
  is conditional on a credential that is accepted from some time on.
* `Tagging`: the worker goes on with what it began (weak); it returns to each
  waiting job and to the repeated sweep job (strong, since both compete for a
  worker of concurrency 1); the model server eventually answers again.
* `AuthSessions`: the API answers a refresh or the connection breaks, renderer
  and main process handle their events.
* `Onboarding`: timers fire (`FLOW_TIMEOUT`, the timer of the code), requests
  to providers and to the API come to an end. The user never has to do anything.
* `MailActions`: a sync that began ends, a notice that is not lost arrives, a
  fetch reads its next page (weak); the window's background sync
  (`SyncProvider.tsx`) comes for every account (strong: an interval timer, and
  the one sync slot is free again and again). Handlers and users need not go on:
  the syncs must settle rows and list without them.
* `Sending`: each connection has its timeout and the API answers what it ended.

## Proofs

TLAPS checks every leaf; no step is left out. Assumptions are those the modules
name: disjoint kinds of key, of job and of actor, positive limits, a known set
of hazards, accounts with at least one endpoint.

| theorem | for all | states |
|---|---|---|
| `FolderLockProofs!TypeCorrect` | jobs, keys, tokens, times | types |
| `FolderLockProofs!LeasesAreHonoured` | the same, sections of any length | `LeaseHonoured` |
| `FolderLockProofs!FoldersExclude`, `AccountsExclude` | the same | `FolderExclusion`, `AccountExclusion`: a lease apart |
| `FolderLockProofs!FoldersNeverShared` | the same, if `MaxSection < LOCK_TTL` | one job at a time in a folder |
| `FolderLockProofs!AccountsNeverShared` | the same, if `LOCK_WAIT + MaxSection < LOCK_TTL` | one sync at a time of an account |
| `FolderLockProofs!LeasesImplementMutex` | the same, sections of any length | `Spec => Mutex!Spec` for those in lease |
| `MailboxSyncProofs!TypeCorrect` | folder sizes, limits, hazards | types |
| `MailboxSyncProofs!NoRowOutlivesReset` | folder sizes, limits, if `Sheltered` | `NoStaleRow` |
| `MailboxSyncProofs!NothingMissingBetween` | folder sizes, limits, if `Steady`: no hazard but `uidvalidity` and `relist` | `NoGap`, which exempts what `skipped` names |
| `SyncQueueProofs!WaitersAreAnswered` | folders, slots, attempts, failures | `WaitersHaveAJob` |
| `SyncQueueProofs!TypeCorrect` | the same | types; jobs within the slots, failures within the attempts |
| `AccountsProofs!AccountsStayWithOwners` | accounts, users, calls, jobs, grants | `OwnersKept` |
| `AccountsProofs!CredentialsAreThere` | the same | types; who connects or refreshes has a credential |
| `MessageProofs!TypeCorrect` | messages, limits, events | types, bounds on attempts and kept jobs |
| `MessageProofs!TaggedMailStaysTagged` | the same | `TaggedStays` |
| `MessageProofs!ListShowsRows` | accounts, messages, requests, syncs, page sizes | `OwnChangesShown` |
| `MessageProofs!PagesAreInOrder` | accounts, finitely many messages, page sizes | `PagesInOrder` |
| `AuthSessionsProofs!RotationIsExclusive` | windows, requests, tokens | `OneTokenPerLogin` |
| `AuthSessionsProofs!RefusalsAreOthers` | the same, lost answers, onboardings | `RefusedByOthers` |
| `AuthSessionsProofs!RegistrationStaysClosed` | registrations, both settings | `ClosedRegistration` |
| `OnboardingProofs!WaitingStaysActive` | authorizations, errors | `WaitingIsActive` |
| `OnboardingProofs!EndedStaysWithout` | the same, tabs, a fixed port or not | `EndedSavesNothing` |
| `OnboardingProofs!TypeCorrect`, `SpinnersAreAlive` | the same | types, `NoDeadSpinner` |
| `SendingProofs!CopiesAreOfDelivered` | compositions, requests, endpoints, retries | `CopyOfDelivered` |
| `SendingProofs!TypeCorrect`, `DraftsAreThere` | the same | types, `DraftsOfWindows` |
| `SendingProofs!OutcomesAreTrue`, `DuplicatesAreExplained` | the same | `OutcomesAreHonest`, `DuplicatesHaveCause` |

*Locks.* `LeaseHonoured` alone is not inductive: a release could delete a key
that still carries an equal token. `IInv` adds `OwnTokens` (a job in a section
has a token nobody else has) and says how much of a lease is left (`ttl` is
`LOCK_TTL - held`), so expiry and holder run out together. From it follows that
entering finds no job in lease, which is the refinement, and that a job that
enters beside a straggler does so when that one is at least `LOCK_TTL` old;
`Apart` keeps that distance while both go on. None of this assumes anything of the
times. `FoldersNeverShared` and `AccountsNeverShared` draw the conclusion for
sections that fit: a folder key needs `MaxSection < LOCK_TTL`, an account key,
which is held while the sync waits for its folder, `LOCK_WAIT + MaxSection <
LOCK_TTL`. The code bounds the wait (90 s of 120 s) and not the section: the known
limits say what happens beyond.

*Folder.* `TypeCorrect` needs one fact beyond the types: a batch whose cursor is
about to be stored is not empty, so `Lowest` (`Math.min`) exists. `NoStaleRow`
needs `ResetInv`: the record `performSync` compares with is the one that cannot
be lost (`Recorded`), fetching and saving happen under the lock (`Locked`),
before a first record there are no rows and no walk (`Virgin`), and what a
session in flight believes is still so (`SyncKnows`, `BatchKnows`). `Sheltered`
is the environment in which this is inductive.

`NoGap` speaks of rows and of the cursor of the walk, and neither is changed in
one step: UIDs are searched, selected, fetched and saved in different steps while
rows and messages come and go. `Covers(folder, points, saved)` says that between
any two of the points every message of the folder is saved.
`GapInv` says it of the mirror (`MirrorCovers`, the points being the rows and the
mark of the cursor) and of what is under way: what a sync has read
(`SyncCovers`), the server's answer (`AnswerCovers`), the batch of a walk that is
read, fetched and saved (`ReadCovers`, `FetchCovers`, `SaveCovers`), so that each
holds when it is written. New UIDs lie beyond all others (`UidsGiven`), which is
why a message that arrives after a search leaves no hole. `Steady` is narrower
than `Sheltered`: folders may be renumbered or not be listed, and every crash,
failure and removal stays possible, but seven of the nine hazards are excluded,
the ordinary ones of paging and of a reconnect among them. It cannot be wider:
with any one of these TLC finds a hole. And it says nothing of what a sync of an
emptied folder left out (`skipped`, the subject of `SyncBurst`).

*Queue.* `WaitersHaveAJob` is inductive with the types alone. The work is in the
ways a job leaves the queue: `OneRemoved` says that removing one answers its
waiter, `NothingRemoved` that `Added` removes none, `CrashKeeps` that a crash
keeps every record. `TypeCorrect` counts: the worker's slots are compared with
the cardinality of the jobs at work, which must be finite and grows by one job
at a time (`SlotsSuffice`).

*Accounts.* `OwnersKept` speaks of steps and follows from what a save under way
may write: `SavesOwned` (its account has no owner or its own user as owner),
`SavesAgree` (two saves of one account are of one user) and `Known` (an account
with an owner has an id that was handed out, so a new account does not collide
with it). `TypeOK` of that module says more than types: whoever connects with a
credential, or refreshes it, has one. It needs `Doing`, which follows a credential
from the step that finds it to the step that uses it (`load` and `store` of a
caller that goes on to connect), while files, copies and rows change.

*Tagging.* `Counted` (a row in `processing` has an attempt to undo) makes the
bounds inductive; `Untagged` (while a job has not written its outcome its row is
not tagged) protects tagged rows from `markFailed`, which tests nothing but the
UID: it holds because only a job tags its own message and the queue never runs
two jobs of one id.

*Sessions.* `OneTokenPerLogin` needs `Numbered`: what is live has been issued and
descends from an earlier login, so a new login starts a chain of its own, and
rotation replaces one live token by one. `RefusedByOthers` says that a window
whose refresh is refused has not rotated that token itself: it was rotated by
another, revoked, or ran out. It needs to know of every place
where a token may be: memory, inbox, file, a request, an answer. `Unseen` says
that a token just granted is in no other, `Holds` that what a window holds,
presents or is about to be told is not what it rotated, `Closes` that a closed
window has no part in it. `ClosedRegistration` needs
`Serialized`: one transaction at a time, whose count is still true.

*Onboarding.* `WaitingIsActive` follows from two parts: a server that is up
belongs to the active strategy whether it was cancelled or not
(`ServerIsActive`), while a pasted code may be tried by one that was cancelled
(`PasteIsActive`). `EndedSavesNothing` is about steps: `Moves` says what a step
may do to one authorization, and `TokensInv` that tokens under an address belong
to one that has its code behind it, whose tab can change no more. `NoDeadSpinner`
relates the dialog to flows it has forgotten: the active strategy is under way and is none
of the form (`ActiveRuns`), the calls of the form only wait for the API
(`BasicOnlyChecks`), and behind a code that is being tried there is an
authorization that will answer (`Behind`). That last part had to leave out calls
of the form that are still out: their end does not clear the dialog.

*Sending.* `Ledger` follows one message: until it is confirmed it was delivered
as often as a connection broke with no word of it; confirmed, once more. Copies
only come then, and with the attempts that are left they stay within the limit
(`c + q.left <= Retries` while one is still to be made).
The first half of `DuplicatesHaveCause` follows from it too.
Its second half speaks of two requests of one form (`Pairs`), and with
`OutcomesAreHonest` it needs the story of every request (`Story`, `Linked`): the
form waits for it, closed over it, showed an error, or was closed or started
afresh in the meantime; an error comes before the message is out, after a break
that left it unsure, or from the lookup after it (`unfiled`). `DraftsOfWindows` needs
`Windows`: which windows may still ask the main process for their draft.

*Mail.* `OwnChangesShown` is proved from `ListInv`. Its core is `Fresh`: with no
notice on its way, nothing untold and no request that will cause a refetch
(`Cause`), the pages that will stay, those of the cache or those a refetch has
read so far, are what they would be if they were read now. So each step that changes rows must
leave a notice, an untold change or a cause behind, and each step that takes one
away must start a refetch. `NoRowNoFlags` is there for handlers that find the row
gone: what they write changes nothing. `PagesInOrder` is a fact about data, and
the steps only have to keep rows among the messages (`MailInv`). Its proof ranks
messages by date: ranks are an injection into as many places, hence every place is
taken (`RankedAll`) and `Newest` lists a set by rank (`NewestByRank`); a message
among the first `offset + PageSize` of all is among the first of its account
(`WindowsSuffice`), and a set that leaves out none of the newest has the same
newest (`SameNewest`). With a window of one page per account this last step fails,
as with the mutant of `Window`. The steps
of `MailActions` are called `MailNext`, because one module extends it and `Tagging`.

Every safety property that a passing run checks is a theorem. Only model-checked
are the liveness properties (`CallsSettle`, `OrphansExpire`,
`EventuallyMirrors`, `WalkEnds`, `GhostsGo`, `InboxSynced`, `HistoryImported`,
`EveryCallEnds`, `Recovers`, `SettlesOrParks`, `Settles`, `FlowsEnd`,
`RowsSettle`, `ListSettles`, `SendSettles`), which the prover does not do under
fairness, and the two violations below.

## What the checks found

1. `SyncBurst`. A walk over an empty folder stores `BACKFILL_COMPLETE_UID` at
   once. If more than 50 messages arrive before the next sync, it takes the 50
   newest (it knows no UID to start after) and no walk is queued for the others.
   The same hole follows when a folder loses all its rows.
2. `StaleReader`. `docs/architecture.md:35-36` says that events invalidate the
   message queries. `invalidate` (`SyncProvider.tsx:32`) leaves out the key of
   the one message in the reader (`mailKeys.message`), and opening an unread
   message marks it without touching that query: the reader goes on showing
   flags the row does not have, until it is opened again.

## Known limits

Behaviours of the code seen while modelling, each at its place. Where a property
is named it is defined in its module, with the statement it is taken from, and
does not hold there; no run lists it.

*Locks.* `OneInAccount` (of `FolderLockProofs`) fails once
`LOCK_WAIT + MaxSection >= LOCK_TTL`, although `mailbox-folder.lock.ts:16` promises
that a new tick does not stack on an account sync in flight: `syncMailbox` takes
the account key before it waits, up to 90 s, for the folder key; 31 s of work
later the 120 s lease is over and the next sync may come in. `OneInFolder` fails
once `MaxSection >= LOCK_TTL`: a folder section longer than 120 s overlaps the next.

*Mirror.* `NoStaleRow` fails under `paging`: `loadOlder` takes no lock, and a
page fetched before a UIDVALIDITY change and saved after the wipe leaves rows
whose UIDs name other messages. A walk forced after a reconnect starts below the
lowest row and leaves the hole above it. A move or delete between a renumbering
and the next sync addresses another message, and a body that was being fetched
is saved into the row of another.

*Queue.* An account created while the worker runs is skipped by the ticks until
a first manual sync makes the worker load its credential. The tick of the other
folders fires together with an inbox tick and may find the account locked every
time. Retries of BullMQ do not look at the backoff of the account. An expired
OAuth session sets `needs_reauth`, and `performSync` (`mail.service.ts:286`)
then overwrites it with `error`.

*Accounts.* `TestedBeforeStored` (`docs/current-snapshot.md:213`): the token
refresh of a test saves the credential before the test has passed, and a failed
test leaves it in the file; after a passed test `persist` saves the credential
as it was before that refresh. `FailuresBackOff` (`account.service.ts:136`):
`isConnectionOrAuthError` knows some words of English, and a failure that
says something else starts no backoff. Two saves of the credential file, or a
save and a delete, lose one of the two; the token refresh job, which works from
a copy, brings the credential of a removed account back
(`docs/architecture.md:78`). The API never reloads its copy and goes on with a
token that the worker has replaced.

*Tagging.* `NothingParked`: a job that throws `TAG_MAX_ATTEMPTS` times while
Ollama is away is kept with its id (`removeOnFail: 50`), the row stays
`pending`, and every sweep adds the same id again, which BullMQ ignores until 50
other jobs have failed. A crash on a message's last attempt leaves it pending
with no attempt left. An unread message that cannot be parsed goes round from
tagged to failed to pending with every sync, since its text stays null.

*Sessions.* `LogoutRevokes` (`docs/architecture.md:51-52`): logging out with an
expired access token is refused with a 401 the client ignores, and the session
lives on; with a refresh in flight the token that is revoked is the old one, and
the refresh that is answered afterwards writes the session back into memory and
file. Two windows with copies of one session refresh against each other, and the
one that comes second is signed out.

*Onboarding.* `CancelledConnectsNothing` (`loopback.ts:13`,
`AccountDialog.tsx:237`): `cancel()` reaches a server that is up and a code that
is waited for; an authorization that already exchanges goes on and stores its
account. With a fixed port a redirect of an old tab is answered as a failure and
ends the new authorization. The success of an earlier authorization closes the
dialog of another. Tokens stored under the address are never forgotten.

*Mail.* Scrolling (`fetchNextPage`) cancels a refetch that runs, one failure
among many in "mark all as read" drops the refetch, and marking on opening never
refetches when it fails: the list is then late until the next sync
(`ListSettles` holds, `OwnChangesShown` is claimed only where `untold` is false).
Optimistic flags reach the reader only, and are not rolled back when the request
fails. Two requests on one message, or one and a sync, overwrite each other's
flags until the next sync.

*Sending.* `sendMessage` asks the database for the Sent folder after the message
has been delivered and outside the `try` that forgives a copy that fails
(`mail.service.ts:579`, `:581`): if that read fails the form shows an error for a
message that is out, and a resend delivers it again. The append to Sent is repeated
as a whole, and an attempt that worked
and broke leaves a second copy. After a token renewal every error of the
retry, a broken connection included, sets `needs_reauth`. Text typed while a
send is in flight is lost when the window closes, and so is all text when the
account is changed; changing it there and back allows a second send of the same
mail while the first is still out.

## What is not modelled

* Search, threads, attachments, the dashboard statistics and tag counts: reads
  whose result nothing writes back.
* The tags, the prompt, the parser of the model's answer, the `important`
  heuristic (`applyImportantHeuristics`) and the manual endpoints of tagging.
* The MIME text of a message and what a provider's SMTP dialect requires; the
  levels of the backoff and the encryption of files; priorities and delays of
  jobs, `activeJobs` behind `status`.
* In `MailActions`: UIDs and renumbering, folders other than the inboxes, more
  than one list. In `Sending`: the refetch of Sent after the answer, the
  account's status after a refused token.
* `WorkspaceProvider` and the router, drawers, dashboard and settings pages:
  state of one window that nothing else reads. The web socket fan-out, schema,
  bootstrap and health checks keep no state of their own beyond what other
  modules have.
* BullMQ, Redis, PostgreSQL, IMAP and SMTP servers, OAuth providers and Ollama
  appear as their callers use them, and are marked external in the map.

## Plan

Built in this order, because each writes through the ones before: locks → folder
mirror → tagging → sessions, accounts, queue → onboarding → mail actions →
sending. What is left, by what it would add:

1. `MailActions` and `MailboxSync` as one composition, so that flags and moves
   meet a renumbering.
2. The important heuristic and the text algorithms (tags, thread ids, backoff
   levels) as functions against reference definitions.
3. Navigation of the desktop: selected account and folder against what was
   removed meanwhile.
