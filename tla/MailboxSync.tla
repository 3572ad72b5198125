---------------------------- MODULE MailboxSync ----------------------------
(***************************************************************************)
(* How one mailbox of one account is mirrored into PostgreSQL: the         *)
(* incremental sync and the history backfill of the sync worker            *)
(* (mail/mail.service.ts, worker.ts, sync/sync-queue.service.ts), the API  *)
(* calls that touch the same rows without a lock, and the IMAP server.     *)
(* The folder lock is a mutex whose owner may die; FolderLock shows when   *)
(* the lease lock is one.                                                  *)
(***************************************************************************)
EXTENDS UidSelection

CONSTANTS
  MaxUid, MaxEpoch,       \* bounds on the server: UIDs, UIDVALIDITY values
  SyncLimit, PageLimit,   \* 50 UIDs per sync, 50 per "load older" page
  BatchLimit,             \* 200..500 UIDs per backfill batch
  MaxEvents,              \* bound on failures, crashes and user requests
  Hazards                 \* which of HazardKind this environment has

HazardKind ==
  {"uidvalidity",  \* the server renumbers the folder
   "search",       \* SEARCH answers false, which the code reads as no UIDs
   "lease",        \* a folder lock expires under its holder
   "paging",       \* the user loads older pages
   "reconnect",    \* the account is reconnected, which clears its mail data
   "early",        \* a backfill is asked for before the first sync
   "vanish",       \* messages are expunged between the SEARCH and the FETCH
   "straddle",     \* a UID gets another message between the halves of a removal
   "relist"}       \* the folder is missing from one LIST

ASSUME BoundsAssumption ==
  /\ MaxUid \in Nat /\ MaxEpoch \in Nat \ {0} /\ MaxEvents \in Nat
  /\ SyncLimit \in Nat \ {0} /\ PageLimit \in Nat \ {0} /\ BatchLimit \in Nat \ {0}
ASSUME HazardsAssumption == Hazards \subseteq HazardKind

Uid == 1..MaxUid
Epoch == 1..MaxEpoch   \* UIDVALIDITY; 0 where none is stored
Absent == 0            \* no row
NotStarted == -1       \* Mailbox.backfilledUid is null
Complete == 0          \* BACKFILL_COMPLETE_UID

VARIABLES
  server, nextUid, epoch,  \* IMAP: UIDs in the folder, next UID, UIDVALIDITY
  rows,          \* Message: uid -> the epoch its metadata came from, or Absent
  cursor,        \* Mailbox: uidValidity and backfilledUid
  mailboxState,  \* MailboxState.uidValidity
  lock,          \* folder lock: who holds it
  sync,          \* the sync job in flight
  job,           \* BullMQ: the backfill job of this folder
  backfill,      \* the backfill batch in flight
  page,          \* the load-older request in flight
  removing,      \* UIDs gone from the server whose row is about to go
  events,        \* events left
  skipped        \* history: a sync left out messages no walk comes back to

vars == <<server, nextUid, epoch, rows, cursor, mailboxState, lock, sync, job,
          backfill, page, removing, events, skipped>>
imap == <<server, nextUid, epoch>>
db   == <<rows, cursor, mailboxState>>

-----------------------------------------------------------------------------
(* Helpers *)

Local == {u \in Uid : rows[u] # Absent}

\* Mutant of Expected: MailboxState is not consulted.
ExpectedFromCursor == cursor.uidValidity

\* cursor?.uidValidity ?? mailboxState(...)
Expected == IF cursor.uidValidity # 0 THEN cursor.uidValidity ELSE mailboxState

NoResult == [uidValidity |-> 0, reset |-> FALSE, serverUids |-> {}, messages |-> {}]
SyncIdle == [pc |-> "idle", known |-> {}, expected |-> 0, result |-> NoResult]
BackfillIdle == [pc |-> "idle", before |-> NoUid, batch |-> {}, epoch |-> 0]
PageIdle == [pc |-> "idle", uids |-> {}, epoch |-> 0]
NoJob == [state |-> "none", force |-> FALSE]

\* The UIDs a SEARCH can answer with.
SearchResults == {server} \cup (IF "search" \in Hazards THEN {{}} ELSE {})

\* The messages that are gone before the same session fetches them.
Vanishing == IF "vanish" \in Hazards /\ events > 0 THEN SUBSET server ELSE {{}}
Vanish(gone) ==
  /\ server' = server \ gone
  /\ events' = IF gone = {} THEN events ELSE events - 1

Take(who) == lock = "free" /\ lock' = who
Free(who) == lock' = IF lock = who THEN "free" ELSE lock

\* upsertMessage for each of uids, with metadata of epoch e.
Saved(uids, e) == [u \in Uid |-> IF u \in uids THEN e ELSE rows[u]]

Lowest(uids) == CHOOSE u \in uids : \A v \in uids : u <= v

\* Mutant of BeforeUid: the null cursor is passed on for an empty folder.
BeforeNullUid == IF cursor.backfilledUid > 0 \/ Local = {} THEN cursor.backfilledUid
                 ELSE Lowest(Local)

\* resolveBackfillBeforeUid
BeforeUid == IF cursor.backfilledUid > 0 THEN cursor.backfilledUid
             ELSE IF Local = {} THEN NoUid ELSE Lowest(Local)

\* Mutant of EnqueueBackfill: only a reset queues the walk.
EnqueueForcedOnly(force) ==
  job' = IF job.state = "none" /\ force THEN [state |-> "queued", force |-> force] ELSE job

\* enqueueBackfill: BullMQ ignores an id that is already in the queue.
EnqueueBackfill(force) ==
  job' = IF job.state = "none" /\ (force \/ cursor.backfilledUid # Complete)
         THEN [state |-> "queued", force |-> force] ELSE job

Event == events > 0 /\ events' = events - 1

-----------------------------------------------------------------------------
(* The IMAP server *)

Deliver ==
  /\ nextUid \in Uid
  /\ server' = server \cup {nextUid}
  /\ nextUid' = nextUid + 1
  /\ UNCHANGED <<epoch, db, lock, sync, job, backfill, page, removing, events, skipped>>

Expunge(u) ==
  /\ Event
  /\ u \in server
  /\ server' = server \ {u}
  /\ UNCHANGED <<nextUid, epoch, db, lock, sync, job, backfill, page, removing, skipped>>

\* The folder is recreated: other messages, numbered from 1 again.
ChangeUidValidity ==
  /\ "uidvalidity" \in Hazards
  /\ epoch < MaxEpoch
  /\ "straddle" \in Hazards \/ removing = {}
  /\ epoch' = epoch + 1
  /\ \E n \in 0..MaxUid : server' = 1..n /\ nextUid' = n + 1
  /\ UNCHANGED <<db, lock, sync, job, backfill, page, removing, events, skipped>>

-----------------------------------------------------------------------------
(* Incremental sync: syncMailbox, performSync, fetchChanges, applyChanges *)

SyncRead ==
  /\ sync.pc = "idle"
  /\ Take("sync")
  /\ sync' = [SyncIdle EXCEPT !.pc = "fetch", !.known = Local, !.expected = Expected]
  /\ UNCHANGED <<imap, db, job, backfill, page, removing, events, skipped>>

SyncFetch ==
  /\ sync.pc = "fetch"
  /\ \E found \in SearchResults, gone \in Vanishing :
       LET reset == sync.expected # 0 /\ sync.expected # epoch
           known == IF reset THEN {} ELSE sync.known
           newUids == SelectMetadataUids(found, known, SyncLimit)
       IN  /\ Vanish(gone)
           /\ sync' = [sync EXCEPT
                 !.pc = "apply",
                 !.result = [uidValidity |-> epoch, reset |-> reset, serverUids |-> found,
                             messages |-> newUids \ gone]]
  /\ UNCHANGED <<nextUid, epoch, db, lock, job, backfill, page, removing, skipped>>

\* What a sync that knew no UIDs leaves behind under a live cursor.
Skips(result) ==
  /\ sync.known = {} /\ ~result.reset
  /\ cursor.backfilledUid # NotStarted
  /\ \E u \in result.serverUids \ result.messages : u >= cursor.backfilledUid

\* Mutant of Applied: rows the server does not list stay.
AppliedWithoutDeletes(r) ==
  [u \in Uid |-> IF u \in r.messages THEN r.uidValidity
                 ELSE IF r.reset THEN Absent ELSE rows[u]]

\* applyChanges: a reset wipes the rows, the fetched messages are upserted and
\* rows the server does not list are deleted.
Applied(r) ==
  [u \in Uid |-> IF u \notin r.serverUids THEN Absent
                 ELSE IF u \in r.messages THEN r.uidValidity
                 ELSE IF r.reset THEN Absent ELSE rows[u]]

SyncApply ==
  /\ sync.pc = "apply"
  /\ LET r == sync.result IN
       /\ rows' = Applied(r)
       /\ mailboxState' = r.uidValidity
       /\ cursor' = [uidValidity |-> r.uidValidity,
                     backfilledUid |-> IF r.reset THEN NotStarted ELSE cursor.backfilledUid]
       /\ skipped' = IF r.reset THEN FALSE ELSE skipped \/ Skips(r)
       /\ sync' = [SyncIdle EXCEPT !.pc = "enqueue", !.result.reset = r.reset]
  /\ Free("sync")
  /\ UNCHANGED <<imap, job, backfill, page, removing, events>>

\* The worker chains the backfill of the folder, forced after a reset.
SyncEnqueue ==
  /\ sync.pc = "enqueue"
  /\ EnqueueBackfill(sync.result.reset)
  /\ sync' = SyncIdle
  /\ UNCHANGED <<imap, db, lock, backfill, page, removing, events, skipped>>

\* An IMAP or database error; nothing was applied.
SyncFails ==
  /\ Event
  /\ sync.pc \in {"fetch", "apply"}
  /\ sync' = SyncIdle
  /\ Free("sync")
  /\ UNCHANGED <<imap, db, job, backfill, page, removing, skipped>>

-----------------------------------------------------------------------------
(* History backfill: backfillMailbox, backfillOneBatch *)

\* The API asks for a walk; a forced one even if the cursor says Complete.
RequestBackfill ==
  /\ Event
  /\ "early" \in Hazards \/ Expected # 0
  /\ \E force \in BOOLEAN : EnqueueBackfill(force)
  /\ UNCHANGED <<imap, db, lock, sync, backfill, page, removing, skipped>>

\* The worker takes the job; force clears the cursor outside the folder lock.
BackfillStart ==
  /\ job.state = "queued"
  /\ job' = [job EXCEPT !.state = "active"]
  /\ cursor' = IF job.force THEN [cursor EXCEPT !.backfilledUid = NotStarted] ELSE cursor
  /\ backfill' = [BackfillIdle EXCEPT !.pc = "wait"]
  /\ UNCHANGED <<imap, rows, mailboxState, lock, sync, page, removing, events, skipped>>

\* A retried walk finds that it was already complete.
BatchDone ==
  /\ backfill.pc = "wait" /\ lock = "free"
  /\ cursor.backfilledUid = Complete
  /\ backfill' = [BackfillIdle EXCEPT !.pc = "done"]
  /\ UNCHANGED <<imap, db, lock, sync, job, page, removing, events, skipped>>

BatchRead ==
  /\ backfill.pc = "wait"
  /\ Take("backfill")
  /\ cursor.backfilledUid # Complete
  /\ backfill' = [backfill EXCEPT !.pc = "fetch", !.before = BeforeUid]
  /\ UNCHANGED <<imap, db, sync, job, page, removing, events, skipped>>

BatchFetch ==
  /\ backfill.pc = "fetch"
  /\ \E found \in SearchResults, gone \in Vanishing :
       /\ Vanish(gone)
       /\ backfill' = [backfill EXCEPT
             !.pc = "save", !.epoch = epoch,
             !.batch = SelectBackfillUids(found, backfill.before, BatchLimit) \ gone]
  /\ UNCHANGED <<nextUid, epoch, db, lock, sync, job, page, removing, skipped>>

\* Nothing older: the cursor becomes Complete.
BatchEmpty ==
  /\ backfill.pc = "save" /\ backfill.batch = {}
  /\ cursor' = [cursor EXCEPT !.backfilledUid = Complete]
  /\ backfill' = [BackfillIdle EXCEPT !.pc = "done"]
  /\ Free("backfill")
  /\ UNCHANGED <<imap, rows, mailboxState, sync, job, page, removing, events, skipped>>

BatchSave ==
  /\ backfill.pc = "save" /\ backfill.batch # {}
  /\ rows' = Saved(backfill.batch, backfill.epoch)
  /\ backfill' = [backfill EXCEPT !.pc = "cursor"]
  /\ UNCHANGED <<imap, cursor, mailboxState, lock, sync, job, page, removing, events, skipped>>

BatchCursor ==
  /\ backfill.pc = "cursor"
  /\ cursor' = [cursor EXCEPT !.backfilledUid = Lowest(backfill.batch)]
  /\ backfill' = [BackfillIdle EXCEPT !.pc = "wait"]
  /\ Free("backfill")
  /\ UNCHANGED <<imap, rows, mailboxState, sync, job, page, removing, events, skipped>>

\* The walk is over: the job succeeds and BullMQ removes it.
WalkDone ==
  /\ backfill.pc = "done"
  /\ backfill' = BackfillIdle
  /\ job' = NoJob
  /\ UNCHANGED <<imap, db, lock, sync, page, removing, events, skipped>>

\* An error, or no lock within LOCK_WAIT: BullMQ retries the job or drops it.
BackfillFails ==
  /\ Event
  /\ backfill.pc # "idle"
  /\ backfill' = BackfillIdle
  /\ job' \in {[job EXCEPT !.state = "queued"], NoJob}
  /\ Free("backfill")
  /\ UNCHANGED <<imap, db, sync, page, removing, skipped>>

-----------------------------------------------------------------------------
(* API requests: no lock at all *)

\* loadOlder: the page below the UID that the request names, or the newest page.
PageFetch ==
  /\ "paging" \in Hazards
  /\ page.pc = "idle"
  /\ \E before \in Uid \cup {NoUid}, found \in SearchResults, gone \in Vanishing :
       /\ Vanish(gone)
       /\ page' = [pc |-> "save", epoch |-> epoch,
                   uids |-> SelectBackfillUids(found, before, PageLimit) \ gone]
  /\ UNCHANGED <<nextUid, epoch, db, lock, sync, job, backfill, removing, skipped>>

PageSave ==
  /\ page.pc = "save"
  /\ rows' = Saved(page.uids, page.epoch)
  /\ page' = PageIdle
  /\ UNCHANGED <<imap, cursor, mailboxState, lock, sync, job, backfill, removing,
                 events, skipped>>

\* moveMessage, archiveMessage, deleteMessage: requireRow, then the IMAP
\* command, which also succeeds for a UID the folder does not have.
RemoveOnServer(u) ==
  /\ Event
  /\ u \in Local
  /\ "straddle" \in Hazards \/ u < nextUid
  /\ server' = server \ {u}
  /\ removing' = removing \cup {u}
  /\ UNCHANGED <<nextUid, epoch, db, lock, sync, job, backfill, page, skipped>>

\* removeLocalMessage
RemoveLocal(u) ==
  /\ u \in removing
  /\ rows' = [rows EXCEPT ![u] = Absent]
  /\ removing' = removing \ {u}
  /\ UNCHANGED <<imap, cursor, mailboxState, lock, sync, job, backfill, page,
                 events, skipped>>

\* The API process dies, or the database is away, before the row is gone.
RemoveFails(u) ==
  /\ Event
  /\ u \in removing
  /\ removing' = removing \ {u}
  /\ UNCHANGED <<imap, db, lock, sync, job, backfill, page, skipped>>

\* AccountController.reconnect: clearMailData keeps the Mailbox row.
Reconnect ==
  /\ "reconnect" \in Hazards
  /\ Event
  /\ rows' = [u \in Uid |-> Absent]
  /\ mailboxState' = 0
  /\ UNCHANGED <<imap, cursor, lock, sync, job, backfill, page, removing, skipped>>

\* syncMailboxes while the server does not list the folder: replaceMailboxes
\* deletes the Mailbox row.  A missing row reads as one of nulls.
Relist ==
  /\ "relist" \in Hazards
  /\ Event
  /\ cursor' = [uidValidity |-> 0, backfilledUid |-> NotStarted]
  /\ UNCHANGED <<imap, rows, mailboxState, lock, sync, job, backfill, page, removing,
                 skipped>>

-----------------------------------------------------------------------------
(* The worker process and Redis *)

\* The worker dies.  Its lock stays in Redis and BullMQ requeues a stalled job.
Crash ==
  /\ Event
  /\ sync.pc # "idle" \/ backfill.pc # "idle"
  /\ sync' = SyncIdle
  /\ backfill' = BackfillIdle
  /\ job' = IF job.state = "active" THEN [job EXCEPT !.state = "queued"] ELSE job
  /\ lock' = IF lock \in {"sync", "backfill"} THEN "orphan" ELSE lock
  /\ UNCHANGED <<imap, db, page, removing, skipped>>

\* LOCK_TTL after its owner died the key is gone.
OrphanExpires ==
  /\ lock = "orphan"
  /\ lock' = "free"
  /\ UNCHANGED <<imap, db, sync, job, backfill, page, removing, events, skipped>>

\* LOCK_TTL passes while the holder is still working.
LeaseExpires ==
  /\ "lease" \in Hazards
  /\ Event
  /\ lock \in {"sync", "backfill"}
  /\ lock' = "free"
  /\ UNCHANGED <<imap, db, sync, job, backfill, page, removing, skipped>>

-----------------------------------------------------------------------------
(* Specification *)

Init ==
  /\ \E n \in 0..MaxUid : server = 1..n /\ nextUid = n + 1
  /\ epoch = 1
  /\ rows = [u \in Uid |-> Absent]
  /\ cursor = [uidValidity |-> 0, backfilledUid |-> NotStarted]
  /\ mailboxState = 0
  /\ lock = "free"
  /\ sync = SyncIdle
  /\ job = NoJob
  /\ backfill = BackfillIdle
  /\ page = PageIdle
  /\ removing = {}
  /\ events = MaxEvents
  /\ skipped = FALSE

Server == Deliver \/ ChangeUidValidity \/ \E u \in Uid : Expunge(u)
SyncStep == SyncRead \/ SyncFetch \/ SyncApply \/ SyncEnqueue \/ SyncFails
WalkStep == \/ RequestBackfill \/ BackfillStart
            \/ BatchDone \/ BatchRead \/ BatchFetch \/ BatchEmpty \/ BatchSave
            \/ BatchCursor \/ WalkDone \/ BackfillFails
ApiStep == \/ PageFetch \/ PageSave \/ Reconnect \/ Relist
           \/ \E u \in Uid : RemoveOnServer(u) \/ RemoveLocal(u) \/ RemoveFails(u)
Process == Crash \/ OrphanExpires \/ LeaseExpires

Next == Server \/ SyncStep \/ WalkStep \/ ApiStep \/ Process

Spec == Init /\ [][Next]_vars

\* A scheduler tick queues every folder again and again, running jobs go on
\* and Redis expires keys (WF).  A job polls the lock every 250 ms for 90 s
\* while ticks are a minute apart, so one that keeps finding it free in
\* between gets it (SF).
Fairness ==
  /\ SF_vars(SyncRead) /\ WF_vars(SyncFetch) /\ WF_vars(SyncApply) /\ WF_vars(SyncEnqueue)
  /\ WF_vars(BackfillStart) /\ SF_vars(BatchDone \/ BatchRead) /\ WF_vars(BatchFetch)
  /\ WF_vars(BatchEmpty \/ BatchSave) /\ WF_vars(BatchCursor)
  /\ WF_vars(WalkDone)
  /\ WF_vars(PageSave) /\ \A u \in Uid : WF_vars(RemoveLocal(u))
  /\ WF_vars(OrphanExpires)

FairSpec == Spec /\ Fairness

-----------------------------------------------------------------------------
(* Properties *)

SyncType == [pc: {"idle", "fetch", "apply", "enqueue"}, known: SUBSET Uid,
             expected: Epoch \cup {0},
             result: [uidValidity: Epoch \cup {0}, reset: BOOLEAN,
                      serverUids: SUBSET Uid, messages: SUBSET Uid]]
JobType == [state: {"none", "queued", "active"}, force: BOOLEAN]
BackfillType == [pc: {"idle", "wait", "fetch", "save", "cursor", "done"},
                 before: Uid \cup {NoUid}, batch: SUBSET Uid, epoch: Epoch \cup {0}]

TypeOK ==
  /\ server \in SUBSET Uid /\ nextUid \in 1..(MaxUid + 1) /\ epoch \in Epoch
  /\ rows \in [Uid -> Epoch \cup {Absent}]
  /\ cursor \in [uidValidity: Epoch \cup {0}, backfilledUid: Uid \cup {Complete, NotStarted}]
  /\ mailboxState \in Epoch \cup {0}
  /\ lock \in {"free", "sync", "backfill", "orphan"}
  /\ sync \in SyncType /\ job \in JobType /\ backfill \in BackfillType
  /\ page \in [pc: {"idle", "save"}, uids: SUBSET Uid, epoch: Epoch \cup {0}]
  /\ removing \in SUBSET Uid
  /\ events \in Nat
  /\ skipped \in BOOLEAN

\* A UIDVALIDITY change wipes local mail: no row keeps the metadata of a
\* message from before the UIDVALIDITY the folder is recorded with, so no UID
\* shows another message than the server would return for it.
NoStaleRow == \A u \in Local : rows[u] >= Expected

\* Between the history cursor (or, before the walk starts, the oldest local
\* message) and the newest local message nothing on the server is missing,
\* unless a sync of an emptied folder skipped some.
Behind(u) == cursor.backfilledUid # NotStarted /\ u >= cursor.backfilledUid
NoGap ==
  Expected = epoch /\ ~skipped =>
    \A u \in server : \A v \in Local :
      u < v /\ (Behind(u) \/ \E w \in Local : w < u) => u \in Local

\* BACKFILL_COMPLETE_UID: "Stored in Folder.backfilledUid when history walk
\* finished".  A finished walk leaves nothing older than the newest local
\* message behind.
HistoryWalkFinished ==
  Expected = epoch /\ cursor.backfilledUid = Complete =>
    \A u \in server : (\E v \in Local : u < v) => u \in Local

\* Once the folder stops changing the mirror converges: the rows are the
\* messages of the server, all of the current UIDVALIDITY.
Mirrors == Local = server /\ \A u \in Local : rows[u] = epoch
EventuallyMirrors == <>[](skipped \/ Mirrors)

\* Messages the server no longer has do not stay, however often a late save
\* brings them back.
GhostsGo == <>[](Local \subseteq server)

\* Every walk that was queued comes to an end.
WalkEnds == []<>(job.state = "none")
=============================================================================
