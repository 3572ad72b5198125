------------------------------ MODULE SyncQueue ------------------------------
(***************************************************************************)
(* The queue mailbox-sync in BullMQ, for one account: sync and history     *)
(* jobs with one stable id per folder (sync-queue.service.ts), the ticks   *)
(* that enqueue them (sync-scheduler.service.ts), the worker with its      *)
(* slots (worker.ts), the backoff of the account, and the requests of the  *)
(* desktop that wait for a sync (POST mail/sync, SyncProvider.tsx).        *)
(* What a sync does to the mail is in MailboxSync, the lock in FolderLock. *)
(***************************************************************************)
EXTENDS Integers, FiniteSets

CONSTANTS
  Folder,     \* folders of the account
  Inbox,      \* the one called INBOX
  Imported,   \* those whose history walk is complete at first
  Asked,      \* folders the windows of the desktop have open, and ask to sync
  Free,       \* nobody has the account lock
  Orphan,     \* a worker that died has it
  Slots,      \* SYNC_WORKER_CONCURRENCY
  Attempts,   \* attempts of a job
  MaxEvents   \* bound: failures, crashes, renumbered folders

ASSUME ConstantsAssumption ==
  /\ Inbox \in Folder /\ Asked \cup Imported \subseteq Folder /\ Free \notin Folder /\ Orphan \notin Folder \cup {Free}
  /\ Slots \in Nat \ {0} /\ Attempts \in Nat \ {0} /\ MaxEvents \in Nat

Sync(f) == <<"sync", f>>
Walk(f) == <<"backfill", f>>
Job == {"sync", "backfill"} \X Folder
State == {"none", "waiting", "delayed", "active", "locked", "stalled"}

VARIABLES
  job,      \* job id -> its state, the attempts that failed, whether it has stalled
  lock,     \* account lock: Free, Orphan, or the folder whose sync has it
  held,     \* the backoff of the account is running
  walked,   \* folders whose history cursor says complete
  call,     \* folder -> the request of the desktop that waits for its sync
  events    \* events left

vars == <<job, lock, held, walked, call, events>>

-----------------------------------------------------------------------------
(* Helpers *)

Row(s, n, b) == [state |-> s, failed |-> n, stalled |-> b]
Absent == Row("none", 0, FALSE)
Waiting == Row("waiting", 0, FALSE)
Is(j, s) == job[j].state = s
Working == {j \in Job : job[j].state \in {"active", "locked"}}
FreeSlot == Cardinality(Working) < Slots
Event == events > 0 /\ events' = events - 1

Set(j, r) == job' = [job EXCEPT ![j] = r]
To(j, s) == Set(j, Row(s, job[j].failed, job[j].stalled))
\* queue.add of ids that are there already does nothing.
Added(jobs, ids) == [j \in Job |-> IF j \in ids /\ jobs[j] = Absent THEN Waiting ELSE jobs[j]]
\* The job is removed, whether it completed or failed; who waits for it hears of it.
Answered(j) ==
  call' = [f \in Asked |-> IF j = Sync(f) /\ call[f] = "waiting" THEN "idle" ELSE call[f]]

\* (mutant of GiveUp: a failed job stays in the queue)
GiveUpKept(j) == Set(j, Row("stalled", Attempts, TRUE)) /\ Answered(j)
\* removeOnFail
GiveUp(j) == Set(j, Absent) /\ Answered(j)

\* (mutant of AttemptFails: one attempt too many)
AttemptFailsLate(j) ==
  IF job[j].failed < Attempts
  THEN Set(j, Row("delayed", job[j].failed + 1, job[j].stalled)) /\ UNCHANGED call
  ELSE GiveUp(j)
\* An attempt throws: the job is delayed and tried again, or it fails.
AttemptFails(j) ==
  IF job[j].failed + 1 < Attempts
  THEN Set(j, Row("delayed", job[j].failed + 1, job[j].stalled)) /\ UNCHANGED call
  ELSE GiveUp(j)

-----------------------------------------------------------------------------
(* Who enqueues *)

\* tickAccounts: accounts in backoff and accounts that are being synced are skipped.
Due == FreeSlot /\ ~held /\ lock = Free
TickInbox ==
  /\ Due
  /\ job' = Added(job, {Sync(Inbox)})
  /\ UNCHANGED <<lock, held, walked, call, events>>
TickFolders ==
  /\ Due
  /\ job' = Added(job, {Sync(f) : f \in Folder \ {Inbox}})
  /\ UNCHANGED <<lock, held, walked, call, events>>

\* syncAccount: one request per folder at a time. enqueueAndWait: refused at once in a
\* backoff; the job that is there, or a new one.
Ask(f) ==
  /\ f \in Asked /\ call[f] = "idle" /\ ~held
  /\ job' = Added(job, {Sync(f)})
  /\ call' = [call EXCEPT ![f] = "joining"]
  /\ UNCHANGED <<lock, held, walked, events>>

\* (mutant of Join: a job that has gone meanwhile is waited for)
JoinAnyway(f) ==
  /\ f \in Asked /\ call[f] = "joining"
  /\ call' = [call EXCEPT ![f] = "waiting"]
  /\ UNCHANGED <<job, lock, held, walked, events>>
\* waitUntilFinished: an error when the job has gone meanwhile.
Join(f) ==
  /\ f \in Asked /\ call[f] = "joining"
  /\ call' = [call EXCEPT ![f] = IF Is(Sync(f), "none") THEN "idle" ELSE "waiting"]
  /\ UNCHANGED <<job, lock, held, walked, events>>

\* Nobody waits longer than 20 minutes.
WaitEnds(f) ==
  /\ f \in Asked /\ call[f] = "waiting" /\ Event
  /\ call' = [call EXCEPT ![f] = "idle"]
  /\ UNCHANGED <<job, lock, held, walked>>

-----------------------------------------------------------------------------
(* The worker *)

Start(j) ==
  /\ Is(j, "waiting") /\ FreeSlot
  /\ To(j, "active")
  /\ UNCHANGED <<lock, held, walked, call, events>>

\* A sync needs the account lock, and gives up when it does not get it in time.
TakeLock(f) ==
  /\ Is(Sync(f), "active") /\ lock = Free
  /\ lock' = f
  /\ To(Sync(f), "locked")
  /\ UNCHANGED <<held, walked, call, events>>
LockTimeout(f) ==
  /\ Is(Sync(f), "active") /\ lock # Free /\ Event
  /\ AttemptFails(Sync(f))
  /\ UNCHANGED <<lock, held, walked>>

\* (mutant of Synced: the walk is not chained)
SyncedAlone(f) ==
  /\ Is(Sync(f), "locked")
  /\ job' = [job EXCEPT ![Sync(f)] = Absent]
  /\ Answered(Sync(f))
  /\ lock' = Free /\ held' = FALSE
  /\ UNCHANGED <<walked, events>>
\* A sync succeeds: no backoff any more, and the walk is queued unless it is complete.
\* A renumbered folder has lost its cursor, and its walk is forced.
Synced(f) ==
  /\ Is(Sync(f), "locked")
  /\ \/ UNCHANGED <<walked, events>>
     \/ Event /\ walked' = walked \ {f}
  /\ job' = Added([job EXCEPT ![Sync(f)] = Absent], IF f \in walked' THEN {} ELSE {Walk(f)})
  /\ Answered(Sync(f))
  /\ lock' = Free /\ held' = FALSE
\* It fails, with an error that starts a backoff or with another.
SyncFails(f) ==
  /\ Is(Sync(f), "locked") /\ Event
  /\ AttemptFails(Sync(f))
  /\ lock' = Free /\ held' \in {TRUE, held}
  /\ UNCHANGED walked

WalkCompletes(f) ==
  /\ Is(Walk(f), "active")
  /\ Set(Walk(f), Absent)
  /\ walked' = walked \cup {f}
  /\ UNCHANGED <<lock, held, call, events>>
WalkFails(f) ==
  /\ Is(Walk(f), "active") /\ Event
  /\ AttemptFails(Walk(f))
  /\ UNCHANGED <<lock, held, walked>>

-----------------------------------------------------------------------------
(* Time and crashes *)

DelayEnds(j) == Is(j, "delayed") /\ To(j, "waiting") /\ UNCHANGED <<lock, held, walked, call, events>>
BackoffEnds == held /\ held' = FALSE /\ UNCHANGED <<job, lock, walked, call, events>>
LeaseEnds == lock = Orphan /\ lock' = Free /\ UNCHANGED <<job, held, walked, call, events>>

\* The worker dies with all it has in hand.
Crash ==
  /\ Event /\ Working # {}
  /\ job' = [j \in Job |-> IF j \in Working THEN Row("stalled", job[j].failed, job[j].stalled) ELSE job[j]]
  /\ lock' = IF lock \in Folder THEN Orphan ELSE lock
  /\ UNCHANGED <<held, walked, call>>
\* BullMQ takes a job without a lock back, once; the second time it fails.
Stalled(j) ==
  /\ Is(j, "stalled")
  /\ \/ job[j].stalled /\ GiveUp(j)
     \/ ~job[j].stalled /\ Set(j, Row("waiting", job[j].failed, TRUE)) /\ UNCHANGED call
  /\ UNCHANGED <<lock, held, walked, events>>

Init ==
  /\ job = [j \in Job |-> Absent] /\ lock = Free /\ held = FALSE /\ walked = Imported
  /\ call = [f \in Asked |-> "idle"] /\ events = MaxEvents

Recover(j) == DelayEnds(j) \/ Stalled(j)

Next ==
  \/ TickInbox \/ TickFolders \/ BackoffEnds \/ LeaseEnds \/ Crash
  \/ \E f \in Folder :
       \/ Ask(f) \/ Join(f) \/ WaitEnds(f)
       \/ TakeLock(f) \/ LockTimeout(f) \/ Synced(f) \/ SyncFails(f)
       \/ WalkCompletes(f) \/ WalkFails(f)
  \/ \E j \in Job : Start(j) \/ Recover(j)

Spec == Init /\ [][Next]_vars

\* The worker takes the jobs that wait in turn and goes on with what it has; delays and
\* leases end.  The inbox tick comes every minute and a sync is much shorter, so it
\* does not miss the lock every time it comes; nothing like it is assumed of the
\* folder tick, which fires together with every fifth inbox tick.
Fairness ==
  /\ \A f \in Folder : SF_vars(TakeLock(f)) /\ WF_vars(Synced(f)) /\ WF_vars(WalkCompletes(f))
  /\ \A f \in Asked : WF_vars(Join(f))
  /\ \A j \in Job : SF_vars(Start(j)) /\ WF_vars(Recover(j))
  /\ WF_vars(BackoffEnds) /\ WF_vars(LeaseEnds)
  /\ SF_vars(TickInbox) /\ WF_vars(TickFolders)
FairSpec == Spec /\ Fairness

-----------------------------------------------------------------------------
(* Properties *)

\* Types; a job that waits, runs or is delayed has attempts left (sync-queue.service.ts:56),
\* the worker never has more jobs than slots, and the lock belongs to the sync that runs.
TypeOK ==
  /\ job \in [Job -> [state : State, failed : 0 .. Attempts - 1, stalled : BOOLEAN]]
  /\ lock \in Folder \cup {Free, Orphan} /\ held \in BOOLEAN /\ walked \subseteq Folder
  /\ call \in [Asked -> {"idle", "joining", "waiting"}] /\ events \in 0 .. MaxEvents
  /\ Cardinality(Working) <= Slots
  /\ \A f \in Folder : lock = f <=> Is(Sync(f), "locked")

\* INBOX is synced again and again, through failed jobs, backoffs, stalled jobs and
\* walks that keep the slots busy: no id stays in the queue and blocks the next one.
InboxSynced == []<><<Synced(Inbox)>>_vars

\* Whoever waits for a sync waits for a job that is in the queue, also when the job it
\* found has gone before it waits, has stalled twice or has failed: nobody sits out the
\* 20 minutes for a job that nothing will ever report.
WaitersHaveAJob == \A f \in Asked : call[f] = "waiting" => ~Is(Sync(f), "none")

\* The history of INBOX is imported in the end, although a walk that has failed for good
\* is only queued again by the next sync.
HistoryImported == <>[](Inbox \in walked)
=============================================================================
