------------------------------ MODULE Tagging ------------------------------
(***************************************************************************)
(* Tagging messages with a local model (ai/classification.service.ts): one *)
(* job per message in a BullMQ queue that a single worker works off, the   *)
(* periodic sweep in the same queue, the catch-up that a booting worker    *)
(* runs beside them, and the syncs that write the same rows.  A job claims *)
(* its row with a conditional update, asks the model and writes the        *)
(* outcome; everything else is other updates at any moment in between.     *)
(***************************************************************************)
EXTENDS Integers, Sequences

CONSTANTS
  Msg,          \* messages, by their (account, mailbox, uid)
  MaxAttempts,  \* TAG_MAX_ATTEMPTS: of a row and of a BullMQ job alike
  KeepFailed,   \* removeOnFail: 50 failed jobs keep their ids
  MaxEvents     \* bound on outages, bad answers, failed preparations, crashes, removals

ASSUME LimitsAssumption ==
  MaxAttempts \in Nat \ {0} /\ KeepFailed \in Nat \ {0} /\ MaxEvents \in Nat

Sweeper == {"sweep", "boot"}

VARIABLES
  row,      \* PostgreSQL: tagStatus, tagAttempts, "classificationText is set"
  job,      \* BullMQ: message -> its job
  kept,     \* BullMQ: the failed jobs it keeps, oldest first
  tag,      \* message -> where the worker is in its job
  sweeper,  \* enqueuePendingSweep, in the sweep job and at boot
  outbox,   \* messages a sync has stored and is about to enqueue
  ollama,   \* whether the model server answers
  events    \* events left

vars == <<row, job, kept, tag, sweeper, outbox, ollama, events>>

-----------------------------------------------------------------------------
(* Helpers *)

Absent == [status |-> "absent", attempts |-> 0, text |-> FALSE]
New == [status |-> "pending", attempts |-> 0, text |-> FALSE]
NoJob == [state |-> "none", tries |-> 0, stalled |-> FALSE]
KeptJob == [state |-> "kept", tries |-> 0, stalled |-> FALSE]
Resting == [pc |-> "idle", list |-> {}]

Present(m) == row[m].status # "absent"
Failed == {m \in Msg : row[m].status = "failed"}

Event == events > 0 /\ events' = events - 1

\* The worker has concurrency 1: one tag job or the sweep.
WorkerFree == (\A m \in Msg : tag[m] = "idle") /\ sweeper["sweep"].pc = "idle"

\* updateMany on one row: nothing happens if the row is gone.
Update(m, newRow) == row' = [row EXCEPT ![m] = IF Present(m) THEN newRow ELSE @]

\* enqueueTag: an id that BullMQ still knows, kept failures included, is ignored.
AddJob(m) ==
  job' = IF job[m].state = "none" THEN [job EXCEPT ![m].state = "waiting"] ELSE job

\* The job succeeded, with whatever result, and is removed.
JobDone(m) ==
  /\ job' = [job EXCEPT ![m] = NoJob]
  /\ tag' = [tag EXCEPT ![m] = "idle"]
  /\ UNCHANGED kept

\* A job fails for good: it is kept, and the oldest one beyond KeepFailed goes.
Keep(m) ==
  LET all == Append(kept, m)
      full == Len(all) > KeepFailed
  IN  /\ kept' = IF full THEN Tail(all) ELSE all
      /\ job' = [x \in Msg |-> IF full /\ x = Head(all) THEN NoJob
                               ELSE IF x = m THEN KeptJob ELSE job[x]]

\* The job threw: BullMQ tries it again while attempts are left.
JobThrew(m) ==
  IF job[m].tries + 1 < MaxAttempts
  THEN /\ job' = [job EXCEPT ![m].state = "waiting", ![m].tries = @ + 1]
       /\ UNCHANGED kept
  ELSE Keep(m)

\* Its worker died: BullMQ takes a stalled job back once.
Stall(m) ==
  IF job[m].stalled
  THEN Keep(m)
  ELSE /\ job' = [job EXCEPT ![m].state = "waiting", ![m].stalled = TRUE]
       /\ UNCHANGED kept

-----------------------------------------------------------------------------
(* A tag job: tagMessage *)

\* (mutant of Claimable: the attempts of the row are not looked at)
ClaimableAlways(m) == row[m].status \in {"pending", "failed"}

\* claim, which repeats what tagMessage has just read
Claimable(m) ==
  row[m].status \in {"pending", "failed"} /\ row[m].attempts < MaxAttempts

\* The worker takes a job; with the model server down it throws at once.
TagStart(m) ==
  /\ WorkerFree
  /\ job[m].state = "waiting"
  /\ ollama = "up"
  /\ job' = [job EXCEPT ![m].state = "active"]
  /\ tag' = [tag EXCEPT ![m] = "claim"]
  /\ UNCHANGED <<row, kept, sweeper, outbox, ollama, events>>

TagRefused(m) ==
  /\ WorkerFree
  /\ job[m].state = "waiting"
  /\ ollama = "down"
  /\ JobThrew(m)
  /\ UNCHANGED <<row, tag, sweeper, outbox, ollama, events>>

\* (without any text to classify, tagMessage goes straight to complete)
TagClaim(m) ==
  /\ tag[m] = "claim"
  /\ Claimable(m)
  /\ row' = [row EXCEPT ![m].status = "processing", ![m].attempts = @ + 1]
  /\ \E next \in {"classify", "complete"} : tag' = [tag EXCEPT ![m] = next]
  /\ UNCHANGED <<job, kept, sweeper, outbox, ollama, events>>

TagSkip(m) ==
  /\ tag[m] = "claim"
  /\ ~Claimable(m)
  /\ JobDone(m)
  /\ UNCHANGED <<row, sweeper, outbox, ollama, events>>

\* The model answers, with tags or with something that is not an answer.
Classified(m) ==
  /\ tag[m] = "classify"
  /\ ollama = "up"
  /\ tag' = [tag EXCEPT ![m] = "complete"]
  /\ UNCHANGED <<row, job, kept, sweeper, outbox, ollama, events>>

BadAnswer(m) ==
  /\ tag[m] = "classify"
  /\ ollama = "up"
  /\ Event
  /\ tag' = [tag EXCEPT ![m] = "check"]
  /\ UNCHANGED <<row, job, kept, sweeper, outbox, ollama>>

\* isTransientOllamaError
NoAnswer(m) ==
  /\ tag[m] = "classify"
  /\ ollama = "down"
  /\ tag' = [tag EXCEPT ![m] = "undo"]
  /\ UNCHANGED <<row, job, kept, sweeper, outbox, ollama, events>>

\* complete: by uid alone, whatever became of the row meanwhile
Complete(m) ==
  /\ tag[m] = "complete"
  /\ Update(m, [row[m] EXCEPT !.status = "tagged"])
  /\ JobDone(m)
  /\ UNCHANGED <<sweeper, outbox, ollama, events>>

\* release({ decrementAttempt: true }), and the error is thrown again
Undo(m) ==
  /\ tag[m] = "undo"
  /\ row' = IF row[m].status = "processing"
            THEN [row EXCEPT ![m].status = "pending", ![m].attempts = @ - 1] ELSE row
  /\ tag' = [tag EXCEPT ![m] = "idle"]
  /\ JobThrew(m)
  /\ UNCHANGED <<sweeper, outbox, ollama, events>>

\* currentAttempts: a row that is gone counts as exhausted
Check(m) ==
  /\ tag[m] = "check"
  /\ tag' = [tag EXCEPT ![m] =
               IF Present(m) /\ row[m].attempts < MaxAttempts THEN "release" ELSE "fail"]
  /\ UNCHANGED <<row, job, kept, sweeper, outbox, ollama, events>>

\* release, and the error is thrown again
Release(m) ==
  /\ tag[m] = "release"
  /\ row' = IF row[m].status = "processing"
            THEN [row EXCEPT ![m].status = "pending"] ELSE row
  /\ tag' = [tag EXCEPT ![m] = "idle"]
  /\ JobThrew(m)
  /\ UNCHANGED <<sweeper, outbox, ollama, events>>

\* markFailed, by uid alone; the job itself succeeds
MarkFailed(m) ==
  /\ tag[m] = "fail"
  /\ Update(m, [row[m] EXCEPT !.status = "failed"])
  /\ JobDone(m)
  /\ UNCHANGED <<sweeper, outbox, ollama, events>>

-----------------------------------------------------------------------------
(* enqueuePendingSweep and requeueFailed *)

\* The sweep job starts, or the second half of the boot catch-up does: the
\* failed rows are listed.
SweepList(p) ==
  /\ p = "sweep" => WorkerFree
  /\ sweeper[p].pc = IF p = "sweep" THEN "idle" ELSE "caught up"
  /\ ollama = "up"
  /\ sweeper' = [sweeper EXCEPT ![p] = [pc |-> "requeue", list |-> Failed]]
  /\ UNCHANGED <<row, job, kept, tag, outbox, ollama, events>>

\* Boot: requeueFailed is called on its own before the sweep.
CatchUp ==
  /\ sweeper["boot"].pc = "start"
  /\ ollama = "up"
  /\ sweeper' = [sweeper EXCEPT !["boot"] = [pc |-> "catch up", list |-> Failed]]
  /\ UNCHANGED <<row, job, kept, tag, outbox, ollama, events>>

\* Without the model server the catch-up does nothing.
SkipCatchUp ==
  /\ sweeper["boot"].pc \in {"start", "caught up"}
  /\ ollama = "down"
  /\ sweeper' = [sweeper EXCEPT !["boot"] = Resting]
  /\ UNCHANGED <<row, job, kept, tag, outbox, ollama, events>>

\* (mutant of RequeueRow: the row is updated even if it is not failed any more)
RequeueAlways(m) ==
  Update(m, [row[m] EXCEPT !.status = "pending", !.attempts = 0])

\* updateMany where the row is still failed
RequeueRow(m) ==
  row' = IF row[m].status = "failed"
         THEN [row EXCEPT ![m].status = "pending", ![m].attempts = 0] ELSE row

Requeue(p, m) ==
  /\ sweeper[p].pc \in {"catch up", "requeue"} /\ m \in sweeper[p].list
  /\ RequeueRow(m)
  /\ sweeper' = [sweeper EXCEPT ![p].list = @ \ {m}]
  /\ UNCHANGED <<job, kept, tag, outbox, ollama, events>>

CaughtUp ==
  /\ sweeper["boot"] = [pc |-> "catch up", list |-> {}]
  /\ sweeper' = [sweeper EXCEPT !["boot"].pc = "caught up"]
  /\ UNCHANGED <<row, job, kept, tag, outbox, ollama, events>>

\* (mutant of Recovered: rows that a dead worker left behind stay)
NotRecovered == row

\* "Recover jobs stuck in processing after a worker crash."
Recovered == [m \in Msg |-> IF row[m].status = "processing"
                            THEN [row[m] EXCEPT !.status = "pending"] ELSE row[m]]

SweepRecover(p) ==
  /\ sweeper[p] = [pc |-> "requeue", list |-> {}]
  /\ row' = Recovered
  /\ sweeper' = [sweeper EXCEPT ![p].pc = "collect"]
  /\ UNCHANGED <<job, kept, tag, outbox, ollama, events>>

SweepCollect(p) ==
  /\ sweeper[p].pc = "collect"
  /\ sweeper' = [sweeper EXCEPT ![p] =
       [pc |-> "enqueue",
        list |-> {m \in Msg : row[m].status = "pending" /\ row[m].attempts < MaxAttempts}]]
  /\ UNCHANGED <<row, job, kept, tag, outbox, ollama, events>>

SweepEnqueue(p, m) ==
  /\ sweeper[p].pc = "enqueue" /\ m \in sweeper[p].list
  /\ AddJob(m)
  /\ sweeper' = [sweeper EXCEPT ![p].list = @ \ {m}]
  /\ UNCHANGED <<row, kept, tag, outbox, ollama, events>>

SweepDone(p) ==
  /\ sweeper[p] = [pc |-> "enqueue", list |-> {}]
  /\ sweeper' = [sweeper EXCEPT ![p] = Resting]
  /\ UNCHANGED <<row, job, kept, tag, outbox, ollama, events>>

-----------------------------------------------------------------------------
(* Syncs, the worker process and the model server *)

\* What a sync's preparation makes of a row without a text.
Readable(r) == [r EXCEPT !.status = "pending", !.text = TRUE]
Unreadable(r) == [r EXCEPT !.status = "failed"]

\* applyChanges stores a new message and prepares it; a history batch or a page
\* only stores it, and a message the server gives no source for stays without a
\* text.  Then all of them enqueue it.
Arrive(m) ==
  /\ ~Present(m)
  /\ \/ row' \in {[row EXCEPT ![m] = New], [row EXCEPT ![m] = Readable(New)]}
        /\ UNCHANGED events
     \/ row' = [row EXCEPT ![m] = Unreadable(New)] /\ Event
  /\ outbox' = outbox \cup {m}
  /\ UNCHANGED <<job, kept, tag, sweeper, ollama>>

\* A later sync prepares an unread row whose text is still null, whatever its
\* status is by now.
Prepare(m) ==
  /\ Present(m) /\ ~row[m].text
  /\ \/ row' = [row EXCEPT ![m] = Readable(@)] /\ UNCHANGED events
     \/ row' = [row EXCEPT ![m] = Unreadable(@)] /\ Event
  /\ outbox' = outbox \cup {m}
  /\ UNCHANGED <<job, kept, tag, sweeper, ollama>>

\* enqueueTags: fire and forget.
SyncEnqueue(m) ==
  /\ m \in outbox
  /\ AddJob(m)
  /\ outbox' = outbox \ {m}
  /\ UNCHANGED <<row, kept, tag, sweeper, ollama, events>>

\* The row goes; the UID may come back as another message.
Remove(m) ==
  /\ Event
  /\ Present(m)
  /\ row' = [row EXCEPT ![m] = Absent]
  /\ UNCHANGED <<job, kept, tag, sweeper, outbox, ollama>>

\* The worker dies and boots again.
Crash ==
  /\ Event
  /\ tag' = [m \in Msg |-> "idle"]
  /\ sweeper' = [p \in Sweeper |-> IF p = "boot" THEN [Resting EXCEPT !.pc = "start"] ELSE Resting]
  /\ outbox' = {}
  /\ \/ (\A m \in Msg : job[m].state # "active") /\ UNCHANGED <<job, kept>>
     \/ \E m \in Msg : job[m].state = "active" /\ Stall(m)
  /\ UNCHANGED <<row, ollama>>

OllamaDown == Event /\ ollama = "up" /\ ollama' = "down"
              /\ UNCHANGED <<row, job, kept, tag, sweeper, outbox>>
OllamaUp == ollama = "down" /\ ollama' = "up"
            /\ UNCHANGED <<row, job, kept, tag, sweeper, outbox, events>>

-----------------------------------------------------------------------------
(* Specification *)

Init ==
  /\ row = [m \in Msg |-> Absent]
  /\ job = [m \in Msg |-> NoJob]
  /\ kept = <<>>
  /\ tag = [m \in Msg |-> "idle"]
  /\ sweeper = [p \in Sweeper |-> IF p = "boot" THEN [Resting EXCEPT !.pc = "start"] ELSE Resting]
  /\ outbox = {}
  /\ ollama = "up"
  /\ events = MaxEvents

TagStep(m) ==
  \/ TagClaim(m) \/ TagSkip(m) \/ Classified(m) \/ BadAnswer(m) \/ NoAnswer(m)
  \/ Complete(m) \/ Undo(m) \/ Check(m) \/ Release(m) \/ MarkFailed(m)
SweepStep(p) ==
  \/ SweepRecover(p) \/ SweepCollect(p) \/ SweepDone(p)
  \/ \E m \in Msg : Requeue(p, m) \/ SweepEnqueue(p, m)
BootStep == CatchUp \/ SkipCatchUp \/ CaughtUp
SyncStep(m) == Arrive(m) \/ Prepare(m) \/ SyncEnqueue(m) \/ Remove(m)

Next ==
  \/ \E m \in Msg : TagStart(m) \/ TagRefused(m) \/ TagStep(m) \/ SyncStep(m)
  \/ \E p \in Sweeper : SweepList(p) \/ SweepStep(p)
  \/ BootStep \/ Crash \/ OllamaDown \/ OllamaUp

Spec == Init /\ [][Next]_vars

\* The worker goes on with what it has begun (WF) and comes back to every
\* waiting job and to the sweep, which BullMQ repeats (SF); the model server
\* comes back.  No fairness for syncs, users and crashes.
Fairness ==
  /\ \A m \in Msg : SF_vars(TagStart(m)) /\ WF_vars(TagStep(m))
  /\ SF_vars(SweepList("sweep")) /\ WF_vars(SweepList("boot")) /\ WF_vars(BootStep)
  /\ \A p \in Sweeper : WF_vars(SweepStep(p))
  /\ WF_vars(OllamaUp)

FairSpec == Spec /\ Fairness

-----------------------------------------------------------------------------
(* Properties *)

\* tagAttempts never goes negative and never beyond the limit, although it is
\* incremented, decremented and reset by updates that do not know each other.
TypeOK ==
  /\ row \in [Msg -> [status: {"absent", "pending", "processing", "tagged", "failed"},
                      attempts: 0..MaxAttempts, text: BOOLEAN]]
  /\ job \in [Msg -> [state: {"none", "waiting", "active", "kept"},
                      tries: 0..(MaxAttempts - 1), stalled: BOOLEAN]]
  /\ kept \in Seq(Msg) /\ Len(kept) <= KeepFailed
  /\ tag \in [Msg -> {"idle", "claim", "classify", "complete", "undo", "check", "release",
                      "fail"}]
  /\ sweeper \in [Sweeper -> [pc: {"idle", "start", "catch up", "caught up", "requeue",
                                   "collect", "enqueue"}, list: SUBSET Msg]]
  /\ outbox \in SUBSET Msg
  /\ ollama \in {"up", "down"}
  /\ events \in Nat

\* A tagged message whose text is prepared stays tagged: no sweep, catch-up or
\* straggling job takes it back.
TaggedStays ==
  [][\A m \in Msg : row[m].status = "tagged" /\ row[m].text
                      => row'[m].status \in {"tagged", "absent"}]_vars

\* The two ways in which a message is left behind: its attempts were used up
\* by crashes or before it was prepared again, or BullMQ still keeps the failed
\* job that has its id.
Parked(m) == row[m].status = "pending"
             /\ (row[m].attempts = MaxAttempts \/ job[m].state = "kept")

Settled(m) == row[m].status \in {"absent", "tagged"}

\* Every message ends up tagged, or is left behind in one of
\* the two known ways, whatever crashes, outages and bad answers come between.
SettlesOrParks == \A m \in Msg : <>[](Settled(m) \/ Parked(m))

\* "Safety-net: enqueue pending messages that never got a tag job": a message
\* is not left behind for good. It does not hold, see the known limits in the README.
NothingParked == \A m \in Msg : <>[]Settled(m)
=============================================================================
