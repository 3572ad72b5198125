--------------------------- MODULE MessageProofs ---------------------------
(***************************************************************************)
(* Theorems about the messages of the mirror: about their tags (Tagging),  *)
(* for any number of messages, attempts, kept jobs and events, and about   *)
(* the list a window shows of them (MailActions), for any accounts,        *)
(* messages, requests, syncs and page size. The steps of the first are     *)
(* Next, those of the second MailNext.                                     *)
(***************************************************************************)
EXTENDS Tagging, MailActions, TLAPS, SequenceTheorems, FiniteSetTheorems

TagRow == [status: {"absent", "pending", "processing", "tagged", "failed"},
        attempts: 0..MaxAttempts, text: BOOLEAN]
TagJob == [state: {"none", "waiting", "active", "kept"},
        tries: 0..(MaxAttempts - 1), stalled: BOOLEAN]

Sweep == [pc: {"idle", "start", "catch up", "caught up", "requeue", "collect", "enqueue"},
          list: SUBSET Msg]

\* The places of a tag job after its claim and before its outcome is written.
Working == {"classify", "complete", "undo", "check", "release", "fail"}

\* What makes the types inductive: an attempt is only undone in a row that a
\* claim has counted.
Counted == \A m \in Msg : row[m].status = "processing" => row[m].attempts >= 1

\* What protects tagged rows from the unconditional markFailed: only the job
\* itself tags its message, so its row is untagged until then.
Untagged == \A m \in Msg : tag[m] \in Working => row[m].status # "tagged"

IInv == TypeOK /\ Counted /\ Untagged

-----------------------------------------------------------------------------
(* Lemmas about the helpers *)

\* Both records a job is reset to are jobs.
LEMMA JobTypes == NoJob \in TagJob /\ KeptJob \in TagJob
<1>1. 0 \in 0..(MaxAttempts - 1)
  BY LimitsAssumption
<1> QED BY <1>1 DEF NoJob, KeptJob, TagJob

\* A job that BullMQ keeps leaves the queue well typed, the limit included.
LEMMA KeepType ==
  ASSUME TypeOK, NEW m \in Msg, Keep(m)
  PROVE  job' \in [Msg -> TagJob] /\ kept' \in Seq(Msg) /\ Len(kept') <= KeepFailed
<1> DEFINE all == Append(kept, m)
<1>1. kept \in Seq(Msg) /\ Len(kept) <= KeepFailed /\ KeepFailed \in Nat
  BY LimitsAssumption DEF TypeOK
<1>2. all \in Seq(Msg) /\ Len(all) = Len(kept) + 1 /\ all # <<>>
  BY <1>1, AppendProperties
<1>3. Tail(all) \in Seq(Msg) /\ Len(Tail(all)) = Len(kept)
  <2>1. Len(Tail(all)) = Len(all) - 1 /\ Tail(all) \in Seq(Msg)
    BY <1>2, HeadTailProperties
  <2>2. Len(kept) \in Nat
    BY <1>1
  <2> QED BY <1>2, <2>1, <2>2
<1>4. kept' = IF Len(all) > KeepFailed THEN Tail(all) ELSE all
  BY DEF Keep
<1>5. kept' \in Seq(Msg) /\ Len(kept') <= KeepFailed
  <2> HIDE DEF all
  <2>1. Len(kept) \in Nat
    BY <1>1
  <2> QED BY <1>1, <1>2, <1>3, <1>4, <2>1
<1>6. job' \in [Msg -> TagJob]
  <2>1. job \in [Msg -> TagJob]
    BY DEF TypeOK, TagJob
  <2> QED BY <2>1, JobTypes DEF Keep
<1> QED BY <1>5, <1>6

\* What a sweeper is set to.
LEMMA SweepTypes ==
  ASSUME NEW found \in SUBSET Msg
  PROVE  /\ \A pc \in {"idle", "start", "catch up", "caught up", "requeue", "collect", "enqueue"} :
              /\ [pc |-> pc, list |-> found] \in Sweep
              /\ \A s \in Sweep : [s EXCEPT !.pc = pc] \in Sweep
         /\ \A s \in Sweep : [s EXCEPT !.list = found] \in Sweep
BY DEF Sweep

\* So does a job that threw, a job that stalled, and one that is added.
LEMMA JobSteps ==
  ASSUME TypeOK, NEW m \in Msg, JobThrew(m) \/ Stall(m) \/ JobDone(m)
  PROVE  job' \in [Msg -> TagJob] /\ kept' \in Seq(Msg) /\ Len(kept') <= KeepFailed
<1>1. job \in [Msg -> TagJob] /\ kept \in Seq(Msg) /\ Len(kept) <= KeepFailed
  BY DEF TypeOK, TagJob
<1>2. CASE Keep(m)
  BY <1>2, KeepType
<1>3. CASE /\ job[m].tries + 1 < MaxAttempts
           /\ job' = [job EXCEPT ![m].state = "waiting", ![m].tries = @ + 1]
           /\ UNCHANGED kept
  <2>1. job[m].tries + 1 \in 0..(MaxAttempts - 1)
    BY <1>1, <1>3, LimitsAssumption DEF TagJob
  <2> QED BY <1>1, <1>3, <2>1 DEF TagJob
<1>4. CASE /\ job' = [job EXCEPT ![m].state = "waiting", ![m].stalled = TRUE]
           /\ UNCHANGED kept
  BY <1>1, <1>4 DEF TagJob
<1>5. CASE JobDone(m)
  BY <1>1, <1>5, JobTypes DEF JobDone
<1> QED BY <1>2, <1>3, <1>4, <1>5 DEF JobThrew, Stall

LEMMA AddJobType ==
  ASSUME TypeOK, NEW m \in Msg, AddJob(m)
  PROVE  job' \in [Msg -> TagJob]
<1>1. job \in [Msg -> TagJob]
  BY DEF TypeOK, TagJob
<1> QED BY <1>1 DEF AddJob, TagJob

-----------------------------------------------------------------------------
(* The rows: what every step may do to one of them *)

\* One row takes a step from r to s while its job is at t and then at u: it
\* stays well typed and counted, a tagged prepared row stays tagged, and the
\* row of a working job stays untagged.
RowStep(r, s, t, u) ==
  /\ s \in TagRow
  /\ s.status = "processing" => s.attempts >= 1
  /\ r.status = "tagged" /\ r.text => s.status \in {"tagged", "absent"}
  /\ u \in Working => s.status # "tagged"

RowsStep == /\ row' \in [Msg -> TagRow]
            /\ \A m \in Msg : RowStep(row[m], row'[m], tag[m], tag'[m])

\* The types of everything else.
RestOK ==
  /\ job \in [Msg -> TagJob]
  /\ kept \in Seq(Msg) /\ Len(kept) <= KeepFailed
  /\ tag \in [Msg -> {"idle", "claim"} \cup Working]
  /\ sweeper \in [Sweeper -> Sweep]
  /\ outbox \in SUBSET Msg
  /\ ollama \in {"up", "down"}
  /\ events \in Nat

LEMMA TypeParts == TypeOK <=> row \in [Msg -> TagRow] /\ RestOK
BY DEF TypeOK, RestOK, TagRow, TagJob, Sweep, Working

\* An event that is spent leaves a natural number of them.
LEMMA EventType == ASSUME RestOK, Event PROVE events' \in Nat
<1>1. events \in Nat
  BY DEF RestOK
<1> QED BY <1>1 DEF Event

\* A step that leaves a row alone and starts no work on it.
LEMMA RowKept ==
  ASSUME IInv, NEW m \in Msg, row'[m] = row[m],
         tag'[m] \in Working => tag[m] \in Working
  PROVE  RowStep(row[m], row'[m], tag[m], tag'[m])
<1>1. row[m] \in TagRow
  BY TypeParts DEF IInv
<1> QED BY <1>1 DEF IInv, Counted, Untagged, RowStep, TagRow

\* A step that updates one row, and takes no other job to work.
LEMMA OneRow ==
  ASSUME IInv, NEW m \in Msg, NEW s \in TagRow,
         row' = [row EXCEPT ![m] = s],
         \A x \in Msg \ {m} : tag'[x] \in Working => tag[x] \in Working,
         RowStep(row[m], s, tag[m], tag'[m])
  PROVE  RowsStep
<1>1. row \in [Msg -> TagRow]
  BY TypeParts DEF IInv
<1>2. row' \in [Msg -> TagRow] /\ row'[m] = s /\ \A x \in Msg \ {m} : row'[x] = row[x]
  BY <1>1
<1>3. \A x \in Msg \ {m} : RowStep(row[x], row'[x], tag[x], tag'[x])
  BY <1>2, RowKept
<1> QED BY <1>2, <1>3 DEF RowsStep

LEMMA NoRow ==
  ASSUME IInv, UNCHANGED row,
         \A x \in Msg : tag'[x] \in Working => tag[x] \in Working
  PROVE  RowsStep
<1>1. row' \in [Msg -> TagRow]
  BY TypeParts DEF IInv
<1> QED BY <1>1, RowKept DEF RowsStep

-----------------------------------------------------------------------------
(* The steps of a tag job *)

LEMMA TagJobSteps ==
  ASSUME IInv, NEW m \in Msg, TagStart(m) \/ TagRefused(m) \/ TagStep(m)
  PROVE  RowsStep /\ RestOK'
<1> DEFINE r == row[m]
<1>1. row \in [Msg -> TagRow] /\ RestOK /\ TypeOK
  BY TypeParts DEF IInv
<1>2. r \in TagRow
  BY <1>1
<1>3. (r.status = "processing" => r.attempts >= 1)
      /\ (tag[m] \in Working => r.status # "tagged")
  BY DEF IInv, Counted, Untagged
<1>4. r.attempts \in 0..MaxAttempts /\ MaxAttempts \in Nat \ {0}
  BY <1>2, LimitsAssumption DEF TagRow
<1>5. tag \in [Msg -> {"idle", "claim"} \cup Working] /\ job \in [Msg -> TagJob]
  BY <1>1 DEF RestOK
<1>6. CASE TagStart(m)
  <2>1. tag' = [tag EXCEPT ![m] = "claim"] /\ UNCHANGED row
    BY <1>6 DEF TagStart
  <2>2. RowsStep
    BY <1>5, <2>1, NoRow DEF Working
  <2>3. job' \in [Msg -> TagJob]
    BY <1>5, <1>6 DEF TagStart, TagJob
  <2> QED BY <1>1, <1>5, <1>6, <2>1, <2>2, <2>3 DEF TagStart, RestOK
<1>7. CASE TagRefused(m)
  <2>1. RowsStep
    BY <1>7, NoRow DEF TagRefused
  <2>2. job' \in [Msg -> TagJob] /\ kept' \in Seq(Msg) /\ Len(kept') <= KeepFailed
    BY <1>1, <1>7, JobSteps DEF TagRefused
  <2> QED BY <1>1, <1>7, <2>1, <2>2 DEF TagRefused, RestOK
<1>8. CASE TagClaim(m)
  <2> DEFINE s == [r EXCEPT !.status = "processing", !.attempts = @ + 1]
  <2>1. r.attempts + 1 \in 0..MaxAttempts /\ r.attempts + 1 >= 1 /\ r.status # "tagged"
    BY <1>4, <1>8 DEF TagClaim, Claimable
  <2>2. s \in TagRow /\ s.status = "processing" /\ s.attempts >= 1
    BY <1>2, <2>1 DEF TagRow
  <2>3. RowStep(r, s, tag[m], tag'[m])
    BY <2>1, <2>2 DEF RowStep
  <2>4. row' = [row EXCEPT ![m] = s]
    BY <1>8 DEF TagClaim
  <2>5. tag' \in [Msg -> {"idle", "claim"} \cup Working]
        /\ \A x \in Msg \ {m} : tag'[x] = tag[x]
    BY <1>5, <1>8 DEF TagClaim, Working
  <2> HIDE DEF s
  <2>6. RowsStep
    BY <2>2, <2>3, <2>4, <2>5, OneRow
  <2> QED BY <1>1, <1>8, <2>5, <2>6 DEF TagClaim, RestOK
<1>9. CASE TagSkip(m)
  <2>1. tag' = [tag EXCEPT ![m] = "idle"] /\ UNCHANGED row
    BY <1>9 DEF TagSkip, JobDone
  <2>2. RowsStep
    BY <1>5, <2>1, NoRow DEF Working
  <2>3. job' \in [Msg -> TagJob] /\ kept' \in Seq(Msg) /\ Len(kept') <= KeepFailed
    BY <1>1, <1>9, JobSteps DEF TagSkip
  <2> QED BY <1>1, <1>5, <1>9, <2>1, <2>2, <2>3 DEF TagSkip, RestOK
<1>10. CASE Classified(m) \/ NoAnswer(m) \/ Check(m) \/ BadAnswer(m)
  <2>1. tag[m] \in Working /\ tag' \in [Msg -> {"idle", "claim"} \cup Working]
        /\ \A x \in Msg \ {m} : tag'[x] = tag[x]
    BY <1>5, <1>10 DEF Classified, NoAnswer, Check, BadAnswer, Working
  <2>2. UNCHANGED <<row, job, kept, sweeper, outbox, ollama>>
    BY <1>10 DEF Classified, NoAnswer, Check, BadAnswer
  <2>3. RowsStep
    BY <2>1, <2>2, NoRow
  <2>4. events' \in Nat
    BY <1>1, <1>10, EventType DEF Classified, NoAnswer, Check, BadAnswer, RestOK
  <2> QED BY <1>1, <2>1, <2>2, <2>3, <2>4 DEF RestOK
<1>11. CASE Complete(m) \/ Undo(m) \/ Release(m) \/ MarkFailed(m)
  <2>1. tag' = [tag EXCEPT ![m] = "idle"] /\ tag[m] \in Working
    BY <1>11 DEF Complete, Undo, Release, MarkFailed, JobDone, Working
  <2>2. tag' \in [Msg -> {"idle", "claim"} \cup Working] /\ tag'[m] \notin Working
        /\ \A x \in Msg \ {m} : tag'[x] = tag[x]
    BY <1>5, <2>1 DEF Working
  <2>3. job' \in [Msg -> TagJob] /\ kept' \in Seq(Msg) /\ Len(kept') <= KeepFailed
    BY <1>1, <1>11, JobSteps DEF Complete, Undo, Release, MarkFailed
  <2>4. UNCHANGED <<sweeper, outbox, ollama, events>>
    BY <1>11 DEF Complete, Undo, Release, MarkFailed
  <2>5. \E s \in TagRow : row' = [row EXCEPT ![m] = s] /\ s.status # "processing"
    <3>1. [r EXCEPT !.status = "tagged"] \in TagRow /\ [r EXCEPT !.status = "failed"] \in TagRow
          /\ [r EXCEPT !.status = "pending"] \in TagRow
      BY <1>2 DEF TagRow
    <3>2. r.status = "processing"
            => [r EXCEPT !.status = "pending", !.attempts = @ - 1] \in TagRow
      <4>1. r.status = "processing" => r.attempts - 1 \in 0..MaxAttempts
        BY <1>3, <1>4
      <4> QED BY <1>2, <4>1 DEF TagRow
    <3>3. row = [row EXCEPT ![m] = r]
      BY <1>1
    <3>4. CASE Complete(m) \/ MarkFailed(m)
      <4>1. CASE Present(m)
        BY <1>2, <3>1, <3>4, <4>1 DEF Complete, MarkFailed, Update, TagRow
      <4>2. CASE ~Present(m)
        BY <1>2, <3>3, <3>4, <4>2 DEF Complete, MarkFailed, Update, Present
      <4> QED BY <4>1, <4>2
    <3>5. CASE Undo(m) \/ Release(m)
      <4>1. CASE r.status = "processing"
        BY <1>2, <3>1, <3>2, <3>5, <4>1 DEF Undo, Release, TagRow
      <4>2. CASE r.status # "processing"
        BY <1>2, <3>3, <3>5, <4>2 DEF Undo, Release
      <4> QED BY <4>1, <4>2
    <3> QED BY <1>11, <3>4, <3>5
  <2>6. PICK s \in TagRow : row' = [row EXCEPT ![m] = s] /\ s.status # "processing"
    BY <2>5
  <2>7. RowStep(r, s, tag[m], tag'[m])
    BY <1>3, <2>1, <2>2, <2>6 DEF RowStep
  <2>8. RowsStep
    BY <2>2, <2>6, <2>7, OneRow
  <2> QED BY <1>1, <2>2, <2>3, <2>4, <2>8 DEF RestOK
<1> QED BY <1>6, <1>7, <1>8, <1>9, <1>10, <1>11 DEF TagStep

-----------------------------------------------------------------------------
(* The steps of the sweeps, of syncs and of the environment *)

LEMMA SweepSteps ==
  ASSUME IInv, NEW p \in Sweeper, SweepList(p) \/ SweepStep(p)
  PROVE  RowsStep /\ RestOK'
<1>1. row \in [Msg -> TagRow] /\ RestOK /\ TypeOK
  BY TypeParts DEF IInv
<1>2. job \in [Msg -> TagJob]
      /\ sweeper \in [Sweeper -> Sweep]
  BY <1>1 DEF RestOK
<1>3. CASE SweepList(p) \/ SweepCollect(p) \/ SweepDone(p)
  <2>1. UNCHANGED <<row, job, kept, tag, outbox, ollama, events>>
    BY <1>3 DEF SweepList, SweepCollect, SweepDone
  <2>2. \E found \in SUBSET Msg, pc \in {"idle", "requeue", "enqueue"} :
           sweeper' = [sweeper EXCEPT ![p] = [pc |-> pc, list |-> found]]
    BY <1>3 DEF SweepList, SweepCollect, SweepDone, Failed, Resting
  <2>3. RowsStep
    BY <2>1, NoRow
  <2>4. sweeper' \in [Sweeper -> Sweep]
    BY <1>2, <2>2, SweepTypes
  <2> QED BY <1>1, <2>1, <2>3, <2>4 DEF RestOK
<1>4. CASE SweepRecover(p)
  <2>1. \A x \in Msg : row'[x] = IF row[x].status = "processing"
                                 THEN [row[x] EXCEPT !.status = "pending"] ELSE row[x]
    BY <1>4 DEF SweepRecover, Recovered
  <2>2. \A x \in Msg : row'[x] \in TagRow /\ RowStep(row[x], row'[x], tag[x], tag'[x])
    <3> SUFFICES ASSUME NEW x \in Msg
                 PROVE  row'[x] \in TagRow /\ RowStep(row[x], row'[x], tag[x], tag'[x])
      OBVIOUS
    <3>1. row[x] \in TagRow /\ tag' = tag
      BY <1>1, <1>4 DEF SweepRecover
    <3>2. CASE row[x].status = "processing"
      BY <2>1, <3>1, <3>2 DEF TagRow, RowStep
    <3>3. CASE row[x].status # "processing"
      BY <2>1, <3>1, <3>3, RowKept DEF RowStep
    <3> QED BY <3>2, <3>3
  <2>3. row' \in [Msg -> TagRow]
    BY <1>4, <2>2 DEF SweepRecover, Recovered
  <2> QED BY <1>1, <1>2, <1>4, <2>2, <2>3 DEF SweepRecover, RestOK, RowsStep, Sweep
<1>5. ASSUME NEW m \in Msg, Requeue(p, m)
      PROVE  RowsStep /\ RestOK'
  <2> DEFINE s == [row[m] EXCEPT !.status = "pending", !.attempts = 0]
  <2>1. UNCHANGED <<job, kept, tag, outbox, ollama, events>>
        /\ sweeper' = [sweeper EXCEPT ![p].list = @ \ {m}]
    BY <1>5 DEF Requeue
  <2>2. CASE row[m].status = "failed"
    <3>1. s \in TagRow /\ s.status = "pending"
      <4>1. 0 \in 0..MaxAttempts /\ row[m] \in TagRow
        BY <1>1, LimitsAssumption
      <4> QED BY <4>1 DEF TagRow
    <3>2. row' = [row EXCEPT ![m] = s]
      BY <1>5, <2>2 DEF Requeue, RequeueRow
    <3> HIDE DEF s
    <3>3. RowStep(row[m], s, tag[m], tag'[m])
      BY <2>2, <3>1 DEF RowStep
    <3> QED BY <1>1, <1>2, <2>1, <3>1, <3>2, <3>3, OneRow DEF RestOK, Sweep
  <2>3. CASE row[m].status # "failed"
    <3>1. UNCHANGED row
      BY <1>5, <2>3 DEF Requeue, RequeueRow
    <3> QED BY <1>1, <1>2, <2>1, <3>1, NoRow DEF RestOK, Sweep
  <2> QED BY <2>2, <2>3
<1>6. ASSUME NEW m \in Msg, SweepEnqueue(p, m)
      PROVE  RowsStep /\ RestOK'
  <2>1. RowsStep
    BY <1>6, NoRow DEF SweepEnqueue
  <2>2. job' \in [Msg -> TagJob]
    BY <1>1, <1>6, AddJobType DEF SweepEnqueue
  <2> QED BY <1>1, <1>2, <1>6, <2>1, <2>2 DEF SweepEnqueue, RestOK, Sweep
<1> QED BY <1>3, <1>4, <1>5, <1>6 DEF SweepStep

LEMMA SyncSteps ==
  ASSUME IInv, NEW m \in Msg, SyncStep(m)
  PROVE  RowsStep /\ RestOK'
<1>1. row \in [Msg -> TagRow] /\ RestOK /\ TypeOK
  BY TypeParts DEF IInv
<1>2. row[m] \in TagRow /\ (tag[m] \in Working => row[m].status # "tagged")
  BY <1>1 DEF IInv, Untagged
<1>3. tag' = tag /\ UNCHANGED <<kept, sweeper, ollama>>
  BY DEF SyncStep, Arrive, Prepare, SyncEnqueue, Remove
<1>4. ASSUME NEW s \in TagRow, row' = [row EXCEPT ![m] = s],
             s.status \in {"absent", "pending", "failed"},
             ~(row[m].status = "tagged" /\ row[m].text) \/ s.status = "absent"
      PROVE  RowsStep
  <2>1. RowStep(row[m], s, tag[m], tag'[m])
    BY <1>4 DEF RowStep
  <2> QED BY <1>3, <1>4, <2>1, OneRow
<1>5. CASE Arrive(m) \/ Prepare(m)
  <2>1. \A r \in TagRow : Readable(r) \in TagRow /\ Readable(r).status = "pending"
                       /\ Unreadable(r) \in TagRow /\ Unreadable(r).status = "failed"
    BY DEF TagRow, Readable, Unreadable
  <2>2. New \in TagRow /\ New.status = "pending"
    <3>1. 0 \in 0..MaxAttempts
      BY LimitsAssumption
    <3> QED BY <3>1 DEF New, TagRow
  <2>3. ~(row[m].status = "tagged" /\ row[m].text)
    BY <1>5 DEF Arrive, Prepare, Present
  <2>4. \E s \in {New, Readable(New), Unreadable(New), Readable(row[m]), Unreadable(row[m])} :
           row' = [row EXCEPT ![m] = s]
    BY <1>5 DEF Arrive, Prepare
  <2>5. RowsStep
    BY <1>2, <1>4, <2>1, <2>2, <2>3, <2>4
  <2>6. events' \in Nat /\ outbox' \in SUBSET Msg /\ UNCHANGED job
    BY <1>1, <1>5, EventType DEF Arrive, Prepare, RestOK
  <2> QED BY <1>1, <1>3, <2>5, <2>6 DEF RestOK
<1>6. CASE SyncEnqueue(m)
  <2>1. job' \in [Msg -> TagJob]
    BY <1>1, <1>6, AddJobType DEF SyncEnqueue
  <2>2. RowsStep
    BY <1>6, NoRow DEF SyncEnqueue
  <2> QED BY <1>1, <1>6, <2>1, <2>2 DEF SyncEnqueue, RestOK
<1>7. CASE Remove(m)
  <2>1. Absent \in TagRow /\ Absent.status = "absent"
    BY LimitsAssumption DEF Absent, TagRow
  <2>2. RowsStep
    BY <1>4, <1>7, <2>1 DEF Remove
  <2>3. events' \in Nat
    BY <1>1, <1>7, EventType DEF Remove
  <2> QED BY <1>1, <1>7, <2>2, <2>3 DEF Remove, RestOK
<1> QED BY <1>5, <1>6, <1>7 DEF SyncStep

LEMMA OtherSteps ==
  ASSUME IInv, BootStep \/ Crash \/ OllamaDown \/ OllamaUp \/ UNCHANGED vars
  PROVE  RowsStep /\ RestOK'
<1>1. RestOK /\ TypeOK
  BY TypeParts DEF IInv
<1>2. sweeper \in [Sweeper -> Sweep]
  BY <1>1 DEF RestOK
<1>3. CASE BootStep
  <2>1. UNCHANGED <<row, job, kept, tag, outbox, ollama, events>>
    BY <1>3 DEF BootStep, CatchUp, SkipCatchUp, CaughtUp
  <2>2. sweeper' \in [Sweeper -> Sweep]
    <3>1. \E found \in SUBSET Msg, pc \in {"idle", "catch up", "caught up"} :
             \/ sweeper' = [sweeper EXCEPT !["boot"] = [pc |-> pc, list |-> found]]
             \/ sweeper' = [sweeper EXCEPT !["boot"].pc = pc]
      BY <1>3 DEF BootStep, CatchUp, SkipCatchUp, CaughtUp, Failed, Resting
    <3>2. PICK found \in SUBSET Msg, pc \in {"idle", "catch up", "caught up"} :
             \/ sweeper' = [sweeper EXCEPT !["boot"] = [pc |-> pc, list |-> found]]
             \/ sweeper' = [sweeper EXCEPT !["boot"].pc = pc]
      BY <3>1
    <3>3. "boot" \in Sweeper /\ sweeper["boot"] \in Sweep
      BY <1>2 DEF Sweeper
    <3>4. [pc |-> pc, list |-> found] \in Sweep /\ [sweeper["boot"] EXCEPT !.pc = pc] \in Sweep
      BY <3>3, SweepTypes
    <3> QED BY <1>2, <3>2, <3>3, <3>4
  <2> QED BY <1>1, <2>1, <2>2, NoRow DEF RestOK
<1>4. CASE Crash
  <2>1. tag' = [m \in Msg |-> "idle"] /\ UNCHANGED <<row, ollama>> /\ outbox' = {}
    BY <1>4 DEF Crash
  <2>2. RowsStep
    BY <2>1, NoRow DEF Working
  <2>3. job' \in [Msg -> TagJob] /\ kept' \in Seq(Msg) /\ Len(kept') <= KeepFailed
    BY <1>1, <1>4, JobSteps DEF Crash, RestOK
  <2>4. events' \in Nat
    BY <1>1, <1>4, EventType DEF Crash
  <2>5. sweeper' \in [Sweeper -> Sweep]
    BY <1>4 DEF Crash, Resting, Sweep
  <2> QED BY <1>1, <2>1, <2>2, <2>3, <2>4, <2>5 DEF RestOK
<1>5. CASE OllamaDown \/ OllamaUp \/ UNCHANGED vars
  <2>1. events' \in Nat
    BY <1>1, <1>5, EventType DEF OllamaDown, OllamaUp, vars, RestOK
  <2>2. UNCHANGED <<row, job, kept, tag, sweeper, outbox>> /\ ollama' \in {"up", "down"}
    BY <1>1, <1>5 DEF OllamaDown, OllamaUp, vars, RestOK
  <2> QED BY <1>1, <2>1, <2>2, NoRow DEF RestOK
<1> QED BY <1>3, <1>4, <1>5

-----------------------------------------------------------------------------
(* The theorems *)

LEMMA Initially == Init => IInv
<1> SUFFICES ASSUME Init PROVE IInv
  OBVIOUS
<1>1. row \in [Msg -> TagRow] /\ \A m \in Msg : row[m].status = "absent"
  BY LimitsAssumption DEF Init, Absent, TagRow
<1>2. RestOK
  <2>1. kept \in Seq(Msg) /\ Len(kept) <= KeepFailed
    BY LimitsAssumption, EmptySeq DEF Init
  <2>2. job \in [Msg -> TagJob] /\ events \in Nat
    BY JobTypes, LimitsAssumption DEF Init
  <2> QED BY <2>1, <2>2 DEF Init, RestOK, Resting, Sweep
<1> QED BY <1>1, <1>2, TypeParts DEF IInv, Counted, Untagged

LEMMA EveryStep ==
  ASSUME IInv, [Next]_vars
  PROVE  RowsStep /\ RestOK'
BY TagJobSteps, SweepSteps, SyncSteps, OtherSteps DEF Next

LEMMA Inductive == IInv /\ [Next]_vars => IInv'
<1> SUFFICES ASSUME IInv, [Next]_vars PROVE IInv'
  OBVIOUS
<1>1. RowsStep /\ RestOK'
  BY EveryStep
<1>2. TypeOK'
  BY <1>1 DEF RowsStep, TypeOK, RestOK, TagRow, TagJob, Sweep, Working
<1>3. Counted' /\ Untagged'
  BY <1>1 DEF RowsStep, RowStep, Counted, Untagged
<1> QED BY <1>2, <1>3 DEF IInv

\* Rows, jobs and the attempts they count stay in their types, for any number
\* of messages, attempts, kept jobs, outages, crashes and bad answers.
THEOREM TypeCorrect == Spec => []TypeOK
<1>1. IInv => TypeOK
  BY DEF IInv
<1> QED BY Initially, Inductive, <1>1, PTL DEF Spec

\* No sweep, catch-up or straggling job takes back a tagged message whose text
\* is prepared, although markFailed looks at nothing but the UID.
THEOREM TaggedMailStaysTagged == Spec => TaggedStays
<1>1. IInv /\ [Next]_vars
        => [\A m \in Msg : row[m].status = "tagged" /\ row[m].text
                             => row'[m].status \in {"tagged", "absent"}]_vars
  BY EveryStep DEF RowsStep, RowStep
<1> QED BY Initially, Inductive, <1>1, PTL DEF Spec, TaggedStays

-----------------------------------------------------------------------------
(* The list *)

\* Page after page, ps is what the list is in the database now.
Current(ps) == \A i \in 1 .. Len(ps) : ps[i] = InboxPage(PageSize * (i - 1))
IsList(ps) == \E S : ps \in Seq(S)

\* A request that may have changed rows and whose end has the list fetched again, or
\* leaves it untold.
Cause(q) ==
  /\ Busy(q)
  /\ \/ request[q].kind \in {"flag", "all", "orphan"}
     \/ /\ request[q].pc = "answer"
        /\ \/ request[q].kind = "move"
           \/ request[q].kind = "open" /\ request[q].msg \in rows

Kinds == {"none", "open", "flag", "move", "all", "orphan"}
Shaped(q) == q = Doing(q.kind, q.msg, q.flag, q.value, q.pc, q.flags) /\ q.kind \in Kinds
Shapes ==
  /\ request = [r \in Request |-> request[r]] /\ \A r \in Request : Shaped(request[r])
  /\ rowFlags = [m \in Message |-> rowFlags[m]]
  /\ untold \in BOOLEAN /\ fetch.kind \in {"none", "all", "next"}
  /\ IsList(pages) /\ IsList(fetch.got)
NoRowNoFlags == \A m \in Message : m \notin rows => rowFlags[m] = {}
\* What is read so far, or is to stay, is current, unless somebody will have it read again.
Fresh ==
  notices = {} /\ ~untold /\ (\A q \in Request : ~Cause(q)) =>
    Current(IF fetch.kind = "all" THEN fetch.got ELSE pages)
ListInv == Shapes /\ NoRowNoFlags /\ Fresh

LEMMA Appended ==
  ASSUME NEW S, NEW s \in Seq(S), NEW e
  PROVE  /\ Append(s, e) \in Seq(S \cup {e}) /\ Len(Append(s, e)) = Len(s) + 1 /\ Len(s) \in Nat
         /\ \A i \in 1 .. Len(s) : Append(s, e)[i] = s[i]
         /\ Append(s, e)[Len(s) + 1] = e
<1>1. s \in Seq(S \cup {e})
  BY SeqMonotonic
<1> QED BY <1>1, AppendProperties, LenProperties

\* A page depends on the rows alone.
LEMMA PageSame ==
  ASSUME UNCHANGED <<rows, rowFlags>>
  PROVE  \A n : InboxPage(n)' = InboxPage(n)
<1>1. ASSUME NEW n PROVE InboxPage(n)' = InboxPage(n)
  BY DEF InboxPage, Newests, Listed, Newest, Slice, Upto, Window, Entry
<1> QED BY <1>1

\* The page that is read next continues a list that is current.
LEMMA PageContinues ==
  ASSUME NEW S, NEW s \in Seq(S), Current(s)
  PROVE  Current(Append(s, InboxPage(PageSize * Len(s))))
<1> DEFINE e == InboxPage(PageSize * Len(s))
<1>1. /\ Len(Append(s, e)) = Len(s) + 1 /\ Len(s) \in Nat
      /\ \A i \in 1 .. Len(s) : Append(s, e)[i] = s[i]
      /\ Append(s, e)[Len(s) + 1] = e
  BY Appended
<1> HIDE DEF e
<1>2. ASSUME NEW i \in 1 .. Len(s) + 1 PROVE Append(s, e)[i] = InboxPage(PageSize * (i - 1))
  <2>1. CASE i \in 1 .. Len(s)
    BY <1>1, <2>1 DEF Current
  <2>2. CASE i = Len(s) + 1
    <3>1. i - 1 = Len(s)
      BY <1>1, <2>2
    <3> QED BY <1>1, <2>2, <3>1 DEF e
  <2> QED BY <1>1, <1>2, <2>1, <2>2
<1> QED BY <1>1, <1>2 DEF Current, e

\* What a request is when it moves on, and when it is over.
LEMMA Moved ==
  ASSUME Shapes, NEW r \in Request, NEW p, NEW fs, Goes(r, p, fs)
  PROVE  /\ request' = [q \in Request |-> request'[q]] /\ \A q \in Request : Shaped(request'[q])
         /\ request'[r].kind = request[r].kind /\ request'[r].msg = request[r].msg /\ request'[r].pc = p
         /\ \A q \in Request \ {r} : request'[q] = request[q]
<1>1. request' = [request EXCEPT ![r].pc = p, ![r].flags = fs]
  BY DEF Goes
<1>2. request'[r] = [request[r] EXCEPT !.pc = p, !.flags = fs] /\ \A q \in Request \ {r} : request'[q] = request[q]
  BY <1>1 DEF Shapes
<1>3. request[r] = Doing(request[r].kind, request[r].msg, request[r].flag, request[r].value,
                              request[r].pc, request[r].flags) /\ request[r].kind \in Kinds
  BY DEF Shapes, Shaped
<1>4. request'[r] = Doing(request[r].kind, request[r].msg, request[r].flag, request[r].value, p, fs)
  BY <1>2, <1>3 DEF Doing
<1>5. Shaped(request'[r]) /\ request'[r].kind = request[r].kind /\ request'[r].msg = request[r].msg /\ request'[r].pc = p
  BY <1>3, <1>4 DEF Shaped, Doing
<1>6. request' = [q \in Request |-> request'[q]]
  BY <1>1 DEF Shapes
<1> QED BY <1>2, <1>5, <1>6 DEF Shapes

LEMMA Freed ==
  /\ Shaped(Free) /\ Free.kind = "none"
  /\ \A k \in Kinds : \A m, f, v, p, fs : Shaped(Doing(k, m, f, v, p, fs))
                                          /\ Doing(k, m, f, v, p, fs).kind = k
                                          /\ Doing(k, m, f, v, p, fs).pc = p
BY DEF Shaped, Free, Doing, Kinds

\* The rows, the list and its fetch stay, and no cause of a fetch is lost in silence.
LEMMA ListStays ==
  ASSUME ListInv, UNCHANGED <<rows, rowFlags, pages, fetch>>,
         request' = [r \in Request |-> request'[r]], \A r \in Request : Shaped(request'[r]),
         untold' \in BOOLEAN, untold => untold',
         notices' = {} /\ ~untold' /\ (\A q \in Request : ~Cause(q)') =>
           notices = {} /\ \A q \in Request : ~Cause(q)
  PROVE  ListInv'
<1>1. Shapes'
  BY DEF ListInv, Shapes, IsList
<1>2. NoRowNoFlags'
  BY DEF ListInv, NoRowNoFlags
<1>3. Fresh'
  <2> SUFFICES ASSUME notices' = {}, ~untold', \A q \in Request : ~Cause(q)'
               PROVE  Current(IF fetch.kind = "all" THEN fetch.got ELSE pages)'
    BY DEF Fresh
  <2>1. Current(IF fetch.kind = "all" THEN fetch.got ELSE pages)
    BY DEF ListInv, Fresh
  <2> QED BY <2>1, PageSame DEF Current
<1> QED BY <1>1, <1>2, <1>3 DEF ListInv

\* A fetch of all pages begins anew.
LEMMA ListRefetched ==
  ASSUME ListInv, UNCHANGED <<rows, rowFlags, pages>>, Refetch,
         request' = [r \in Request |-> request'[r]], \A r \in Request : Shaped(request'[r])
  PROVE  ListInv'
<1>1. fetch'.kind = "all" /\ fetch'.got = <<>> /\ untold' = FALSE
  BY DEF Refetch, Fetching
<1>2. Shapes'
  <2>1. <<>> \in Seq({})
    OBVIOUS
  <2> QED BY <1>1, <2>1 DEF ListInv, Shapes, IsList
<1>3. NoRowNoFlags'
  BY DEF ListInv, NoRowNoFlags
<1>4. Fresh'
  BY <1>1 DEF Fresh, Current
<1> QED BY <1>2, <1>3, <1>4 DEF ListInv

\* The answers of the requests: one that ends without having the list fetched has changed
\* nothing, leaves that to another, or leaves the list untold.
LEMMA SettlesKeeps ==
  ASSUME ListInv, NEW r \in Request, Busy(r), NEW ok \in BOOLEAN, NEW silent \in BOOLEAN,
         Settles(r, ok, silent), UNCHANGED <<rows, rowFlags>>,
         request[r].kind \in {"open", "move"} /\ ~ok /\ ~silent => ~Cause(r)
  PROVE  ListInv'
<1> DEFINE broken == request[r].kind = "all" /\ ~ok
<1>1. /\ request' = [q \in Request |->
           IF q = r THEN Free
           ELSE IF broken /\ request[q].kind = "all" THEN [request[q] EXCEPT !.kind = "orphan"]
           ELSE request[q]]
      /\ UNCHANGED <<notices, pages>>
  BY DEF Settles
<1>2. ASSUME NEW q \in Request PROVE Shaped(request'[q])
  <2>1. Shaped(request[q])
    BY DEF ListInv, Shapes
  <2>2. CASE q = r
    BY <1>1, <2>2, Freed
  <2>3. CASE q # r /\ broken /\ request[q].kind = "all"
    <3>1. request'[q] = [request[q] EXCEPT !.kind = "orphan"]
      BY <1>1, <2>3
    <3>2. request'[q] = Doing("orphan", request[q].msg, request[q].flag, request[q].value,
                                   request[q].pc, request[q].flags)
      BY <2>1, <3>1 DEF Shaped, Doing
    <3>3. "orphan" \in Kinds
      BY DEF Kinds
    <3> QED BY <3>2, <3>3, Freed
  <2>4. CASE q # r /\ ~(broken /\ request[q].kind = "all")
    BY <1>1, <2>1, <2>4
  <2> QED BY <2>2, <2>3, <2>4
<1>3. request' = [q \in Request |-> request'[q]]
  BY <1>1
<1>4. CASE Tells(r, ok) /\ Refetch
  BY <1>1, <1>2, <1>3, <1>4, ListRefetched
<1>5. CASE ~(Tells(r, ok) /\ Refetch)
  <2>1. /\ ~Tells(r, ok) /\ fetch' = fetch
        /\ untold' = (untold \/ silent \/ broken \/ request[r].kind = "orphan")
    BY <1>5 DEF Settles
  <2>2. untold' \in BOOLEAN /\ (untold => untold')
    BY <2>1 DEF ListInv, Shapes
  <2>3. ASSUME ~untold', \A q \in Request : ~Cause(q)' PROVE \A q \in Request : ~Cause(q)
    <3>1. ~silent /\ ~broken /\ request[r].kind # "orphan"
      BY <2>1, <2>3
    <3>2. \A q \in Request \ {r} : request'[q] = request[q]
      BY <1>1, <3>1
    <3>3. \A q \in Request \ {r} : ~Cause(q)
      BY <2>3, <3>2 DEF Cause, Busy
    <3>4. ~Cause(r)
      <4>1. request[r].kind # "flag" /\ (request[r].kind \in {"open", "move"} => ~ok)
        BY <2>1 DEF Tells
      <4>2. request[r].kind # "all"
        <5> SUFFICES ASSUME request[r].kind = "all" PROVE FALSE
          OBVIOUS
        <5>1. ok /\ Others("all", r)
          BY <2>1, <3>1 DEF Tells
        <5>2. PICK q \in Request \ {r} : request[q].kind = "all"
          BY <5>1 DEF Others
        <5> QED BY <3>3, <5>2 DEF Cause, Busy
      <4>3. request[r].kind \in {"open", "move"}
        BY <3>1, <4>1, <4>2 DEF ListInv, Shapes, Shaped, Kinds, Busy
      <4> QED BY <3>1, <4>1, <4>3
    <3> QED BY <3>3, <3>4
  <2> QED BY <1>1, <1>2, <1>3, <2>1, <2>2, <2>3, ListStays
<1> QED BY <1>4, <1>5

\* Requests that begin.
LEMMA AskedKeeps ==
  ASSUME ListInv, UNCHANGED <<rows, rowFlags, pages, fetch, untold, notices>>,
         request' = [r \in Request |-> request'[r]],
         \A r \in Request : request'[r] = request[r] \/ (~Busy(r) /\ Shaped(request'[r]))
  PROVE  ListInv'
<1>1. \A r \in Request : Shaped(request'[r])
  BY DEF ListInv, Shapes
<1>2. \A q \in Request : Cause(q) => Cause(q)'
  BY DEF Cause, Busy
<1> QED BY <1>1, <1>2, ListStays DEF ListInv, Shapes

LEMMA OneAsked ==
  ASSUME ListInv, UNCHANGED <<rows, rowFlags, pages, fetch, untold, notices>>,
         NEW r \in Request, ~Busy(r), NEW k \in Kinds, NEW m, NEW f, NEW v, NEW p, NEW fs,
         request' = [request EXCEPT ![r] = Doing(k, m, f, v, p, fs)]
  PROVE  ListInv'
<1> DEFINE d == Doing(k, m, f, v, p, fs)
<1>1. Shaped(d)
  BY Freed
<1> HIDE DEF d
<1>2. /\ request' = [q \in Request |-> request'[q]]
      /\ request'[r] = d /\ \A q \in Request \ {r} : request'[q] = request[q]
  BY DEF ListInv, Shapes, d
<1> QED BY <1>1, <1>2, AskedKeeps

LEMMA GoesKeeps ==
  ASSUME ListInv, NEW r \in Request, Finds(r) \/ Commands(r)
  PROVE  ListInv'
<1>1. \E p \in {"imap", "save"} : \E fs : Goes(r, p, fs)
  BY DEF Finds, Commands
<1>2. PICK p \in {"imap", "save"} : \E fs : Goes(r, p, fs)
  BY <1>1
<1>3. /\ UNCHANGED <<rows, rowFlags, pages, fetch, untold, notices>>
      /\ request[r].pc # "answer"
  BY DEF Finds, Commands, At, database, list
<1>4. /\ request' = [q \in Request |-> request'[q]] /\ \A q \in Request : Shaped(request'[q])
      /\ request'[r].kind = request[r].kind /\ request'[r].pc = p
      /\ \A q \in Request \ {r} : request'[q] = request[q]
  BY <1>2, Moved DEF ListInv
<1>5. \A q \in Request : Cause(q) => Cause(q)'
  BY <1>3, <1>4 DEF Cause, Busy
<1> QED BY <1>3, <1>4, <1>5, ListStays DEF ListInv, Shapes

\* The rows change under a request whose answer is still to come.
LEMMA SavesKeeps ==
  ASSUME ListInv, NEW r \in Request, Saves(r)
  PROVE  ListInv'
<1> DEFINE m == request[r].msg
<1>1. /\ Busy(r) /\ request[r].pc = "save" /\ Goes(r, "answer", {})
      /\ rows' = IF request[r].kind = "move" THEN rows \ {m} ELSE rows
      /\ UNCHANGED <<pages, fetch, untold, notices>>
  BY DEF Saves, At, list
<1>2. \E fs : rowFlags' = [rowFlags EXCEPT ![m] = IF m \in rows' THEN fs ELSE {}]
  BY DEF Saves
<1>3. /\ request' = [q \in Request |-> request'[q]] /\ \A q \in Request : Shaped(request'[q])
      /\ request'[r].kind = request[r].kind /\ request'[r].msg = m /\ request'[r].pc = "answer"
      /\ \A q \in Request \ {r} : request'[q] = request[q]
  BY <1>1, Moved DEF ListInv
<1>4. PICK fs : rowFlags' = [rowFlags EXCEPT ![m] = IF m \in rows' THEN fs ELSE {}]
  BY <1>2
<1> HIDE DEF m
<1>5. /\ rowFlags' = [k \in Message |-> rowFlags'[k]]
      /\ \A k \in Message : rowFlags'[k] = IF k = m THEN (IF m \in rows' THEN fs ELSE {}) ELSE rowFlags[k]
  BY <1>4 DEF ListInv, Shapes
<1>6. Shapes'
  BY <1>1, <1>3, <1>5 DEF ListInv, Shapes, IsList
<1>7. NoRowNoFlags'
  BY <1>1, <1>5 DEF ListInv, NoRowNoFlags
<1>8. Fresh'
  <2>1. CASE request[r].kind \in {"flag", "all", "orphan", "move"} \/ (request[r].kind = "open" /\ m \in rows)
    <3>1. Cause(r)'
      BY <1>1, <1>3, <2>1 DEF Cause, Busy
    <3> QED BY <3>1 DEF Fresh
  <2>2. CASE ~(request[r].kind \in {"flag", "all", "orphan", "move"} \/ (request[r].kind = "open" /\ m \in rows))
    <3>1. request[r].kind = "open" /\ m \notin rows /\ rows' = rows
      BY <1>1, <2>2 DEF ListInv, Shapes, Shaped, Kinds, Busy
    <3>2. rowFlags' = rowFlags
      <4>1. \A k \in Message : rowFlags'[k] = rowFlags[k]
        BY <1>5, <3>1 DEF ListInv, NoRowNoFlags
      <4> QED BY <1>5, <4>1 DEF ListInv, Shapes
    <3>3. \A q \in Request : Cause(q) => Cause(q)'
      BY <1>1, <1>3, <3>1 DEF Cause, Busy
    <3> QED BY <1>1, <1>3, <3>1, <3>2, <3>3, ListStays DEF ListInv, Shapes
  <2> QED BY <2>1, <2>2
<1> QED BY <1>6, <1>7, <1>8 DEF ListInv

LEMMA HandlerKeeps ==
  ASSUME ListInv, NEW r \in Request, Handler(r)
  PROVE  ListInv'
<1>1. CASE Finds(r) \/ Commands(r)
  BY <1>1, GoesKeeps
<1>2. CASE Saves(r)
  BY <1>2, SavesKeeps
<1>3. CASE FindsNothing(r) \/ Refused(r) \/ CommandFails(r)
  <2>1. Settles(r, FALSE, FALSE) /\ Busy(r) /\ request[r].pc # "answer" /\ UNCHANGED <<rows, rowFlags>>
    BY <1>3 DEF FindsNothing, Refused, CommandFails, At, database
  <2>2. request[r].kind \in {"open", "move"} => ~Cause(r)
    BY <2>1 DEF Cause
  <2> QED BY <2>1, <2>2, SettlesKeeps
<1>4. CASE Answers(r)
  <2> DEFINE ok == request[r].kind = "move" \/ request[r].msg \in rows
  <2>1. Settles(r, ok, FALSE) /\ Busy(r) /\ UNCHANGED <<rows, rowFlags>>
    BY <1>4 DEF Answers, At, database
  <2>2. request[r].kind \in {"open", "move"} /\ ~ok => ~Cause(r)
    BY DEF Cause
  <2>3. ok \in BOOLEAN
    OBVIOUS
  <2> HIDE DEF ok
  <2> QED BY <2>1, <2>2, <2>3, SettlesKeeps
<1>5. CASE AnswerLost(r)
  <2>1. Settles(r, FALSE, TRUE) /\ Busy(r) /\ UNCHANGED <<rows, rowFlags>>
    BY <1>5 DEF AnswerLost, At, database
  <2> QED BY <2>1, SettlesKeeps
<1> QED BY <1>1, <1>2, <1>3, <1>4, <1>5 DEF Handler

\* The window: the fetch goes on, is cancelled or fails; the user opens, marks and moves.
LEMMA FetchPageKeeps ==
  ASSUME ListInv, FetchPage
  PROVE  ListInv'
<1> DEFINE before == IF fetch.kind = "next" THEN pages ELSE fetch.got
           page == InboxPage(PageSize * Len(before))
           got == Append(before, page)
           last == fetch.kind = "next" \/ Len(got) = fetch.want \/ Len(page) < PageSize
<1>1. /\ fetch.kind # "none"
      /\ pages' = IF last THEN got ELSE pages
      /\ fetch' = IF last THEN NoFetch ELSE Fetching("all", fetch.want, got)
      /\ UNCHANGED <<rows, rowFlags, request, notices, untold>>
  BY DEF FetchPage, database
<1>2. IsList(before)
  BY DEF ListInv, Shapes
<1>3. PICK S : before \in Seq(S)
  BY <1>2 DEF IsList
<1>4. got \in Seq(S \cup {page})
  BY <1>3, Appended
<1>5. Current(before) => Current(got)
  BY <1>3, PageContinues
<1>6. fetch.kind \in {"all", "next"} /\ before = (IF fetch.kind = "all" THEN fetch.got ELSE pages)
  BY <1>1 DEF ListInv, Shapes
<1>7. fetch' = IF last THEN [kind |-> "none", want |-> 0, got |-> <<>>]
               ELSE [kind |-> "all", want |-> fetch.want, got |-> got]
  BY <1>1 DEF NoFetch, Fetching
<1> HIDE DEF before, page, got, last
<1>8. IsList(<<>>)
  <2>1. <<>> \in Seq({})
    OBVIOUS
  <2> QED BY <2>1 DEF IsList
<1>9. IsList(got)
  BY <1>4 DEF IsList
<1>10. IsList(pages') /\ IsList(fetch'.got) /\ fetch'.kind \in {"none", "all"}
  <2>1. CASE last
    BY <1>1, <1>7, <1>8, <1>9, <2>1
  <2>2. CASE ~last
    <3>1. IsList(pages)
      BY DEF ListInv, Shapes
    <3> QED BY <1>1, <1>7, <1>9, <2>2, <3>1
  <2> QED BY <2>1, <2>2
<1>11. Shapes'
  BY <1>1, <1>10 DEF ListInv, Shapes, IsList
<1>12. NoRowNoFlags'
  BY <1>1 DEF ListInv, NoRowNoFlags
<1>13. Fresh'
  <2> SUFFICES ASSUME notices' = {}, ~untold', \A q \in Request : ~Cause(q)'
               PROVE  Current(IF fetch.kind = "all" THEN fetch.got ELSE pages)'
    BY DEF Fresh
  <2>1. \A q \in Request : ~Cause(q)
    BY <1>1 DEF Cause, Busy
  <2>2. Current(got)
    BY <1>1, <1>5, <1>6, <2>1 DEF ListInv, Fresh
  <2>3. (IF fetch.kind = "all" THEN fetch.got ELSE pages)' = got
    BY <1>1, <1>7
  <2> HIDE DEF Fresh
  <2>4. \A i \in 1 .. Len(got) : got[i] = InboxPage(PageSize * (i - 1))'
    BY <1>1, <2>2, PageSame DEF Current
  <2> QED BY <2>3, <2>4 DEF Current
<1> QED BY <1>11, <1>12, <1>13 DEF ListInv

LEMMA ScreenKeeps ==
  ASSUME ListInv, Screen \/ Scroll
  PROVE  ListInv'
<1>1. CASE FetchPage
  BY <1>1, FetchPageKeeps
<1>2. CASE ReaderLoads \/ ReaderFails
  BY <1>2, AskedKeeps DEF ReaderLoads, ReaderFails, database, list, ListInv, Shapes
<1>3. CASE FetchFails \/ Scroll
  <2>1. /\ UNCHANGED <<rows, rowFlags, pages, request, notices>>
        /\ fetch'.kind \in {"none", "next"} /\ fetch'.got = <<>>
        /\ untold' \in BOOLEAN
        /\ ~untold' => ~untold /\ fetch.kind # "all"
    <3>1. untold \in BOOLEAN
      BY DEF ListInv, Shapes
    <3>2. CASE FetchFails
      BY <3>2 DEF FetchFails, database, NoFetch, Fetching
    <3>3. CASE Scroll
      BY <3>1, <3>3 DEF Scroll, database, Fetching
    <3> QED BY <1>3, <3>2, <3>3
  <2>2. Shapes'
    <3>1. <<>> \in Seq({})
      OBVIOUS
    <3> QED BY <2>1, <3>1 DEF ListInv, Shapes, IsList
  <2>3. NoRowNoFlags'
    BY <2>1 DEF ListInv, NoRowNoFlags
  <2>4. Fresh'
    <3> SUFFICES ASSUME notices' = {}, ~untold', \A q \in Request : ~Cause(q)'
                 PROVE  Current(IF fetch.kind = "all" THEN fetch.got ELSE pages)'
      BY DEF Fresh
    <3>1. \A q \in Request : ~Cause(q)
      BY <2>1 DEF Cause, Busy
    <3>2. Current(pages)
      BY <2>1, <3>1 DEF ListInv, Fresh
    <3> QED BY <2>1, <3>2, PageSame DEF Current
  <2> QED BY <2>2, <2>3, <2>4 DEF ListInv
<1> QED BY <1>1, <1>2, <1>3 DEF Screen

LEMMA UserKeeps ==
  ASSUME ListInv, User
  PROVE  ListInv'
<1>1. CASE Scroll
  BY <1>1, ScreenKeeps
<1>2. ASSUME NEW e \in EntriesOf(pages), Open(e) PROVE ListInv'
  <2>1. UNCHANGED <<rows, rowFlags, pages, fetch, untold, notices>>
    BY <1>2 DEF Open, database, list
  <2>2. \/ request' = request
        \/ \E r \in Request : ~Busy(r) /\ request' = [request EXCEPT ![r] = Doing("open", e.msg, "Seen", TRUE, "sent", {})]
    BY <1>2 DEF Open
  <2>3. "open" \in Kinds
    BY DEF Kinds
  <2>4. CASE request' = request
    BY <2>1, <2>4, AskedKeeps DEF ListInv, Shapes
  <2>5. CASE request' # request
    <3>1. PICK r \in Request : /\ ~Busy(r)
                              /\ request' = [request EXCEPT ![r] = Doing("open", e.msg, "Seen", TRUE, "sent", {})]
      BY <2>2, <2>5
    <3> QED BY <2>1, <2>3, <3>1, OneAsked
  <2> QED BY <2>4, <2>5
<1>3. ASSUME NEW r \in Request, Move(r) \/ \E f \in Flag : Toggle(r, f) PROVE ListInv'
  <2>1. UNCHANGED <<rows, rowFlags, pages, fetch, untold, notices>> /\ ~Busy(r)
    BY <1>3 DEF Move, Toggle, database, list
  <2>2. \E k \in {"move", "flag"} : \E m, f, v, p, fs : request' = [request EXCEPT ![r] = Doing(k, m, f, v, p, fs)]
    <3>1. CASE Move(r)
      <4>1. request' = [request EXCEPT ![r] = Doing("move", reader.msg, "Seen", FALSE, "sent", {})]
        BY <3>1 DEF Move
      <4> QED BY <4>1
    <3>2. ASSUME NEW f \in Flag, Toggle(r, f)
          PROVE  \E m, g, v, p, fs : request' = [request EXCEPT ![r] = Doing("flag", m, g, v, p, fs)]
      <4>1. PICK shown \in ShownFlags :
              request' = [request EXCEPT ![r] = Doing("flag", reader.msg, f, f \notin shown, "sent", {})]
        BY <3>2 DEF Toggle
      <4> QED BY <4>1
    <3> QED BY <1>3, <3>1, <3>2
  <2>3. {"move", "flag"} \subseteq Kinds
    BY DEF Kinds
  <2> QED BY <2>1, <2>2, <2>3, OneAsked
<1>4. CASE MarkAllRead
  <2>1. UNCHANGED <<rows, rowFlags, pages, fetch, untold, notices>>
    BY <1>4 DEF MarkAllRead, database, list
  <2> DEFINE unread == {e.msg : e \in {x \in EntriesOf(pages) : "Seen" \notin x.flags}}
  <2>2. PICK slot \in [unread -> {r \in Request : ~Busy(r)}] :
          request' = [r \in Request |->
            LET ms == {m \in unread : slot[m] = r} IN
            IF ms = {} THEN request[r]
            ELSE Doing("all", CHOOSE m \in ms : TRUE, "Seen", TRUE, "sent", {})]
    BY <1>4 DEF MarkAllRead
  <2>3. "all" \in Kinds
    BY DEF Kinds
  <2>4. ASSUME NEW r \in Request PROVE request'[r] = request[r] \/ (~Busy(r) /\ Shaped(request'[r]))
    <3> DEFINE ms == {m \in unread : slot[m] = r}
    <3>1. request'[r] = IF ms = {} THEN request[r]
                        ELSE Doing("all", CHOOSE m \in ms : TRUE, "Seen", TRUE, "sent", {})
      BY <2>2
    <3>2. CASE ms = {}
      BY <3>1, <3>2
    <3>3. CASE ms # {}
      <4>1. ~Busy(r)
        BY <3>3, <2>2
      <4>2. PICK m : request'[r] = Doing("all", m, "Seen", TRUE, "sent", {})
        BY <3>1, <3>3
      <4>3. Shaped(Doing("all", m, "Seen", TRUE, "sent", {}))
        BY <2>3, Freed
      <4> HIDE DEF ms
      <4> QED BY <4>1, <4>2, <4>3
    <3> QED BY <3>2, <3>3
  <2>5. request' = [r \in Request |-> request'[r]]
    BY <2>2
  <2> QED BY <2>1, <2>4, <2>5, AskedKeeps
<1> QED BY <1>1, <1>2, <1>3, <1>4 DEF User

\* Syncs and the word of them.
LEMMA SyncKeeps ==
  ASSUME ListInv,
         \/ SyncReads \/ SyncCommits \/ SyncFails
         \/ \E a \in Account : Syncing(a)
         \/ \E n \in notices : Delivered(n)
  PROVE  ListInv'
<1>1. CASE SyncReads \/ SyncFails \/ \E a \in Account : Tick(a) \/ BackgroundSync(a) \/ Joins(a)
  <2>1. UNCHANGED <<rows, rowFlags, pages, fetch, untold, notices, request>>
    BY <1>1 DEF SyncReads, SyncFails, Tick, BackgroundSync, Begins, Joins,
       database, list
  <2> QED BY <2>1, AskedKeeps DEF ListInv, Shapes
<1>2. CASE SyncCommits
  <2> DEFINE a == sync.account
             remains == sync.box \cap (rows \cup (sync.box \ sync.known))
  <2>1. /\ rows' = (rows \ Of(a, rows)) \cup remains
        /\ rowFlags' = [m \in Message |-> IF m \in remains THEN SyncedFlags(m) ELSE
                                          IF Owner[m] = a THEN {} ELSE rowFlags[m]]
        /\ notices' # {}
        /\ UNCHANGED <<request, pages, fetch, untold>>
    BY <1>2 DEF SyncCommits, list
  <2> HIDE DEF a, remains
  <2>2. Shapes'
    BY <2>1 DEF ListInv, Shapes, IsList
  <2>3. NoRowNoFlags'
    <3> SUFFICES ASSUME NEW m \in Message, m \notin rows' PROVE rowFlags'[m] = {}
      BY DEF NoRowNoFlags
    <3>1. m \notin remains /\ rowFlags'[m] = IF Owner[m] = a THEN {} ELSE rowFlags[m]
      BY <2>1
    <3>2. Owner[m] # a => m \notin rows
      BY <2>1 DEF Of
    <3> QED BY <3>1, <3>2 DEF ListInv, NoRowNoFlags
  <2>4. Fresh'
    BY <2>1 DEF Fresh
  <2> QED BY <2>2, <2>3, <2>4 DEF ListInv
<1>3. ASSUME NEW a \in Account, EventLost(a) \/ ReplyLost(a) PROVE ListInv'
  <2>1. UNCHANGED <<rows, rowFlags, pages, fetch, request>> /\ untold' = TRUE
    BY <1>3 DEF EventLost, ReplyLost, database
  <2> QED BY <2>1, ListStays DEF ListInv, Shapes
<1>4. ASSUME NEW n \in notices, Delivered(n) PROVE ListInv'
  <2>1. UNCHANGED <<rows, rowFlags, pages, request>> /\ Refetch
    BY <1>4 DEF Delivered, Invalidates, database
  <2> QED BY <2>1, ListRefetched DEF ListInv, Shapes
<1> QED BY <1>1, <1>2, <1>3, <1>4 DEF Syncing

LEMMA ListStep ==
  ASSUME ListInv, [MailNext]_mailVars
  PROVE  ListInv'
<1>1. CASE User
  BY <1>1, UserKeeps
<1>2. CASE Screen
  BY <1>2, ScreenKeeps
<1>3. ASSUME NEW r \in Request, Handler(r) PROVE ListInv'
  BY <1>3, HandlerKeeps
<1>4. CASE \/ SyncReads \/ SyncCommits \/ SyncFails
           \/ \E a \in Account : Syncing(a)
           \/ \E n \in notices : Delivered(n)
  BY <1>4, SyncKeeps
<1>5. ASSUME NEW m \in Message, Elsewhere(m) PROVE ListInv'
  <2>1. UNCHANGED <<rows, rowFlags, pages, fetch, untold, notices, request>>
    BY <1>5 DEF Elsewhere, Arrives, RemovedElsewhere, FlagsElsewhere, database, list
  <2> QED BY <2>1, AskedKeeps DEF ListInv, Shapes
<1>6. CASE UNCHANGED mailVars
  <2>1. UNCHANGED <<rows, rowFlags, pages, fetch, untold, notices, request>>
    BY <1>6 DEF mailVars
  <2> QED BY <2>1, AskedKeeps DEF ListInv, Shapes
<1> QED BY <1>1, <1>2, <1>3, <1>4, <1>5, <1>6 DEF MailNext

LEMMA ListInit ==
  ASSUME MailInit
  PROVE  ListInv
<1> DEFINE first == InboxPage(0)
<1>1. /\ request = [r \in Request |-> Free] /\ rowFlags = [m \in Message |-> {}]
      /\ pages = <<first>> /\ fetch = NoFetch /\ untold = FALSE /\ notices = {}
  BY DEF MailInit, Unflagged
<1>2. fetch.kind = "none" /\ fetch.got = <<>>
  BY <1>1 DEF NoFetch, Fetching
<1> HIDE DEF first
<1>3. pages \in Seq({first}) /\ <<>> \in Seq({first}) /\ Len(pages) = 1 /\ pages[1] = first
  BY <1>1
<1>4. Shapes
  <2>1. IsList(pages) /\ IsList(fetch.got)
    BY <1>2, <1>3 DEF IsList
  <2> QED BY <1>1, <1>2, <2>1, Freed DEF Shapes
<1>5. NoRowNoFlags
  BY <1>1 DEF NoRowNoFlags
<1>6. Fresh
  <2>1. ASSUME NEW i \in 1 .. Len(pages) PROVE pages[i] = InboxPage(PageSize * (i - 1))
    <3>1. i = 1 /\ PageSize * (i - 1) = 0
      BY <1>3, ConstantsAssumption
    <3> QED BY <1>3, <3>1 DEF first
  <2> QED BY <1>2, <2>1 DEF Fresh, Current
<1> QED BY <1>4, <1>5, <1>6 DEF ListInv

LEMMA ListShown == ListInv => OwnChangesShown
<1> SUFFICES ASSUME ListInv, Quiet, ~untold PROVE ListCurrent
  BY DEF OwnChangesShown
<1>1. fetch.kind = "none" /\ notices = {} /\ \A q \in Request : ~Cause(q)
  BY DEF Quiet, Cause
<1>2. Current(pages)
  BY <1>1 DEF ListInv, Fresh
<1>3. PICK S : pages \in Seq(S)
  BY DEF ListInv, Shapes, IsList
<1>4. DOMAIN pages = 1 .. Len(pages)
  BY <1>3, LenProperties
<1> QED BY <1>2, <1>4 DEF Current, ListCurrent

\* For any messages, accounts, pages, requests and syncs: once what the window did is
\* answered, and no event or answer was lost, its list shows the rows, although its pages
\* are read one by one while rows come and go (useMessageActions, SyncProvider, listInbox).
THEOREM ListShowsRows == MailSpec => []OwnChangesShown
<1>1. MailInit => ListInv
  BY ListInit
<1>2. ListInv /\ [MailNext]_mailVars => ListInv'
  BY ListStep
<1>3. ListInv => OwnChangesShown
  BY ListShown
<1> QED BY <1>1, <1>2, <1>3, PTL DEF MailSpec

-----------------------------------------------------------------------------
(* Pages in order of date *)

\* The place of m among the messages of S, the newest first.
Rank(S, m) == Cardinality({k \in S : k >= m})

LEMMA RankedOnce ==
  ASSUME NEW S \in SUBSET Nat, IsFiniteSet(S)
  PROVE  /\ Cardinality(S) \in Nat
         /\ \A m \in S : Rank(S, m) \in 1 .. Cardinality(S)
         /\ \A m, n \in S : m < n => Rank(S, n) < Rank(S, m)
<1>1. ASSUME NEW m \in S
      PROVE  /\ IsFiniteSet({k \in S : k >= m}) /\ Rank(S, m) \in Nat
             /\ Rank(S, m) <= Cardinality(S) /\ Rank(S, m) # 0
  <2> DEFINE A == {k \in S : k >= m}
  <2>1. A \in SUBSET S /\ m \in A
    OBVIOUS
  <2> HIDE DEF A
  <2>2. IsFiniteSet(A) /\ Cardinality(A) <= Cardinality(S)
    BY <2>1, FS_Subset
  <2>3. Cardinality(A) \in Nat /\ Cardinality(A) # 0
    BY <2>1, <2>2, FS_CardinalityType, FS_EmptySet
  <2> QED BY <2>2, <2>3 DEF Rank, A
<1>2. Cardinality(S) \in Nat
  BY FS_CardinalityType
<1>3. ASSUME NEW m \in S, NEW n \in S, m < n PROVE Rank(S, n) < Rank(S, m)
  <2> DEFINE A == {k \in S : k >= m}
             B == {k \in S : k >= n}
  <2>1. B \in SUBSET A /\ m \in A /\ m \notin B
    <3>1. m \in Nat /\ n \in Nat /\ \A k \in S : k \in Nat
      OBVIOUS
    <3>2. \A k \in S : k >= n => k >= m
      BY <1>3, <3>1
    <3>3. m >= m /\ ~(m >= n)
      BY <1>3, <3>1
    <3> QED BY <3>2, <3>3
  <2>2. IsFiniteSet(A) /\ Cardinality(A) \in Nat /\ Cardinality(B) \in Nat
    BY <1>1 DEF Rank
  <2> HIDE DEF A, B
  <2>3. Cardinality(B) <= Cardinality(A) /\ (Cardinality(A) = Cardinality(B) => A = B)
    BY <2>1, <2>2, FS_Subset
  <2>4. Cardinality(B) < Cardinality(A)
    BY <2>1, <2>2, <2>3
  <2> QED BY <2>4 DEF Rank, A, B
<1>4. ASSUME NEW m \in S PROVE Rank(S, m) \in 1 .. Cardinality(S)
  <2>1. Rank(S, m) \in Nat /\ Rank(S, m) <= Cardinality(S) /\ Rank(S, m) # 0
    BY <1>1
  <2> QED BY <1>2, <2>1
<1> QED BY <1>2, <1>3, <1>4

\* Every place is taken: the ranks are an injection into as many places.
LEMMA RankedAll ==
  ASSUME NEW S \in SUBSET Nat, IsFiniteSet(S), NEW i \in 1 .. Cardinality(S)
  PROVE  \E m \in S : Rank(S, m) = i
<1> DEFINE P == 1 .. Cardinality(S)
           f == [m \in S |-> Rank(S, m)]
<1>1. /\ Cardinality(S) \in Nat
      /\ \A m \in S : Rank(S, m) \in P
      /\ \A m, n \in S : m < n => Rank(S, n) < Rank(S, m)
  BY RankedOnce
<1>2. f \in Injection(S, P)
  <2>1. f \in [S -> P]
    BY <1>1
  <2>2. ASSUME NEW m \in S, NEW n \in S, f[m] = f[n] PROVE m = n
    <3>1. ~(m < n) /\ ~(n < m)
      BY <1>1, <2>2
    <3> QED BY <3>1
  <2> QED BY <2>1, <2>2 DEF Injection, IsInjective
<1>3. IsFiniteSet(P) /\ Cardinality(P) = Cardinality(S)
  BY <1>1, FS_Interval
<1>4. f \in Surjection(S, P)
  <2> HIDE DEF f, P
  <2> QED BY <1>2, <1>3, FS_Injection
<1>5. \E m \in S : f[m] = i
  BY <1>4 DEF Surjection
<1>6. \A m \in S : f[m] = Rank(S, m)
  OBVIOUS
<1> HIDE DEF f
<1> QED BY <1>5, <1>6

MailSet(S) == S \subseteq Message /\ Message \subseteq Nat \ {0} /\ IsFiniteSet(Message)

LEMMA MailSetIsFinite ==
  ASSUME NEW S, MailSet(S)
  PROVE  S \in SUBSET Nat /\ IsFiniteSet(S) /\ Cardinality(S) \in Nat
<1>1. S \in SUBSET Message /\ S \in SUBSET Nat
  BY DEF MailSet
<1>2. IsFiniteSet(S)
  BY <1>1, FS_Subset DEF MailSet
<1> QED BY <1>1, <1>2, FS_CardinalityType

\* Newest lists the messages of a set by rank.
LEMMA NewestByRank ==
  ASSUME NEW S, MailSet(S)
  PROVE  /\ Newest[S] \in Seq(S) /\ Len(Newest[S]) = Cardinality(S)
         /\ \A i \in 1 .. Cardinality(S) : Newest[S][i] \in S /\ Rank(S, Newest[S][i]) = i
         /\ \A m \in S : Newest[S][Rank(S, m)] = m
<1>1. S \in SUBSET Nat /\ IsFiniteSet(S) /\ Cardinality(S) \in Nat
  BY MailSetIsFinite
<1>2. Newest[S] =
        [i \in 1 .. Cardinality(S) |-> CHOOSE m \in S : Cardinality({k \in S : k >= m}) = i]
  BY DEF MailSet, Newest
<1>3. ASSUME NEW i \in 1 .. Cardinality(S)
      PROVE  Newest[S][i] \in S /\ Rank(S, Newest[S][i]) = i
  <2>1. Newest[S][i] = CHOOSE m \in S : Cardinality({k \in S : k >= m}) = i
    BY <1>2
  <2>2. \E m \in S : Rank(S, m) = i
    BY <1>1, RankedAll
  <2>3. \A m : Cardinality({k \in S : k >= m}) = Rank(S, m)
    BY DEF Rank
  <2> QED BY <2>1, <2>2, <2>3
<1>4. Newest[S] \in Seq(S) /\ Len(Newest[S]) = Cardinality(S)
  <2>1. Newest[S] \in [1 .. Cardinality(S) -> S]
    BY <1>2, <1>3
  <2> QED BY <1>1, <2>1, LenProperties, SeqDef
<1>5. ASSUME NEW m \in S PROVE Newest[S][Rank(S, m)] = m
  <2> DEFINE n == Newest[S][Rank(S, m)]
  <2>1. Rank(S, m) \in 1 .. Cardinality(S)
    BY <1>1, RankedOnce
  <2>2. n \in S /\ Rank(S, n) = Rank(S, m)
    BY <1>3, <2>1
  <2> HIDE DEF n
  <2>3. (m < n => Rank(S, n) < Rank(S, m)) /\ (n < m => Rank(S, m) < Rank(S, n))
    BY <1>1, <2>2, RankedOnce
  <2>4. m = n
    BY <1>1, <2>1, <2>2, <2>3
  <2> QED BY <2>4 DEF n
<1> QED BY <1>3, <1>4, <1>5

\* T leaves out none of the w newest messages of S.
Covers(T, S, w) == T \subseteq S /\ \A m \in S : Rank(S, m) <= w => m \in T

\* Then its w newest are those of S.
LEMMA SameNewest ==
  ASSUME NEW S, NEW T, MailSet(S), NEW w \in Nat \ {0}, Covers(T, S, w)
  PROVE  /\ Upto(Newest[T], w) = Upto(Newest[S], w)
         /\ Upto(Newest[S], w) \in 0 .. Cardinality(S)
         /\ \A i \in 1 .. Upto(Newest[S], w) :
              Newest[T][i] = Newest[S][i] /\ Newest[S][i] \in S
<1>1. /\ MailSet(T)
      /\ S \in SUBSET Nat /\ IsFiniteSet(S) /\ Cardinality(S) \in Nat
      /\ T \in SUBSET Nat /\ IsFiniteSet(T) /\ Cardinality(T) \in Nat
  <2>1. MailSet(T)
    BY DEF MailSet, Covers
  <2> QED BY <2>1, MailSetIsFinite
<1>2. ASSUME NEW m \in S, Rank(S, m) <= w PROVE m \in T /\ Rank(T, m) = Rank(S, m)
  <2>1. ASSUME NEW k \in S, k >= m PROVE k \in T
    <3>1. k = m \/ m < k
      BY <1>1, <2>1
    <3>2. Rank(S, k) \in Nat /\ Rank(S, m) \in Nat /\ (m < k => Rank(S, k) < Rank(S, m))
      BY <1>1, RankedOnce
    <3>3. Rank(S, k) <= w
      BY <1>2, <3>1, <3>2
    <3> QED BY <3>3 DEF Covers
  <2>2. {k \in T : k >= m} = {k \in S : k >= m}
    BY <2>1 DEF Covers
  <2>3. m \in T
    BY <1>2 DEF Covers
  <2> QED BY <2>2, <2>3 DEF Rank
<1>3. ASSUME NEW i \in 1 .. Cardinality(S), i <= w
      PROVE  i <= Cardinality(T) /\ Newest[T][i] = Newest[S][i] /\ Newest[S][i] \in S
  <2> DEFINE m == Newest[S][i]
  <2>1. m \in S /\ Rank(S, m) = i
    BY NewestByRank
  <2> HIDE DEF m
  <2>2. m \in T /\ Rank(T, m) = i
    BY <1>2, <1>3, <2>1
  <2>3. Rank(T, m) \in 1 .. Cardinality(T) /\ Newest[T][Rank(T, m)] = m
    BY <1>1, <2>2, RankedOnce, NewestByRank
  <2> QED BY <2>1, <2>2, <2>3 DEF m
<1>4. Len(Newest[S]) = Cardinality(S) /\ Len(Newest[T]) = Cardinality(T)
  BY <1>1, NewestByRank
<1>5. Upto(Newest[T], w) = Upto(Newest[S], w)
  <2>1. Cardinality(T) <= Cardinality(S)
    BY <1>1, FS_Subset DEF Covers
  <2>2. CASE Cardinality(S) <= w
    <3>1. \A m \in S : Rank(S, m) \in 1 .. Cardinality(S)
      BY <1>1, RankedOnce
    <3>2. \A m \in S : Rank(S, m) <= w
      BY <1>1, <2>2, <3>1
    <3>3. S = T
      BY <3>2 DEF Covers
    <3> QED BY <3>3
  <2>3. CASE w < Cardinality(S)
    <3>1. w \in 1 .. Cardinality(S) /\ w <= w
      BY <1>1, <2>3
    <3>2. w <= Cardinality(T)
      BY <1>3, <3>1
    <3> QED BY <1>1, <1>4, <2>3, <3>2 DEF Upto
  <2> QED BY <1>1, <2>2, <2>3
<1>6. Upto(Newest[S], w) \in 0 .. Cardinality(S) /\ Upto(Newest[S], w) <= w
  BY <1>1, <1>4 DEF Upto
<1>7. ASSUME NEW i \in 1 .. Upto(Newest[S], w)
      PROVE  Newest[T][i] = Newest[S][i] /\ Newest[S][i] \in S
  <2>1. i \in 1 .. Cardinality(S) /\ i <= w
    BY <1>1, <1>6
  <2> QED BY <1>3, <2>1
<1> QED BY <1>5, <1>6, <1>7

\* What a slice holds when its end n is in the list.
EndsAt(n, s, offset, limit, S) ==
  /\ n \in Nat /\ offset \in Nat /\ limit \in Nat
  /\ n = Upto(s, offset + limit) /\ \A i \in 1 .. n : s[i] \in S
LEMMA Sliced ==
  ASSUME NEW S, NEW s, NEW offset, NEW limit, NEW n, EndsAt(n, s, offset, limit, S)
  PROVE  /\ Slice(s, offset, limit) \in Seq(S)
         /\ Len(Slice(s, offset, limit)) = IF offset + 1 <= n THEN n - offset ELSE 0
         /\ \A i \in 1 .. n - offset : Slice(s, offset, limit)[i] = s[offset + i]
<1>1. n \in Nat /\ offset \in Nat /\ \A i \in offset + 1 .. n : s[i] \in S
  BY DEF EndsAt
<1>2. Slice(s, offset, limit) = SubSeq(s, offset + 1, n)
  BY DEF Slice, EndsAt
<1>3. offset + 1 \in Int /\ n \in Int
  BY <1>1
<1>4. /\ SubSeq(s, offset + 1, n) \in Seq(S)
      /\ Len(SubSeq(s, offset + 1, n)) = IF offset + 1 <= n THEN n - (offset + 1) + 1 ELSE 0
      /\ \A i \in 1 .. n - (offset + 1) + 1 : SubSeq(s, offset + 1, n)[i] = s[(offset + 1) + i - 1]
  BY <1>1, <1>3, SubSeqProperties
<1>5. n - (offset + 1) + 1 = n - offset /\ \A i \in 1 .. n - offset : (offset + 1) + i - 1 = offset + i
  BY <1>1
<1> QED BY <1>2, <1>4, <1>5

\* The first n messages of an account, by the rank they have among its own.
LEMMA NewestsByRank ==
  ASSUME MailSet(Listed), NEW a, NEW n \in Nat
  PROVE  LET own == {m \in Listed : Owner[m] = a}
         IN  Newests(a, n) = {m \in own : Rank(own, m) <= n}
<1> DEFINE own == {m \in Listed : Owner[m] = a}
           s == Newest[own]
           slice == Slice(s, 0, n)
           u == Upto(s, n)
<1>1. MailSet(own)
  BY DEF MailSet
<1>2. Newests(a, n) = {slice[i] : i \in DOMAIN slice}
  BY DEF Newests
<1> HIDE DEF own
<1>3. /\ own \in SUBSET Nat /\ IsFiniteSet(own) /\ Cardinality(own) \in Nat
      /\ Len(s) = Cardinality(own)
      /\ \A i \in 1 .. Cardinality(own) : s[i] \in own /\ Rank(own, s[i]) = i
      /\ \A m \in own : s[Rank(own, m)] = m /\ Rank(own, m) \in 1 .. Cardinality(own)
  BY <1>1, MailSetIsFinite, NewestByRank, RankedOnce
<1>4. u \in Nat /\ u <= n /\ u <= Cardinality(own) /\ (u = n \/ u = Cardinality(own))
  BY <1>3 DEF Upto
<1>5. EndsAt(u, s, 0, n, own)
  BY <1>3, <1>4 DEF EndsAt
<1> HIDE DEF u, s
<1>6. /\ slice \in Seq(own) /\ Len(slice) = IF 0 + 1 <= u THEN u - 0 ELSE 0
      /\ \A i \in 1 .. u - 0 : slice[i] = s[0 + i]
  BY <1>5, Sliced
<1> HIDE DEF slice
<1>7. DOMAIN slice = 1 .. u /\ \A i \in 1 .. u : slice[i] = s[i]
  <2>1. Len(slice) = u /\ \A i \in 1 .. u : slice[i] = s[i]
    BY <1>4, <1>6
  <2> QED BY <1>6, <2>1, LenProperties
<1>8. ASSUME NEW i \in 1 .. u PROVE s[i] \in own /\ Rank(own, s[i]) <= n
  BY <1>3, <1>4
<1>9. ASSUME NEW m \in own, Rank(own, m) <= n PROVE Rank(own, m) \in 1 .. u /\ s[Rank(own, m)] = m
  BY <1>3, <1>4, <1>9
<1>10. Newests(a, n) = {s[i] : i \in 1 .. u}
  BY <1>2, <1>7
<1>11. {s[i] : i \in 1 .. u} = {m \in own : Rank(own, m) <= n}
  BY <1>8, <1>9
<1> QED BY <1>10, <1>11 DEF own

\* The merged windows of the accounts leave out none of the newest messages of all.
LEMMA WindowsSuffice ==
  ASSUME MailSet(Listed), NEW n \in Nat
  PROVE  LET merged == UNION {Newests(a, n) : a \in Account}
         IN  Covers(merged, Listed, n)
<1> DEFINE S == Listed
           own(a) == {m \in S : Owner[m] = a}
           merged == UNION {Newests(a, n) : a \in Account}
<1>1. \A a : Newests(a, n) = {m \in own(a) : Rank(own(a), m) <= n}
  BY NewestsByRank
<1> HIDE DEF S
<1>2. S \in SUBSET Nat /\ IsFiniteSet(S) /\ Cardinality(S) \in Nat /\ S \subseteq Message
  BY MailSetIsFinite DEF S, MailSet
<1>3. merged \subseteq S
  <2>1. ASSUME NEW a \in Account PROVE Newests(a, n) \subseteq S
    BY <1>1
  <2> QED BY <2>1
<1>4. ASSUME NEW m \in S, Rank(S, m) <= n PROVE m \in merged
  <2> DEFINE a == Owner[m]
             A == {k \in own(a) : k >= m}
             B == {k \in S : k >= m}
  <2>1. a \in Account /\ m \in own(a)
    BY <1>2, ConstantsAssumption
  <2>2. A \in SUBSET B /\ B \in SUBSET S
    OBVIOUS
  <2> HIDE DEF A, B
  <2>3. IsFiniteSet(B) /\ Cardinality(B) \in Nat
    BY <1>2, <2>2, FS_Subset, FS_CardinalityType
  <2>4. Cardinality(A) <= Cardinality(B) /\ Cardinality(A) \in Nat
    BY <2>2, <2>3, FS_Subset, FS_CardinalityType
  <2>5. Rank(own(a), m) <= n
    <3>1. Rank(own(a), m) = Cardinality(A) /\ Rank(S, m) = Cardinality(B)
      BY DEF Rank, A, B
    <3> HIDE DEF own
    <3> QED BY <1>4, <2>3, <2>4, <3>1
  <2>6. m \in Newests(a, n)
    BY <1>1, <2>1, <2>5
  <2> QED BY <2>1, <2>6
<1> QED BY <1>3, <1>4 DEF S, Covers

\* Whatever the rows are, a page of all accounts is the page of their rows.
LEMMA PageInOrder ==
  ASSUME MailSet(Listed), NEW offset \in Nat
  PROVE  LET page == InboxPage(offset)
         IN  [i \in DOMAIN page |-> page[i].msg] =
               Slice(Newest[Listed], offset, PageSize)
<1> DEFINE S == Listed
           w == offset + PageSize
           T == UNION {Newests(a, w) : a \in Account}
           p == Slice(Newest[T], offset, PageSize)
           q == Slice(Newest[S], offset, PageSize)
           n == Upto(Newest[S], w)
<1>1. w \in Nat \ {0} /\ w \in Nat /\ PageSize \in Nat
  BY ConstantsAssumption
<1>2. Window(offset) = w
  BY DEF Window
<1>3. InboxPage(offset) = [i \in DOMAIN p |-> Entry(p[i], rowFlags[p[i]])]
  BY <1>2 DEF InboxPage
<1>4. Covers(T, S, w)
  BY <1>1, WindowsSuffice
<1> HIDE DEF S, T
<1>5. MailSet(S)
  BY DEF S
<1>6. /\ Upto(Newest[T], w) = n /\ n \in 0 .. Cardinality(S)
      /\ \A i \in 1 .. n : Newest[T][i] = Newest[S][i] /\ Newest[S][i] \in S
  <2> HIDE DEF w
  <2> QED BY <1>1, <1>4, <1>5, SameNewest DEF n
<1>7. n \in Nat /\ PageSize \in Nat
  BY <1>1, <1>5, <1>6, MailSetIsFinite
<1>8. n = Upto(Newest[T], offset + PageSize) /\ n = Upto(Newest[S], offset + PageSize)
  BY <1>6
<1> HIDE DEF n
<1>9. /\ p \in Seq(S) /\ Len(p) = IF offset + 1 <= n THEN n - offset ELSE 0
      /\ \A i \in 1 .. n - offset : p[i] = Newest[T][offset + i]
  <2>1. EndsAt(n, Newest[T], offset, PageSize, S)
    BY <1>6, <1>7, <1>8 DEF EndsAt
  <2> QED BY <1>7, <1>8, <2>1, Sliced
<1>10. /\ q \in Seq(S) /\ Len(q) = IF offset + 1 <= n THEN n - offset ELSE 0
       /\ \A i \in 1 .. n - offset : q[i] = Newest[S][offset + i]
  <2>1. EndsAt(n, Newest[S], offset, PageSize, S)
    BY <1>6, <1>7, <1>8 DEF EndsAt
  <2> QED BY <1>7, <1>8, <2>1, Sliced
<1> HIDE DEF p, q
<1>11. p = q
  <2>1. ASSUME NEW i \in 1 .. Len(p) PROVE p[i] = q[i]
    <3>1. i \in 1 .. n - offset /\ offset + i \in 1 .. n
      BY <1>7, <1>9
    <3> QED BY <1>6, <1>9, <1>10, <3>1
  <2> QED BY <1>9, <1>10, <2>1, SeqEqual
<1>12. DOMAIN InboxPage(offset) = DOMAIN p /\ \A i \in DOMAIN p : InboxPage(offset)[i].msg = p[i]
  BY <1>3 DEF Entry
<1>13. p = [i \in DOMAIN p |-> p[i]]
  BY <1>9, LenProperties
<1> QED BY <1>11, <1>12, <1>13 DEF q, S

\* Rows, the inboxes and what a sync has read of one hold messages only.
JobShaped(j) == j = Job(j.pc, j.account, j.by, j.known, j.box, j.flags)
MailInv == rows \subseteq Message /\ box \subseteq Message /\ JobShaped(sync) /\ sync.box \subseteq Message

LEMMA JobMade ==
  ASSUME NEW p, NEW a, NEW by, NEW k, NEW b, NEW fs
  PROVE  JobShaped(Job(p, a, by, k, b, fs)) /\ Job(p, a, by, k, b, fs).box = b
BY DEF JobShaped, Job

LEMMA MailFirst ==
  ASSUME MailInit
  PROVE  MailInv
<1>1. box = First /\ rows = First /\ sync = NoSync
  BY DEF MailInit
<1>2. JobShaped(NoSync) /\ NoSync.box = {}
  BY JobMade DEF NoSync
<1> QED BY <1>1, <1>2, ConstantsAssumption DEF MailInv

LEMMA MailStep ==
  ASSUME MailInv, [MailNext]_mailVars
  PROVE  MailInv'
<1>1. CASE UNCHANGED <<rows, box, sync>>
  BY <1>1 DEF MailInv, JobShaped
<1>2. CASE User \/ Screen
  <2>1. UNCHANGED <<rows, box, sync>>
    BY <1>2 DEF User, Screen, Scroll, MarkAllRead, Open, Move, Toggle,
       FetchPage, FetchFails, ReaderLoads, ReaderFails, server, database
  <2> QED BY <1>1, <2>1
<1>3. ASSUME NEW r \in Request, Handler(r) PROVE MailInv'
  <2>1. CASE Saves(r)
    <3>1. rows' \subseteq rows /\ UNCHANGED <<box, sync>>
      BY <2>1 DEF Saves, server
    <3> QED BY <3>1 DEF MailInv, JobShaped
  <2>2. CASE Commands(r) \/ CommandFails(r)
    <3>1. box' \subseteq box /\ UNCHANGED <<rows, sync>>
      BY <2>2 DEF Commands, CommandFails, Applied, Settles, server, database
    <3> QED BY <3>1 DEF MailInv, JobShaped
  <2>3. CASE Finds(r) \/ FindsNothing(r) \/ Refused(r) \/ Answers(r) \/ AnswerLost(r)
    <3>1. UNCHANGED <<rows, box, sync>>
      BY <2>3 DEF Finds, FindsNothing, Refused, Answers, AnswerLost,
         Settles, server, database
    <3> QED BY <1>1, <3>1
  <2> QED BY <1>3, <2>1, <2>2, <2>3 DEF Handler
<1>4. CASE SyncReads
  <2>1. UNCHANGED <<rows, box>> /\ \E fs :
          sync' = Job("read", sync.account, sync.by, sync.known, Of(sync.account, box), fs)
    BY <1>4 DEF SyncReads, server, database
  <2>2. JobShaped(sync') /\ sync'.box = Of(sync.account, box)
    BY <2>1, JobMade
  <2>3. Of(sync.account, box) \subseteq box
    BY DEF Of
  <2> QED BY <2>1, <2>2, <2>3 DEF MailInv, JobShaped
<1>5. CASE SyncCommits \/ SyncFails
  <2>1. rows' \subseteq rows \cup sync.box /\ UNCHANGED box /\ sync' = NoSync
    BY <1>5 DEF SyncCommits, SyncFails, server, database
  <2>2. JobShaped(sync') /\ sync'.box = {}
    BY <2>1, JobMade DEF NoSync
  <2> QED BY <2>1, <2>2 DEF MailInv, JobShaped
<1>6. ASSUME NEW a \in Account, Syncing(a) PROVE MailInv'
  <2>1. CASE Tick(a) \/ BackgroundSync(a)
    <3>1. UNCHANGED <<rows, box>> /\ \E by :
            sync' = Job("begun", a, by, Of(a, rows), {}, Unflagged)
      BY <2>1 DEF Tick, BackgroundSync, Begins, server, database
    <3>2. JobShaped(sync') /\ sync'.box = {}
      BY <3>1, JobMade
    <3> QED BY <3>1, <3>2 DEF MailInv, JobShaped
  <2>2. CASE Joins(a)
    <3>1. UNCHANGED <<rows, box>> /\ sync' = [sync EXCEPT !.by = "window"]
      BY <2>2 DEF Joins, server, database
    <3>2. sync' = Job(sync.pc, sync.account, "window", sync.known, sync.box, sync.flags)
      BY <3>1 DEF MailInv, JobShaped, Job
    <3>3. JobShaped(sync') /\ sync'.box = sync.box
      BY <3>2, JobMade
    <3> QED BY <3>1, <3>3 DEF MailInv, JobShaped
  <2>3. CASE EventLost(a) \/ ReplyLost(a)
    <3>1. UNCHANGED <<rows, box, sync>>
      BY <2>3 DEF EventLost, ReplyLost, server, database
    <3> QED BY <1>1, <3>1
  <2> QED BY <1>6, <2>1, <2>2, <2>3 DEF Syncing
<1>7. ASSUME NEW n \in notices, Delivered(n) PROVE MailInv'
  <2>1. UNCHANGED <<rows, box, sync>>
    BY <1>7 DEF Delivered, server, database
  <2> QED BY <1>1, <2>1
<1>8. ASSUME NEW m \in Message, Elsewhere(m) PROVE MailInv'
  <2>1. box' \subseteq box \cup {m} /\ UNCHANGED <<rows, sync>>
    BY <1>8 DEF Elsewhere, Arrives, RemovedElsewhere, FlagsElsewhere, database
  <2> QED BY <2>1 DEF MailInv, JobShaped
<1>9. CASE UNCHANGED mailVars
  BY <1>1, <1>9 DEF mailVars
<1> QED BY <1>2, <1>3, <1>4, <1>5, <1>6, <1>7, <1>8, <1>9 DEF MailNext

\* For any accounts, messages, rows and page size: every page of the list of all accounts is
\* that page of their rows in order of date, although each account answers with its newest
\* rows only (PrismaMailRepository.listInbox).
THEOREM PagesAreInOrder == MailSpec => []PagesInOrder
<1>1. MailInit => MailInv
  BY MailFirst
<1>2. MailInv /\ [MailNext]_mailVars => MailInv'
  BY MailStep
<1>3. MailInv => PagesInOrder
  <2> SUFFICES ASSUME MailInv, NEW offset \in 0 .. Cardinality(Message)
               PROVE  LET page == InboxPage(offset)
                      IN  [i \in DOMAIN page |-> page[i].msg] =
                            Slice(Newest[Listed], offset, PageSize)
    BY DEF PagesInOrder
  <2>1. MailSet(Listed)
    BY ConstantsAssumption DEF MailInv, MailSet, Listed
  <2>2. offset \in Nat
    BY ConstantsAssumption, FS_CardinalityType
  <2> QED BY <2>1, <2>2, PageInOrder
<1> QED BY <1>1, <1>2, <1>3, PTL DEF MailSpec
=============================================================================
