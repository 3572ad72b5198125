--------------------------- MODULE SyncQueueProofs ---------------------------
(***************************************************************************)
(* For any number of folders, slots, attempts and failures: whoever waits  *)
(* for a sync waits for a job that is in the queue; a job never fails more *)
(* often than it may, the worker never has more jobs than slots, and the   *)
(* account lock belongs to the sync that runs under it.                    *)
(***************************************************************************)
EXTENDS SyncQueue, FiniteSetTheorems, TLAPS

Rows == [state : State, failed : Int, stalled : BOOLEAN]
Typed ==
  /\ job \in [Job -> Rows]
  /\ call \in [Asked -> {"idle", "joining", "waiting"}]
IInv == Typed /\ WaitersHaveAJob

\* Rows are rows, and only the absent one is absent.
LEMMA RowTyped ==
  ASSUME NEW s \in State, NEW n \in Int, NEW b \in BOOLEAN
  PROVE  Row(s, n, b) \in Rows /\ Row(s, n, b).state = s
  BY DEF Row, Rows

\* queue.add keeps what is there and adds rows that wait.
LEMMA AddedKeeps ==
  ASSUME NEW jobs \in [Job -> Rows], NEW ids
  PROVE  /\ Added(jobs, ids) \in [Job -> Rows]
         /\ \A j \in Job : jobs[j].state # "none" => Added(jobs, ids)[j].state # "none"
<1>1. Waiting \in Rows /\ Waiting.state = "waiting"
  BY DEF Waiting, Row, Rows, State
<1> QED BY <1>1 DEF Added

\* A step that keeps the calls and removes no job that anybody waits for.
LEMMA NothingRemoved ==
  ASSUME IInv, UNCHANGED call, job' \in [Job -> Rows],
         \A f \in Asked : job[Sync(f)].state # "none" => job'[Sync(f)].state # "none"
  PROVE  IInv'
  BY DEF IInv, Typed, WaitersHaveAJob, Is

\* One job changes to a row that is there.
LEMMA OneRow ==
  ASSUME IInv, NEW j \in Job, NEW s \in State \ {"none"}, NEW n \in Int, NEW b \in BOOLEAN,
         Set(j, Row(s, n, b)), UNCHANGED call
  PROVE  IInv'
<1>1. Row(s, n, b) \in Rows /\ Row(s, n, b).state = s
  BY RowTyped
<1>2. job' \in [Job -> Rows]
  BY <1>1 DEF Set, IInv, Typed
<1>3. \A f \in Asked : job[Sync(f)].state # "none" => job'[Sync(f)].state # "none"
  BY <1>1, ConstantsAssumption DEF Set, IInv, Typed, Sync, Job
<1> QED BY <1>2, <1>3, NothingRemoved

LEMMA SyncIsJob == \A f \in Folder : Sync(f) \in Job /\ Walk(f) \in Job
  BY DEF Sync, Walk, Job
LEMMA FieldTypes ==
  ASSUME IInv, NEW j \in Job
  PROVE  job[j].failed \in Int /\ job[j].stalled \in BOOLEAN /\ job[j].state \in State
  BY DEF IInv, Typed, Rows

\* One job is removed, and those who wait for it are answered.
LEMMA OneRemoved ==
  ASSUME IInv, NEW j \in Job, NEW jobs \in [Job -> Rows], Answered(j),
         \A i \in Job \ {j} : jobs[i].state = job[i].state,
         job' \in [Job -> Rows],
         \A i \in Job : jobs[i].state # "none" => job'[i].state # "none"
  PROVE  IInv'
<1>1. call' \in [Asked -> {"idle", "joining", "waiting"}]
  BY DEF IInv, Typed, Answered
<1>2. ASSUME NEW f \in Asked, call'[f] = "waiting"
      PROVE  job'[Sync(f)].state # "none"
  <2>1. call[f] = "waiting" /\ j # Sync(f)
    BY <1>2 DEF Answered, IInv, Typed
  <2>2. Sync(f) \in Job
    BY ConstantsAssumption, SyncIsJob
  <2>3. job[Sync(f)].state # "none"
    BY <2>1 DEF IInv, WaitersHaveAJob, Is
  <2> QED BY <2>1, <2>2, <2>3
<1> QED BY <1>1, <1>2 DEF IInv, Typed, WaitersHaveAJob, Is

LEMMA AbsentTyped == Absent \in Rows
  BY DEF Absent, Row, Rows, State

LEMMA RemovedAlone ==
  ASSUME IInv, NEW j \in Job, Set(j, Absent), Answered(j)
  PROVE  IInv'
<1>1. job' \in [Job -> Rows]
  BY AbsentTyped DEF Set, IInv, Typed
<1>2. \A i \in Job \ {j} : job'[i].state = job[i].state
  BY DEF Set, IInv, Typed
<1> QED BY <1>1, <1>2, OneRemoved

LEMMA FailKeeps ==
  ASSUME IInv, NEW j \in Job, AttemptFails(j)
  PROVE  IInv'
<1>1. CASE job[j].failed + 1 < Attempts
  <2>1. Set(j, Row("delayed", job[j].failed + 1, job[j].stalled)) /\ UNCHANGED call
    BY <1>1 DEF AttemptFails
  <2>2. job[j].failed + 1 \in Int
    BY FieldTypes
  <2> QED BY <2>1, <2>2, FieldTypes, OneRow DEF State
<1>2. CASE ~(job[j].failed + 1 < Attempts)
  <2>1. Set(j, Absent) /\ Answered(j)
    BY <1>2 DEF AttemptFails, GiveUp
  <2> QED BY <2>1, RemovedAlone
<1> QED BY <1>1, <1>2

\* The ids of a tick, or of a request, are added.
LEMMA AddKeeps ==
  ASSUME IInv, NEW ids, job' = Added(job, ids), UNCHANGED call
  PROVE  IInv'
<1>1. job \in [Job -> Rows]
  BY DEF IInv, Typed
<1>2. /\ Added(job, ids) \in [Job -> Rows]
      /\ \A j \in Job : job[j].state # "none" => Added(job, ids)[j].state # "none"
  BY <1>1, AddedKeeps
<1> QED BY <1>2, SyncIsJob, ConstantsAssumption, NothingRemoved

\* The requests of the windows.
LEMMA CallsKeep ==
  ASSUME IInv, NEW f \in Folder, Ask(f) \/ Join(f) \/ WaitEnds(f)
  PROVE  IInv'
<1>0. \A g \in Asked : Sync(g) \in Job
  BY SyncIsJob, ConstantsAssumption
<1>1. CASE Ask(f)
  <2>1. job \in [Job -> Rows]
    BY DEF IInv, Typed
  <2>2. /\ job' \in [Job -> Rows]
        /\ \A j \in Job : job[j].state # "none" => job'[j].state # "none"
    BY <1>1, <2>1, AddedKeeps DEF Ask
  <2>3. /\ call' \in [Asked -> {"idle", "joining", "waiting"}]
        /\ \A g \in Asked : call'[g] = "waiting" => call[g] = "waiting"
    BY <1>1 DEF Ask, IInv, Typed
  <2> QED BY <1>0, <2>2, <2>3 DEF IInv, Typed, WaitersHaveAJob, Is
<1>2. CASE Join(f)
  BY <1>2 DEF Join, IInv, Typed, WaitersHaveAJob, Is
<1>3. CASE WaitEnds(f)
  BY <1>3 DEF WaitEnds, IInv, Typed, WaitersHaveAJob, Is
<1> QED BY <1>1, <1>2, <1>3

\* A sync that succeeds: its job goes, the walk may come.
LEMMA SyncedKeeps ==
  ASSUME IInv, NEW f \in Folder, Synced(f)
  PROVE  IInv'
<1> DEFINE gone == [job EXCEPT ![Sync(f)] = Absent]
<1>1. Sync(f) \in Job
  BY SyncIsJob
<1>2. gone \in [Job -> Rows] /\ \A i \in Job \ {Sync(f)} : gone[i].state = job[i].state
  BY AbsentTyped DEF IInv, Typed
<1>3. PICK ids : job' = Added(gone, ids)
  BY DEF Synced
<1>4. Answered(Sync(f))
  BY DEF Synced
<1> HIDE DEF gone
<1>5. /\ Added(gone, ids) \in [Job -> Rows]
      /\ \A i \in Job : gone[i].state # "none" => Added(gone, ids)[i].state # "none"
  BY <1>2, AddedKeeps
<1> QED BY <1>1, <1>2, <1>3, <1>4, <1>5, OneRemoved

\* The rest of the worker.
LEMMA WorkKeeps ==
  ASSUME IInv, NEW f \in Folder,
         TakeLock(f) \/ LockTimeout(f) \/ SyncFails(f) \/ WalkCompletes(f) \/ WalkFails(f)
  PROVE  IInv'
<1>0. Sync(f) \in Job /\ Walk(f) \in Job
  BY SyncIsJob
<1>1. CASE TakeLock(f)
  BY <1>0, <1>1, FieldTypes, OneRow DEF TakeLock, To, State
<1>2. CASE LockTimeout(f)
  BY <1>0, <1>2, FailKeeps DEF LockTimeout
<1>3. CASE SyncFails(f)
  BY <1>0, <1>3, FailKeeps DEF SyncFails
<1>4. CASE WalkCompletes(f)
  <2>1. job' \in [Job -> Rows]
    BY <1>4, AbsentTyped DEF WalkCompletes, Set, IInv, Typed
  <2>2. \A g \in Asked : Sync(g) \in Job /\ Sync(g) # Walk(f)
    BY ConstantsAssumption, SyncIsJob DEF Sync, Walk
  <2>3. \A g \in Asked : job'[Sync(g)] = job[Sync(g)]
    BY <1>4, <2>2 DEF WalkCompletes, Set, IInv, Typed
  <2> QED BY <1>4, <2>1, <2>3, NothingRemoved DEF WalkCompletes
<1>5. CASE WalkFails(f)
  BY <1>0, <1>5, FailKeeps DEF WalkFails
<1> QED BY <1>1, <1>2, <1>3, <1>4, <1>5

\* Starts, delays and stalled jobs.
LEMMA JobsKeep ==
  ASSUME IInv, NEW j \in Job, Start(j) \/ DelayEnds(j) \/ Stalled(j)
  PROVE  IInv'
<1>1. CASE Start(j)
  BY <1>1, FieldTypes, OneRow DEF Start, To, State
<1>2. CASE DelayEnds(j)
  BY <1>2, FieldTypes, OneRow DEF DelayEnds, To, State
<1>3. CASE Stalled(j)
  <2>1. CASE GiveUp(j)
    BY <2>1, RemovedAlone DEF GiveUp
  <2>2. CASE Set(j, Row("waiting", job[j].failed, TRUE)) /\ UNCHANGED call
    BY <2>2, FieldTypes, OneRow DEF State
  <2> QED BY <1>3, <2>1, <2>2 DEF Stalled
<1> QED BY <1>1, <1>2, <1>3

LEMMA CrashKeeps ==
  ASSUME IInv, Crash
  PROVE  IInv'
<1>1. job' = [j \in Job |-> IF j \in Working THEN Row("stalled", job[j].failed, job[j].stalled) ELSE job[j]]
      /\ UNCHANGED call
  BY DEF Crash
<1>2. \A j \in Job : Row("stalled", job[j].failed, job[j].stalled) \in Rows
                     /\ Row("stalled", job[j].failed, job[j].stalled).state = "stalled"
  BY FieldTypes, RowTyped DEF State
<1>3. job' \in [Job -> Rows]
  BY <1>1, <1>2 DEF IInv, Typed
<1>4. \A j \in Job : job[j].state # "none" => job'[j].state # "none"
  BY <1>1, <1>2
<1> QED BY <1>1, <1>3, <1>4, SyncIsJob, ConstantsAssumption, NothingRemoved

LEMMA StepKeeps ==
  ASSUME IInv, [Next]_vars
  PROVE  IInv'
<1>1. CASE TickInbox \/ TickFolders
  BY <1>1, AddKeeps DEF TickInbox, TickFolders
<1>2. CASE BackoffEnds \/ LeaseEnds \/ UNCHANGED vars
  BY <1>2 DEF BackoffEnds, LeaseEnds, vars, IInv, Typed, WaitersHaveAJob, Is
<1>3. CASE Crash
  BY <1>3, CrashKeeps
<1>4. CASE \E f \in Folder : Ask(f) \/ Join(f) \/ WaitEnds(f)
  BY <1>4, CallsKeep
<1>5. CASE \E f \in Folder : Synced(f)
  BY <1>5, SyncedKeeps
<1>6. CASE \E f \in Folder : TakeLock(f) \/ LockTimeout(f) \/ SyncFails(f) \/ WalkCompletes(f) \/ WalkFails(f)
  BY <1>6, WorkKeeps
<1>7. CASE \E j \in Job : Start(j) \/ Recover(j)
  BY <1>7, JobsKeep DEF Recover
<1> QED BY <1>1, <1>2, <1>3, <1>4, <1>5, <1>6, <1>7 DEF Next

LEMMA InitKeeps == Init => IInv
  BY AbsentTyped, SyncIsJob, ConstantsAssumption DEF Init, IInv, Typed, WaitersHaveAJob

\* Nobody waits for a job that has gone: every completion, failure and removal of a
\* job in sync-queue.service.ts answers those who wait, and joining sees that it went.
THEOREM WaitersAreAnswered == Spec => []WaitersHaveAJob
<1>1. IInv => WaitersHaveAJob
  BY DEF IInv
<1> QED BY <1>1, InitKeeps, StepKeeps, PTL DEF Spec

-----------------------------------------------------------------------------
(* Attempts, slots and the lock *)

Jobs == [state : State, failed : 0..(Attempts - 1), stalled : BOOLEAN]
Busy == {"active", "locked"}
QueueInv == TypeOK /\ IsFiniteSet(Working)

LEMMA JobRow ==
  ASSUME NEW s \in State, NEW n \in 0..(Attempts - 1), NEW b \in BOOLEAN
  PROVE  Row(s, n, b) \in Jobs /\ Row(s, n, b).state = s
  BY DEF Row, Jobs

LEMMA NewRows == /\ Absent \in Jobs /\ Absent.state = "none"
                 /\ Waiting \in Jobs /\ Waiting.state = "waiting"
<1>1. 0 \in 0..(Attempts - 1)
  BY ConstantsAssumption
<1> QED BY <1>1, JobRow DEF Absent, Waiting, State

LEMMA JobFields ==
  ASSUME QueueInv, NEW j \in Job
  PROVE  /\ job[j] \in Jobs /\ job[j].state \in State
         /\ job[j].failed \in 0..(Attempts - 1) /\ job[j].stalled \in BOOLEAN
  BY DEF QueueInv, TypeOK, Jobs

\* One job becomes r.
LEMMA OneJob ==
  ASSUME QueueInv, NEW j \in Job, NEW r \in Jobs, Set(j, r)
  PROVE  job' \in [Job -> Jobs] /\ \A i \in Job : job'[i] = IF i = j THEN r ELSE job[i]
  BY DEF QueueInv, TypeOK, Jobs, Set

\* queue.add changes nothing but ids that are not there, which wait.
LEMMA AddedJobs ==
  ASSUME NEW jobs \in [Job -> Jobs], NEW ids
  PROVE  /\ Added(jobs, ids) \in [Job -> Jobs]
         /\ \A j \in Job : \/ Added(jobs, ids)[j] = jobs[j]
                           \/ jobs[j].state = "none" /\ Added(jobs, ids)[j].state = "waiting"
  BY NewRows DEF Added

LEMMA AnsweredType ==
  ASSUME QueueInv, NEW j, Answered(j) \/ UNCHANGED call
  PROVE  call' \in [Asked -> {"idle", "joining", "waiting"}]
  BY DEF QueueInv, TypeOK, Answered

LEMMA EventType == QueueInv /\ (Event \/ UNCHANGED events) => events' \in 0..MaxEvents
  BY ConstantsAssumption DEF QueueInv, TypeOK, Event

\* No job is taken: the slots suffice for what is left.
LEMMA SlotsSuffice ==
  ASSUME QueueInv, \A j \in Job : job'[j].state \in Busy => job[j].state \in Busy
  PROVE  IsFiniteSet(Working)' /\ (Cardinality(Working) <= Slots)'
<1> DEFINE S == Working
           T == {j \in Job : job'[j].state \in {"active", "locked"}}
<1>1. T \in SUBSET S
  BY DEF Busy, Working
<1>2. IsFiniteSet(S) /\ Cardinality(S) <= Slots
  BY DEF QueueInv, TypeOK
<1> HIDE DEF S, T
<1>3. IsFiniteSet(T) /\ Cardinality(T) <= Cardinality(S)
  BY <1>1, <1>2, FS_Subset
<1>4. Cardinality(S) \in Nat /\ Cardinality(T) \in Nat /\ Slots \in Nat
  BY <1>2, <1>3, FS_CardinalityType, ConstantsAssumption
<1>5. Cardinality(T) <= Slots
  BY <1>2, <1>3, <1>4
<1>6. Working' = T
  BY DEF T, Working
<1> QED BY <1>3, <1>5, <1>6

\* A step that takes no job, with what it does to the lock.
LEMMA QuietQueue ==
  ASSUME QueueInv, job' \in [Job -> Jobs],
         \A j \in Job : job'[j].state \in Busy => job[j].state \in Busy,
         lock' \in Folder \cup {Free, Orphan},
         \A f \in Folder : lock' = f <=> job'[Sync(f)].state = "locked",
         held' \in BOOLEAN, walked' \subseteq Folder, events' \in 0..MaxEvents,
         call' \in [Asked -> {"idle", "joining", "waiting"}]
  PROVE  QueueInv'
<1>1. IsFiniteSet(Working)' /\ (Cardinality(Working) <= Slots)'
  BY SlotsSuffice
<1> QED BY <1>1 DEF QueueInv, TypeOK, Jobs, Is

\* The lock stays where it is: the sync that has it goes on, and no other gets it.
LEMMA SameLock ==
  ASSUME QueueInv, UNCHANGED lock,
         \A f \in Folder : job'[Sync(f)].state = "locked" <=> job[Sync(f)].state = "locked"
  PROVE  /\ lock' \in Folder \cup {Free, Orphan}
         /\ \A f \in Folder : lock' = f <=> job'[Sync(f)].state = "locked"
  BY DEF QueueInv, TypeOK, Is

\* What AttemptFails and GiveUp make of a job.
LEMMA FailedJob ==
  ASSUME QueueInv, NEW j \in Job, AttemptFails(j) \/ GiveUp(j)
  PROVE  /\ job' \in [Job -> Jobs] /\ job'[j].state \in {"delayed", "none"}
         /\ \A i \in Job : i # j => job'[i] = job[i]
         /\ call' \in [Asked -> {"idle", "joining", "waiting"}]
<1>1. CASE GiveUp(j)
  BY <1>1, NewRows, OneJob, AnsweredType DEF GiveUp
<1>2. CASE ~GiveUp(j)
  <2>1. /\ job[j].failed + 1 < Attempts /\ UNCHANGED call
        /\ Set(j, Row("delayed", job[j].failed + 1, job[j].stalled))
    BY <1>2 DEF AttemptFails
  <2>2. job[j].failed + 1 \in 0..(Attempts - 1) /\ job[j].stalled \in BOOLEAN
    BY <2>1, JobFields, ConstantsAssumption
  <2>3. /\ Row("delayed", job[j].failed + 1, job[j].stalled) \in Jobs
        /\ Row("delayed", job[j].failed + 1, job[j].stalled).state = "delayed"
    BY <2>2, JobRow DEF State
  <2> QED BY <2>1, <2>3, OneJob, AnsweredType
<1> QED BY <1>1, <1>2

\* A job that does not have the lock fails.
LEMMA FailTyped ==
  ASSUME QueueInv, NEW j \in Job, AttemptFails(j) \/ GiveUp(j), job[j].state # "locked",
         UNCHANGED <<lock, held, walked>>, events' \in 0..MaxEvents
  PROVE  QueueInv'
<1>1. /\ job' \in [Job -> Jobs] /\ job'[j].state \in {"delayed", "none"}
      /\ \A i \in Job : i # j => job'[i] = job[i]
      /\ call' \in [Asked -> {"idle", "joining", "waiting"}]
  BY FailedJob
<1>2. \A f \in Folder : job'[Sync(f)].state = "locked" <=> job[Sync(f)].state = "locked"
  BY <1>1, SyncIsJob
<1>3. \A i \in Job : job'[i].state \in Busy => job[i].state \in Busy
  BY <1>1 DEF Busy
<1>4. held' \in BOOLEAN /\ walked' \subseteq Folder
  BY DEF QueueInv, TypeOK
<1> QED BY <1>1, <1>2, <1>3, <1>4, SameLock, QuietQueue

\* Jobs are added, and nothing is taken.
LEMMA AddTyped ==
  ASSUME QueueInv, NEW ids, job' = Added(job, ids), UNCHANGED <<lock, held, walked, events>>,
         call' \in [Asked -> {"idle", "joining", "waiting"}]
  PROVE  QueueInv'
<1>0. job \in [Job -> Jobs] /\ held' \in BOOLEAN /\ walked' \subseteq Folder /\ events' \in 0..MaxEvents
  BY DEF QueueInv, TypeOK, Jobs
<1>1. /\ job' \in [Job -> Jobs]
      /\ \A j \in Job : job'[j] = job[j] \/ (job[j].state = "none" /\ job'[j].state = "waiting")
  BY <1>0, AddedJobs
<1>2. \A f \in Folder : job'[Sync(f)].state = "locked" <=> job[Sync(f)].state = "locked"
  BY <1>1, SyncIsJob
<1>3. \A i \in Job : job'[i].state \in Busy => job[i].state \in Busy
  BY <1>1 DEF Busy
<1> QED BY <1>0, <1>1, <1>2, <1>3, SameLock, QuietQueue

\* A job goes on without the lock, or takes its own slot only.
LEMMA GoesOn ==
  ASSUME QueueInv, NEW j \in Job, NEW r \in Jobs, Set(j, r), r.state # "locked",
         job[j].state # "locked", r.state \in Busy => job[j].state \in Busy,
         UNCHANGED <<lock, held, events>>, walked' \subseteq Folder,
         call' \in [Asked -> {"idle", "joining", "waiting"}]
  PROVE  QueueInv'
<1>1. job' \in [Job -> Jobs] /\ \A i \in Job : job'[i] = IF i = j THEN r ELSE job[i]
  BY OneJob
<1>2. \A f \in Folder : job'[Sync(f)].state = "locked" <=> job[Sync(f)].state = "locked"
  BY <1>1, SyncIsJob
<1>3. \A i \in Job : job'[i].state \in Busy => job[i].state \in Busy
  BY <1>1
<1>4. held' \in BOOLEAN /\ events' \in 0..MaxEvents
  BY DEF QueueInv, TypeOK
<1> QED BY <1>1, <1>2, <1>3, <1>4, SameLock, QuietQueue

\* The only step that takes a slot looks for a free one.
LEMMA StartTyped ==
  ASSUME QueueInv, NEW j \in Job, Start(j)
  PROVE  QueueInv'
<1> DEFINE r == Row("active", job[j].failed, job[j].stalled)
           S == Working
<1>1. r \in Jobs /\ r.state = "active" /\ Set(j, r) /\ job[j].state = "waiting"
  BY JobFields, JobRow DEF Start, To, State, Is
<1> HIDE DEF r
<1>2. job' \in [Job -> Jobs] /\ \A i \in Job : job'[i] = IF i = j THEN r ELSE job[i]
  BY <1>1, OneJob
<1>3. Working' = S \cup {j}
  BY <1>1, <1>2 DEF Working
<1>4. IsFiniteSet(S) /\ Cardinality(S) < Slots
  BY DEF QueueInv, Start, FreeSlot
<1> HIDE DEF S
<1>5. IsFiniteSet(S \cup {j}) /\ Cardinality(S \cup {j}) <= Cardinality(S) + 1
  <2>1. Cardinality(S) \in Nat
    BY <1>4, FS_CardinalityType
  <2>2. /\ IsFiniteSet(S \cup {j})
        /\ Cardinality(S \cup {j}) = IF j \in S THEN Cardinality(S) ELSE Cardinality(S) + 1
    BY <1>4, FS_AddElement
  <2> QED BY <2>1, <2>2
<1>6. Cardinality(S) \in Nat /\ Cardinality(S \cup {j}) \in Nat /\ Slots \in Nat
  BY <1>4, <1>5, FS_CardinalityType, ConstantsAssumption
<1>7. Cardinality(S \cup {j}) <= Slots
  BY <1>4, <1>5, <1>6
<1>8. \A f \in Folder : job'[Sync(f)].state = "locked" <=> job[Sync(f)].state = "locked"
  BY <1>1, <1>2, SyncIsJob
<1>9. UNCHANGED <<lock, held, walked, call, events>>
  BY DEF Start
<1> QED BY <1>2, <1>3, <1>5, <1>7, <1>8, <1>9, SameLock DEF QueueInv, TypeOK, Jobs, Is

\* The lock is taken when it is free, and given back by the sync that has it.
LEMMA LockTyped ==
  ASSUME QueueInv, NEW f \in Folder, TakeLock(f) \/ Synced(f) \/ SyncFails(f)
  PROVE  QueueInv'
<1>0. /\ Sync(f) \in Job /\ \A g \in Folder : Sync(g) \in Job /\ (g # f => Sync(g) # Sync(f))
      /\ \A g, h \in Folder : Walk(g) # Sync(h)
      /\ Free \notin Folder /\ Free # Orphan
  BY SyncIsJob, ConstantsAssumption DEF Sync, Walk
<1>t. /\ job \in [Job -> Jobs] /\ held \in BOOLEAN /\ walked \subseteq Folder
      /\ \A g \in Folder : lock = g <=> job[Sync(g)].state = "locked"
  BY DEF QueueInv, TypeOK, Jobs, Is
<1>1. CASE TakeLock(f)
  <2> DEFINE r == Row("locked", job[Sync(f)].failed, job[Sync(f)].stalled)
  <2>1. /\ r \in Jobs /\ r.state = "locked" /\ Set(Sync(f), r) /\ lock' = f /\ lock = Free
        /\ job[Sync(f)].state = "active" /\ UNCHANGED <<held, walked, call, events>>
    BY <1>0, <1>1, JobFields, JobRow DEF TakeLock, To, State, Is
  <2> HIDE DEF r
  <2>2. job' \in [Job -> Jobs] /\ \A i \in Job : job'[i] = IF i = Sync(f) THEN r ELSE job[i]
    BY <1>0, <2>1, OneJob
  <2>3. \A i \in Job : job'[i].state \in Busy => job[i].state \in Busy
    BY <2>1, <2>2 DEF Busy
  <2>4. \A g \in Folder : lock' = g <=> job'[Sync(g)].state = "locked"
    BY <1>0, <1>t, <2>1, <2>2
  <2>5. call' \in [Asked -> {"idle", "joining", "waiting"}] /\ events' \in 0..MaxEvents
    BY <2>1 DEF QueueInv, TypeOK
  <2> QED BY <1>t, <2>1, <2>2, <2>3, <2>4, <2>5, QuietQueue
<1>2. CASE SyncFails(f)
  <2>1. /\ AttemptFails(Sync(f)) /\ job[Sync(f)].state = "locked" /\ lock' = Free
        /\ held' \in BOOLEAN /\ walked' = walked /\ events' \in 0..MaxEvents
    BY <1>2, <1>t, EventType DEF SyncFails, Is
  <2>2. /\ job' \in [Job -> Jobs] /\ job'[Sync(f)].state \in {"delayed", "none"}
        /\ \A i \in Job : i # Sync(f) => job'[i] = job[i]
        /\ call' \in [Asked -> {"idle", "joining", "waiting"}]
    BY <1>0, <2>1, FailedJob
  <2>3. \A i \in Job : job'[i].state \in Busy => job[i].state \in Busy
    BY <2>2 DEF Busy
  <2>4. \A g \in Folder : lock' = g <=> job'[Sync(g)].state = "locked"
    BY <1>0, <1>t, <2>1, <2>2
  <2> QED BY <1>t, <2>1, <2>2, <2>3, <2>4, QuietQueue
<1>3. CASE Synced(f)
  <2> DEFINE gone == [job EXCEPT ![Sync(f)] = Absent]
  <2>1. /\ job[Sync(f)].state = "locked" /\ lock' = Free /\ held' = FALSE /\ Answered(Sync(f))
        /\ walked' \subseteq Folder /\ events' \in 0..MaxEvents
    BY <1>3, <1>t, EventType DEF Synced, Is
  <2>2. PICK ids : job' = Added(gone, ids) /\ ids \in {{}, {Walk(f)}}
    BY <1>3 DEF Synced
  <2>3. gone \in [Job -> Jobs] /\ \A i \in Job : gone[i] = IF i = Sync(f) THEN Absent ELSE job[i]
    BY <1>t, NewRows
  <2> HIDE DEF gone
  <2>4. /\ job' \in [Job -> Jobs]
        /\ \A i \in Job : job'[i] = gone[i] \/ job'[i].state = "waiting"
        /\ \A i \in Job : job'[i] = gone[i] \/ gone[i].state = "none"
    BY <2>2, <2>3, AddedJobs
  <2>5. \A i \in Job : job'[i].state \in Busy => job[i].state \in Busy
    BY <2>3, <2>4, NewRows DEF Busy
  <2>6. \A g \in Folder : lock' = g <=> job'[Sync(g)].state = "locked"
    <3> SUFFICES ASSUME NEW g \in Folder PROVE job'[Sync(g)].state # "locked"
      BY <1>0, <2>1
    <3>1. gone[Sync(g)].state # "locked"
      BY <1>0, <1>t, <2>1, <2>3, NewRows
    <3> QED BY <1>0, <2>4, <3>1
  <2>7. call' \in [Asked -> {"idle", "joining", "waiting"}]
    BY <2>1, AnsweredType
  <2> QED BY <2>1, <2>4, <2>5, <2>6, <2>7, QuietQueue
<1> QED BY <1>1, <1>2, <1>3

\* What has no part in the lock.
LEMMA JobTyped ==
  ASSUME QueueInv, NEW j \in Job, DelayEnds(j) \/ Stalled(j)
  PROVE  QueueInv'
<1>0. walked' \subseteq Folder /\ UNCHANGED <<lock, held, events>>
  BY DEF QueueInv, TypeOK, DelayEnds, Stalled
<1>1. CASE DelayEnds(j)
  <2> DEFINE r == Row("waiting", job[j].failed, job[j].stalled)
  <2>1. r \in Jobs /\ r.state = "waiting" /\ Set(j, r) /\ job[j].state = "delayed" /\ UNCHANGED call
    BY <1>1, JobFields, JobRow DEF DelayEnds, To, State, Is
  <2> HIDE DEF r
  <2> QED BY <1>0, <2>1, GoesOn, AnsweredType DEF Busy
<1>2. CASE Stalled(j) /\ GiveUp(j)
  <2>1. job[j].state # "locked" /\ events' \in 0..MaxEvents /\ UNCHANGED walked
    BY <1>2, EventType DEF Stalled, Is
  <2> QED BY <1>0, <1>2, <2>1, FailTyped
<1>3. CASE Stalled(j) /\ ~GiveUp(j)
  <2> DEFINE r == Row("waiting", job[j].failed, TRUE)
  <2>1. r \in Jobs /\ r.state = "waiting" /\ Set(j, r) /\ job[j].state = "stalled" /\ UNCHANGED call
    BY <1>3, JobFields, JobRow DEF Stalled, State, Is
  <2> HIDE DEF r
  <2> QED BY <1>0, <2>1, GoesOn, AnsweredType DEF Busy
<1> QED BY <1>1, <1>2, <1>3

LEMMA FolderTyped ==
  ASSUME QueueInv, NEW f \in Folder,
         \/ Ask(f) \/ Join(f) \/ WaitEnds(f) \/ LockTimeout(f) \/ WalkCompletes(f) \/ WalkFails(f)
  PROVE  QueueInv'
<1>0. Sync(f) \in Job /\ Walk(f) \in Job
  BY SyncIsJob
<1>1. CASE Ask(f)
  BY <1>1, AddTyped DEF Ask, QueueInv, TypeOK
<1>2. CASE Join(f) \/ WaitEnds(f)
  <2>1. UNCHANGED <<job, lock, held, walked>> /\ events' \in 0..MaxEvents
    BY <1>2, EventType DEF Join, WaitEnds
  <2>2. call' \in [Asked -> {"idle", "joining", "waiting"}]
    BY <1>2 DEF Join, WaitEnds, QueueInv, TypeOK
  <2> QED BY <2>1, <2>2 DEF QueueInv, TypeOK, Working, Is
<1>3. CASE LockTimeout(f)
  BY <1>0, <1>3, FailTyped, EventType DEF LockTimeout, Is
<1>4. CASE WalkFails(f)
  BY <1>0, <1>4, FailTyped, EventType DEF WalkFails, Is
<1>5. CASE WalkCompletes(f)
  <2>1. /\ Set(Walk(f), Absent) /\ job[Walk(f)].state = "active" /\ UNCHANGED <<lock, held, call, events>>
        /\ walked' \subseteq Folder
    BY <1>5 DEF WalkCompletes, QueueInv, TypeOK, Is
  <2> QED BY <1>0, <2>1, NewRows, GoesOn, AnsweredType DEF Busy
<1> QED BY <1>1, <1>2, <1>3, <1>4, <1>5

LEMMA CrashTyped ==
  ASSUME QueueInv, Crash
  PROVE  QueueInv'
<1>1. /\ job' = [j \in Job |-> IF j \in Working THEN Row("stalled", job[j].failed, job[j].stalled) ELSE job[j]]
      /\ lock' = (IF lock \in Folder THEN Orphan ELSE lock) /\ UNCHANGED <<held, walked, call>>
      /\ events' \in 0..MaxEvents
  BY EventType DEF Crash
<1>2. ASSUME NEW j \in Job
      PROVE  job'[j] \in Jobs /\ job'[j].state \notin Busy
  <2>1. CASE j \in Working
    <3>1. /\ Row("stalled", job[j].failed, job[j].stalled) \in Jobs
          /\ Row("stalled", job[j].failed, job[j].stalled).state = "stalled"
      BY JobFields, JobRow DEF State
    <3> QED BY <1>1, <2>1, <3>1 DEF Busy
  <2>2. CASE j \notin Working
    BY <1>1, <2>2, JobFields DEF Working, Busy
  <2> QED BY <2>1, <2>2
<1>3. job' \in [Job -> Jobs]
  BY <1>1, <1>2
<1>4. /\ lock' \in Folder \cup {Free, Orphan} /\ lock' \notin Folder
      /\ held' \in BOOLEAN /\ walked' \subseteq Folder
      /\ call' \in [Asked -> {"idle", "joining", "waiting"}]
  BY <1>1, ConstantsAssumption DEF QueueInv, TypeOK
<1>5. \A f \in Folder : lock' = f <=> job'[Sync(f)].state = "locked"
  BY <1>2, <1>4, SyncIsJob DEF Busy
<1> QED BY <1>1, <1>2, <1>3, <1>4, <1>5, QuietQueue

\* No job fails more often than it may, stalled or not; the worker never has more jobs than
\* slots; and the account lock belongs to exactly the sync that runs under it, or to nobody
\* who is left (SyncQueueService, worker.ts).
THEOREM TypeCorrect == Spec => []TypeOK
<1>1. Init => QueueInv
  <2> SUFFICES ASSUME Init PROVE QueueInv
    OBVIOUS
  <2>1. Working = {}
    BY NewRows DEF Init, Working
  <2>2. IsFiniteSet(Working) /\ Cardinality(Working) <= Slots
    BY <2>1, FS_EmptySet, ConstantsAssumption
  <2>3. \A f \in Folder : lock = f <=> Is(Sync(f), "locked")
    BY SyncIsJob, NewRows, ConstantsAssumption DEF Init, Is
  <2>4. job \in [Job -> Jobs]
    BY NewRows DEF Init
  <2>5. events \in 0..MaxEvents /\ walked \subseteq Folder
    BY ConstantsAssumption DEF Init
  <2> QED BY <2>2, <2>3, <2>4, <2>5 DEF Init, QueueInv, TypeOK, Jobs
<1>2. QueueInv /\ [Next]_vars => QueueInv'
  <2> SUFFICES ASSUME QueueInv, [Next]_vars PROVE QueueInv'
    OBVIOUS
  <2>0. call \in [Asked -> {"idle", "joining", "waiting"}]
    BY DEF QueueInv, TypeOK
  <2>1. CASE TickInbox \/ TickFolders
    BY <2>0, <2>1, AddTyped DEF TickInbox, TickFolders
  <2>2. CASE BackoffEnds \/ LeaseEnds
    <3>1. /\ job' = job /\ held' \in BOOLEAN /\ UNCHANGED <<walked, call, events>>
          /\ lock' = lock \/ (lock = Orphan /\ lock' = Free)
      BY <2>2 DEF BackoffEnds, LeaseEnds, QueueInv, TypeOK
    <3> QED BY <3>1, ConstantsAssumption DEF QueueInv, TypeOK, Working, Is
  <2>3. CASE UNCHANGED vars
    BY <2>3 DEF vars, QueueInv, TypeOK, Working, Is
  <2> QED BY <2>1, <2>2, <2>3, CrashTyped, FolderTyped, LockTyped, StartTyped, JobTyped DEF Next, Recover
<1>3. QueueInv => TypeOK
  BY DEF QueueInv
<1> QED BY <1>1, <1>2, <1>3, PTL DEF Spec
=============================================================================
