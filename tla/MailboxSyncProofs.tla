------------------------- MODULE MailboxSyncProofs -------------------------
(***************************************************************************)
(* Theorems about MailboxSync for every size of the folder, every limit    *)
(* and any number of failures.                                             *)
(***************************************************************************)
EXTENDS MailboxSync, TLAPS, FiniteSetTheorems, WellFoundedInduction

-----------------------------------------------------------------------------
(* Lemmas about the helpers *)

\* Math.min over a non-empty list of UIDs is one of them, below all others.
LEMMA LowestIsLeast ==
  ASSUME NEW S \in SUBSET Nat, S # {}
  PROVE  Lowest(S) \in S /\ \A v \in S : Lowest(S) <= v
<1> DEFINE R == OpToRel(<, Nat)
<1>1. IsWellFoundedOn(R, Nat)
  BY NatLessThanWellFounded
<1>2. \A x, y \in Nat : x < y => <<x, y>> \in R
  BY DEF OpToRel
<1> HIDE DEF R
<1>3. PICK u \in S : \A v \in S : <<v, u>> \notin R
  BY <1>1, WFMin
<1>4. \A v \in S : u \in Nat /\ v \in Nat /\ ~(v < u)
  BY <1>2, <1>3
<1>5. \A v \in S : u <= v
  BY <1>4
<1> QED BY <1>5 DEF Lowest

\* What a session fetches is on the server.
LEMMA SelectedAreOnServer ==
  ASSUME NEW S, NEW K, NEW b, NEW n
  PROVE  /\ SelectMetadataUids(S, K, n) \subseteq S
         /\ SelectBackfillUids(S, b, n) \subseteq S
BY DEF SelectMetadataUids, SelectBackfillUids, Newest, Oldest

LEMMA UidsAreNaturals == Uid \subseteq Nat \ {0} /\ Epoch \subseteq Nat \ {0} /\ 1 \in Epoch
BY BoundsAssumption DEF Uid, Epoch

LEMMA BeforeUidType ==
  ASSUME TypeOK
  PROVE  BeforeUid \in Uid \cup {NoUid}
<1>1. Local \in SUBSET Nat /\ Local \subseteq Uid
  BY UidsAreNaturals DEF Local
<1>2. Local # {} => Lowest(Local) \in Uid
  BY <1>1, LowestIsLeast
<1>3. cursor.backfilledUid > 0 => cursor.backfilledUid \in Uid
  BY UidsAreNaturals DEF TypeOK, Complete, NotStarted
<1> QED BY <1>2, <1>3 DEF BeforeUid

LEMMA ExpectedType ==
  ASSUME TypeOK
  PROVE  Expected \in Epoch \cup {0}
BY DEF TypeOK, Expected

-----------------------------------------------------------------------------
(* Type correctness *)

TypeInv == TypeOK /\ (backfill.pc = "cursor" => backfill.batch # {})

LEMMA TypeInit == Init => TypeInv
<1> SUFFICES ASSUME Init PROVE TypeInv
  OBVIOUS
<1>1. server \in SUBSET Uid /\ nextUid \in 1..(MaxUid + 1)
  BY BoundsAssumption DEF Init, Uid
<1>2. rows \in [Uid -> Epoch \cup {Absent}]
  BY DEF Init
<1>3. events \in Nat
  BY BoundsAssumption DEF Init
<1>4. epoch \in Epoch
  BY UidsAreNaturals DEF Init
<1> QED BY <1>1, <1>2, <1>3, <1>4
  DEF Init, TypeInv, TypeOK, SyncIdle, NoResult, NoJob, BackfillIdle, PageIdle, NoUid,
      NotStarted, SyncType, JobType, BackfillType

\* What a saved batch does to the rows.
LEMMA SavedType ==
  ASSUME TypeOK, NEW uids, NEW e \in Epoch \cup {0}
  PROVE  Saved(uids, e) \in [Uid -> Epoch \cup {Absent}]
BY DEF TypeOK, Saved, Absent

LEMMA EnqueueType ==
  ASSUME TypeOK, NEW force \in BOOLEAN, EnqueueBackfill(force)
  PROVE  job' \in JobType
BY DEF TypeOK, JobType, EnqueueBackfill

LEMMA FreeType ==
  ASSUME TypeOK, NEW who, Free(who)
  PROVE  lock' \in {"free", "sync", "backfill", "orphan"}
BY DEF TypeOK, Free

LEMMA SearchType ==
  ASSUME TypeOK, NEW found \in SearchResults
  PROVE  found \in SUBSET Uid
BY DEF TypeOK, SearchResults

LEMMA VanishType ==
  ASSUME TypeOK, NEW gone \in Vanishing, Vanish(gone)
  PROVE  server' \in SUBSET Uid /\ events' \in Nat
BY DEF TypeOK, Vanishing, Vanish

LEMMA TypeStep == TypeInv /\ [Next]_vars => TypeInv'
<1> SUFFICES ASSUME TypeInv, [Next]_vars PROVE TypeInv'
  OBVIOUS
<1> USE DEF imap, db
<1> TypeOK
  BY DEF TypeInv
<1>stutter. CASE UNCHANGED vars
  BY <1>stutter DEF TypeInv, TypeOK, vars
<1>server. CASE Server
  <2>1. CASE Deliver
    BY <2>1, BoundsAssumption DEF Deliver, TypeInv, TypeOK, Uid
  <2>2. ASSUME NEW u \in Uid, Expunge(u) PROVE TypeInv'
    BY <2>2 DEF Expunge, Event, TypeInv, TypeOK
  <2>3. CASE ChangeUidValidity
    <3>1. epoch' \in Epoch
      BY <2>3, BoundsAssumption DEF ChangeUidValidity, TypeOK, Epoch
    <3>2. server' \in SUBSET Uid /\ nextUid' \in 1..(MaxUid + 1)
      BY <2>3, BoundsAssumption DEF ChangeUidValidity, Uid
    <3> QED BY <2>3, <3>1, <3>2 DEF ChangeUidValidity, TypeInv, TypeOK
  <2> QED BY <1>server, <2>1, <2>2, <2>3 DEF Server
<1>sync. CASE SyncStep
  <2>1. CASE SyncRead
    <3>1. sync' \in SyncType
      BY <2>1, ExpectedType DEF SyncRead, SyncIdle, SyncType, NoResult, Local
    <3> QED BY <2>1, <3>1 DEF SyncRead, Take, TypeInv, TypeOK
  <2>2. CASE SyncFetch
    <3> DEFINE known == IF sync.expected # 0 /\ sync.expected # epoch THEN {} ELSE sync.known
    <3>1. PICK found \in SearchResults, gone \in Vanishing :
            /\ Vanish(gone)
            /\ sync' = [sync EXCEPT
                 !.pc = "apply",
                 !.result = [uidValidity |-> epoch,
                             reset |-> sync.expected # 0 /\ sync.expected # epoch,
                             serverUids |-> found,
                             messages |-> SelectMetadataUids(found, known, SyncLimit) \ gone]]
      BY <2>2 DEF SyncFetch
    <3>2. found \in SUBSET Uid /\ SelectMetadataUids(found, known, SyncLimit) \in SUBSET Uid
      BY SearchType, SelectedAreOnServer
    <3> HIDE DEF known
    <3>3. sync' \in SyncType
      BY <3>1, <3>2 DEF SyncType, TypeOK
    <3>4. server' \in SUBSET Uid /\ events' \in Nat
      BY <3>1, VanishType
    <3> QED BY <2>2, <3>3, <3>4 DEF SyncFetch, TypeInv, TypeOK
  <2>3. CASE SyncApply
    <3>1. rows' \in [Uid -> Epoch \cup {Absent}]
      BY <2>3 DEF SyncApply, Applied, SyncType, TypeOK, Absent
    <3>2. cursor' \in [uidValidity: Epoch \cup {0},
                       backfilledUid: Uid \cup {Complete, NotStarted}]
      BY <2>3 DEF SyncApply, SyncType, TypeOK
    <3>3. lock' \in {"free", "sync", "backfill", "orphan"}
      BY <2>3, FreeType DEF SyncApply
    <3>4. skipped' \in BOOLEAN
      BY <2>3 DEF SyncApply, Skips, TypeOK
    <3>5. sync' \in SyncType
      BY <2>3 DEF SyncApply, SyncIdle, NoResult, SyncType, TypeOK
    <3> QED BY <2>3, <3>1, <3>2, <3>3, <3>4, <3>5 DEF SyncApply, SyncType, TypeInv, TypeOK
  <2>4. CASE SyncEnqueue
    <3>1. job' \in JobType
      BY <2>4, EnqueueType DEF SyncEnqueue, SyncType, TypeOK
    <3> QED BY <2>4, <3>1 DEF SyncEnqueue, SyncIdle, NoResult, SyncType, TypeInv, TypeOK
  <2>5. CASE SyncFails
    <3>1. lock' \in {"free", "sync", "backfill", "orphan"}
      BY <2>5, FreeType DEF SyncFails
    <3> QED BY <2>5, <3>1 DEF SyncFails, Event, SyncIdle, NoResult, SyncType, TypeInv, TypeOK
  <2> QED BY <1>sync, <2>1, <2>2, <2>3, <2>4, <2>5 DEF SyncStep
<1>walk. CASE WalkStep
  <2>1. CASE RequestBackfill
    <3>1. job' \in JobType
      BY <2>1, EnqueueType DEF RequestBackfill
    <3> QED BY <2>1, <3>1 DEF RequestBackfill, Event, TypeInv, TypeOK
  <2>2. CASE BackfillStart
    BY <2>2 DEF BackfillStart, BackfillIdle, BackfillType, JobType, NoUid, TypeInv, TypeOK
  <2>3. CASE BatchDone
    BY <2>3 DEF BatchDone, BackfillIdle, BackfillType, NoUid, TypeInv, TypeOK
  <2>4. CASE BatchRead
    <3>1. backfill' \in BackfillType
      BY <2>4, BeforeUidType DEF BatchRead, BackfillType, TypeOK
    <3>2. backfill'.pc = "fetch"
      BY <2>4 DEF BatchRead, BackfillType, TypeOK
    <3> QED BY <2>4, <3>1, <3>2 DEF BatchRead, Take, TypeInv, TypeOK
  <2>5. CASE BatchFetch
    <3>1. PICK found \in SearchResults, gone \in Vanishing :
            /\ Vanish(gone)
            /\ backfill' = [backfill EXCEPT
                 !.pc = "save", !.epoch = epoch,
                 !.batch = SelectBackfillUids(found, backfill.before, BatchLimit) \ gone]
      BY <2>5 DEF BatchFetch
    <3>2. SelectBackfillUids(found, backfill.before, BatchLimit) \in SUBSET Uid
      BY SearchType, SelectedAreOnServer
    <3>3. backfill' \in BackfillType
      BY <3>1, <3>2 DEF BackfillType, TypeOK
    <3>4. backfill'.pc = "save"
      BY <3>1 DEF BackfillType, TypeOK
    <3>5. server' \in SUBSET Uid /\ events' \in Nat
      BY <3>1, VanishType
    <3> QED BY <2>5, <3>3, <3>4, <3>5 DEF BatchFetch, TypeInv, TypeOK
  <2>6. CASE BatchEmpty
    <3>1. lock' \in {"free", "sync", "backfill", "orphan"}
      BY <2>6, FreeType DEF BatchEmpty
    <3> QED BY <2>6, <3>1 DEF BatchEmpty, BackfillIdle, BackfillType, NoUid, TypeInv, TypeOK
  <2>7. CASE BatchSave
    <3>1. rows' \in [Uid -> Epoch \cup {Absent}]
      BY <2>7, SavedType DEF BatchSave, BackfillType, TypeOK
    <3> QED BY <2>7, <3>1 DEF BatchSave, BackfillType, TypeInv, TypeOK
  <2>8. CASE BatchCursor
    <3>1. lock' \in {"free", "sync", "backfill", "orphan"}
      BY <2>8, FreeType DEF BatchCursor
    <3>2. backfill.batch \in SUBSET Nat /\ backfill.batch \subseteq Uid /\ backfill.batch # {}
      BY <2>8, UidsAreNaturals DEF BatchCursor, BackfillType, TypeInv, TypeOK
    <3>3. Lowest(backfill.batch) \in Uid
      BY <3>2, LowestIsLeast
    <3> QED BY <2>8, <3>1, <3>3 DEF BatchCursor, BackfillIdle, BackfillType, NoUid, TypeInv, TypeOK
  <2>9. CASE BackfillFails
    <3>1. lock' \in {"free", "sync", "backfill", "orphan"}
      BY <2>9, FreeType DEF BackfillFails
    <3>2. job' \in JobType
      <4>1. [job EXCEPT !.state = "queued"] \in JobType /\ NoJob \in JobType
        BY DEF NoJob, JobType, TypeOK
      <4> QED BY <2>9, <4>1 DEF BackfillFails
    <3> QED BY <2>9, <3>1, <3>2
      DEF BackfillFails, Event, BackfillIdle, BackfillType, NoUid, TypeInv, TypeOK
  <2>10. CASE WalkDone
    BY <2>10 DEF WalkDone, BackfillIdle, BackfillType, NoJob, JobType, NoUid, TypeInv, TypeOK
  <2> QED BY <1>walk, <2>1, <2>2, <2>3, <2>4, <2>5, <2>6, <2>7, <2>8, <2>9, <2>10 DEF WalkStep
<1>api. CASE ApiStep
  <2>1. CASE PageFetch
    <3>1. PICK before \in Uid \cup {NoUid}, found \in SearchResults, gone \in Vanishing :
            /\ Vanish(gone)
            /\ page' = [pc |-> "save", epoch |-> epoch,
                        uids |-> SelectBackfillUids(found, before, PageLimit) \ gone]
      BY <2>1 DEF PageFetch
    <3>2. SelectBackfillUids(found, before, PageLimit) \in SUBSET Uid
      BY SearchType, SelectedAreOnServer
    <3>3. server' \in SUBSET Uid /\ events' \in Nat
      BY <3>1, VanishType
    <3> QED BY <2>1, <3>1, <3>2, <3>3 DEF PageFetch, TypeInv, TypeOK
  <2>2. CASE PageSave
    <3>1. rows' \in [Uid -> Epoch \cup {Absent}]
      BY <2>2, SavedType DEF PageSave, TypeOK
    <3> QED BY <2>2, <3>1 DEF PageSave, PageIdle, TypeInv, TypeOK
  <2>3. CASE Reconnect
    BY <2>3 DEF Reconnect, Event, TypeInv, TypeOK
  <2>4. CASE Relist
    BY <2>4 DEF Relist, Event, TypeInv, TypeOK
  <2>5. ASSUME NEW u \in Uid, RemoveOnServer(u) PROVE TypeInv'
    BY <2>5 DEF RemoveOnServer, Event, TypeInv, TypeOK
  <2>6. ASSUME NEW u \in Uid, RemoveLocal(u) PROVE TypeInv'
    BY <2>6 DEF RemoveLocal, TypeInv, TypeOK
  <2>7. ASSUME NEW u \in Uid, RemoveFails(u) PROVE TypeInv'
    BY <2>7 DEF RemoveFails, Event, TypeInv, TypeOK
  <2> QED BY <1>api, <2>1, <2>2, <2>3, <2>4, <2>5, <2>6, <2>7 DEF ApiStep
<1>process. CASE Process
  <2>1. CASE Crash
    BY <2>1 DEF Crash, Event, SyncIdle, SyncType, NoResult, BackfillIdle, BackfillType, NoUid,
           JobType, TypeInv, TypeOK
  <2>2. CASE OrphanExpires
    BY <2>2 DEF OrphanExpires, TypeInv, TypeOK
  <2>3. CASE LeaseExpires
    BY <2>3 DEF LeaseExpires, Event, TypeInv, TypeOK
  <2> QED BY <1>process, <2>1, <2>2, <2>3 DEF Process
<1> QED BY <1>stutter, <1>server, <1>sync, <1>walk, <1>api, <1>process DEF Next

\* Every reachable state of the mirror is well typed, whatever goes wrong.
THEOREM TypeCorrect == Spec => []TypeOK
<1>1. TypeInv => TypeOK
  BY DEF TypeInv
<1> QED BY <1>1, TypeInit, TypeStep, PTL DEF Spec

-----------------------------------------------------------------------------
(* A UIDVALIDITY change wipes local mail *)

\* The environments in which it does: folder leases are honoured, nobody pages
\* through a mailbox or asks for its backfill before the first sync, and of the
\* two records of the UIDVALIDITY at most one can be lost.
Sheltered == /\ Hazards \cap {"lease", "paging", "early"} = {}
             /\ ~({"reconnect", "relist"} \subseteq Hazards)

\* The record that cannot be lost is the one performSync compares with.
Recorded == Expected = IF "relist" \in Hazards THEN mailboxState ELSE cursor.uidValidity

\* Fetching and saving happen under the folder lock.
Locked == /\ sync.pc \in {"fetch", "apply"} => lock = "sync"
          /\ backfill.pc \in {"fetch", "save", "cursor"} => lock = "backfill"

\* Before a UIDVALIDITY is recorded the folder has no rows and no walk.
Virgin == Expected = 0 => /\ Local = {} /\ sync.pc # "enqueue"
                          /\ job.state = "none" /\ backfill.pc = "idle"

\* What a session in flight believes is still so, and its answer is no older
\* than the record.
SyncKnows ==
  /\ sync.pc \in {"fetch", "apply"} => sync.expected = Expected
  /\ sync.pc = "apply" =>
       /\ sync.result.uidValidity \in Epoch /\ Expected <= sync.result.uidValidity
       /\ sync.result.uidValidity <= epoch
       /\ sync.result.reset <=> Expected \notin {0, sync.result.uidValidity}
BatchKnows == backfill.pc = "save" => backfill.epoch \in Epoch /\ Expected <= backfill.epoch

ResetInv == /\ Recorded /\ Locked /\ Virgin /\ SyncKnows /\ BatchKnows /\ NoStaleRow
            /\ Expected <= epoch
            /\ page.pc = "idle"

LEMMA ResetInit == Init => ResetInv
<1> SUFFICES ASSUME Init PROVE ResetInv
  OBVIOUS
<1>1. Expected = 0 /\ Local = {}
  BY DEF Init, Expected, Local, Absent
<1> QED BY <1>1 DEF Init, ResetInv, Recorded, Locked, Virgin, SyncKnows, BatchKnows,
                    NoStaleRow, SyncIdle, NoJob, BackfillIdle, PageIdle

\* A step that keeps both records of the UIDVALIDITY.
LEMMA RecordsKept ==
  ASSUME ResetInv, mailboxState' = mailboxState, cursor'.uidValidity = cursor.uidValidity
  PROVE  Expected' = Expected /\ Recorded'
BY DEF ResetInv, Recorded, Expected

\* A step that at most removes rows.
LEMMA RowsRemoved ==
  ASSUME TypeOK, ResetInv, Expected' = Expected,
         \A u \in Uid : rows'[u] \in {rows[u], Absent}
  PROVE  NoStaleRow' /\ (Local = {} => Local' = {})
BY DEF ResetInv, NoStaleRow, Local

\* A step that touches neither the database nor a session in flight.
LEMMA Elsewhere ==
  ASSUME TypeOK, ResetInv, UNCHANGED <<rows, cursor, mailboxState, sync, backfill, page>>,
         epoch' \in Epoch, epoch <= epoch', lock' = lock,
         job'.state # "none" => job.state # "none" \/ Expected # 0
  PROVE  ResetInv'
<1>1. Expected' = Expected /\ Recorded'
  BY RecordsKept
<1>2. NoStaleRow' /\ Local' = Local
  BY <1>1 DEF ResetInv, NoStaleRow, Local
<1>e. Expected \in Epoch \cup {0} /\ epoch \in Epoch
  BY ExpectedType DEF TypeOK
<1>i. Expected \in Nat /\ epoch \in Nat /\ epoch' \in Nat
  BY <1>e, UidsAreNaturals
<1>3. Expected' <= epoch'
  BY <1>1, <1>i DEF ResetInv
<1>4. SyncKnows'
  <2>1. sync.pc = "apply" => sync.result.uidValidity \in Nat
    BY UidsAreNaturals DEF ResetInv, SyncKnows
  <2>2. sync.pc = "apply" => sync.result.uidValidity <= epoch'
    BY <1>i, <2>1 DEF ResetInv, SyncKnows
  <2> QED BY <1>1, <2>2 DEF ResetInv, SyncKnows
<1>5. Virgin'
  BY <1>1, <1>2 DEF ResetInv, Virgin
<1> QED BY <1>1, <1>2, <1>3, <1>4, <1>5 DEF ResetInv, Locked, BatchKnows

LEMMA ResetStep ==
  ASSUME Sheltered, TypeInv, ResetInv, [Next]_vars
  PROVE  ResetInv'
<1> USE DEF imap, db
<1> TypeOK
  BY DEF TypeInv
<1>e. Expected \in Epoch \cup {0} /\ Epoch \subseteq Nat \ {0} /\ epoch \in Epoch
  BY ExpectedType, UidsAreNaturals DEF TypeOK
<1>stutter. CASE UNCHANGED vars
  BY <1>stutter, <1>e, Elsewhere DEF vars
<1>server. CASE Server
  <2>1. CASE Deliver
    BY <2>1, <1>e, Elsewhere DEF Deliver
  <2>2. ASSUME NEW u \in Uid, Expunge(u) PROVE ResetInv'
    BY <2>2, <1>e, Elsewhere DEF Expunge
  <2>3. CASE ChangeUidValidity
    <3>1. epoch' \in Epoch /\ epoch <= epoch'
      BY <2>3, BoundsAssumption DEF ChangeUidValidity, TypeOK, Epoch
    <3> QED BY <2>3, <3>1, Elsewhere DEF ChangeUidValidity
  <2> QED BY <1>server, <2>1, <2>2, <2>3 DEF Server
<1>sync. CASE SyncStep
  <2>1. CASE SyncRead
    <3>1. Expected' = Expected /\ Recorded' /\ NoStaleRow' /\ Local' = Local
      BY <2>1, RecordsKept DEF SyncRead, ResetInv, NoStaleRow, Local
    <3>2. sync' = [SyncIdle EXCEPT !.pc = "fetch", !.known = Local, !.expected = Expected]
      BY <2>1 DEF SyncRead
    <3>3. sync'.pc = "fetch" /\ sync'.expected = Expected
      BY <3>2 DEF SyncIdle
    <3>4. Locked'
      BY <2>1, <3>3 DEF SyncRead, Take, ResetInv, Locked
    <3> QED BY <2>1, <3>1, <3>3, <3>4
      DEF SyncRead, ResetInv, Virgin, SyncKnows, BatchKnows
  <2>2. CASE SyncFetch
    <3>1. Expected' = Expected /\ Recorded' /\ NoStaleRow' /\ Local' = Local
      BY <2>2, RecordsKept DEF SyncFetch, ResetInv, NoStaleRow, Local
    <3>2. /\ sync'.pc = "apply" /\ sync'.expected = sync.expected
          /\ sync'.result.uidValidity = epoch
          /\ sync'.result.reset = (sync.expected # 0 /\ sync.expected # epoch)
      BY <2>2 DEF SyncFetch, TypeOK, SyncType
    <3>3. sync.expected = Expected
      BY <2>2 DEF SyncFetch, ResetInv, SyncKnows
    <3>4. sync'.result.reset <=> Expected \notin {0, epoch}
      BY <3>2, <3>3
    <3>5. epoch' = epoch /\ epoch <= epoch /\ Expected <= epoch
      BY <2>2, <1>e DEF SyncFetch, ResetInv
    <3>6. SyncKnows'
      BY <3>1, <3>2, <3>3, <3>4, <3>5, <1>e DEF SyncKnows
    <3> QED BY <2>2, <3>1, <3>2, <3>6 DEF SyncFetch, ResetInv, Locked, Virgin, BatchKnows
  <2>3. CASE SyncApply
    <3> DEFINE r == sync.result
    <3>1. /\ r.uidValidity \in Epoch /\ Expected <= r.uidValidity /\ r.uidValidity <= epoch
          /\ r.reset <=> Expected \notin {0, r.uidValidity}
      BY <2>3 DEF SyncApply, ResetInv, SyncKnows
    <3>2. mailboxState' = r.uidValidity /\ cursor'.uidValidity = r.uidValidity
      BY <2>3 DEF SyncApply
    <3>3. Expected' = r.uidValidity /\ Recorded'
      BY <3>1, <3>2, <1>e DEF Expected, Recorded
    <3>4. \A u \in Uid : rows'[u] \in {Absent, r.uidValidity} \/ (~r.reset /\ rows'[u] = rows[u])
      BY <2>3 DEF SyncApply, Applied
    <3>5. NoStaleRow'
      <4> SUFFICES ASSUME NEW u \in Uid, rows'[u] # Absent PROVE rows'[u] >= Expected'
        BY DEF NoStaleRow, Local
      <4>1. CASE rows'[u] = r.uidValidity
        <5>1. r.uidValidity \in Nat
          BY <3>1, <1>e
        <5> QED BY <4>1, <5>1, <3>3
      <4>2. CASE ~r.reset /\ rows'[u] = rows[u]
        <5>1. Expected # 0 /\ rows[u] >= Expected
          BY <4>2 DEF ResetInv, Virgin, NoStaleRow, Local
        <5> QED BY <5>1, <4>2, <3>1, <3>3
      <4> QED BY <3>4, <4>1, <4>2
    <3>6. sync'.pc = "enqueue"
      BY <2>3 DEF SyncApply, SyncIdle
    <3>7. lock = "sync"
      BY <2>3 DEF SyncApply, ResetInv, Locked
    <3>8. backfill'.pc \notin {"fetch", "save", "cursor"}
      BY <2>3, <3>7 DEF SyncApply, ResetInv, Locked
    <3> HIDE DEF r
    <3>9. Expected' # 0 /\ Expected' <= epoch'
      BY <2>3, <3>1, <3>3, <1>e DEF SyncApply
    <3> QED BY <2>3, <3>3, <3>5, <3>6, <3>8, <3>9
      DEF SyncApply, ResetInv, Locked, Virgin, SyncKnows, BatchKnows
  <2>4. CASE SyncEnqueue
    <3>1. Expected' = Expected /\ Recorded' /\ NoStaleRow' /\ Local' = Local
      BY <2>4, RecordsKept DEF SyncEnqueue, ResetInv, NoStaleRow, Local
    <3>2. Expected # 0
      BY <2>4 DEF SyncEnqueue, ResetInv, Virgin
    <3>3. sync'.pc = "idle"
      BY <2>4 DEF SyncEnqueue, SyncIdle
    <3> QED BY <2>4, <3>1, <3>2, <3>3
      DEF SyncEnqueue, ResetInv, Locked, Virgin, SyncKnows, BatchKnows
  <2>5. CASE SyncFails
    <3>1. Expected' = Expected /\ Recorded' /\ NoStaleRow' /\ Local' = Local
      BY <2>5, RecordsKept DEF SyncFails, ResetInv, NoStaleRow, Local
    <3>2. sync'.pc = "idle"
      BY <2>5 DEF SyncFails, SyncIdle
    <3> QED BY <2>5, <3>1, <3>2
      DEF SyncFails, Free, ResetInv, Locked, Virgin, SyncKnows, BatchKnows
  <2> QED BY <1>sync, <2>1, <2>2, <2>3, <2>4, <2>5 DEF SyncStep
<1>walk. CASE WalkStep
  <2>1. CASE RequestBackfill
    <3>1. Expected # 0
      BY <2>1 DEF RequestBackfill, Sheltered
    <3> QED BY <2>1, <3>1, <1>e, Elsewhere DEF RequestBackfill
  <2>2. CASE BackfillStart
    <3>1. cursor'.uidValidity = cursor.uidValidity
      BY <2>2 DEF BackfillStart, TypeOK
    <3>2. Expected' = Expected /\ Recorded' /\ NoStaleRow' /\ Local' = Local
      BY <2>2, <3>1, RecordsKept DEF BackfillStart, ResetInv, NoStaleRow, Local
    <3>3. Expected # 0
      BY <2>2 DEF BackfillStart, ResetInv, Virgin
    <3>4. backfill'.pc = "wait"
      BY <2>2 DEF BackfillStart, BackfillIdle
    <3> QED BY <2>2, <3>2, <3>3, <3>4
      DEF BackfillStart, ResetInv, Locked, Virgin, SyncKnows, BatchKnows
  <2>3. CASE BatchDone
    <3>1. Expected' = Expected /\ Recorded' /\ NoStaleRow' /\ Local' = Local
      BY <2>3, RecordsKept DEF BatchDone, ResetInv, NoStaleRow, Local
    <3>2. backfill'.pc = "done" /\ Expected # 0
      BY <2>3 DEF BatchDone, BackfillIdle, ResetInv, Virgin
    <3> QED BY <2>3, <3>1, <3>2
      DEF BatchDone, ResetInv, Locked, Virgin, SyncKnows, BatchKnows
  <2>4. CASE BatchRead
    <3>1. Expected' = Expected /\ Recorded' /\ NoStaleRow' /\ Local' = Local
      BY <2>4, RecordsKept DEF BatchRead, ResetInv, NoStaleRow, Local
    <3>2. backfill'.pc = "fetch" /\ Expected # 0
      BY <2>4 DEF BatchRead, ResetInv, Virgin, TypeOK, BackfillType
    <3>3. Locked'
      BY <2>4, <3>2 DEF BatchRead, Take, ResetInv, Locked
    <3> QED BY <2>4, <3>1, <3>2, <3>3 DEF BatchRead, ResetInv, Virgin, SyncKnows, BatchKnows
  <2>5. CASE BatchFetch
    <3>1. Expected' = Expected /\ Recorded' /\ NoStaleRow' /\ Local' = Local
      BY <2>5, RecordsKept DEF BatchFetch, ResetInv, NoStaleRow, Local
    <3>2. backfill'.pc = "save" /\ backfill'.epoch = epoch /\ Expected # 0
      BY <2>5 DEF BatchFetch, ResetInv, Virgin, TypeOK, BackfillType
    <3> QED BY <2>5, <3>1, <3>2, <1>e
      DEF BatchFetch, ResetInv, Locked, Virgin, SyncKnows, BatchKnows
  <2>6. CASE BatchEmpty
    <3>1. cursor'.uidValidity = cursor.uidValidity
      BY <2>6 DEF BatchEmpty, TypeOK
    <3>2. Expected' = Expected /\ Recorded' /\ NoStaleRow' /\ Local' = Local
      BY <2>6, <3>1, RecordsKept DEF BatchEmpty, ResetInv, NoStaleRow, Local
    <3>3. backfill'.pc = "done" /\ Expected # 0
      BY <2>6 DEF BatchEmpty, BackfillIdle, ResetInv, Virgin
    <3> QED BY <2>6, <3>2, <3>3
      DEF BatchEmpty, Free, ResetInv, Locked, Virgin, SyncKnows, BatchKnows
  <2>7. CASE BatchSave
    <3>1. Expected' = Expected /\ Recorded'
      BY <2>7, RecordsKept DEF BatchSave
    <3>2. backfill.epoch \in Epoch /\ Expected <= backfill.epoch /\ Expected # 0
      BY <2>7 DEF BatchSave, ResetInv, BatchKnows, Virgin
    <3>3. \A u \in Uid : rows'[u] \in {backfill.epoch, rows[u]}
      BY <2>7 DEF BatchSave, Saved
    <3>4. NoStaleRow'
      BY <3>1, <3>2, <3>3, <1>e DEF ResetInv, NoStaleRow, Local
    <3>5. backfill'.pc = "cursor"
      BY <2>7 DEF BatchSave, TypeOK, BackfillType
    <3> QED BY <2>7, <3>1, <3>2, <3>4, <3>5
      DEF BatchSave, ResetInv, Locked, Virgin, SyncKnows, BatchKnows
  <2>8. CASE BatchCursor
    <3>1. cursor'.uidValidity = cursor.uidValidity
      BY <2>8 DEF BatchCursor, TypeOK
    <3>2. Expected' = Expected /\ Recorded' /\ NoStaleRow' /\ Local' = Local
      BY <2>8, <3>1, RecordsKept DEF BatchCursor, ResetInv, NoStaleRow, Local
    <3>3. backfill'.pc = "wait" /\ Expected # 0
      BY <2>8 DEF BatchCursor, BackfillIdle, ResetInv, Virgin
    <3> QED BY <2>8, <3>2, <3>3
      DEF BatchCursor, Free, ResetInv, Locked, Virgin, SyncKnows, BatchKnows
  <2>9. CASE BackfillFails
    <3>1. Expected' = Expected /\ Recorded' /\ NoStaleRow' /\ Local' = Local
      BY <2>9, RecordsKept DEF BackfillFails, ResetInv, NoStaleRow, Local
    <3>2. backfill'.pc = "idle" /\ Expected # 0
      BY <2>9 DEF BackfillFails, BackfillIdle, ResetInv, Virgin
    <3> QED BY <2>9, <3>1, <3>2
      DEF BackfillFails, Free, ResetInv, Locked, Virgin, SyncKnows, BatchKnows
  <2>10. CASE WalkDone
    <3>1. Expected' = Expected /\ Recorded' /\ NoStaleRow' /\ Local' = Local
      BY <2>10, RecordsKept DEF WalkDone, ResetInv, NoStaleRow, Local
    <3>2. backfill'.pc = "idle" /\ job'.state = "none"
      BY <2>10 DEF WalkDone, BackfillIdle, NoJob
    <3> QED BY <2>10, <3>1, <3>2
      DEF WalkDone, ResetInv, Locked, Virgin, SyncKnows, BatchKnows
  <2> QED BY <1>walk, <2>1, <2>2, <2>3, <2>4, <2>5, <2>6, <2>7, <2>8, <2>9, <2>10 DEF WalkStep
<1>api. CASE ApiStep
  <2>1. CASE PageFetch
    BY <2>1 DEF PageFetch, Sheltered
  <2>2. CASE PageSave
    BY <2>2 DEF PageSave, ResetInv
  <2>3. CASE Reconnect
    <3>1. "relist" \notin Hazards
      BY <2>3 DEF Reconnect, Sheltered
    <3>2. Expected' = Expected /\ Recorded'
      BY <2>3, <3>1, <1>e DEF Reconnect, ResetInv, Recorded, Expected
    <3>3. Local' = {} /\ NoStaleRow'
      BY <2>3 DEF Reconnect, Local, NoStaleRow, Absent
    <3> QED BY <2>3, <3>2, <3>3
      DEF Reconnect, ResetInv, Locked, Virgin, SyncKnows, BatchKnows
  <2>4. CASE Relist
    <3>1. Expected' = Expected /\ Recorded'
      BY <2>4 DEF Relist, ResetInv, Recorded, Expected
    <3>2. NoStaleRow' /\ Local' = Local
      BY <2>4, <3>1 DEF Relist, ResetInv, NoStaleRow, Local
    <3> QED BY <2>4, <3>1, <3>2
      DEF Relist, ResetInv, Locked, Virgin, SyncKnows, BatchKnows
  <2>5. ASSUME NEW u \in Uid, RemoveOnServer(u) PROVE ResetInv'
    BY <2>5, <1>e, Elsewhere DEF RemoveOnServer
  <2>6. ASSUME NEW u \in Uid, RemoveLocal(u) PROVE ResetInv'
    <3>1. Expected' = Expected /\ Recorded'
      BY <2>6, RecordsKept DEF RemoveLocal
    <3>2. \A v \in Uid : rows'[v] \in {rows[v], Absent}
      BY <2>6 DEF RemoveLocal, TypeOK
    <3>3. NoStaleRow' /\ (Local = {} => Local' = {})
      BY <3>1, <3>2, RowsRemoved
    <3> QED BY <2>6, <3>1, <3>3
      DEF RemoveLocal, ResetInv, Locked, Virgin, SyncKnows, BatchKnows
  <2>7. ASSUME NEW u \in Uid, RemoveFails(u) PROVE ResetInv'
    BY <2>7, <1>e, Elsewhere DEF RemoveFails
  <2> QED BY <1>api, <2>1, <2>2, <2>3, <2>4, <2>5, <2>6, <2>7 DEF ApiStep
<1>process. CASE Process
  <2>1. CASE Crash
    <3>1. Expected' = Expected /\ Recorded' /\ NoStaleRow' /\ Local' = Local
      BY <2>1, RecordsKept DEF Crash, ResetInv, NoStaleRow, Local
    <3>2. sync'.pc = "idle" /\ backfill'.pc = "idle"
      BY <2>1 DEF Crash, SyncIdle, BackfillIdle
    <3>3. Virgin'
      BY <2>1, <3>1, <3>2 DEF Crash, ResetInv, Virgin
    <3> QED BY <2>1, <3>1, <3>2, <3>3 DEF Crash, ResetInv, Locked, SyncKnows, BatchKnows
  <2>2. CASE OrphanExpires
    <3>1. Expected' = Expected /\ Recorded' /\ NoStaleRow' /\ Local' = Local
      BY <2>2, RecordsKept DEF OrphanExpires, ResetInv, NoStaleRow, Local
    <3> QED BY <2>2, <3>1
      DEF OrphanExpires, ResetInv, Locked, Virgin, SyncKnows, BatchKnows
  <2>3. CASE LeaseExpires
    BY <2>3 DEF LeaseExpires, Sheltered
  <2> QED BY <1>process, <2>1, <2>2, <2>3 DEF Process
<1> QED BY <1>stutter, <1>server, <1>sync, <1>walk, <1>api, <1>process DEF Next

\* A UIDVALIDITY change wipes local mail: with its leases honoured no row of
\* the folder outlives the UIDVALIDITY its message was fetched under.
THEOREM NoRowOutlivesReset ==
  ASSUME Sheltered
  PROVE  Spec => []NoStaleRow
<1>1. TypeInv /\ ResetInv /\ [Next]_vars => (TypeInv /\ ResetInv)'
  BY TypeStep, ResetStep
<1>2. ResetInv => NoStaleRow
  BY DEF ResetInv
<1> QED BY <1>1, <1>2, TypeInit, ResetInit, PTL DEF Spec

-----------------------------------------------------------------------------
(* What one session fetches is a run of UIDs *)

LEMMA UidsAreFinite == IsFiniteSet(Uid)
<1>1. 1 \in Int /\ MaxUid \in Int
  BY BoundsAssumption
<1> QED BY <1>1, FS_Interval DEF Uid

\* slice(-limit) of the ascending list: whatever lies above one of the newest
\* is one of the newest.
LEMMA NewestAreClosed ==
  ASSUME NEW S \in SUBSET Uid, NEW n \in Nat, NEW lo \in Newest(S, n), NEW u \in S, lo <= u
  PROVE  u \in Newest(S, n)
<1> DEFINE Above(x) == {v \in S : v > x}
<1>1. IsFiniteSet(Above(lo)) /\ IsFiniteSet(Above(u))
  <2>1. Above(lo) \in SUBSET Uid /\ Above(u) \in SUBSET Uid
    OBVIOUS
  <2> HIDE DEF Above
  <2> QED BY <2>1, UidsAreFinite, FS_Subset
<1>2. Above(u) \subseteq Above(lo)
  <2>1. lo \in Nat /\ u \in Nat /\ \A v \in S : v \in Nat
    BY UidsAreNaturals DEF Newest
  <2>2. \A v \in S : v > u => v > lo
    BY <2>1
  <2> QED BY <2>2
<1>3. Cardinality(Above(u)) <= Cardinality(Above(lo))
  BY <1>1, <1>2, FS_Subset
<1>4. Cardinality(Above(u)) \in Nat /\ Cardinality(Above(lo)) \in Nat
  BY <1>1, FS_CardinalityType
<1>5. Cardinality(Above(lo)) < n
  BY DEF Newest
<1>6. Cardinality(Above(u)) < n
  BY <1>3, <1>4, <1>5
<1> QED BY <1>6 DEF Newest

\* slice(0, limit): whatever lies below one of the oldest is one of them.
LEMMA OldestAreClosed ==
  ASSUME NEW S \in SUBSET Uid, NEW n \in Nat, NEW hi \in Oldest(S, n), NEW u \in S, u <= hi
  PROVE  u \in Oldest(S, n)
<1> DEFINE Below(x) == {v \in S : v < x}
<1>1. IsFiniteSet(Below(hi)) /\ IsFiniteSet(Below(u))
  <2>1. Below(hi) \in SUBSET Uid /\ Below(u) \in SUBSET Uid
    OBVIOUS
  <2> HIDE DEF Below
  <2> QED BY <2>1, UidsAreFinite, FS_Subset
<1>2. Below(u) \subseteq Below(hi)
  <2>1. hi \in Nat /\ u \in Nat /\ \A v \in S : v \in Nat
    BY UidsAreNaturals DEF Oldest
  <2>2. \A v \in S : v < u => v < hi
    BY <2>1
  <2> QED BY <2>2
<1>3. Cardinality(Below(u)) <= Cardinality(Below(hi))
  BY <1>1, <1>2, FS_Subset
<1>4. Cardinality(Below(u)) \in Nat /\ Cardinality(Below(hi)) \in Nat
  BY <1>1, FS_CardinalityType
<1>5. Cardinality(Below(hi)) < n
  BY DEF Oldest
<1>6. Cardinality(Below(u)) < n
  BY <1>3, <1>4, <1>5
<1> QED BY <1>6 DEF Oldest

\* An empty slice means an empty list: the newest UID of all is in every slice.
LEMMA NewestOfSome ==
  ASSUME NEW S \in SUBSET Uid, S # {}, NEW n \in Nat \ {0}
  PROVE  Newest(S, n) # {}
<1> DEFINE Bounds == {m \in Nat : \A v \in S : v <= m}
           top == Lowest(Bounds)
<1>0. \A v \in S : v \in Nat /\ v > 0 /\ v <= MaxUid
  BY BoundsAssumption DEF Uid
<1>1. Bounds \in SUBSET Nat /\ MaxUid \in Bounds
  BY <1>0, BoundsAssumption
<1>2. top \in Bounds /\ \A m \in Bounds : top <= m
  <2> HIDE DEF Bounds
  <2> QED BY <1>1, LowestIsLeast
<1> HIDE DEF top
<1>3. top \in S
  <2> SUFFICES ASSUME top \notin S PROVE FALSE
    OBVIOUS
  <2>1. \A v \in S : v <= top - 1
    BY <1>0, <1>2
  <2>2. top - 1 \in Nat
    BY <1>0, <1>2
  <2>3. top - 1 \in Bounds
    BY <2>1, <2>2
  <2> QED BY <1>2, <2>3
<1>4. {v \in S : v > top} = {}
  BY <1>0, <1>2
<1>5. Cardinality({v \in S : v > top}) < n
  BY <1>4, FS_EmptySet
<1> QED BY <1>3, <1>5 DEF Newest

-----------------------------------------------------------------------------
(* Nothing is missing between two messages of the mirror *)

\* The environments in which it holds: of the nine hazards only a new UIDVALIDITY
\* and a folder missing from one LIST, besides the crashes, errors, expunges and
\* removals that are always possible.  So no SEARCH is answered with false, no lease
\* runs out under its holder, nobody pages, reconnects or asks for a walk before the
\* first sync, and nothing vanishes within a session or between the halves of a
\* removal: each of those alone opens a gap.
Steady == Hazards \subseteq {"uidvalidity", "relist"}

\* The states NoGap speaks of: the mirror is of the present UIDVALIDITY.
Tracked == Expected = epoch /\ ~skipped

\* The history cursor as a set: no element while the walk has not started.
Mark == {cursor.backfilledUid} \ {NotStarted}

\* Whatever the folder has between two of the points is saved.
Covers(folder, points, saved) ==
  \A u \in folder : \A lo, hi \in points : lo <= u /\ u <= hi => u \in saved

UpTo(points, n) == \A u \in points : u < n

\* UIDs are given out in ascending order and never again.
UidsGiven == UpTo(server, nextUid) /\ UpTo(removing, nextUid) /\ removing \cap server = {}

\* A folder that was never synced has no cursor and no sync knows a row of it.
Untouched ==
  Expected = 0 => /\ Mark = {}
                  /\ sync.pc \in {"fetch", "apply"} => sync.known = {}

\* The rows a sync has read are still those of the mirror, less removed ones.
SyncCovers ==
  sync.pc \in {"fetch", "apply"} /\ Tracked =>
    /\ Local \subseteq sync.known
    /\ UpTo(sync.known, nextUid)
    /\ Covers(server, sync.known \cup Mark, Local)

\* What the answer leaves out is newer than all it lists and all that is known.
Considered(r) == IF r.reset THEN {} ELSE sync.known
AnswerCovers ==
  sync.pc = "apply" /\ sync.result.uidValidity = epoch =>
    LET r == sync.result IN
      /\ UpTo(r.serverUids, nextUid)
      /\ r.messages = SelectMetadataUids(r.serverUids, Considered(r), SyncLimit)
      /\ \A u \in server \ r.serverUids :
           /\ UpTo(r.serverUids, u)
           /\ ~r.reset /\ ~skipped => UpTo(sync.known \cup Mark, u)

\* The walk extends the covered part downwards from where it read it begins.
ReadCovers ==
  backfill.pc = "fetch" /\ Tracked =>
    IF backfill.before = NoUid THEN Local = {} /\ Mark = {}
    ELSE /\ Mark \subseteq {backfill.before}
         /\ backfill.before < nextUid
         /\ Covers(server, Local \cup {backfill.before}, Local)
FetchCovers ==
  backfill.pc = "save" /\ Tracked =>
    /\ UpTo(backfill.batch, nextUid)
    /\ Covers(server, Local \cup backfill.batch \cup Mark, Local \cup backfill.batch)
    /\ backfill.batch = {} => Covers(server, Local \cup {Complete}, Local)
SaveCovers ==
  backfill.pc = "cursor" /\ Tracked =>
    /\ UpTo(backfill.batch, nextUid)
    /\ Covers(server, Local \cup backfill.batch, Local)

\* NoGap with the cursor itself as one of the points.
MirrorCovers ==
  Tracked => UpTo(Local \cup Mark, nextUid) /\ Covers(server, Local \cup Mark, Local)

GapInv == /\ UidsGiven /\ Untouched /\ SyncCovers /\ AnswerCovers
          /\ ReadCovers /\ FetchCovers /\ SaveCovers /\ MirrorCovers

LEMMA GapInit == Init => GapInv
<1> SUFFICES ASSUME Init PROVE GapInv
  OBVIOUS
<1>1. Local = {} /\ Mark = {}
  BY DEF Init, Local, Mark, Absent
<1>2. UpTo(server, nextUid)
  <2>1. PICK n \in 0..MaxUid : server = 1..n /\ nextUid = n + 1
    BY DEF Init
  <2> QED BY <2>1, BoundsAssumption DEF UpTo
<1>3. sync.pc = "idle" /\ backfill.pc = "idle" /\ removing = {}
  BY DEF Init, SyncIdle, BackfillIdle
<1>4. UidsGiven
  BY <1>2, <1>3 DEF UidsGiven, UpTo
<1>5. Untouched /\ SyncCovers /\ AnswerCovers
  BY <1>1, <1>3 DEF Untouched, SyncCovers, AnswerCovers
<1>6. ReadCovers /\ FetchCovers /\ SaveCovers
  BY <1>3 DEF ReadCovers, FetchCovers, SaveCovers
<1>7. MirrorCovers
  BY <1>1 DEF MirrorCovers, Covers, UpTo
<1> QED BY <1>4, <1>5, <1>6, <1>7 DEF GapInv

\* Fewer messages, fewer points or more rows: still covered.
LEMMA CoversLess ==
  ASSUME NEW F, NEW P, NEW S, Covers(F, P, S),
         NEW G, G \subseteq F, NEW Q, Q \subseteq P, NEW T, \A u \in G : u \in S => u \in T
  PROVE  Covers(G, Q, T)
BY DEF Covers

\* A message newer than every point is between no two of them.
LEMMA CoversNewer ==
  ASSUME NEW F, NEW P, P \subseteq Nat, NEW S, Covers(F, P, S),
         NEW n \in Nat, UpTo(P, n)
  PROVE  Covers(F \cup {n}, P, S)
<1> SUFFICES ASSUME NEW lo \in P, NEW hi \in P, lo <= n, n <= hi PROVE FALSE
  BY DEF Covers
<1>1. hi \in Nat /\ hi < n
  BY DEF UpTo
<1> QED BY <1>1

LEMMA PointsAreNaturals ==
  ASSUME TypeOK
  PROVE  /\ server \subseteq Uid /\ Local \subseteq Uid /\ Mark \subseteq Nat
         /\ sync.known \subseteq Uid /\ backfill.batch \subseteq Uid
         /\ sync.result.serverUids \subseteq Uid /\ sync.result.messages \subseteq Uid
         /\ backfill.before \in Nat /\ nextUid \in Nat /\ Complete \in Nat
         /\ Uid \subseteq Nat
<1>1. Uid \subseteq Nat /\ Complete \in Nat /\ NoUid \in Nat
  BY UidsAreNaturals DEF Complete, NoUid
<1>2. server \subseteq Uid /\ Local \subseteq Uid
  BY DEF TypeOK, Local
<1>3. nextUid \in Nat
  BY BoundsAssumption DEF TypeOK
<1>4. Mark \subseteq Nat
  BY <1>1 DEF TypeOK, Mark
<1>5. /\ sync.known \subseteq Uid /\ sync.result.serverUids \subseteq Uid
      /\ sync.result.messages \subseteq Uid
  BY DEF TypeOK, SyncType
<1>6. backfill.batch \subseteq Uid /\ backfill.before \in Nat
  BY <1>1 DEF TypeOK, BackfillType
<1> QED BY <1>1, <1>2, <1>3, <1>4, <1>5, <1>6

\* A step that at most removes messages, their rows and the cursor, and at
\* most ends a session: all it leaves is still covered.
LEMMA GapLess ==
  ASSUME TypeOK, GapInv,
         Expected' = Expected, epoch' = epoch, skipped' = skipped, nextUid' = nextUid,
         server' \subseteq server, UpTo(removing', nextUid), removing' \cap server' = {},
         Mark' \subseteq Mark, Local' \subseteq Local,
         \A u \in server' : u \in Local => u \in Local',
         sync' = sync \/ sync'.pc \notin {"fetch", "apply"},
         backfill' = backfill \/ backfill'.pc \notin {"fetch", "save", "cursor"}
  PROVE  GapInv'
<1>t. Tracked' = Tracked
  BY DEF Tracked
<1>1. UidsGiven'
  BY DEF GapInv, UidsGiven, UpTo
<1>2. Untouched'
  BY DEF GapInv, Untouched
<1>3. SyncCovers'
  <2> SUFFICES ASSUME sync' = sync, sync.pc \in {"fetch", "apply"}, Tracked
               PROVE  /\ Local' \subseteq sync.known
                      /\ UpTo(sync.known, nextUid)
                      /\ Covers(server', sync.known \cup Mark', Local')
    BY <1>t DEF SyncCovers
  <2>1. /\ Local \subseteq sync.known /\ UpTo(sync.known, nextUid)
        /\ Covers(server, sync.known \cup Mark, Local)
    BY DEF GapInv, SyncCovers
  <2>2. Covers(server', sync.known \cup Mark', Local')
    BY <2>1, CoversLess
  <2> QED BY <2>1, <2>2
<1>4. AnswerCovers'
  <2> SUFFICES ASSUME sync' = sync, sync.pc = "apply", sync.result.uidValidity = epoch
               PROVE  AnswerCovers'
    BY DEF AnswerCovers
  <2>1. AnswerCovers
    BY DEF GapInv
  <2>2. \A u : UpTo(sync.known \cup Mark, u) => UpTo(sync.known \cup Mark', u)
    BY DEF UpTo
  <2> QED BY <2>1, <2>2 DEF AnswerCovers, Considered
<1>5. ReadCovers'
  <2> SUFFICES ASSUME backfill' = backfill, backfill.pc = "fetch", Tracked
               PROVE  ReadCovers'
    BY <1>t DEF ReadCovers
  <2>1. ReadCovers
    BY DEF GapInv
  <2>2. CASE backfill.before = NoUid
    <3>1. Local' = {} /\ Mark' = {}
      BY <2>1, <2>2 DEF ReadCovers
    <3> QED BY <2>2, <3>1 DEF ReadCovers
  <2>3. CASE backfill.before # NoUid
    <3>1. /\ Mark \subseteq {backfill.before} /\ backfill.before < nextUid
          /\ Covers(server, Local \cup {backfill.before}, Local)
      BY <2>1, <2>3 DEF ReadCovers
    <3>2. Covers(server', Local' \cup {backfill.before}, Local')
      BY <3>1, CoversLess
    <3> QED BY <2>3, <3>1, <3>2 DEF ReadCovers
  <2> QED BY <2>2, <2>3
<1>6. FetchCovers'
  <2> SUFFICES ASSUME backfill' = backfill, backfill.pc = "save", Tracked
               PROVE  FetchCovers'
    BY <1>t DEF FetchCovers
  <2> DEFINE b == backfill.batch
  <2>1. /\ UpTo(b, nextUid)
        /\ Covers(server, Local \cup b \cup Mark, Local \cup b)
        /\ b = {} => Covers(server, Local \cup {Complete}, Local)
    BY DEF GapInv, FetchCovers
  <2> HIDE DEF b
  <2>2. Covers(server', Local' \cup b \cup Mark', Local' \cup b)
    BY <2>1, CoversLess
  <2>3. b = {} => Covers(server', Local' \cup {Complete}, Local')
    BY <2>1, CoversLess
  <2> QED BY <2>1, <2>2, <2>3 DEF FetchCovers, b
<1>7. SaveCovers'
  <2> SUFFICES ASSUME backfill' = backfill, backfill.pc = "cursor", Tracked
               PROVE  SaveCovers'
    BY <1>t DEF SaveCovers
  <2>1. /\ UpTo(backfill.batch, nextUid)
        /\ Covers(server, Local \cup backfill.batch, Local)
    BY DEF GapInv, SaveCovers
  <2>2. Covers(server', Local' \cup backfill.batch, Local')
    BY <2>1, CoversLess
  <2> QED BY <2>1, <2>2 DEF SaveCovers
<1>8. MirrorCovers'
  <2> SUFFICES ASSUME Tracked
               PROVE  UpTo(Local' \cup Mark', nextUid) /\ Covers(server', Local' \cup Mark', Local')
    BY <1>t DEF MirrorCovers
  <2>1. UpTo(Local \cup Mark, nextUid) /\ Covers(server, Local \cup Mark, Local)
    BY DEF GapInv, MirrorCovers
  <2>2. Covers(server', Local' \cup Mark', Local')
    BY <2>1, CoversLess
  <2> QED BY <2>1, <2>2 DEF UpTo
<1> QED BY <1>1, <1>2, <1>3, <1>4, <1>5, <1>6, <1>7, <1>8 DEF GapInv

\* Deliver: the new message has the highest UID there has ever been.
LEMMA GapDeliver ==
  ASSUME TypeOK, ResetInv, GapInv, Deliver
  PROVE  GapInv'
<1> USE DEF db
<1>d. /\ server' = server \cup {nextUid} /\ nextUid' = nextUid + 1
      /\ nextUid \in Nat
      /\ UNCHANGED <<epoch, rows, cursor, mailboxState, sync, backfill, removing, skipped>>
  BY PointsAreNaturals DEF Deliver
<1>n. \A P : P \subseteq Nat /\ UpTo(P, nextUid) => UpTo(P, nextUid')
  BY <1>d DEF UpTo
<1>c. \A P, S : P \subseteq Nat /\ UpTo(P, nextUid) /\ Covers(server, P, S) => Covers(server', P, S)
  BY <1>d, CoversNewer
<1>t. Tracked' = Tracked /\ Local' = Local /\ Mark' = Mark /\ Expected' = Expected
  BY <1>d DEF Tracked, Local, Mark, Expected
<1>p. /\ server \subseteq Nat /\ Local \subseteq Nat /\ Mark \subseteq Nat
      /\ sync.known \subseteq Nat /\ backfill.batch \subseteq Nat /\ Complete \in Nat
      /\ sync.result.serverUids \subseteq Nat /\ removing \subseteq Nat /\ backfill.before \in Nat
  BY PointsAreNaturals DEF TypeOK
<1>m. Tracked => UpTo(Local, nextUid) /\ UpTo(Mark, nextUid) /\ Covers(server, Local \cup Mark, Local)
  BY DEF GapInv, MirrorCovers, UpTo
<1>1. UidsGiven'
  BY <1>d, <1>p, <1>n DEF GapInv, UidsGiven, UpTo
<1>2. Untouched'
  BY <1>d, <1>t DEF GapInv, Untouched
<1>3. SyncCovers'
  <2> SUFFICES ASSUME sync.pc \in {"fetch", "apply"}, Tracked
               PROVE  /\ Local \subseteq sync.known
                      /\ UpTo(sync.known, nextUid')
                      /\ Covers(server', sync.known \cup Mark, Local)
    BY <1>d, <1>t DEF SyncCovers
  <2>1. /\ Local \subseteq sync.known /\ UpTo(sync.known, nextUid)
        /\ Covers(server, sync.known \cup Mark, Local)
    BY DEF GapInv, SyncCovers
  <2>2. UpTo(sync.known \cup Mark, nextUid) /\ sync.known \cup Mark \subseteq Nat
    BY <2>1, <1>m, <1>p DEF UpTo
  <2> QED BY <2>1, <2>2, <1>c, <1>n, <1>p
<1>4. AnswerCovers'
  <2> DEFINE r == sync.result
  <2> SUFFICES ASSUME sync.pc = "apply", r.uidValidity = epoch
               PROVE  /\ UpTo(r.serverUids, nextUid')
                      /\ \A u \in server' \ r.serverUids :
                           /\ UpTo(r.serverUids, u)
                           /\ ~r.reset /\ ~skipped => UpTo(sync.known \cup Mark, u)
    BY <1>d, <1>t DEF GapInv, AnswerCovers, Considered
  <2>1. /\ UpTo(r.serverUids, nextUid)
        /\ \A u \in server \ r.serverUids :
             /\ UpTo(r.serverUids, u)
             /\ ~r.reset /\ ~skipped => UpTo(sync.known \cup Mark, u)
    BY DEF GapInv, AnswerCovers
  <2>2. r.serverUids \subseteq Nat
    BY <1>p
  <2>3. ASSUME ~r.reset, ~skipped PROVE UpTo(sync.known \cup Mark, nextUid)
    <3>1. Expected \in {0, epoch}
      BY <2>3 DEF ResetInv, SyncKnows
    <3>2. CASE Expected = 0
      BY <3>2 DEF GapInv, Untouched, UpTo
    <3>3. CASE Expected = epoch
      <4>1. Tracked
        BY <2>3, <3>3 DEF Tracked
      <4>2. UpTo(sync.known, nextUid)
        BY <4>1 DEF GapInv, SyncCovers
      <4> QED BY <4>1, <4>2, <1>m DEF UpTo
    <3> QED BY <3>1, <3>2, <3>3
  <2> HIDE DEF r
  <2> QED BY <2>1, <2>2, <2>3, <1>d, <1>n
<1>5. ReadCovers'
  <2> SUFFICES ASSUME backfill.pc = "fetch", Tracked, backfill.before # NoUid
               PROVE  /\ backfill.before < nextUid'
                      /\ Covers(server', Local \cup {backfill.before}, Local)
    BY <1>d, <1>t DEF GapInv, ReadCovers
  <2>1. /\ backfill.before < nextUid /\ Covers(server, Local \cup {backfill.before}, Local)
    BY DEF GapInv, ReadCovers
  <2>2. /\ UpTo(Local \cup {backfill.before}, nextUid)
        /\ Local \cup {backfill.before} \subseteq Nat
    BY <2>1, <1>m, <1>p DEF UpTo
  <2>3. backfill.before < nextUid'
    BY <2>1, <1>d, <1>p
  <2> QED BY <2>1, <2>2, <2>3, <1>c
<1>6. FetchCovers'
  <2> DEFINE b == backfill.batch
  <2> SUFFICES ASSUME backfill.pc = "save", Tracked
               PROVE  /\ UpTo(b, nextUid')
                      /\ Covers(server', Local \cup b \cup Mark, Local \cup b)
                      /\ b = {} => Covers(server', Local \cup {Complete}, Local)
    BY <1>d, <1>t DEF FetchCovers
  <2>1. /\ UpTo(b, nextUid)
        /\ Covers(server, Local \cup b \cup Mark, Local \cup b)
        /\ b = {} => Covers(server, Local \cup {Complete}, Local)
    BY DEF GapInv, FetchCovers
  <2>2. b \subseteq Nat
    BY <1>p
  <2>3. Complete < nextUid
    BY DEF TypeOK, Complete
  <2> HIDE DEF b
  <2>4. /\ UpTo(Local \cup b \cup Mark, nextUid) /\ Local \cup b \cup Mark \subseteq Nat
        /\ UpTo(Local \cup {Complete}, nextUid) /\ Local \cup {Complete} \subseteq Nat
    BY <2>1, <2>2, <2>3, <1>m, <1>p DEF UpTo
  <2> QED BY <2>1, <2>2, <2>4, <1>c, <1>n
<1>7. SaveCovers'
  <2> SUFFICES ASSUME backfill.pc = "cursor", Tracked
               PROVE  /\ UpTo(backfill.batch, nextUid')
                      /\ Covers(server', Local \cup backfill.batch, Local)
    BY <1>d, <1>t DEF SaveCovers
  <2>1. /\ UpTo(backfill.batch, nextUid)
        /\ Covers(server, Local \cup backfill.batch, Local)
    BY DEF GapInv, SaveCovers
  <2>2. UpTo(Local \cup backfill.batch, nextUid) /\ Local \cup backfill.batch \subseteq Nat
    BY <2>1, <1>m, <1>p DEF UpTo
  <2> QED BY <2>1, <2>2, <1>c, <1>n, <1>p
<1>8. MirrorCovers'
  <2> SUFFICES ASSUME Tracked
               PROVE  UpTo(Local \cup Mark, nextUid') /\ Covers(server', Local \cup Mark, Local)
    BY <1>d, <1>t DEF MirrorCovers
  <2>1. UpTo(Local \cup Mark, nextUid) /\ Local \cup Mark \subseteq Nat
    BY <1>m, <1>p DEF UpTo
  <2> QED BY <2>1, <1>m, <1>c, <1>n
<1> QED BY <1>1, <1>2, <1>3, <1>4, <1>5, <1>6, <1>7, <1>8 DEF GapInv

\* A new UIDVALIDITY: nothing is claimed until a sync has recorded it.
LEMMA GapRenumber ==
  ASSUME Steady, TypeOK, ResetInv, GapInv, ChangeUidValidity
  PROVE  GapInv'
<1> USE DEF db
<1>1. /\ epoch' = epoch + 1 /\ epoch \in Nat /\ removing' = {}
      /\ UNCHANGED <<rows, cursor, mailboxState, sync, backfill, skipped>>
  BY UidsAreNaturals DEF ChangeUidValidity, Steady, TypeOK
<1>2. Expected' = Expected /\ Mark' = Mark
  BY <1>1 DEF Expected, Mark
<1>3. ~Tracked'
  <2>0. Expected \in Epoch \cup {0} /\ Epoch \subseteq Nat
    BY ExpectedType, UidsAreNaturals
  <2>1. Expected \in Nat
    BY <2>0
  <2>2. Expected <= epoch
    BY DEF ResetInv
  <2> QED BY <1>1, <1>2, <2>1, <2>2 DEF Tracked
<1>4. sync'.pc = "apply" => sync'.result.uidValidity # epoch'
  <2>1. sync.pc = "apply" => sync.result.uidValidity \in Nat /\ sync.result.uidValidity <= epoch
    BY UidsAreNaturals DEF ResetInv, SyncKnows
  <2> QED BY <1>1, <2>1
<1>5. UidsGiven'
  <2>1. PICK n \in 0..MaxUid : server' = 1..n /\ nextUid' = n + 1
    BY DEF ChangeUidValidity
  <2> QED BY <1>1, <2>1, BoundsAssumption DEF UidsGiven, UpTo
<1>6. Untouched'
  BY <1>1, <1>2 DEF GapInv, Untouched
<1> QED BY <1>3, <1>4, <1>5, <1>6
  DEF GapInv, SyncCovers, AnswerCovers, ReadCovers, FetchCovers, SaveCovers, MirrorCovers

\* In a steady environment SEARCH answers with the folder and nothing vanishes.
LEMMA SteadyAnswers ==
  ASSUME Steady
  PROVE  SearchResults = {server} /\ Vanishing = {{}} /\ Sheltered
BY DEF Steady, SearchResults, Vanishing, Sheltered

\* A step that changes no more than the batch in flight keeps the rest.
LEMMA GapOfBatch ==
  ASSUME GapInv, UNCHANGED <<server, nextUid, epoch, rows, cursor, mailboxState, sync,
                             removing, skipped>>
  PROVE  /\ Tracked' = Tracked /\ Local' = Local /\ Mark' = Mark
         /\ UidsGiven' /\ Untouched' /\ SyncCovers' /\ AnswerCovers' /\ MirrorCovers'
<1>1. Tracked' = Tracked /\ Local' = Local /\ Mark' = Mark /\ Expected' = Expected
  BY DEF Tracked, Local, Mark, Expected
<1> QED BY <1>1
  DEF GapInv, UidsGiven, Untouched, SyncCovers, AnswerCovers, Considered, MirrorCovers

LEMMA GapBatchRead ==
  ASSUME TypeOK, GapInv, BatchRead
  PROVE  GapInv'
<1> USE DEF imap, db
<1>1. /\ Tracked' = Tracked /\ Local' = Local /\ Mark' = Mark
      /\ UidsGiven' /\ Untouched' /\ SyncCovers' /\ AnswerCovers' /\ MirrorCovers'
  BY GapOfBatch DEF BatchRead
<1>2. /\ backfill'.pc = "fetch" /\ backfill'.before = BeforeUid
      /\ server' = server /\ nextUid' = nextUid
      /\ cursor.backfilledUid # Complete
  BY DEF BatchRead, TypeOK, BackfillType
<1>p. /\ Local \in SUBSET Nat /\ Mark \subseteq Nat /\ server \subseteq Nat
      /\ Uid \subseteq Nat \ {0}
      /\ \A u \in Local : u # NoUid
  BY PointsAreNaturals, UidsAreNaturals DEF NoUid
<1>c. cursor.backfilledUid \in Uid \/ cursor.backfilledUid = NotStarted
  BY <1>2 DEF TypeOK
<1>3. ASSUME Tracked
      PROVE  IF BeforeUid = NoUid THEN Local = {} /\ Mark = {}
             ELSE /\ Mark \subseteq {BeforeUid} /\ BeforeUid < nextUid
                  /\ Covers(server, Local \cup {BeforeUid}, Local)
  <2>1. UpTo(Local \cup Mark, nextUid) /\ Covers(server, Local \cup Mark, Local)
    BY <1>3 DEF GapInv, MirrorCovers
  <2>2. CASE cursor.backfilledUid \in Uid
    <3>1. BeforeUid = cursor.backfilledUid /\ Mark = {BeforeUid} /\ BeforeUid # NoUid
      BY <2>2, <1>p DEF BeforeUid, Mark, NotStarted, NoUid
    <3> QED BY <2>1, <3>1 DEF UpTo
  <2>3. CASE cursor.backfilledUid = NotStarted /\ Local = {}
    BY <2>3 DEF BeforeUid, Mark, NotStarted, NoUid
  <2>4. CASE cursor.backfilledUid = NotStarted /\ Local # {}
    <3>1. BeforeUid = Lowest(Local) /\ Mark = {}
      BY <2>4 DEF BeforeUid, Mark, NotStarted
    <3>2. BeforeUid \in Local
      BY <2>4, <3>1, <1>p, LowestIsLeast
    <3> QED BY <2>1, <3>1, <3>2, <1>p DEF UpTo, Covers
  <2> QED BY <1>c, <2>2, <2>3, <2>4
<1>4. ReadCovers'
  BY <1>1, <1>2, <1>3 DEF ReadCovers
<1>5. FetchCovers' /\ SaveCovers'
  BY <1>2 DEF FetchCovers, SaveCovers
<1> QED BY <1>1, <1>4, <1>5 DEF GapInv

LEMMA GapBatchFetch ==
  ASSUME Steady, TypeOK, GapInv, BatchFetch
  PROVE  GapInv'
<1> USE DEF imap, db
<1> DEFINE S == {u \in server : backfill.before = NoUid \/ u < backfill.before}
           b == Newest(S, BatchLimit)
<1>1. /\ backfill.pc = "fetch" /\ backfill'.pc = "save" /\ backfill'.batch = b
      /\ UNCHANGED <<server, nextUid, epoch, rows, cursor, mailboxState, sync, removing, skipped>>
  <2>1. PICK found \in {server}, gone \in {{}} :
          /\ Vanish(gone)
          /\ backfill' = [backfill EXCEPT
               !.pc = "save", !.epoch = epoch,
               !.batch = SelectBackfillUids(found, backfill.before, BatchLimit) \ gone]
    BY SteadyAnswers DEF BatchFetch
  <2>2. found = server /\ gone = {}
    BY <2>1
  <2>3. backfill'.pc = "save" /\ backfill'.batch = b
    BY <2>1, <2>2 DEF SelectBackfillUids, TypeOK, BackfillType
  <2>4. server' = server
    BY <2>1, <2>2 DEF Vanish
  <2> QED BY <2>3, <2>4 DEF BatchFetch
<1>2. /\ Tracked' = Tracked /\ Local' = Local /\ Mark' = Mark
      /\ UidsGiven' /\ Untouched' /\ SyncCovers' /\ AnswerCovers' /\ MirrorCovers'
  BY <1>1, GapOfBatch
<1>p. /\ Local \subseteq Nat /\ Mark \subseteq Nat /\ server \subseteq Uid
      /\ Uid \subseteq Nat \ {0} /\ backfill.before \in Nat
      /\ S \in SUBSET Uid /\ b \subseteq S /\ BatchLimit \in Nat \ {0}
  BY PointsAreNaturals, UidsAreNaturals, BoundsAssumption DEF Newest
<1>s. \A u \in server : u \in S <=> backfill.before = NoUid \/ u < backfill.before
  OBVIOUS
<1>u. \A lo \in b, u \in S : lo <= u => u \in b
  BY <1>p, NewestAreClosed
<1>e. b = {} => S = {}
  BY <1>p, NewestOfSome
<1> HIDE DEF S, b
<1>3. ASSUME Tracked
      PROVE  /\ UpTo(b, nextUid)
             /\ Covers(server, Local \cup b \cup Mark, Local \cup b)
             /\ b = {} => Covers(server, Local \cup {Complete}, Local)
  <2>1. UpTo(b, nextUid)
    BY <1>p, <1>s DEF GapInv, UidsGiven, UpTo, S
  <2>2. CASE backfill.before = NoUid
    <3>1. Local = {} /\ Mark = {}
      BY <1>1, <1>3, <2>2 DEF GapInv, ReadCovers
    <3>2. \A u \in server : u \in S /\ u # Complete /\ u > 0
      BY <1>p, <1>s, <2>2 DEF Complete
    <3>3. Covers(server, b, b)
      BY <1>u, <3>2 DEF Covers
    <3>4. Covers(server, {Complete}, {})
      BY <1>p, <3>2 DEF Covers, Complete
    <3> QED BY <2>1, <3>1, <3>3, <3>4
  <2>3. CASE backfill.before # NoUid
    <3> DEFINE before == backfill.before
    <3>1. Mark \subseteq {before} /\ Covers(server, Local \cup {before}, Local)
      BY <1>1, <1>3, <2>3 DEF GapInv, ReadCovers
    <3>2. \A u \in server : u \in S <=> u < before
      BY <1>s, <2>3
    <3>3. \A x \in b : x \in Nat /\ x < before
      BY <1>p, <3>2 DEF S
    <3>4. before \in Nat
      BY <1>p
    <3> HIDE DEF before
    <3>5. ASSUME NEW u \in server, NEW lo \in Local \cup b \cup {before},
                 NEW hi \in Local \cup b \cup {before}, lo <= u, u <= hi
          PROVE  u \in Local \cup b
      <4>0. u \in Nat /\ lo \in Nat /\ hi \in Nat
        BY <1>p, <3>3, <3>4
      <4>1. CASE u < before
        <5>1. CASE lo \in b
          BY <4>1, <5>1, <3>2, <1>u, <3>5
        <5>2. CASE lo \in Local
          <6>1. u <= before
            BY <4>0, <4>1, <3>4
          <6> QED BY <5>2, <6>1, <3>1, <3>5 DEF Covers
        <5>3. lo # before
          BY <4>0, <4>1, <3>4, <3>5
        <5> QED BY <5>1, <5>2, <5>3
      <4>2. CASE before <= u
        <5>1. hi \notin b
          BY <4>0, <4>2, <3>3, <3>4, <3>5
        <5> QED BY <4>2, <5>1, <3>1, <3>5 DEF Covers
      <4> QED BY <4>0, <4>1, <4>2, <3>4
    <3>6. Covers(server, Local \cup b \cup Mark, Local \cup b)
      BY <3>1, <3>5 DEF Covers
    <3>7. ASSUME b = {} PROVE Covers(server, Local \cup {Complete}, Local)
      <4> SUFFICES ASSUME NEW u \in server, NEW hi \in Local \cup {Complete}, u <= hi
                   PROVE  u \in Local
        BY DEF Covers
      <4>1. u \in Nat \ {0} /\ hi \in Nat /\ ~(u < before)
        BY <3>7, <1>e, <1>p, <3>2 DEF Complete
      <4>2. before <= u /\ hi \in Local
        BY <4>1, <3>4 DEF Complete
      <4> QED BY <4>2, <3>1 DEF Covers
    <3> QED BY <2>1, <3>6, <3>7
  <2> QED BY <2>2, <2>3
<1>4. FetchCovers'
  BY <1>1, <1>2, <1>3 DEF FetchCovers
<1>5. ReadCovers' /\ SaveCovers'
  BY <1>1 DEF ReadCovers, SaveCovers
<1> QED BY <1>2, <1>4, <1>5 DEF GapInv

\* BatchEmpty: there is nothing below the covered part, so zero covers it too.
LEMMA GapBatchEmpty ==
  ASSUME TypeOK, ResetInv, GapInv, BatchEmpty
  PROVE  GapInv'
<1> USE DEF imap, db
<1>1. /\ backfill.pc = "save" /\ backfill.batch = {} /\ backfill'.pc = "done"
      /\ cursor' = [cursor EXCEPT !.backfilledUid = Complete]
      /\ UNCHANGED <<server, nextUid, epoch, rows, mailboxState, sync, removing, skipped>>
  BY DEF BatchEmpty, BackfillIdle
<1>2. Expected' = Expected /\ Local' = Local /\ Tracked' = Tracked
  BY <1>1 DEF TypeOK, Expected, Local, Tracked
<1>3. Mark' = {Complete}
  BY <1>1 DEF TypeOK, Mark, Complete, NotStarted
<1>4. Expected # 0 /\ sync.pc \notin {"fetch", "apply"}
  BY <1>1 DEF ResetInv, Virgin, Locked
<1>5. ASSUME Tracked PROVE UpTo(Local \cup {Complete}, nextUid) /\ Covers(server, Local \cup {Complete}, Local)
  <2>1. UpTo(Local, nextUid) /\ Covers(server, Local \cup {Complete}, Local)
    BY <1>1, <1>5 DEF GapInv, FetchCovers, MirrorCovers, UpTo
  <2>2. Complete < nextUid
    BY DEF TypeOK, Complete
  <2> QED BY <2>1, <2>2 DEF UpTo
<1>6. MirrorCovers'
  BY <1>1, <1>2, <1>3, <1>5 DEF MirrorCovers
<1>7. UidsGiven' /\ Untouched'
  BY <1>1, <1>2, <1>4 DEF GapInv, UidsGiven, Untouched
<1> QED BY <1>1, <1>4, <1>6, <1>7
  DEF GapInv, SyncCovers, AnswerCovers, ReadCovers, FetchCovers, SaveCovers

\* BatchSave: the fetched batch joins the rows.
LEMMA GapBatchSave ==
  ASSUME TypeOK, ResetInv, GapInv, BatchSave
  PROVE  GapInv'
<1> USE DEF imap, db
<1> DEFINE b == backfill.batch
<1>1. /\ backfill.pc = "save" /\ backfill'.pc = "cursor" /\ backfill'.batch = b
      /\ rows' = Saved(b, backfill.epoch)
      /\ UNCHANGED <<server, nextUid, epoch, cursor, mailboxState, sync, removing, skipped>>
  BY DEF BatchSave, TypeOK, BackfillType
<1>2. Expected' = Expected /\ Tracked' = Tracked /\ Mark' = Mark
  BY <1>1 DEF Expected, Tracked, Mark
<1>3. backfill.epoch # Absent /\ b \subseteq Uid
  BY <1>1, PointsAreNaturals, UidsAreNaturals DEF ResetInv, BatchKnows, Absent
<1>4. Local' = Local \cup b
  BY <1>1, <1>3 DEF Saved, Local
<1>5. Expected # 0 /\ sync.pc \notin {"fetch", "apply"}
  BY <1>1 DEF ResetInv, Virgin, Locked
<1> HIDE DEF b
<1>6. ASSUME Tracked
      PROVE  /\ UpTo(b, nextUid) /\ UpTo(Local \cup b \cup Mark, nextUid)
             /\ Covers(server, Local \cup b \cup Mark, Local \cup b)
  BY <1>1, <1>6 DEF GapInv, FetchCovers, MirrorCovers, UpTo, b
<1>7. MirrorCovers'
  BY <1>1, <1>2, <1>4, <1>6 DEF MirrorCovers
<1>8. SaveCovers'
  <2> SUFFICES ASSUME Tracked
               PROVE  UpTo(b, nextUid) /\ Covers(server, (Local \cup b) \cup b, Local \cup b)
    BY <1>1, <1>2, <1>4 DEF SaveCovers
  <2> QED BY <1>6, CoversLess
<1>9. UidsGiven' /\ Untouched'
  BY <1>1, <1>2, <1>5 DEF GapInv, UidsGiven, Untouched
<1> QED BY <1>1, <1>5, <1>7, <1>8, <1>9
  DEF GapInv, SyncCovers, AnswerCovers, ReadCovers, FetchCovers

\* BatchCursor: the cursor moves to the lowest message of the batch.
LEMMA GapBatchCursor ==
  ASSUME TypeInv, ResetInv, GapInv, BatchCursor
  PROVE  GapInv'
<1> USE DEF imap, db
<1> DEFINE b == backfill.batch
<1>1. /\ backfill.pc = "cursor" /\ backfill'.pc = "wait" /\ b # {}
      /\ cursor' = [cursor EXCEPT !.backfilledUid = Lowest(b)]
      /\ UNCHANGED <<server, nextUid, epoch, rows, mailboxState, sync, removing, skipped>>
  BY DEF BatchCursor, BackfillIdle, TypeInv
<1>2. Expected' = Expected /\ Local' = Local /\ Tracked' = Tracked
  BY <1>1 DEF TypeInv, TypeOK, Expected, Local, Tracked
<1>3. Mark' \subseteq b
  <2>1. b \in SUBSET Nat
    BY PointsAreNaturals DEF TypeInv
  <2>2. Lowest(b) \in b
    BY <1>1, <2>1, LowestIsLeast
  <2>3. cursor'.backfilledUid = Lowest(b)
    BY <1>1 DEF TypeInv, TypeOK
  <2> QED BY <2>2, <2>3 DEF Mark
<1>4. Expected # 0 /\ sync.pc \notin {"fetch", "apply"}
  BY <1>1 DEF ResetInv, Virgin, Locked
<1> HIDE DEF b
<1>5. MirrorCovers'
  <2> SUFFICES ASSUME Tracked
               PROVE  UpTo(Local \cup Mark', nextUid) /\ Covers(server, Local \cup Mark', Local)
    BY <1>1, <1>2 DEF MirrorCovers
  <2>1. /\ UpTo(b, nextUid) /\ UpTo(Local, nextUid)
        /\ Covers(server, Local \cup b, Local)
    BY <1>1 DEF GapInv, SaveCovers, MirrorCovers, UpTo, b
  <2>2. Local \cup Mark' \subseteq Local \cup b
    BY <1>3
  <2> QED BY <2>1, <2>2, CoversLess DEF UpTo
<1>6. UidsGiven' /\ Untouched'
  BY <1>1, <1>2, <1>4 DEF GapInv, UidsGiven, Untouched
<1> QED BY <1>1, <1>4, <1>5, <1>6
  DEF GapInv, SyncCovers, AnswerCovers, ReadCovers, FetchCovers, SaveCovers

\* A step that changes no more than the sync in flight keeps the rest.
LEMMA GapOfSync ==
  ASSUME GapInv, UNCHANGED <<server, nextUid, epoch, rows, cursor, mailboxState, backfill,
                             removing, skipped>>
  PROVE  /\ Tracked' = Tracked /\ Local' = Local /\ Mark' = Mark /\ Expected' = Expected
         /\ UidsGiven' /\ ReadCovers' /\ FetchCovers' /\ SaveCovers' /\ MirrorCovers'
<1>1. Tracked' = Tracked /\ Local' = Local /\ Mark' = Mark /\ Expected' = Expected
  BY DEF Tracked, Local, Mark, Expected
<1> QED BY <1>1
  DEF GapInv, UidsGiven, ReadCovers, FetchCovers, SaveCovers, MirrorCovers

LEMMA GapSyncRead ==
  ASSUME TypeOK, ResetInv, GapInv, SyncRead
  PROVE  GapInv'
<1> USE DEF imap, db
<1>1. /\ Tracked' = Tracked /\ Local' = Local /\ Mark' = Mark /\ Expected' = Expected
      /\ UidsGiven' /\ ReadCovers' /\ FetchCovers' /\ SaveCovers' /\ MirrorCovers'
  BY GapOfSync DEF SyncRead
<1>2. sync' = [SyncIdle EXCEPT !.pc = "fetch", !.known = Local, !.expected = Expected]
  BY DEF SyncRead
<1>3. sync'.pc = "fetch" /\ sync'.known = Local
  BY <1>2 DEF SyncIdle
<1>4. server' = server /\ nextUid' = nextUid
  BY DEF SyncRead
<1>5. Untouched'
  BY <1>1, <1>3 DEF GapInv, Untouched, ResetInv, Virgin
<1>6. SyncCovers'
  BY <1>1, <1>3, <1>4 DEF GapInv, SyncCovers, MirrorCovers, UpTo
<1> QED BY <1>1, <1>3, <1>5, <1>6 DEF GapInv, AnswerCovers

LEMMA GapSyncFetch ==
  ASSUME Steady, TypeOK, ResetInv, GapInv, SyncFetch
  PROVE  GapInv'
<1> USE DEF imap, db
<1> DEFINE reset == sync.expected # 0 /\ sync.expected # epoch
           known == IF reset THEN {} ELSE sync.known
<1>1. /\ server' = server /\ sync.pc = "fetch"
      /\ sync' = [sync EXCEPT
           !.pc = "apply",
           !.result = [uidValidity |-> epoch, reset |-> reset, serverUids |-> server,
                       messages |-> SelectMetadataUids(server, known, SyncLimit)]]
  <2>1. PICK found \in {server}, gone \in {{}} :
          /\ Vanish(gone)
          /\ sync' = [sync EXCEPT
               !.pc = "apply",
               !.result = [uidValidity |-> epoch, reset |-> reset, serverUids |-> found,
                           messages |-> SelectMetadataUids(found, known, SyncLimit) \ gone]]
    BY SteadyAnswers DEF SyncFetch
  <2>2. found = server /\ gone = {}
    BY <2>1
  <2> QED BY <2>1, <2>2 DEF SyncFetch, Vanish
<1> HIDE DEF reset
<1>2. /\ sync'.pc = "apply" /\ sync'.known = sync.known /\ sync'.result.reset = reset
      /\ sync'.result.serverUids = server
      /\ sync'.result.messages = SelectMetadataUids(server, known, SyncLimit)
  BY <1>1 DEF TypeOK, SyncType
<1>3. /\ Tracked' = Tracked /\ Local' = Local /\ Mark' = Mark /\ Expected' = Expected
      /\ UidsGiven' /\ ReadCovers' /\ FetchCovers' /\ SaveCovers' /\ MirrorCovers'
  BY <1>1, GapOfSync DEF SyncFetch
<1>4. Untouched'
  BY <1>1, <1>2, <1>3 DEF GapInv, Untouched
<1>5. SyncCovers'
  BY <1>1, <1>2, <1>3 DEF SyncFetch, GapInv, SyncCovers
<1>6. AnswerCovers'
  BY <1>1, <1>2 DEF SyncFetch, GapInv, UidsGiven, AnswerCovers, Considered
<1> QED BY <1>3, <1>4, <1>5, <1>6 DEF GapInv

\* applyChanges of a folder with no rows: its newest page, and of what is above
\* the cursor everything.
LEMMA PageCovers ==
  ASSUME NEW F \in SUBSET Uid, NEW G \in SUBSET Uid, NEW M \in SUBSET Nat,
         \A u \in G \ F : UpTo(F \cup M, u),
         \A m \in M, u \in F : m <= u => u \in Newest(F, SyncLimit)
  PROVE  Covers(G, Newest(F, SyncLimit) \cup M, Newest(F, SyncLimit))
<1> DEFINE page1 == Newest(F, SyncLimit)
<1>1. page1 \subseteq F /\ SyncLimit \in Nat /\ F \subseteq Nat /\ G \subseteq Nat
  BY BoundsAssumption, UidsAreNaturals DEF Newest
<1>2. \A lo \in page1, u \in F : lo <= u => u \in page1
  BY <1>1, NewestAreClosed
<1> HIDE DEF page1
<1> SUFFICES ASSUME NEW u \in G, NEW lo \in page1 \cup M, NEW hi \in page1 \cup M, lo <= u, u <= hi
             PROVE  u \in page1
  BY DEF Covers, page1
<1>3. u \in F
  <2> SUFFICES ASSUME u \notin F PROVE FALSE
    OBVIOUS
  <2>1. hi < u /\ hi \in Nat /\ u \in Nat
    BY <1>1 DEF UpTo
  <2> QED BY <2>1
<1> QED BY <1>2, <1>3 DEF page1

\* applyChanges of a folder with rows: what the sync knew, and the oldest of
\* what is above all of it.
LEMMA NextPageCovers ==
  ASSUME NEW F \in SUBSET Uid, NEW G \in SUBSET Uid, NEW M \in SUBSET Nat,
         NEW K \in SUBSET Uid, K # {}, NEW L, L \subseteq K,
         \A u \in G \ F : UpTo(F, u) /\ UpTo(K \cup M, u),
         Covers(G, K \cup M, L)
  PROVE  LET new == Oldest({u \in F : \A k \in K : u > k}, SyncLimit)
         IN  Covers(G, (L \cap F) \cup new \cup M, (L \cap F) \cup new)
<1> DEFINE above == {u \in F : \A k \in K : u > k}
           new == Oldest(above, SyncLimit)
<1>1. above \in SUBSET Uid /\ new \subseteq above /\ SyncLimit \in Nat /\ Uid \subseteq Nat
  BY BoundsAssumption, UidsAreNaturals DEF Oldest
<1>2. \A hi \in new, u \in above : u <= hi => u \in new
  BY <1>1, OldestAreClosed
<1>3. \A u \in F : (\A k \in K : u > k) <=> u \in above
  OBVIOUS
<1>4. \A u \in new : u \in F /\ \A k \in K : u > k
  BY <1>1
<1> HIDE DEF above, new
<1> SUFFICES ASSUME NEW u \in G, NEW lo \in (L \cap F) \cup new \cup M,
                    NEW hi \in (L \cap F) \cup new \cup M, lo <= u, u <= hi
             PROVE  u \in (L \cap F) \cup new
  BY DEF Covers, above, new
<1>5. u \in Nat /\ lo \in Nat /\ hi \in Nat /\ K \subseteq Nat /\ M \subseteq Nat /\ F \subseteq Nat
  BY <1>1
<1>6. u \in F
  <2> SUFFICES ASSUME u \notin F PROVE FALSE
    OBVIOUS
  <2>1. UpTo(F, u) /\ UpTo(K \cup M, u)
    OBVIOUS
  <2>2. hi \in F \/ hi \in K \cup M
    BY <1>4
  <2>3. hi < u
    BY <2>1, <2>2 DEF UpTo
  <2> QED BY <2>3, <1>5
<1>7. CASE \E k \in K : u <= k
  <2>1. PICK k \in K : u <= k
    BY <1>7
  <2>2. lo \notin new
    BY <1>4, <1>5, <2>1
  <2>3. lo \in K \cup M
    BY <2>2
  <2>4. u \in L
    BY <2>1, <2>3 DEF Covers
  <2> QED BY <1>6, <2>4
<1>8. CASE \A k \in K : u > k
  <2>1. u \in above
    BY <1>3, <1>6, <1>8
  <2>2. CASE hi \in new
    BY <1>2, <2>1, <2>2
  <2>3. CASE hi \in L
    BY <2>3, <1>8, <1>5
  <2>4. CASE hi \in M
    <3>1. PICK k \in K : TRUE
      OBVIOUS
    <3>2. k <= u
      BY <3>1, <1>5, <1>8
    <3>3. u \in L
      BY <2>4, <3>1, <3>2 DEF Covers
    <3> QED BY <1>6, <3>3
  <2> QED BY <2>2, <2>3, <2>4
<1>9. \A k \in K : u <= k \/ u > k
  BY <1>5
<1> QED BY <1>7, <1>8, <1>9

LEMMA GapSyncApply ==
  ASSUME TypeOK, ResetInv, GapInv, SyncApply
  PROVE  GapInv'
<1> USE DEF imap, db
<1> DEFINE r == sync.result
           F == r.serverUids
           known == sync.known
<1>1. /\ sync.pc = "apply" /\ sync'.pc = "enqueue"
      /\ rows' = Applied(r) /\ mailboxState' = r.uidValidity
      /\ cursor' = [uidValidity |-> r.uidValidity,
                    backfilledUid |-> IF r.reset THEN NotStarted ELSE cursor.backfilledUid]
      /\ skipped' = IF r.reset THEN FALSE ELSE skipped \/ Skips(r)
      /\ UNCHANGED <<server, nextUid, epoch, backfill, removing>>
  BY DEF SyncApply, SyncIdle
<1>2. /\ r.uidValidity \in Epoch /\ r.uidValidity # 0 /\ r.uidValidity # Absent
      /\ r.reset <=> Expected \notin {0, r.uidValidity}
      /\ r.reset \in BOOLEAN
  BY <1>1, UidsAreNaturals DEF ResetInv, SyncKnows, Absent, TypeOK, SyncType
<1>3. Expected' = r.uidValidity
  BY <1>1, <1>2 DEF Expected
<1>4. backfill'.pc \notin {"fetch", "save", "cursor"}
  BY <1>1 DEF ResetInv, Locked
<1>5. Mark' = IF r.reset THEN {} ELSE Mark
  BY <1>1 DEF Mark
<1>6. UidsGiven' /\ Untouched'
  BY <1>1, <1>2, <1>3 DEF GapInv, UidsGiven, Untouched
<1>p. /\ server \in SUBSET Uid /\ F \in SUBSET Uid /\ known \in SUBSET Uid
      /\ r.messages \subseteq Uid /\ Local \subseteq Uid /\ Mark \in SUBSET Nat
      /\ Uid \subseteq Nat
  BY PointsAreNaturals
<1>7. ASSUME Tracked'
      PROVE  UpTo(Local' \cup Mark', nextUid) /\ Covers(server, Local' \cup Mark', Local')
  <2>1. r.uidValidity = epoch /\ ~skipped'
    BY <1>1, <1>3, <1>7 DEF Tracked
  <2>2. /\ UpTo(F, nextUid)
        /\ r.messages = SelectMetadataUids(F, Considered(r), SyncLimit)
        /\ \A u \in server \ F : /\ UpTo(F, u)
                                 /\ ~r.reset /\ ~skipped => UpTo(known \cup Mark, u)
    BY <1>1, <2>1 DEF GapInv, AnswerCovers
  <2>3. r.messages \subseteq F
    BY <2>2, SelectedAreOnServer
  <2>4. Local' = (IF r.reset THEN {} ELSE Local \cap F) \cup r.messages
    BY <1>1, <1>2, <1>p, <2>3 DEF Applied, Local
  <2>5. ~r.reset => ~skipped /\ ~Skips(r)
    BY <1>1, <2>1
  <2> HIDE DEF r, F, known
  <2>6. CASE r.reset
    <3>1. Local' = Newest(F, SyncLimit) /\ Mark' = {}
      BY <2>2, <2>4, <2>6, <1>5 DEF Considered, SelectMetadataUids
    <3>2. Covers(server, Newest(F, SyncLimit) \cup {}, Newest(F, SyncLimit))
      <4>1. \A u \in server \ F : UpTo(F \cup {}, u)
        BY <2>2
      <4> QED BY <4>1, <1>p, PageCovers
    <3>3. UpTo(Local', nextUid)
      BY <2>2, <2>3, <2>4, <2>6 DEF UpTo
    <3> QED BY <3>1, <3>2, <3>3
  <2>7. CASE ~r.reset /\ known = {}
    <3>1. Local = {} /\ UpTo(Mark, nextUid)
      <4>1. CASE Expected = 0
        BY <4>1 DEF ResetInv, Virgin, GapInv, Untouched, UpTo
      <4>2. CASE Expected = epoch
        <5>1. Tracked
          BY <4>2, <2>5, <2>7 DEF Tracked
        <5> QED BY <5>1, <1>1, <2>7 DEF GapInv, SyncCovers, MirrorCovers, UpTo, known
      <4> QED BY <4>1, <4>2, <1>2, <2>1, <2>7
    <3>2. r.messages = Newest(F, SyncLimit) /\ Local' = Newest(F, SyncLimit) /\ Mark' = Mark
      BY <3>1, <2>2, <2>4, <2>7, <1>5 DEF Considered, SelectMetadataUids, known
    <3>3. \A m \in Mark, u \in F : m <= u => u \in Newest(F, SyncLimit)
      <4> SUFFICES ASSUME NEW u \in F, Mark # {}, cursor.backfilledUid <= u
                   PROVE  u \in r.messages
        BY <3>2 DEF Mark
      <4>1. cursor.backfilledUid # NotStarted /\ cursor.backfilledUid \in Nat
        BY <1>p DEF Mark
      <4>2. u \in Nat /\ u >= cursor.backfilledUid
        BY <4>1, <1>p
      <4> QED BY <4>1, <4>2, <2>5, <2>7 DEF Skips, known, F
    <3>4. \A u \in server \ F : UpTo(F \cup Mark, u)
      BY <2>2, <2>5, <2>7 DEF UpTo
    <3>5. Covers(server, Newest(F, SyncLimit) \cup Mark, Newest(F, SyncLimit))
      BY <3>3, <3>4, <1>p, PageCovers
    <3>6. UpTo(Local' \cup Mark', nextUid)
      BY <3>1, <3>2, <2>2, <2>3 DEF UpTo
    <3> QED BY <3>2, <3>5, <3>6
  <2>8. CASE ~r.reset /\ known # {}
    <3>1. Tracked
      BY <1>1, <1>2, <2>1, <2>5, <2>8 DEF GapInv, Untouched, Tracked, known
    <3>2. Local \subseteq known /\ UpTo(known, nextUid) /\ Covers(server, known \cup Mark, Local)
      BY <3>1, <1>1 DEF GapInv, SyncCovers, known
    <3>3. UpTo(Local \cup Mark, nextUid)
      BY <3>1 DEF GapInv, MirrorCovers
    <3> DEFINE new == Oldest({u \in F : \A k \in known : u > k}, SyncLimit)
    <3>4. r.messages = new /\ Mark' = Mark /\ Local' = (Local \cap F) \cup new
      BY <2>2, <2>4, <2>8, <1>5 DEF Considered, SelectMetadataUids, known
    <3>5. \A u \in server \ F : UpTo(F, u) /\ UpTo(known \cup Mark, u)
      BY <2>2, <2>5, <2>8
    <3>6. Covers(server, (Local \cap F) \cup new \cup Mark, (Local \cap F) \cup new)
      BY <3>2, <3>5, <2>8, <1>p, NextPageCovers
    <3>7. UpTo(Local' \cup Mark', nextUid)
      BY <3>3, <3>4, <2>2, <2>3 DEF UpTo
    <3> QED BY <3>4, <3>6, <3>7
  <2> QED BY <2>6, <2>7, <2>8, <1>2
<1>8. MirrorCovers'
  BY <1>1, <1>7 DEF MirrorCovers
<1> QED BY <1>1, <1>4, <1>6, <1>8
  DEF GapInv, SyncCovers, AnswerCovers, ReadCovers, FetchCovers, SaveCovers

LEMMA GapStep ==
  ASSUME Steady, TypeInv, ResetInv, GapInv, [Next]_vars
  PROVE  GapInv'
<1> USE DEF imap, db
<1>t. TypeOK
  BY DEF TypeInv
<1>u. UpTo(removing, nextUid) /\ removing \cap server = {}
  BY DEF GapInv, UidsGiven
<1>stutter. CASE UNCHANGED vars
  <2>1. Expected' = Expected /\ Local' = Local /\ Mark' = Mark
    BY <1>stutter DEF vars, Expected, Local, Mark
  <2> QED BY <2>1, <1>stutter, <1>t, <1>u, GapLess DEF vars
<1>server. CASE Server
  <2>1. CASE Deliver
    BY <2>1, <1>t, GapDeliver
  <2>2. ASSUME NEW u \in Uid, Expunge(u) PROVE GapInv'
    <3>1. Expected' = Expected /\ Local' = Local /\ Mark' = Mark /\ server' \subseteq server
      BY <2>2 DEF Expunge, Expected, Local, Mark
    <3> QED BY <2>2, <3>1, <1>t, <1>u, GapLess DEF Expunge
  <2>3. CASE ChangeUidValidity
    BY <2>3, <1>t, GapRenumber
  <2> QED BY <1>server, <2>1, <2>2, <2>3 DEF Server
<1>sync. CASE SyncStep
  <2>1. CASE SyncRead
    BY <2>1, <1>t, GapSyncRead
  <2>2. CASE SyncFetch
    BY <2>2, <1>t, GapSyncFetch
  <2>3. CASE SyncApply
    BY <2>3, <1>t, GapSyncApply
  <2>4. CASE SyncEnqueue
    <3>1. Expected' = Expected /\ Local' = Local /\ Mark' = Mark /\ sync'.pc = "idle"
      BY <2>4 DEF SyncEnqueue, SyncIdle, Expected, Local, Mark
    <3> QED BY <2>4, <3>1, <1>t, <1>u, GapLess DEF SyncEnqueue
  <2>5. CASE SyncFails
    <3>1. Expected' = Expected /\ Local' = Local /\ Mark' = Mark /\ sync'.pc = "idle"
      BY <2>5 DEF SyncFails, SyncIdle, Expected, Local, Mark
    <3> QED BY <2>5, <3>1, <1>t, <1>u, GapLess DEF SyncFails
  <2> QED BY <1>sync, <2>1, <2>2, <2>3, <2>4, <2>5 DEF SyncStep
<1>walk. CASE WalkStep
  <2>1. CASE RequestBackfill
    <3>1. Expected' = Expected /\ Local' = Local /\ Mark' = Mark
      BY <2>1 DEF RequestBackfill, Expected, Local, Mark
    <3> QED BY <2>1, <3>1, <1>t, <1>u, GapLess DEF RequestBackfill
  <2>2. CASE BackfillStart
    <3>1. Expected' = Expected /\ Local' = Local /\ backfill'.pc = "wait"
      BY <2>2, <1>t DEF BackfillStart, BackfillIdle, TypeOK, Expected, Local
    <3>2. Mark' \subseteq Mark
      BY <2>2, <1>t DEF BackfillStart, TypeOK, Mark
    <3> QED BY <2>2, <3>1, <3>2, <1>t, <1>u, GapLess DEF BackfillStart
  <2>3. CASE BatchDone
    <3>1. Expected' = Expected /\ Local' = Local /\ Mark' = Mark /\ backfill'.pc = "done"
      BY <2>3 DEF BatchDone, BackfillIdle, Expected, Local, Mark
    <3> QED BY <2>3, <3>1, <1>t, <1>u, GapLess DEF BatchDone
  <2>4. CASE BatchRead
    BY <2>4, <1>t, GapBatchRead
  <2>5. CASE BatchFetch
    BY <2>5, <1>t, GapBatchFetch
  <2>6. CASE BatchEmpty
    BY <2>6, <1>t, GapBatchEmpty
  <2>7. CASE BatchSave
    BY <2>7, <1>t, GapBatchSave
  <2>8. CASE BatchCursor
    BY <2>8, GapBatchCursor
  <2>9. CASE WalkDone
    <3>1. Expected' = Expected /\ Local' = Local /\ Mark' = Mark /\ backfill'.pc = "idle"
      BY <2>9 DEF WalkDone, BackfillIdle, Expected, Local, Mark
    <3> QED BY <2>9, <3>1, <1>t, <1>u, GapLess DEF WalkDone
  <2>10. CASE BackfillFails
    <3>1. Expected' = Expected /\ Local' = Local /\ Mark' = Mark /\ backfill'.pc = "idle"
      BY <2>10 DEF BackfillFails, BackfillIdle, Expected, Local, Mark
    <3> QED BY <2>10, <3>1, <1>t, <1>u, GapLess DEF BackfillFails
  <2> QED BY <1>walk, <2>1, <2>2, <2>3, <2>4, <2>5, <2>6, <2>7, <2>8, <2>9, <2>10 DEF WalkStep
<1>api. CASE ApiStep
  <2>1. CASE PageFetch
    BY <2>1 DEF PageFetch, Steady
  <2>2. CASE PageSave
    BY <2>2 DEF PageSave, ResetInv
  <2>3. CASE Reconnect
    BY <2>3 DEF Reconnect, Steady
  <2>4. CASE Relist
    <3>1. Mark' \subseteq Mark /\ Local' = Local
      BY <2>4 DEF Relist, Mark, Local
    <3>2. Expected' = Expected
      BY <2>4 DEF Relist, ResetInv, Recorded, Expected
    <3> QED BY <2>4, <3>1, <3>2, <1>t, <1>u, GapLess DEF Relist
  <2>5. ASSUME NEW u \in Uid, RemoveOnServer(u) PROVE GapInv'
    <3>1. Expected' = Expected /\ Local' = Local /\ Mark' = Mark /\ server' \subseteq server
      BY <2>5 DEF RemoveOnServer, Expected, Local, Mark
    <3>2. UpTo(removing', nextUid) /\ removing' \cap server' = {}
      BY <2>5, <1>u DEF RemoveOnServer, Steady, UpTo
    <3> QED BY <2>5, <3>1, <3>2, <1>t, GapLess DEF RemoveOnServer
  <2>6. ASSUME NEW u \in Uid, RemoveLocal(u) PROVE GapInv'
    <3>1. Expected' = Expected /\ Mark' = Mark
      BY <2>6 DEF RemoveLocal, Expected, Mark
    <3>2. Local' = Local \ {u}
      BY <2>6, <1>t DEF RemoveLocal, TypeOK, Local
    <3>3. u \notin server
      BY <2>6, <1>u DEF RemoveLocal
    <3>4. UpTo(removing', nextUid) /\ removing' \cap server = {}
      BY <2>6, <1>u DEF RemoveLocal, UpTo
    <3> QED BY <2>6, <3>1, <3>2, <3>3, <3>4, <1>t, GapLess DEF RemoveLocal
  <2>7. ASSUME NEW u \in Uid, RemoveFails(u) PROVE GapInv'
    <3>1. Expected' = Expected /\ Local' = Local /\ Mark' = Mark
      BY <2>7 DEF RemoveFails, Expected, Local, Mark
    <3>2. UpTo(removing', nextUid) /\ removing' \cap server = {}
      BY <2>7, <1>u DEF RemoveFails, UpTo
    <3> QED BY <2>7, <3>1, <3>2, <1>t, GapLess DEF RemoveFails
  <2> QED BY <1>api, <2>1, <2>2, <2>3, <2>4, <2>5, <2>6, <2>7 DEF ApiStep
<1>process. CASE Process
  <2>1. CASE Crash
    <3>1. /\ Expected' = Expected /\ Local' = Local /\ Mark' = Mark
          /\ sync'.pc = "idle" /\ backfill'.pc = "idle"
      BY <2>1 DEF Crash, SyncIdle, BackfillIdle, Expected, Local, Mark
    <3> QED BY <2>1, <3>1, <1>t, <1>u, GapLess DEF Crash
  <2>2. CASE OrphanExpires
    <3>1. Expected' = Expected /\ Local' = Local /\ Mark' = Mark
      BY <2>2 DEF OrphanExpires, Expected, Local, Mark
    <3> QED BY <2>2, <3>1, <1>t, <1>u, GapLess DEF OrphanExpires
  <2>3. CASE LeaseExpires
    BY <2>3 DEF LeaseExpires, Steady
  <2> QED BY <1>process, <2>1, <2>2, <2>3 DEF Process
<1> QED BY <1>stutter, <1>server, <1>sync, <1>walk, <1>api, <1>process DEF Next

\* No hole in the mirror of a Steady folder: however syncs, batches of the history
\* walk, removals, crashes and a folder that is renumbered or not listed follow each
\* other, a message on the server between the oldest part the walk has reached and
\* the newest local message is in the database, as long as no sync of a folder whose
\* rows were all gone has skipped messages since its last reset (applyChanges,
\* backfillOneBatch).
THEOREM NothingMissingBetween ==
  ASSUME Steady
  PROVE  Spec => []NoGap
<1>1. TypeInv /\ ResetInv /\ GapInv /\ [Next]_vars => (TypeInv /\ ResetInv /\ GapInv)'
  BY SteadyAnswers, TypeStep, ResetStep, GapStep
<1>2. TypeInv /\ GapInv => NoGap
  <2> SUFFICES ASSUME TypeOK, GapInv, Tracked, NEW u \in server, NEW v \in Local, u < v,
                      Behind(u) \/ \E w \in Local : w < u
               PROVE  u \in Local
    BY DEF TypeInv, NoGap, Tracked
  <2>1. Covers(server, Local \cup Mark, Local)
    BY DEF GapInv, MirrorCovers
  <2>2. u \in Nat /\ v \in Nat /\ Local \subseteq Nat /\ Mark \subseteq Nat
    BY PointsAreNaturals
  <2>3. u <= v
    BY <2>2
  <2>4. \E lo \in Local \cup Mark : lo <= u
    <3>1. CASE \E w \in Local : w < u
      BY <3>1, <2>2
    <3>2. CASE Behind(u)
      <4>1. cursor.backfilledUid \in Mark /\ u >= cursor.backfilledUid
        BY <3>2 DEF Behind, Mark
      <4>2. cursor.backfilledUid <= u
        BY <4>1, <2>2
      <4> QED BY <4>1, <4>2
    <3> QED BY <3>1, <3>2
  <2> QED BY <2>1, <2>3, <2>4 DEF Covers
<1> QED BY <1>1, <1>2, TypeInit, ResetInit, GapInit, PTL DEF Spec

=============================================================================
