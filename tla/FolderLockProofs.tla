-------------------------- MODULE FolderLockProofs --------------------------
(***************************************************************************)
(* What holds of the lease locks for every set of jobs and keys and for    *)
(* every choice of times.                                                  *)
(***************************************************************************)
EXTENDS FolderLock, TLAPS

(***************************************************************************)
(* The inductive invariant.  A job in a section has a token of its own,    *)
(* and as long as its lease has not run out the key carries that token and *)
(* its time-to-live is what is left of the lease.                          *)
(***************************************************************************)
OwnTokens ==
  /\ \A j \in SyncJob : InAccount(j) => accountToken[j] \in Token
  /\ \A j \in Job : InFolder(j) => folderToken[j] \in Token
  /\ \A i, j \in Job : accountToken[i] = accountToken[j] /\ i # j
                         => accountToken[i] = NoToken
  /\ \A i, j \in Job : folderToken[i] = folderToken[j] /\ i # j
                         => folderToken[i] = NoToken

AccountLease(j) ==
  InAccount(j) /\ held[j].account < LOCK_TTL =>
    /\ owner[accountOf[j]] = accountToken[j]
    /\ ttl[accountOf[j]] = LOCK_TTL - held[j].account

FolderLease(j) ==
  InFolder(j) /\ held[j].folder < LOCK_TTL =>
    /\ owner[folderOf[j]] = folderToken[j]
    /\ ttl[folderOf[j]] = LOCK_TTL - held[j].folder

IInv ==
  /\ TypeOK
  /\ OwnTokens
  /\ \A j \in SyncJob : AccountLease(j)
  /\ \A j \in Job : FolderLease(j)

-----------------------------------------------------------------------------

(* Every variable keeps its type, whatever the times are. *)
THEOREM TypeCorrect == Spec => []TypeOK
<1> USE KeysAssumption, JobsAssumption, TokenAssumption, TimesAssumption
    DEF TypeOK, Job, Key, InAccount, InFolder
<1>1. Init => TypeOK
  BY DEF Init
<1>2. TypeOK /\ [Next]_vars => TypeOK'
  <2> SUFFICES ASSUME TypeOK, [Next]_vars PROVE TypeOK'
    OBVIOUS
  <2>1. CASE Tick
    BY <2>1 DEF Tick, Prompt
  <2>2. ASSUME NEW j \in Job, Step(j) PROVE TypeOK'
    <3>1. CASE Start(j)
      BY <3>1 DEF Start
    <3>2. ASSUME NEW t \in Token, j \in SyncJob, AcquireAccount(j, t) PROVE TypeOK'
      BY <3>2 DEF AcquireAccount, TryAcquire
    <3>3. ASSUME NEW t \in Token, AcquireFolder(j, t) PROVE TypeOK'
      BY <3>3 DEF AcquireFolder, TryAcquire
    <3>4. CASE GiveUp(j)
      BY <3>4 DEF GiveUp
    <3>5. CASE LeaveFolder(j)
      BY <3>5 DEF LeaveFolder, Release
    <3>6. CASE j \in SyncJob /\ LeaveAccount(j)
      BY <3>6 DEF LeaveAccount, Release
    <3>7. CASE Crash(j)
      BY <3>7 DEF Crash
    <3> QED
      BY <2>2, <3>1, <3>2, <3>3, <3>4, <3>5, <3>6, <3>7 DEF Step
  <2>3. CASE UNCHANGED vars
    BY <2>3 DEF vars
  <2> QED
    BY <2>1, <2>2, <2>3 DEF Next
<1> QED
  BY <1>1, <1>2, PTL DEF Spec

(* No step of any job disturbs the lease of another job. *)
LEMMA LeaseStep == IInv /\ TypeOK' /\ [Next]_vars => IInv'
<1> SUFFICES ASSUME IInv, TypeOK', [Next]_vars PROVE IInv'
  OBVIOUS
<1> USE KeysAssumption, JobsAssumption, TokenAssumption, TimesAssumption
    DEF IInv, Key, Job
<1>1. CASE Tick
  <2>1. OwnTokens'
    BY <1>1 DEF Tick, OwnTokens, InAccount, InFolder
  <2>2. ASSUME NEW j \in SyncJob PROVE AccountLease(j)'
    <3> SUFFICES ASSUME InAccount(j)', held[j].account' < LOCK_TTL
                 PROVE  /\ owner'[accountOf[j]] = accountToken'[j]
                        /\ ttl'[accountOf[j]] = LOCK_TTL - held'[j].account
      BY DEF AccountLease
    <3> DEFINE k == accountOf[j]
    <3>1. k \in Key /\ j \in Job
      BY <2>2
    <3>2. InAccount(j) /\ held'[j].account = held[j].account + 1
      BY <1>1, <3>1 DEF Tick, InAccount
    <3>3. held[j].account \in Nat /\ held[j].account < LOCK_TTL
      BY <3>1, <3>2 DEF TypeOK
    <3>4. owner[k] = accountToken[j] /\ ttl[k] = LOCK_TTL - held[j].account
      BY <2>2, <3>2, <3>3 DEF AccountLease
    <3>5. ttl[k] \in Nat /\ ttl[k] > 1
      BY <3>1, <3>2, <3>3, <3>4 DEF TypeOK
    <3>6. owner'[k] = owner[k] /\ ttl'[k] = ttl[k] - 1
      BY <1>1, <3>1, <3>5 DEF Tick
    <3> QED
      BY <1>1, <3>2, <3>3, <3>4, <3>6 DEF Tick
  <2>3. ASSUME NEW j \in Job PROVE FolderLease(j)'
    BY <1>1, <2>3 DEF Tick, FolderLease, InFolder, TypeOK
  <2> QED
    BY <2>1, <2>2, <2>3
<1>2. ASSUME NEW i \in Job, Step(i) PROVE IInv'
  <2>1. CASE Start(i)
    <3>1. OwnTokens'
      BY <2>1 DEF Start, OwnTokens, InAccount, InFolder, TypeOK
    <3>2. ASSUME NEW j \in SyncJob PROVE AccountLease(j)'
      BY <2>1, <3>2 DEF Start, AccountLease, InAccount, TypeOK
    <3>3. ASSUME NEW j \in Job PROVE FolderLease(j)'
      BY <2>1, <3>3 DEF Start, FolderLease, InFolder, TypeOK
    <3> QED
      BY <3>1, <3>2, <3>3
  <2>2. ASSUME NEW t \in Token, i \in SyncJob, AcquireAccount(i, t) PROVE IInv'
    <3>1. OwnTokens'
      BY <2>2 DEF AcquireAccount, TryAcquire, FreshToken, OwnTokens, InAccount, InFolder, TypeOK
    <3>2. ASSUME NEW j \in SyncJob PROVE AccountLease(j)'
      <4>1. CASE j = i
        BY <2>2, <4>1 DEF AcquireAccount, TryAcquire, AccountLease, TypeOK
      <4>2. CASE j # i
        BY <2>2, <4>2 DEF AcquireAccount, TryAcquire, AccountLease, OwnTokens, InAccount, TypeOK
      <4> QED
        BY <4>1, <4>2
    <3>3. ASSUME NEW j \in Job PROVE FolderLease(j)'
      BY <2>2, <3>3 DEF AcquireAccount, TryAcquire, FolderLease, InFolder, TypeOK
    <3> QED
      BY <3>1, <3>2, <3>3
  <2>3. ASSUME NEW t \in Token, AcquireFolder(i, t) PROVE IInv'
    <3>1. OwnTokens'
      BY <2>3 DEF AcquireFolder, TryAcquire, FreshToken, OwnTokens, InAccount, InFolder, TypeOK
    <3>2. ASSUME NEW j \in SyncJob PROVE AccountLease(j)'
      BY <2>3, <3>2 DEF AcquireFolder, TryAcquire, AccountLease, InAccount, TypeOK
    <3>3. ASSUME NEW j \in Job PROVE FolderLease(j)'
      <4>1. CASE j = i
        BY <2>3, <4>1 DEF AcquireFolder, TryAcquire, FolderLease, TypeOK
      <4>2. CASE j # i
        BY <2>3, <4>2 DEF AcquireFolder, TryAcquire, FolderLease, OwnTokens, InFolder, TypeOK
      <4> QED
        BY <4>1, <4>2
    <3> QED
      BY <3>1, <3>2, <3>3
  <2>4. CASE GiveUp(i)
    <3>1. OwnTokens'
      BY <2>4 DEF GiveUp, OwnTokens, InAccount, InFolder, TypeOK
    <3>2. ASSUME NEW j \in SyncJob PROVE AccountLease(j)'
      BY <2>4, <3>2 DEF GiveUp, AccountLease, InAccount, TypeOK
    <3>3. ASSUME NEW j \in Job PROVE FolderLease(j)'
      BY <2>4, <3>3 DEF GiveUp, FolderLease, InFolder, InAccount, TypeOK
    <3> QED
      BY <3>1, <3>2, <3>3
  <2>5. CASE LeaveFolder(i)
    <3>1. OwnTokens'
      BY <2>5 DEF LeaveFolder, OwnTokens, InAccount, InFolder, TypeOK
    <3>2. ASSUME NEW j \in SyncJob PROVE AccountLease(j)'
      BY <2>5, <3>2 DEF LeaveFolder, Release, AccountLease, InAccount, TypeOK
    <3>3. ASSUME NEW j \in Job PROVE FolderLease(j)'
      <4>1. CASE j = i
        BY <2>5, <4>1 DEF LeaveFolder, FolderLease, InFolder, TypeOK
      <4>2. ASSUME j # i, InFolder(j) PROVE folderToken[i] # folderToken[j]
        BY <2>5, <4>2 DEF LeaveFolder, OwnTokens, InFolder
      <4>3. CASE j # i
        BY <2>5, <4>2, <4>3 DEF LeaveFolder, Release, FolderLease, InFolder, TypeOK
      <4> QED
        BY <4>1, <4>3
    <3> QED
      BY <3>1, <3>2, <3>3
  <2>6. CASE i \in SyncJob /\ LeaveAccount(i)
    <3>1. OwnTokens'
      BY <2>6 DEF LeaveAccount, OwnTokens, InAccount, InFolder, TypeOK
    <3>2. ASSUME NEW j \in SyncJob PROVE AccountLease(j)'
      <4>1. CASE j = i
        BY <2>6, <4>1 DEF LeaveAccount, AccountLease, InAccount, TypeOK
      <4>2. ASSUME j # i, InAccount(j) PROVE accountToken[i] # accountToken[j]
        BY <2>6, <4>2 DEF LeaveAccount, OwnTokens, InAccount
      <4>3. CASE j # i
        BY <2>6, <4>2, <4>3 DEF LeaveAccount, Release, AccountLease, InAccount, TypeOK
      <4> QED
        BY <4>1, <4>3
    <3>3. ASSUME NEW j \in Job PROVE FolderLease(j)'
      BY <2>6, <3>3 DEF LeaveAccount, Release, FolderLease, InFolder, TypeOK
    <3> QED
      BY <3>1, <3>2, <3>3
  <2>7. CASE Crash(i)
    <3>1. OwnTokens'
      BY <2>7 DEF Crash, OwnTokens, InAccount, InFolder, TypeOK
    <3>2. ASSUME NEW j \in SyncJob PROVE AccountLease(j)'
      BY <2>7, <3>2 DEF Crash, AccountLease, InAccount, TypeOK
    <3>3. ASSUME NEW j \in Job PROVE FolderLease(j)'
      BY <2>7, <3>3 DEF Crash, FolderLease, InFolder, TypeOK
    <3> QED
      BY <3>1, <3>2, <3>3
  <2> QED
    BY <1>2, <2>1, <2>2, <2>3, <2>4, <2>5, <2>6, <2>7 DEF Step
<1>3. CASE UNCHANGED vars
  BY <1>3 DEF vars, TypeOK, OwnTokens, AccountLease, FolderLease, InAccount, InFolder
<1> QED
  BY <1>1, <1>2, <1>3 DEF Next

LEMMA Leases == Spec => []IInv
<1>1. Init => IInv
  BY KeysAssumption, JobsAssumption, TokenAssumption, TimesAssumption
     DEF Init, IInv, TypeOK, OwnTokens, AccountLease, FolderLease,
         InAccount, InFolder, Job, Key
<1>2. IInv /\ TypeOK' /\ [Next]_vars => IInv'
  BY LeaseStep
<1> QED
  BY <1>1, <1>2, TypeCorrect, PTL DEF Spec

(* Until its lease runs out a job is alone with its key: no straggler of an *)
(* expired lease can take the key from it or delete it.                     *)
THEOREM LeasesAreHonoured == Spec => []LeaseHonoured
<1>1. IInv => LeaseHonoured
  BY DEF IInv, LeaseHonoured, AccountLease, FolderLease
<1> QED
  BY <1>1, Leases, PTL

-----------------------------------------------------------------------------
(* Who enters finds the key free, so the lease of whoever is inside is over; *)
(* from then on both grow older together.                                    *)
Apart == FolderExclusion /\ AccountExclusion

LEMMA KeysOfLeases ==
  ASSUME IInv
  PROVE  /\ \A j \in SyncJob : InAccount(j) /\ owner[accountOf[j]] = NoToken
                                => held[j].account >= LOCK_TTL
         /\ \A j \in Job : InFolder(j) /\ owner[folderOf[j]] = NoToken
                            => held[j].folder >= LOCK_TTL
<1> USE JobsAssumption, TokenAssumption, TimesAssumption
<1>1. \A j \in Job : held[j].account \in Nat /\ held[j].folder \in Nat
  BY DEF IInv, TypeOK
<1> QED BY <1>1 DEF IInv, OwnTokens, AccountLease, FolderLease, Job

LEMMA ApartStep == IInv /\ Apart /\ [Next]_vars => Apart'
<1> SUFFICES ASSUME IInv, Apart, [Next]_vars PROVE Apart'
  OBVIOUS
<1> USE JobsAssumption, TimesAssumption
<1>h. \A j \in Job : held[j].account \in Nat /\ held[j].folder \in Nat
  BY DEF IInv, TypeOK
<1>t. pc \in [Job -> {"idle", "account", "folder", "section", "leaving"}] /\ SyncJob \subseteq Job
  BY DEF IInv, TypeOK, Job
\* A step after which nobody new is inside, and those inside have not been there less.
<1>1. ASSUME NEW n \in Nat,
             \A j \in Job : InFolder(j)' => InFolder(j) /\ held'[j].folder = held[j].folder + n,
             \A j \in SyncJob : InAccount(j)' => InAccount(j) /\ held'[j].account = held[j].account + n
      PROVE  Apart'
  <2>1. \A a, b \in Nat : LeaseApart(a, b) => LeaseApart(a + n, b + n)
    BY DEF LeaseApart
  <2> QED BY <1>1, <1>h, <1>t, <2>1 DEF Apart, FolderExclusion, AccountExclusion
<1>2. CASE Tick
  BY <1>1, <1>2, <1>t DEF Tick, InFolder, InAccount
<1>3. ASSUME NEW i \in Job, Step(i) PROVE Apart'
  <2>1. CASE Start(i) \/ GiveUp(i) \/ LeaveFolder(i) \/ (i \in SyncJob /\ LeaveAccount(i)) \/ Crash(i)
    <3>1. \A j \in Job : InFolder(j)' => InFolder(j) /\ held'[j].folder = held[j].folder + 0
      BY <1>h, <1>t, <2>1
         DEF Start, GiveUp, LeaveFolder, LeaveAccount, Crash, InFolder, InAccount, IInv, TypeOK
    <3>2. \A j \in SyncJob : InAccount(j)' => InAccount(j) /\ held'[j].account = held[j].account + 0
      BY <1>h, <1>t, <2>1
         DEF Start, GiveUp, LeaveFolder, LeaveAccount, Crash, InFolder, InAccount, IInv, TypeOK
    <3> QED BY <1>1, <3>1, <3>2
  <2>2. ASSUME NEW t \in Token, i \in SyncJob, AcquireAccount(i, t) PROVE Apart'
    <3>1. /\ \A j \in Job : (InFolder(j)' <=> InFolder(j)) /\ held'[j].folder = held[j].folder
          /\ \A j \in SyncJob \ {i} : (InAccount(j)' <=> InAccount(j)) /\ held'[j].account = held[j].account
          /\ held'[i].account = 0
      BY <1>t, <2>2 DEF AcquireAccount, InFolder, InAccount, IInv, TypeOK
    <3>2. ASSUME NEW j \in SyncJob \ {i}, InAccount(j)', accountOf[j] = accountOf[i]
          PROVE  LeaseApart(held'[j].account, held'[i].account) /\ LeaseApart(held'[i].account, held'[j].account)
      <4>1. held[j].account >= LOCK_TTL
        BY <2>2, <3>1, <3>2, KeysOfLeases DEF AcquireAccount, TryAcquire
      <4> QED BY <1>h, <1>t, <3>1, <3>2, <4>1 DEF LeaseApart
    <3>3. FolderExclusion'
      BY <3>1 DEF Apart, FolderExclusion
    <3>4. AccountExclusion'
      BY <3>1, <3>2 DEF Apart, AccountExclusion
    <3> QED BY <3>3, <3>4 DEF Apart
  <2>3. ASSUME NEW t \in Token, AcquireFolder(i, t) PROVE Apart'
    <3>1. /\ \A j \in Job \ {i} : (InFolder(j)' <=> InFolder(j)) /\ held'[j].folder = held[j].folder
          /\ held'[i].folder = 0
          /\ \A j \in SyncJob : (InAccount(j)' <=> InAccount(j)) /\ held'[j].account = held[j].account
      BY <1>t, <2>3 DEF AcquireFolder, InFolder, InAccount, IInv, TypeOK
    <3>2. ASSUME NEW j \in Job \ {i}, InFolder(j)', folderOf[j] = folderOf[i]
          PROVE  LeaseApart(held'[j].folder, held'[i].folder) /\ LeaseApart(held'[i].folder, held'[j].folder)
      <4>1. held[j].folder >= LOCK_TTL
        BY <2>3, <3>1, <3>2, KeysOfLeases DEF AcquireFolder, TryAcquire
      <4> QED BY <1>h, <3>1, <3>2, <4>1 DEF LeaseApart
    <3>3. FolderExclusion'
      BY <3>1, <3>2 DEF Apart, FolderExclusion
    <3>4. AccountExclusion'
      BY <3>1 DEF Apart, AccountExclusion
    <3> QED BY <3>3, <3>4 DEF Apart
  <2> QED
    BY <1>3, <2>1, <2>2, <2>3 DEF Step
<1>4. CASE UNCHANGED vars
  BY <1>4 DEF vars, Apart, FolderExclusion, AccountExclusion, InFolder, InAccount
<1> QED
  BY <1>2, <1>3, <1>4 DEF Next

LEMMA AlwaysApart == Spec => []Apart
<1>1. Init => Apart
  BY JobsAssumption DEF Init, Apart, FolderExclusion, AccountExclusion, InFolder, InAccount, Job
<1> QED
  BY <1>1, ApartStep, Leases, PTL DEF Spec

(* Two jobs that work on one folder entered it at least LOCK_TTL apart,    *)
(* whatever the times are: a sync and a backfill batch race only if the    *)
(* first of them has outlived the lease of mailbox-folder.lock.ts.         *)
THEOREM FoldersExclude == Spec => []FolderExclusion
<1>1. Apart => FolderExclusion
  BY DEF Apart
<1> QED
  BY <1>1, AlwaysApart, PTL

(* The same of two syncs of one account, whose lease also runs while they  *)
(* wait for their folder (syncMailbox).                                    *)
THEOREM AccountsExclude == Spec => []AccountExclusion
<1>1. Apart => AccountExclusion
  BY DEF Apart
<1> QED
  BY <1>1, AlwaysApart, PTL

-----------------------------------------------------------------------------
(***************************************************************************)
(* When no lease runs out, nobody is ever inside with another.  A folder   *)
(* needs sections shorter than the lease; an account needs that a sync may *)
(* wait its longest for the folder before its section begins.              *)
(***************************************************************************)
OneInFolder ==
  \A i, j \in Job : InFolder(i) /\ InFolder(j) /\ folderOf[i] = folderOf[j] => i = j
OneInAccount ==
  \A i, j \in SyncJob : InAccount(i) /\ InAccount(j) /\ accountOf[i] = accountOf[j] => i = j

(* A sync and a backfill batch are never in one folder, if every section   *)
(* ends inside LOCK_TTL (withFolderLock).                                  *)
THEOREM FoldersNeverShared ==
  ASSUME MaxSection < LOCK_TTL
  PROVE  Spec => [](FolderExclusion /\ OneInFolder)
<1>1. IInv /\ Apart => FolderExclusion /\ OneInFolder
  <2> SUFFICES ASSUME IInv, Apart PROVE OneInFolder
    BY DEF Apart
  <2>1. \A j \in Job : held[j].folder \in 0..MaxSection
    BY DEF IInv, TypeOK
  <2> QED BY <2>1, TimesAssumption DEF Apart, FolderExclusion, OneInFolder, LeaseApart
<1> QED
  BY <1>1, AlwaysApart, Leases, PTL

(* Two syncs of one account are never in flight at the same time, if the   *)
(* longest wait for the folder and a section fit into LOCK_TTL together    *)
(* (withAccountLock around withFolderLock).                                *)
THEOREM AccountsNeverShared ==
  ASSUME LOCK_WAIT + MaxSection < LOCK_TTL
  PROVE  Spec => [](AccountExclusion /\ OneInAccount)
<1>1. IInv /\ Apart => AccountExclusion /\ OneInAccount
  <2> SUFFICES ASSUME IInv, Apart PROVE OneInAccount
    BY DEF Apart
  <2>1. \A j \in SyncJob : held[j].account \in 0..(LOCK_WAIT + MaxSection)
    BY DEF IInv, TypeOK, Job
  <2> QED BY <2>1, TimesAssumption DEF Apart, AccountExclusion, OneInAccount, LeaseApart
<1> QED
  BY <1>1, AlwaysApart, Leases, PTL

-----------------------------------------------------------------------------
(* The lease lock, seen through the jobs whose lease lasts, behaves as the   *)
(* ideal mutex, whatever the times are.                                      *)
THEOREM LeasesImplementMutex == Spec => ImplementsMutex
<1> DEFINE In(k) == {j \in Job : InLease(j, k)}
<1> USE KeysAssumption, JobsAssumption, TimesAssumption DEF Key, Job
<1>1. Init => Ideal!Init
  BY DEF Init, Ideal!Init, InLease, InAccount, InFolder
<1>2. IInv /\ TypeOK /\ [Next]_vars => [Ideal!Next]_([k \in Key |-> In(k)])
  <2> SUFFICES ASSUME IInv, TypeOK, [Next]_vars PROVE [Ideal!Next]_([k \in Key |-> In(k)])
    OBVIOUS
  \* Nobody comes in.
  <2>1. ASSUME \A j \in Job : \A k \in Key : InLease(j, k)' => InLease(j, k)
        PROVE  Ideal!Next
    <3>1. \A k \in Key : In(k)' \subseteq In(k) /\ In(k)' \in SUBSET Job
      BY <2>1
    <3> HIDE DEF In
    <3>2. [k \in Key |-> In(k)]' \in [Key -> SUBSET Job]
      BY <3>1
    <3>3. \A k \in Key : [l \in Key |-> In(l)]'[k] \subseteq [l \in Key |-> In(l)][k]
      BY <3>1
    <3> QED BY <3>2, <3>3 DEF Ideal!Next, Ideal!Leave, In
  \* One job comes in where nobody is.
  <2>2. ASSUME NEW i \in Job, NEW k \in Key, \A j \in Job : ~InLease(j, k),
               \A j \in Job : \A l \in Key :
                 InLease(j, l)' <=> InLease(j, l) \/ (j = i /\ l = k)
        PROVE  Ideal!Next
    <3>1. In(k) = {} /\ In(k)' = {i} /\ \A l \in Key : l # k => In(l)' = In(l)
      BY <2>2
    <3> HIDE DEF In
    <3>2. [l \in Key |-> In(l)]' = [[l \in Key |-> In(l)] EXCEPT ![k] = {i}]
      <4>1. \A l \in Key : In(l)' = IF l = k THEN {i} ELSE In(l)
        BY <3>1
      <4> QED BY <4>1
    <3>3. [l \in Key |-> In(l)][k] = {}
      BY <3>1
    <3>4. Ideal!Enter(i, k)
      BY <3>2, <3>3 DEF Ideal!Enter, In
    <3> QED BY <3>4 DEF Ideal!Next
  <2>h. \A j \in Job : held[j].account \in Nat /\ held[j].folder \in Nat
    BY DEF TypeOK
  <2>3. CASE Tick
    <3>1. \A j \in Job : \A k \in Key : InLease(j, k)' => InLease(j, k)
      BY <2>3, <2>h DEF Tick, InLease, InAccount, InFolder
    <3> QED BY <2>1, <3>1
  <2>4. CASE UNCHANGED vars
    BY <2>4 DEF vars, InLease, InAccount, InFolder
  <2>5. ASSUME NEW i \in Job, Step(i) PROVE Ideal!Next
    <3>1. CASE Start(i) \/ GiveUp(i) \/ LeaveFolder(i) \/ (i \in SyncJob /\ LeaveAccount(i)) \/ Crash(i)
      <4>1. ASSUME NEW j \in Job, NEW k \in Key, InLease(j, k)' PROVE InLease(j, k)
        <5>1. CASE Start(i) \/ GiveUp(i)
          BY <4>1, <5>1 DEF Start, GiveUp, InLease, InAccount, InFolder, TypeOK
        <5>2. CASE LeaveFolder(i)
          BY <4>1, <5>2 DEF LeaveFolder, InLease, InAccount, InFolder, TypeOK
        <5>3. CASE i \in SyncJob /\ LeaveAccount(i)
          BY <4>1, <5>3 DEF LeaveAccount, InLease, InAccount, InFolder, TypeOK
        <5>4. CASE Crash(i)
          BY <4>1, <5>4 DEF Crash, InLease, InAccount, InFolder, TypeOK
        <5> QED BY <3>1, <5>1, <5>2, <5>3, <5>4
      <4> QED BY <2>1, <4>1
    <3>2. ASSUME NEW t \in Token, i \in SyncJob, AcquireAccount(i, t) PROVE Ideal!Next
      <4> DEFINE k == accountOf[i]
      <4>1. k \in Key /\ k \in Account /\ k \notin Folder /\ owner[k] = NoToken
        BY <3>2 DEF AcquireAccount, TryAcquire
      <4>2. ASSUME NEW j \in Job PROVE ~InLease(j, k)
        <5>1. InAccount(j) /\ k = accountOf[j] => held[j].account >= LOCK_TTL
          BY <4>1, KeysOfLeases DEF InAccount
        <5>2. ~(InFolder(j) /\ k = folderOf[j])
          BY <4>1
        <5> QED BY <2>h, <5>1, <5>2 DEF InLease
      <4>3. ASSUME NEW j \in Job, NEW l \in Key
            PROVE  InLease(j, l)' <=> InLease(j, l) \/ (j = i /\ l = k)
        <5>1. /\ pc[i] = "account" /\ pc'[i] = "folder" /\ held'[i].account = 0
              /\ j # i => pc'[j] = pc[j] /\ held'[j] = held[j]
          BY <3>2 DEF AcquireAccount, TypeOK
        <5>2. CASE j # i
          BY <5>1, <5>2 DEF InLease, InAccount, InFolder
        <5>3. CASE j = i
          BY <3>2, <4>1, <5>1, <5>3 DEF InLease, InAccount, InFolder
        <5> QED BY <5>2, <5>3
      <4> HIDE DEF k
      <4> QED BY <2>2, <4>1, <4>2, <4>3
    <3>3. ASSUME NEW t \in Token, AcquireFolder(i, t) PROVE Ideal!Next
      <4> DEFINE k == folderOf[i]
      <4>1. k \in Key /\ k \in Folder /\ k \notin Account /\ owner[k] = NoToken
        BY <3>3 DEF AcquireFolder, TryAcquire
      <4>2. ASSUME NEW j \in Job PROVE ~InLease(j, k)
        <5>1. ~(InAccount(j) /\ k = accountOf[j])
          BY <4>1 DEF InAccount
        <5>2. InFolder(j) /\ k = folderOf[j] => held[j].folder >= LOCK_TTL
          BY <4>1, KeysOfLeases
        <5> QED BY <2>h, <5>1, <5>2 DEF InLease
      <4>3. ASSUME NEW j \in Job, NEW l \in Key
            PROVE  InLease(j, l)' <=> InLease(j, l) \/ (j = i /\ l = k)
        <5>1. /\ pc[i] = "folder" /\ pc'[i] = "section" /\ held'[i].folder = 0
              /\ held'[i].account = held[i].account
              /\ j # i => pc'[j] = pc[j] /\ held'[j] = held[j]
          BY <3>3 DEF AcquireFolder, TypeOK
        <5>2. CASE j # i
          BY <5>1, <5>2 DEF InLease, InAccount, InFolder
        <5>3. CASE j = i
          BY <4>1, <5>1, <5>3 DEF InLease, InAccount, InFolder
        <5> QED BY <5>2, <5>3
      <4> HIDE DEF k
      <4> QED BY <2>2, <4>1, <4>2, <4>3
    <3> QED
      BY <2>5, <3>1, <3>2, <3>3 DEF Step
  <2> QED
    BY <2>3, <2>4, <2>5 DEF Next
<1> QED
  BY <1>1, <1>2, Leases, TypeCorrect, PTL DEF Spec, Ideal!Spec, ImplementsMutex
=============================================================================
