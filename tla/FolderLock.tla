---------------------------- MODULE FolderLock ----------------------------
(***************************************************************************)
(* The Redis lease locks of sync/mailbox-folder.lock.ts as the sync worker *)
(* uses them (mail/mail.service.ts): an incremental sync takes the account *)
(* key and then the folder key, a backfill batch takes the folder key      *)
(* only.  A key is SET NX PX with a fresh token and is never renewed, so   *)
(* it disappears LOCK_TTL ticks after it was taken, whatever its owner is  *)
(* still doing; a release deletes the key only if it still holds the       *)
(* releaser's token.                                                       *)
(***************************************************************************)
EXTENDS Integers, FiniteSets

CONSTANTS
  Account, Folder,       \* the two kinds of key
  SyncJob, BackfillJob,  \* the jobs that take them
  accountOf,             \* sync job -> its account
  folderOf,              \* job -> its folder
  Token, NoToken,        \* randomUUID() values, and "the key does not exist"
  LOCK_TTL, LOCK_WAIT,   \* 120 s and 90 s in the code, in ticks here
  MaxSection             \* bound on the ticks a job spends in a folder section

Job == SyncJob \cup BackfillJob
Key == Account \cup Folder

ASSUME KeysAssumption == Account \cap Folder = {}
ASSUME JobsAssumption ==
  /\ SyncJob \cap BackfillJob = {}
  /\ accountOf \in [SyncJob -> Account]
  /\ folderOf \in [Job -> Folder]
ASSUME TokenAssumption == NoToken \notin Token
ASSUME TimesAssumption ==
  /\ LOCK_TTL \in Nat \ {0}
  /\ LOCK_WAIT \in Nat \ {0}
  /\ MaxSection \in Nat \ {0}

VARIABLES
  owner,         \* Redis: key -> the token stored under it, or NoToken
  ttl,           \* Redis: key -> ticks until the key expires
  pc,            \* job -> what it is doing
  accountToken,  \* job -> token of its withAccountLock call
  folderToken,   \* job -> token of its withLock call
  wait,          \* job -> ticks spent in the current acquire() loop
  held           \* job -> ticks since it took its account and its folder key

vars == <<owner, ttl, pc, accountToken, folderToken, wait, held>>

-----------------------------------------------------------------------------
(* Helpers *)

InAccount(j) == j \in SyncJob /\ pc[j] \in {"folder", "section", "leaving"}
InFolder(j)  == pc[j] = "section"

\* j is in the section of k, and its lease of k has not run out.
InLease(j, k) ==
  \/ InAccount(j) /\ k = accountOf[j] /\ held[j].account < LOCK_TTL
  \/ InFolder(j) /\ k = folderOf[j] /\ held[j].folder < LOCK_TTL

\* randomUUID() never returns a token that anyone still knows.
FreshToken(t) ==
  /\ t \in Token
  /\ \A k \in Key : owner[k] # t
  /\ \A j \in Job : accountToken[j] # t /\ folderToken[j] # t

\* Mutants of TryAcquire: SET without NX, and with half a time-to-live.
SetAlways(k, t) ==
  /\ owner' = [owner EXCEPT ![k] = t]
  /\ ttl' = [ttl EXCEPT ![k] = LOCK_TTL]
SetShorter(k, t) ==
  /\ owner[k] = NoToken
  /\ owner' = [owner EXCEPT ![k] = t]
  /\ ttl' = [ttl EXCEPT ![k] = LOCK_TTL - 1]

\* tryAcquire: SET key token PX LOCK_TTL NX answered OK.
TryAcquire(k, t) ==
  /\ owner[k] = NoToken
  /\ owner' = [owner EXCEPT ![k] = t]
  /\ ttl' = [ttl EXCEPT ![k] = LOCK_TTL]

\* Mutant of Release: DEL without comparing the token.
DeleteKey(k, t) ==
  /\ owner' = [owner EXCEPT ![k] = NoToken]
  /\ ttl' = [ttl EXCEPT ![k] = 0]

\* release: the Lua script compares the token and deletes the key.
Release(k, t) ==
  /\ owner' = [owner EXCEPT ![k] = IF @ = t THEN NoToken ELSE @]
  /\ ttl' = [ttl EXCEPT ![k] = IF owner[k] = t THEN 0 ELSE @]

-----------------------------------------------------------------------------
(* Actions *)

\* withAccountLock (sync) or withFolderLock (backfill batch) is called.
Start(j) ==
  /\ pc[j] = "idle"
  /\ pc' = [pc EXCEPT ![j] = IF j \in SyncJob THEN "account" ELSE "folder"]
  /\ wait' = [wait EXCEPT ![j] = 0]
  /\ UNCHANGED <<owner, ttl, accountToken, folderToken, held>>

AcquireAccount(j, t) ==
  /\ pc[j] = "account" /\ wait[j] < LOCK_WAIT
  /\ FreshToken(t)
  /\ TryAcquire(accountOf[j], t)
  /\ accountToken' = [accountToken EXCEPT ![j] = t]
  /\ pc' = [pc EXCEPT ![j] = "folder"]
  /\ wait' = [wait EXCEPT ![j] = 0]
  /\ held' = [held EXCEPT ![j].account = 0]
  /\ UNCHANGED folderToken

AcquireFolder(j, t) ==
  /\ pc[j] = "folder" /\ wait[j] < LOCK_WAIT
  /\ FreshToken(t)
  /\ TryAcquire(folderOf[j], t)
  /\ folderToken' = [folderToken EXCEPT ![j] = t]
  /\ pc' = [pc EXCEPT ![j] = "section"]
  /\ held' = [held EXCEPT ![j].folder = 0]
  /\ UNCHANGED <<accountToken, wait>>

\* Mutant of GiveUp: only the wait for the account key has a deadline.
GiveUpAccountOnly(j) ==
  /\ pc[j] = "account" /\ wait[j] = LOCK_WAIT
  /\ pc' = [pc EXCEPT ![j] = "idle"]
  /\ wait' = [wait EXCEPT ![j] = 0]
  /\ UNCHANGED <<owner, ttl, accountToken, folderToken, held>>

\* acquire() saw its deadline pass: withKey throws ServiceUnavailable.  A sync
\* that was waiting for its folder still runs the finally of its account lock.
GiveUp(j) ==
  /\ pc[j] \in {"account", "folder"} /\ wait[j] = LOCK_WAIT
  /\ pc' = [pc EXCEPT ![j] = IF InAccount(j) THEN "leaving" ELSE "idle"]
  /\ wait' = [wait EXCEPT ![j] = 0]
  /\ UNCHANGED <<owner, ttl, accountToken, folderToken, held>>

\* run() settled, with a result or an error; finally releases the folder key.
LeaveFolder(j) ==
  /\ pc[j] = "section"
  /\ Release(folderOf[j], folderToken[j])
  /\ folderToken' = [folderToken EXCEPT ![j] = NoToken]
  /\ pc' = [pc EXCEPT ![j] = IF j \in SyncJob THEN "leaving" ELSE "idle"]
  /\ wait' = [wait EXCEPT ![j] = 0]
  /\ held' = [held EXCEPT ![j].folder = 0]
  /\ UNCHANGED accountToken

LeaveAccount(j) ==
  /\ pc[j] = "leaving"
  /\ Release(accountOf[j], accountToken[j])
  /\ accountToken' = [accountToken EXCEPT ![j] = NoToken]
  /\ pc' = [pc EXCEPT ![j] = "idle"]
  /\ held' = [held EXCEPT ![j].account = 0]
  /\ UNCHANGED <<folderToken, wait>>

\* The worker process dies: no finally runs and the keys stay in Redis.
Crash(j) ==
  /\ pc[j] # "idle"
  /\ pc' = [pc EXCEPT ![j] = "idle"]
  /\ accountToken' = [accountToken EXCEPT ![j] = NoToken]
  /\ folderToken' = [folderToken EXCEPT ![j] = NoToken]
  /\ wait' = [wait EXCEPT ![j] = 0]
  /\ held' = [held EXCEPT ![j] = [account |-> 0, folder |-> 0]]
  /\ UNCHANGED <<owner, ttl>>

\* A worker that is not stalled sees its deadline within a tick of it and
\* settles a section within MaxSection; a slow release counts in the section.
Prompt(j) ==
  /\ pc[j] \in {"account", "folder"} => wait[j] < LOCK_WAIT
  /\ InFolder(j) => held[j].folder < MaxSection
  /\ InAccount(j) => held[j].account < LOCK_WAIT + MaxSection

\* Mutant of Tick: the keys are set without a time-to-live.
TickWithoutExpiry ==
  /\ \A j \in Job : Prompt(j)
  /\ wait' = [j \in Job |->
                IF pc[j] \in {"account", "folder"} THEN wait[j] + 1 ELSE wait[j]]
  /\ held' = [j \in Job |->
                [account |-> IF InAccount(j) THEN held[j].account + 1 ELSE 0,
                 folder  |-> IF InFolder(j) THEN held[j].folder + 1 ELSE 0]]
  /\ UNCHANGED <<owner, ttl, pc, accountToken, folderToken>>

\* Time passes; Redis drops the keys whose time-to-live ran out.
Tick ==
  /\ \A j \in Job : Prompt(j)
  /\ ttl' = [k \in Key |-> IF ttl[k] > 0 THEN ttl[k] - 1 ELSE 0]
  /\ owner' = [k \in Key |-> IF ttl[k] > 1 THEN owner[k] ELSE NoToken]
  /\ wait' = [j \in Job |->
                IF pc[j] \in {"account", "folder"} THEN wait[j] + 1 ELSE wait[j]]
  /\ held' = [j \in Job |->
                [account |-> IF InAccount(j) THEN held[j].account + 1 ELSE 0,
                 folder  |-> IF InFolder(j) THEN held[j].folder + 1 ELSE 0]]
  /\ UNCHANGED <<pc, accountToken, folderToken>>

-----------------------------------------------------------------------------
(* Specification *)

Init ==
  /\ owner = [k \in Key |-> NoToken]
  /\ ttl = [k \in Key |-> 0]
  /\ pc = [j \in Job |-> "idle"]
  /\ accountToken = [j \in Job |-> NoToken]
  /\ folderToken = [j \in Job |-> NoToken]
  /\ wait = [j \in Job |-> 0]
  /\ held = [j \in Job |-> [account |-> 0, folder |-> 0]]

Step(j) ==
  \/ Start(j)
  \/ j \in SyncJob /\ \E t \in Token : AcquireAccount(j, t)
  \/ \E t \in Token : AcquireFolder(j, t)
  \/ GiveUp(j)
  \/ LeaveFolder(j)
  \/ j \in SyncJob /\ LeaveAccount(j)
  \/ Crash(j)

Next == Tick \/ \E j \in Job : Step(j)

Spec == Init /\ [][Next]_vars

\* Time passes, and a live worker goes on: an acquire() loop either gets its
\* key or meets its deadline, a section settles, a finally runs.
Fairness ==
  /\ WF_vars(Tick)
  /\ \A j \in Job : WF_vars(GiveUp(j) \/ LeaveFolder(j))
  /\ \A j \in SyncJob : WF_vars(LeaveAccount(j))

FairSpec == Spec /\ Fairness

-----------------------------------------------------------------------------
(* Properties *)

TypeOK ==
  /\ owner \in [Key -> Token \cup {NoToken}]
  /\ ttl \in [Key -> 0..LOCK_TTL]
  /\ pc \in [Job -> {"idle", "account", "folder", "section", "leaving"}]
  /\ accountToken \in [Job -> Token \cup {NoToken}]
  /\ folderToken \in [Job -> Token \cup {NoToken}]
  /\ wait \in [Job -> 0..LOCK_WAIT]
  /\ held \in [Job -> [account: 0..(LOCK_WAIT + MaxSection), folder: 0..MaxSection]]

\* While fewer than LOCK_TTL ticks have passed since a job took a key, the key holds that
\* job's token, whatever the stragglers of expired leases release meanwhile (release).
LeaseHonoured ==
  /\ \A j \in SyncJob : InAccount(j) /\ held[j].account < LOCK_TTL
                          => owner[accountOf[j]] = accountToken[j]
  /\ \A j \in Job : InFolder(j) /\ held[j].folder < LOCK_TTL
                      => owner[folderOf[j]] = folderToken[j]

\* Sections that have lasted m and n ticks began at least a lease apart.
LeaseApart(m, n) == m >= n + LOCK_TTL \/ n >= m + LOCK_TTL

\* The class comment, "sync <-> backfill must not race the same mailbox": they do not,
\* unless the one was a whole LOCK_TTL in its section before the other came in.
FolderExclusion ==
  \A i, j \in Job :
    InFolder(i) /\ InFolder(j) /\ folderOf[i] = folderOf[j] /\ i # j
      => LeaseApart(held[i].folder, held[j].folder)

\* The class comment, "a new sync tick must not stack on an in-flight account sync": it
\* does not before the one in flight, which may have waited for its folder, is a whole
\* LOCK_TTL old.
AccountExclusion ==
  \A i, j \in SyncJob :
    InAccount(i) /\ InAccount(j) /\ accountOf[i] = accountOf[j] /\ i # j
      => LeaseApart(held[i].account, held[j].account)

\* The lease lock implements the ideal mutex of those whose lease lasts, however many
\* others linger in their sections, release and take keys again (MailboxFolderLock).
Ideal == INSTANCE Mutex WITH
  holders <- [k \in Key |-> {j \in Job : InLease(j, k)}]

ImplementsMutex == Ideal!Spec

\* Two keys are taken in one order and every acquire() has a deadline, so jobs
\* never wait for each other for good: a withKey call settles.
CallsSettle == \A j \in Job : []<>(pc[j] = "idle")

\* A key whose owner died is not lost: within its time-to-live somebody can
\* take it again.
Orphaned(k) == /\ owner[k] # NoToken
               /\ \A j \in Job : owner[k] \notin {accountToken[j], folderToken[j]}
OrphansExpire == \A k \in Key : []<>~Orphaned(k)
=============================================================================
