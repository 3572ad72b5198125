SPECIFICATION FairSpec
CONSTANTS
  a1 = a1
  inbox = inbox
  sent = sent
  syncInbox = syncInbox
  syncSent = syncSent
  backfillInbox = backfillInbox
  Account = {a1}
  Folder = {inbox, sent}
  SyncJob = {syncInbox, syncSent}
  BackfillJob = {backfillInbox}
  accountOf <- MCAccountOf
  folderOf <- MCFolderOf
  Token = {t1, t2, t3, t4, t5}
  NoToken = NoToken
  LOCK_TTL = 2
  LOCK_WAIT = 1
  MaxSection = 3
INVARIANT FolderExclusion
INVARIANT AccountExclusion
INVARIANT LeaseHonoured
PROPERTY ImplementsMutex
PROPERTY CallsSettle
PROPERTY OrphansExpire
