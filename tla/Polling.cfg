CONSTANTS
  inbox = inbox
  sent = sent
  Free = Free
  Orphan = Orphan
  Folder = {inbox, sent}
  Inbox = inbox
  Asked = {inbox}
  Imported = {sent}
  Slots = 2
  Attempts = 2
  MaxEvents = 2
SPECIFICATION FairSpec
INVARIANT TypeOK
INVARIANT WaitersHaveAJob
PROPERTY InboxSynced
PROPERTY HistoryImported
