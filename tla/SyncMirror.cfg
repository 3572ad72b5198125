SPECIFICATION FairSpec
CONSTANTS
  MaxUid = 4
  MaxEpoch = 2
  SyncLimit = 1
  PageLimit = 1
  BatchLimit = 2
  MaxEvents = 2
  Hazards = {"uidvalidity", "relist"}
INVARIANT TypeOK
INVARIANT NoGap
INVARIANT NoStaleRow
PROPERTY EventuallyMirrors
