SPECIFICATION Spec
CONSTANTS
  MaxUid = 4
  MaxEpoch = 1
  SyncLimit = 1
  PageLimit = 1
  BatchLimit = 2
  MaxEvents = 1
  Hazards = {}
INVARIANT HistoryWalkFinished
