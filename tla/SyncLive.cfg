SPECIFICATION FairSpec
CONSTANTS
  MaxUid = 2
  MaxEpoch = 2
  SyncLimit = 1
  PageLimit = 1
  BatchLimit = 1
  MaxEvents = 1
  Hazards = {"uidvalidity", "search", "lease", "paging", "reconnect", "early", "vanish", "straddle"}
PROPERTY WalkEnds
PROPERTY GhostsGo
