SPECIFICATION FairSpec
CONSTANTS
  Msg = {m1, m2}
  MaxAttempts = 2
  KeepFailed = 1
  MaxEvents = 1
INVARIANT TypeOK
PROPERTY TaggedStays
PROPERTY SettlesOrParks
