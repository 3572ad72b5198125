CONSTANTS
  a1 = a1
  ana = ana
  ben = ben
  c1 = c1
  c2 = c2
  job = job
  tokens = tokens
  None = None
  Account = {a1}
  User = {ana, ben}
  Call = {c1, c2}
  Job = {job}
  Refresher = tokens
  OAuth = {a1}
  Gmail = {a1}
  MaxGrant = 2
  MaxEvents = 2
SPECIFICATION FairSpec
INVARIANT TypeOK
PROPERTY OwnersKept
PROPERTY EveryCallEnds
PROPERTY Recovers
CHECK_DEADLOCK FALSE
