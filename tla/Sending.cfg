CONSTANTS
  None = None
  a1 = a1
  a2 = a2
  w1 = w1
  w2 = w2
  s1 = s1
  s2 = s2
  Account = {a1, a2}
  Window = {w1, w2}
  Submission = {s1, s2}
  Endpoints <- TwoEndpoints
  SentFolder = {a1}
  OAuth = {a1}
  Retries = 1
  MaxEvents = 1
SPECIFICATION FairSpec
CHECK_DEADLOCK FALSE
INVARIANT DraftsOfWindows
INVARIANT OutcomesAreHonest
INVARIANT DuplicatesHaveCause
INVARIANT CopyOfDelivered
PROPERTY SendSettles
