CONSTANTS
  f1 = f1
  f2 = f2
  None = None
  Flow = {f1, f2}
  FixedPort = TRUE
  MaxEvents = 3
SPECIFICATION FairSpec
INVARIANT WaitingIsActive
INVARIANT NoDeadSpinner
PROPERTY EndedSavesNothing
PROPERTY FlowsEnd
