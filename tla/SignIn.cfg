SPECIFICATION FairSpec
CONSTANTS
  Registrar = {p1, p2}
  AllowRegistration = FALSE
  Window = {main}
  Request = {r1, r2}
  Home <- MCHome
  main = main
  r1 = r1
  r2 = r2
  Onboarding = onboarding
  None = none
  MaxToken = 3
  MaxEvents = 1
INVARIANT OneTokenPerLogin
INVARIANT ClosedRegistration
PROPERTY RefusedByOthers
PROPERTY Settles
CHECK_DEADLOCK FALSE
