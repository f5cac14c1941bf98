SPECIFICATION FairSpec
CONSTANTS
  j1 = j1
  c1 = c1
  c2 = c2
  None = None
  Jobs <- OneJob
  Callers <- TwoCallers
  Expiries <- Deadlines
  MaxAttempts = 2
  MaxTime = 1
  Faults = TRUE
PROPERTIES
  ImplementsRegister
  VersionGuard
  CallsReturn
