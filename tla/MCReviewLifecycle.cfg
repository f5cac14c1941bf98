SPECIFICATION Spec
CONSTANTS
  zip = zip
  git = git
  c1 = c1
  c2 = c2
  None = None
  Jobs <- ZipOnly
  GitJobs <- NoJobs
  Clients <- TwoClients
  DEADLINE = 1
  RETENTION = 1
  MaxTime = 2
  MaxCrashes = 1
INVARIANTS
  ReadyIsServable
  EndedKeepsNothing
PROPERTIES
  ExpiresOnlyWhenDue
