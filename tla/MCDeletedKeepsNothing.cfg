SPECIFICATION Spec
CONSTANTS
  zip = zip
  git = git
  c1 = c1
  c2 = c2
  None = None
  Jobs <- ZipOnly
  GitJobs <- NoJobs
  Clients <- OneClient
  DEADLINE = 1
  RETENTION = 2
  MaxTime = 4
  MaxCrashes = 0
INVARIANTS
  DeletedKeepsNothing
