SPECIFICATION FairSpec
CONSTANTS
  zip = zip
  git = git
  c1 = c1
  c2 = c2
  None = None
  Jobs <- GitOnly
  GitJobs <- GitOnly
  Clients <- OneClient
  DEADLINE = 1
  RETENTION = 2
  MaxTime = 4
  MaxCrashes = 0
PROPERTIES
  Retention
