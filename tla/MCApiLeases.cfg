SPECIFICATION ServerSpec
CONSTANTS
  a = a
  s1 = s1
  q1 = q1
  q2 = q2
  l1 = l1
  l2 = l2
  r1 = r1
  r2 = r2
  j1 = j1
  j2 = j2
  None = None
  Codes <- OneCode
  Configured <- OneCode
  Subjects <- OneSubject
  Questions <- TwoQuestions
  Leases <- TwoLeases
  Requests <- TwoRequests
  Jobs <- TwoJobs
  DAY = 1
  LEASE = 1
  DEADLINE = 1
  START_LIMIT = 1
  QUESTION_LIMIT = 1
  MaxTime = 1
SYMMETRY Interchangeable
INVARIANTS
  LeaseOutlivesWork
  CompletedOnlyWhenReady
  DeletedGivesLeaseBack
  OneLeasePerCode
  LimitsAreKept
PROPERTIES
  SettledStaysSettled
