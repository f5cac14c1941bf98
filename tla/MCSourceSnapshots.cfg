SPECIFICATION BoundedSpec
CONSTANTS
  a = a
  b = b
  d = d
  Sweeper = Sweeper
  None = None
  Creators <- TwoCreators
  Deleters <- OneDeleter
  N = 2
  RETENTION = 1
  MaxTime = 1
SYMMETRY Interchangeable
INVARIANTS
  PublishedIsComplete
  RehydratedIsFaithful
  NothingIsLost
PROPERTIES
  RollbackIsOwn
CHECK_DEADLOCK FALSE
