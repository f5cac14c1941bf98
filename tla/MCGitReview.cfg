SPECIFICATION FairSpec
CONSTANTS
  c1 = c1
  c2 = c2
  t1 = t1
  k1 = k1
  k2 = k2
  i1 = i1
  i2 = i2
  None = None
  Commits <- TwoCommits
  Tags <- OneTag
  Peel <- ItsCommit
  Kinds <- TwoKinds
  Identities <- TwoIdentities
  Models = 2
INVARIANTS
  PinnedRevision
  QuietWorkspace
  SourceIsDisposed
  ReviewedFromTheCopy
  BundleIsHonest
PROPERTIES
  WorkerEnds
CHECK_DEADLOCK FALSE
