SPECIFICATION Spec
CONSTANTS
  None = None
  MaxUploads = 2
  MaxAttempts = 2
  MaxLoads = 2
INVARIANTS
  AbortedStaysAway
  AnswerFitsReview
  BusyMeansRunning
  StaysCancellable
PROPERTIES
  EveryUploadEnds
