SPECIFICATION Spec
CONSTANTS
  None = None
  Invented = Invented
  NoWord = NoWord
  Words = {"x", "y", "review", "landmark"}
  Names <- AllNames
  Lower <- LowerNames
  Folded <- LowerNames
  ExcludedDirectories <- Excluded
  Visualizations <- DocsVisualizations
  SensitiveNames = {".env"}
  BinaryMedia = {"img.png"}
  SensitivePaths <- OnePath
  MaxFiles = 2
  MaxAnalyzedFileBytes = 15
  MaxAnalyzedBytes = 15
  MaxChunk = 4
  NameRank <- Ranks
  Configuration = {"p.py"}
  StopWords = {"the"}
  ConceptWords <- DerivedWords
  ConceptBytes = 4
  ResultLimit = 2
  ContextBytes = 6
  QueryBytes = 2
  ProviderResults = 3
  Supplement = 2
  ProviderBytes = 6
  Documentation = {"docs"}
  Archives <- SomeArchives
  Questions <- SomeQuestions
  Language <- Languages
  MaxEntries = 3
  MaxPathDepth = 3
  MaxEntryBytes = 15
  MaxTotalBytes = 15
  MaxRatio = 3
INVARIANTS
  TextIsReviewable
CHECK_DEADLOCK FALSE
