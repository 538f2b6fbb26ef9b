SPECIFICATION Spec
CONSTANTS
  PoolFile = {"f", "g"}
  Flusher = {s}
  PoolCapacity = 1
  DiskFails = FALSE
  FilePages <- MCFilePages
  Versions = 1
  Term = {"a", "b"}
  DocText <- MCTexts
  Address = {"p", "q", "r", "s"}
  Builds <- MCBuilds
  BlockPostings = 2
  MergeFanIn = 2
  MaxSegments = 1
  PendingPercent = 90
  DeletedPercent = 50
  DocumentLimit = 3
  GenerationLimit = 4
  CrashLimit = 1
  Document <- MCDocument
  WordTerms <- MCWordTerms
  Ceiling <- MCCeiling
  Searches <- MCSearches
  Key = {0, 1, 2, 5}
  Buffers = {1, 2}
  FanIn = 2
  InputLimit = 5
  TableName = {t1, t2}
  IndexName = {"pk", "ix"}
  Declared = "pk"
  FailureLimit = 2
  Row <- MCRow
  Batches <- MCBatches
  Transforms <- MCTransforms
  RowLimit = 2
  RefLimit = 2
  LogLimit = 2
SYMMETRY Tables
INVARIANTS
  PagesAreKept
  PostingsAreTrue
  SearchIsExact
  ExternalIsExactInBuffers
  DefinitionsSound
  TableSound
  UndoRestoresRows
  QueriesAnswer
CHECK_DEADLOCK FALSE
