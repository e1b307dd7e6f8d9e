SPECIFICATION Spec
CONSTANTS
  GrantsBuffer = 1
  ExpectedUpload = 2
  UploadCredit = 2
  DownloadCredit = 1
  AllowBodyRef = TRUE
  ResponseBytes = 2
  EarlyCredit = 0
  ChunkBytes = 2
  HeedsContext = TRUE
  MayBuffer = FALSE
  RefSized = TRUE
  RefHashed = TRUE
  MaxSeq = 5
  MaxNoise = 1
INVARIANTS
  TypeOK
  BodyIntact
  CreditConserved
  ResponseInOrder
  EndMeansComplete
  ExecutionAnswered
PROPERTIES
  ImplementsCreditStream
CHECK_DEADLOCK FALSE
