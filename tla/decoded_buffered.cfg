SPECIFICATION Spec
CONSTANTS
  GrantsBuffer = 1
  ExpectedUpload = 0
  UploadCredit = 2
  DownloadCredit = 1
  AllowBodyRef = FALSE
  ResponseBytes = 2
  EarlyCredit = 0
  ChunkBytes = 2
  HeedsContext = TRUE
  MayBuffer = TRUE
  RefSized = TRUE
  RefHashed = TRUE
  MaxSeq = 2
  MaxNoise = 0
INVARIANTS
  CreditRespected
CHECK_DEADLOCK FALSE
