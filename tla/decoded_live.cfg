SPECIFICATION FairSpec
CONSTANTS
  GrantsBuffer = 3
  ExpectedUpload = 1
  UploadCredit = 1
  DownloadCredit = 1
  AllowBodyRef = TRUE
  ResponseBytes = 2
  EarlyCredit = 1
  ChunkBytes = 2
  HeedsContext = TRUE
  MayBuffer = TRUE
  RefSized = TRUE
  RefHashed = TRUE
  MaxSeq = 5
  MaxNoise = 0
PROPERTIES
  BodyReadEnds
  CancelEnds
  DeadlineEnds
CHECK_DEADLOCK FALSE
