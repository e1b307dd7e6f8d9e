SPECIFICATION FairSpec
CONSTANTS
  GrantsBuffer = 1
  ExpectedUpload = 0
  UploadCredit = 1
  DownloadCredit = 2
  AllowBodyRef = FALSE
  ResponseBytes = 2
  EarlyCredit = 0
  ChunkBytes = 1
  HeedsContext = TRUE
  MayBuffer = FALSE
  RefSized = TRUE
  RefHashed = TRUE
  MaxSeq = 4
  MaxNoise = 0
PROPERTIES
  DeadlineEnds
CHECK_DEADLOCK FALSE
