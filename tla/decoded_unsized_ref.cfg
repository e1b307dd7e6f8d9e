SPECIFICATION Spec
CONSTANTS
  GrantsBuffer = 1
  ExpectedUpload = 2
  UploadCredit = 2
  DownloadCredit = 1
  AllowBodyRef = TRUE
  ResponseBytes = 2
  EarlyCredit = 0
  ChunkBytes = 2
  HeedsContext = TRUE
  MayBuffer = FALSE
  RefSized = FALSE
  RefHashed = FALSE
  MaxSeq = 2
  MaxNoise = 0
PROPERTIES
  BodyRefWhole
CHECK_DEADLOCK FALSE
