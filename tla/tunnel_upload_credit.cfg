SPECIFICATION Spec
CONSTANTS
  GrantsBuffer = 1
  UploadCredit = 1
  DownloadCredit = 1
  BufferBytes = 1
  UploadBytes = 2
  UpstreamBytes = 0
  MaxSeq = 4
  MaxNoise = 0
INVARIANTS
  UploadCreditHonoured
CHECK_DEADLOCK FALSE
