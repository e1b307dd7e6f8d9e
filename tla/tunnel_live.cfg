SPECIFICATION FairSpec
CONSTANTS
  GrantsBuffer = 1
  UploadCredit = 1
  DownloadCredit = 2
  BufferBytes = 1
  UploadBytes = 0
  UpstreamBytes = 3
  MaxSeq = 3
  MaxNoise = 0
PROPERTIES
  DeadlineEnds
  DownloadReturns
  UpstreamEndCloses
CHECK_DEADLOCK FALSE
