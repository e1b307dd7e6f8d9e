SPECIFICATION Spec
CONSTANTS
  GrantsBuffer = 1
  UploadCredit = 2
  DownloadCredit = 1
  BufferBytes = 2
  UploadBytes = 2
  UpstreamBytes = 2
  MaxSeq = 3
  MaxNoise = 1
INVARIANTS
  TypeOK
  UploadForwarded
  DownloadInOrder
  CreditConserved
  NumberedOnce
  EndMeansComplete
  TunnelAnswered
CHECK_DEADLOCK FALSE
