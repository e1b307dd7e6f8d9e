SPECIFICATION FairSpec
CONSTANTS
  a1 = a1
  a2 = a2
  b = b
  ida = ida
  idb = idb
  None = None
  Assignment = {a1, a2}
  RequestId = {ida}
  IdOf <- RetriedId
  Kinds = {"good"}
  HasDeadline = {}
  MaxConcurrency = 0
PROPERTIES
  DrainCompletes
CHECK_DEADLOCK FALSE
