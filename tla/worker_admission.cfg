SPECIFICATION FairSpec
CONSTANTS
  a1 = a1
  a2 = a2
  b = b
  ida = ida
  idb = idb
  None = None
  Assignment = {a1, a2, b}
  RequestId = {ida, idb}
  IdOf <- RetriedIds
  Kinds = {"undecodable", "invalid", "unsupported", "unsafeId", "good"}
  HasDeadline = {b}
  MaxConcurrency = 2
INVARIANTS
  TypeOK
  CapacityRespected
  StreamOpenWhileAccepted
  CancelsAreLive
  AtMostOneStraggler
  EveryLiveRequestCancellable
  AbandonedAreCancelled
PROPERTIES
  AnsweredOnce
  ImplementsContract
  ObeysServerContract
  DrainCompletesForDistinctIds
CHECK_DEADLOCK FALSE
