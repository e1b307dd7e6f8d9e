SPECIFICATION FairSpec
CONSTANTS
  MaxConcurrency = 1
  MaxSnapshots = 2
  MaxFaults = 1
INVARIANTS
  TypeOK
  PastSessionsDrained
  GoodbyeSent
  ReadyHonest
  SettingInForce
PROPERTIES
  RunReturns
  SessionRecovers
CHECK_DEADLOCK FALSE
