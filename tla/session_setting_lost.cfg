SPECIFICATION Spec
CONSTANTS
  MaxConcurrency = 1
  MaxSnapshots = 2
  MaxFaults = 1
INVARIANTS
  DecisionReported
CHECK_DEADLOCK FALSE
