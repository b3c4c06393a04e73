SPECIFICATION Spec
CONSTANTS
  Count = 2
  Concurrency = 2
  Retries = 2
  MaxAddresses = 2
INVARIANT OneTargetNeverAborts
CHECK_DEADLOCK FALSE
