SPECIFICATION Spec
CONSTANTS
  Count = 2
  Concurrency = 2
  Retries = 1
  MaxAddresses = 2
INVARIANT FailuresWereRetried
CHECK_DEADLOCK FALSE
