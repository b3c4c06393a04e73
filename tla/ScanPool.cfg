SPECIFICATION FairSpec
CONSTANTS
  Count = 3
  Concurrency = 2
  Retries = 2
  MaxAddresses = 2
INVARIANT TypeOK
INVARIANT ReportInOrder
INVARIANT ProgressCounts
INVARIANT NothingLeftRunning
PROPERTY PartialSuccessKept
PROPERTY ImplementsSerial
PROPERTY ScanEnds
CHECK_DEADLOCK FALSE
