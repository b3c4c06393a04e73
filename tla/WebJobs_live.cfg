SPECIFICATION FairSpec
CONSTANTS
  j1 = j1
  j2 = j2
  j3 = j3
  p1 = p1
  text = text
  NoJob = NoJob
  Jobs <- TwoJobs
  Pages <- OnePage
  Formats <- OneFormat
  MaxRunning = 1
  MaxJobs = 1
  Total = 2
PROPERTY SlotsComeBack
PROPERTY PollingEnds
CHECK_DEADLOCK FALSE
