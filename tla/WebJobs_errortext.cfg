SPECIFICATION Spec
CONSTANTS
  j1 = j1
  j2 = j2
  j3 = j3
  p1 = p1
  text = text
  NoJob = NoJob
  Jobs <- TwoJobs
  Pages <- OnePage
  Formats <- OneFormat
  MaxRunning = 1
  MaxJobs = 1
  Total = 1
INVARIANT ErrorHasText
CHECK_DEADLOCK FALSE
