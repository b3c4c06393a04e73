SPECIFICATION Spec
CONSTANTS
  j1 = j1
  j2 = j2
  j3 = j3
  p1 = p1
  text = text
  NoJob = NoJob
  Jobs <- ThreeJobs
  Pages <- OnePage
  Formats <- OneFormat
  MaxRunning = 2
  MaxJobs = 2
  Total = 2
SYMMETRY Symmetry
INVARIANT TypeOK
INVARIANT SlotAccounting
INVARIANT ScansBounded
INVARIANT RefusedLeavesNothing
INVARIANT RepliesAreWhole
INVARIANT KeepsNewest
PROPERTY ImplementsService
CHECK_DEADLOCK FALSE
