SPECIFICATION Spec
CONSTANTS
  c1 = c1
  c2 = c2
  c3 = c3
  c4 = c4
  Connections <- ThreeConnections
  MaxConnections = 2
INVARIANT PostBodyNeverParsed
CHECK_DEADLOCK FALSE
