SPECIFICATION FairSpec
CONSTANTS
  c1 = c1
  c2 = c2
  c3 = c3
  c4 = c4
  Connections <- FourConnections
  MaxConnections = 2
INVARIANT TypeOK
INVARIANT SlotsBalance
INVARIANT SocketsBounded
INVARIANT RefusedBodyNeverParsed
PROPERTY NobodyQueues
CHECK_DEADLOCK FALSE
