SPECIFICATION FairSpec
CONSTANTS
  MaxRecords = 3
  NumVersions = 2
  Tls13Suites = {s1, s2}
  LegacySuites = {l1, l2}
  Groups = {x25519, mlkem}
  PostQuantum = {mlkem}
  NumSchemes = 2
  Servers <- MCServers
  Stray = stray
INVARIANT TypeOK
INVARIANT ServerOrder
INVARIANT CompleteUnlessFailed
INVARIANT NobodyWrittenOff
PROPERTY NeverSpins
PROPERTY EnumerationEnds
CHECK_DEADLOCK FALSE
