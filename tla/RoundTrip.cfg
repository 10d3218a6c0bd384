SPECIFICATION EvidenceSpec
CONSTANTS
  A = A
  B = B
  Inputs <- MCInputs
  Dirs <- MCDirs
  CutStep = 7
  MaxRecords = 2
  MaxSessions = 2
INVARIANT
  RoundTripsExactly
CHECK_DEADLOCK FALSE
