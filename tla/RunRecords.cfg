SPECIFICATION RecordSpec
CONSTANTS
  Campaigns <- MCCampaigns
  Names <- MCNames
  Word = 256
  MaxObservations = 3
  A = A
  B = B
  Inputs <- MCInputs
  Dirs <- MCDirs
  CutStep = 7
  MaxRecords = 2
  MaxSessions = 2
SYMMETRY Symmetry
INVARIANTS
  FiredOnceWhenDue
  ReplayReproduces
  RoundTripsWhenSafe
  VerdictsVouchForLogs
CHECK_DEADLOCK FALSE
