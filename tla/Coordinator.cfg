SPECIFICATION CoordSpec
CONSTANTS
  WorkerIds = {1}
  Boots = {1, 101}
  Fds = {f1}
  Controllers = {c1}
  Results = {ok, other}
  NoFd = NoFd
  MaxAttempt = 2
  MaxLaunches = 2
  MaxThreads = 1
  MaxU64 = 255
INVARIANTS
  CommitsAreAssigned
  OncePerSignature
  CurrentIsNewest
  StalenessIsPredicted
PROPERTIES
  OnlyNewestCommits
CHECK_DEADLOCK FALSE
