SPECIFICATION Spec
CONSTANTS
  a1 = a1
  a2 = a2
  b = b
  Procs = {a1, a2}
  IdOf <- MCIdOf
  BootOf <- MCBootOf
  WorkerIds = {1}
  Boots = {100, 101}
  Fds = {f1, f2}
  Controllers = {c1}
  Results <- MCResults
  ReplayResults = {replayed}
  NoFd = NoFd
  MaxAttempt = 1
  MaxLaunches = 2
  MaxThreads = 3
  MaxTries = 2
SYMMETRY Symmetry
INVARIANTS
  AtMostOneCommit
  OnlyAssigneeCommits
  AliveIsWatched
PROPERTIES
  ImplementsLedger
CHECK_DEADLOCK FALSE
