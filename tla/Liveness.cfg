SPECIFICATION FairSpec
CONSTANTS
  a1 = a1
  a2 = a2
  b = b
  Procs = {a1, a2}
  IdOf <- MCIdOf
  BootOf <- MCBootOf
  WorkerIds = {1}
  Boots = {100, 101}
  Fds = {f1, f2}
  Controllers = {c1}
  Results <- MCResults
  ReplayResults = {}
  NoFd = NoFd
  MaxAttempt = 1
  MaxLaunches = 2
  MaxThreads = 2
  MaxTries = 2
PROPERTIES
  CommitsEventually
  DeathIsNoticed
  Reregisters
CHECK_DEADLOCK FALSE
