SPECIFICATION Spec
CONSTANTS
  a1 = a1
  a2 = a2
  b = b
  Procs = {a1, a2}
  IdOf <- MCIdOf
  BootOf <- MCBootOf
  WorkerIds = {1}
  Boots = {100, 101}
  Fds = {f1, f2}
  Controllers = {c1}
  Results <- MCResults
  ReplayResults = {replayed}
  NoFd = NoFd
  MaxAttempt = 1
  MaxLaunches = 1
  MaxThreads = 3
  MaxTries = 1
INVARIANTS
  RegisteredIsAlive
CHECK_DEADLOCK FALSE
