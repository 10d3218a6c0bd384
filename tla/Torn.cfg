SPECIFICATION Spec
CONSTANTS
  a1 = a1
  a2 = a2
  b = b
  Procs = {a1, b}
  IdOf <- MCIdOf
  BootOf <- MCBootOf
  WorkerIds = {1, 2}
  Boots = {100, 200}
  Fds = {f1, f2}
  Controllers = {c1, c2}
  Results <- MCResults
  ReplayResults = {}
  NoFd = NoFd
  MaxAttempt = 2
  MaxLaunches = 1
  MaxThreads = 3
  MaxTries = 1
SYMMETRY Symmetry
INVARIANTS
  TypeOK
PROPERTIES
  ImplementsLedger
CHECK_DEADLOCK FALSE
