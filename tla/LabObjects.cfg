SPECIFICATION LabSpec
CONSTANTS
  Kinds = {"PROCESS", "DEVICE"}
  Ops = {"START_PROCESS", "KILL_PROCESS", "ASSERT_STATE", "NO_DOUBLE_COMMIT"}
  PassedIds = {1, 2}
  Seeds = {0, 1}
  Names = {"worker-death", "cuda-worker-death", "transport-cut", "persistence-corruption", "stale-authority", "worker-storm"}
  MaxBuilder = 6
  MaxWorkers = 3
  MaxFaults = 4
  CoordinatorId = 9
  Paths = {"state", "copy"}
  FileSize = 5
  FileWord = 32
  DiskLimit = 9
  StreamBuffer = 3
  LoopLimit = 13
  CorruptCap = 3
  DefaultGarbage = 2
  HeaderBytes = 2
  Offsets = {0, 1, 3, 4, 5, 7, 30}
  Lengths = {0, 1, 2, 4, 13, 29}
  MaxFileOps = 3
  Handles = {"h1", "h2"}
  Pids = {1, 2, 3}
  NoPid = 0
  ExitCodes = {0, 7, 259}
  Classes = {"children", "sockets"}
  Units = {"u1", "u2", "u3"}
  Caps = {0, 2, 5}
  MaxRestarts = 2
  Word = 16
  Requests = {0, 1, 2, 3, 5, 13, 14, 15}
  MallocLimit = 6
  Chunk = 3
  Targets = {0, 2, 5, 7}
  MaxCalls = 4
INVARIANTS
  StaleHandlesAreCaught
  MadeIsRunnable
  ReductionIsSound
  CompleteIsEarned
  MutationIsFaithful
  TypeOK
  OneOwner
  EndsAreFinal
  CapsHold
  MemoryWithinCap
  VerdictIsFirstToLast
CHECK_DEADLOCK FALSE
