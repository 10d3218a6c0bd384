SPECIFICATION ResourceSpec
CONSTANTS
  Handles = {"h1", "h2"}
  Pids = {1, 2, 3}
  NoPid = 0
  ExitCodes = {0, 7, 259}
  Classes = {"children", "sockets"}
  Units = {"u1", "u2", "u3"}
  Caps = {0, 2, 5}
  MaxRestarts = 2
  Word = 16
  Requests = {0, 1, 2, 3, 5, 13, 14, 15}
  MallocLimit = 6
  Chunk = 3
  Targets = {0, 2, 5, 7}
  MaxCalls = 4
INVARIANT
  ExitedIsCollected
CHECK_DEADLOCK FALSE
