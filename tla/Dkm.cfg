CONSTANTS
  f1 = f1
  f2 = f2
  NONE = NONE
  Files <- TwoFiles
  CacheSize = 3
  MaxStarts = 3
  MaxHandles = 3
  MaxLines = 5
  Fails = {"mutex", "socket", "spawn", "bind", "init"}
  Slow = {"close", "load", "print"}
  Window = FALSE
  Numbers = {1, 2, 3}
  LineSize = 3
  ChunkSize = 4
  MaxSessions = 3
  MaxKeys = 10
  AgentFails = TRUE
SPECIFICATION MCSpec
INVARIANTS CacheSound QuietAfterStop SessionsApart
PROPERTIES StopReturns
