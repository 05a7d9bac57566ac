CONSTANTS
  k1 = k1
  k2 = k2
  k3 = k3
  l1 = l1
  NONE = NONE
  Sockets <- ThreeSockets
  Loggers <- OneLogger
  Platforms = {"windows", "vxworks"}
  Fails = {"start", "alloc", "accept"}
  LogThreads = {"cli", "log"}
  CliThread = "cli"
  LogPlatforms = {"windows", "vxworks"}
  Messages = {1}
  Commanded <- SomeSettings
  OptionModes = {"both"}
  LateThreads = FALSE
  MaxSettings = 1
SPECIFICATION MCSpec
INVARIANTS OwnClient StoppedClean ContextOutlivesCli LockSound
PROPERTIES KeepsServing ShutdownEnds
CHECK_DEADLOCK FALSE
