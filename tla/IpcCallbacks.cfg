CONSTANTS
  a = a
  b = b
  rxThread = rxThread
  Rx = rxThread
  Callers <- WithCallback
  MaxCalls = 3
  IdSpace = 4
  Echo = TRUE
  Faults = {"lose", "duplicate", "reorder", "refuse"}
  Platform = "std"
  Worlds = {"std", "vxworks"}
SPECIFICATION MCSpec
INVARIANTS OwnId EntryKept AtMostOnce
PROPERTIES SilentAfterClose
