CONSTANTS
  w1 = w1
  w2 = w2
  t1 = t1
  t2 = t2
  h1 = h1
  h2 = h2
  NULL = NULL
  Workers <- TwoWorkers
  Timers <- TwoTimers
  Handles <- TwoHandles
  Platform = "windows"
  Capacity = 2
  Fails = {"timer"}
SPECIFICATION Spec
INVARIANTS Drained
