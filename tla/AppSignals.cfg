CONSTANTS
  cli = cli
  h1 = h1
  h2 = h2
  t1 = t1
  w1 = w1
  NULL = NULL
  Commands <- OneOperatorSet
  Handles <- TwoHandles
  Timers <- OneTimerSet
  Workers <- OneWorkerSet
  Platform = "windows"
  Events = TRUE
  TestWrites = TRUE
  Fails = {"init", "hello", "entities", "timer", "write"}
  WorkerFails = TRUE
  MaxIbits = 1
  IbitTicks = 1
  TickSpace = 2
  Capacity = 1
SPECIFICATION AppFairSpec
INVARIANTS NoUseAfterClose AtRest CleanIdle
PROPERTIES PublisherSpec BackAtPrompt
