CONSTANTS
  cli = cli
  h1 = h1
  h2 = h2
  t1 = t1
  t2 = t2
  NULL = NULL
  Commands <- OneOperator
  Handles <- TwoHandles
  Timers <- TwoTimers
  Platform = "vxworks"
  Events = FALSE
  TestWrites = FALSE
  Fails = {"init", "hello", "entities"}
  MaxIbits = 2
  IbitTicks = 2
  TickSpace = 4
SPECIFICATION OperatorSpec
INVARIANTS Ticking
PROPERTIES NotEarly IbitServiceSpec IbitEnds
