CONSTANTS
  a = a
  b = b
  rxThread = rxThread
  Rx = rxThread
  Callers <- OneCaller
  MaxCalls = 3
  IdSpace = 5
  Echo = TRUE
  Faults = {"lose", "duplicate", "reorder", "refuse"}
  Platform = "std"
  Worlds = {"std", "order"}
SPECIFICATION MCFairSpec
PROPERTIES RequestReplySpec AnsweredInOrder CloseReturnsInOrder
