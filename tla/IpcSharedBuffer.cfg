CONSTANTS
  a = a
  b = b
  rxThread = rxThread
  Rx = rxThread
  Callers <- TwoCallers
  MaxCalls = 2
  IdSpace = 4
  Echo = TRUE
  Faults = {}
  Platform = "std"
  Worlds = {"std"}
SPECIFICATION MCSpec
INVARIANTS OwnPayload
SYMMETRY CallerSymmetry
