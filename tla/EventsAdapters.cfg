CONSTANTS
  t1 = t1
  t2 = t2
  rx = rx
  k1 = k1
  k2 = k2
  s1 = s1
  s2 = s2
  s3 = s3
  NONE = NONE
  Rx = rx
  Threads <- TwoThreads
  Keys <- TwoKeys
  Subs <- ThreeSubs
  Typed <- TypedSubs
  Platforms = {"std", "vxworks"}
  Nested <- NestedOnVxWorks
  Loads <- Adapters
SPECIFICATION Spec
INVARIANTS AdapterAlive
