--------------------------- MODULE MCEventDispatch ---------------------------
(* Model-checking instances of EventDispatch.                              *)
EXTENDS EventDispatch

CONSTANTS t1, t2, rx, k1, k2, s1, s2, s3

TwoThreads == {t1, t2}
OneThread  == {t1}
TwoKeys    == {k1, k2}
ThreeSubs  == {s1, s2, s3}
TypedSubs  == {s3}

\* Three subscriptions and an event, two and two events, or adapters.
EventsOrAdapters ==
  { [subs |-> Subs,     events |-> 1, regs |-> 0],
    [subs |-> {s1, s3}, events |-> 2, regs |-> 0],
    [subs |-> {},       events |-> 1, regs |-> 2] }

\* Adapters only.
Adapters ==
  { [subs |-> {}, events |-> 0, regs |-> 2] }

\* A callback may subscribe to another key where the lock is recursive.
NestedOnVxWorks == [p \in Platforms |-> IF p = "vxworks" THEN {"other"} ELSE {}]
=============================================================================
