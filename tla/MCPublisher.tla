----------------------------- MODULE MCPublisher -----------------------------
(* Model-checking instances of Publisher.                                  *)
EXTENDS Publisher

CONSTANTS w1, w2, t1, t2, h1, h2

TwoWorkers == {w1, w2}
TwoTimers  == {t1, t2}
TwoHandles == {h1, h2}
=============================================================================
