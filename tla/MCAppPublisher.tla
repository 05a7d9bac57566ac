---------------------------- MODULE MCAppPublisher ----------------------------
(* Model-checking instances of AppPublisher.                               *)
EXTENDS AppPublisher

CONSTANTS cli, h1, h2, t1, w1

OneOperatorSet == {cli}
TwoHandles == {h1, h2}
OneTimerSet == {t1}
OneWorkerSet == {w1}
=============================================================================
