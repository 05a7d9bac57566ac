------------------------------ MODULE MCDemoApp ------------------------------
(* Model-checking instances of DemoApp.                                    *)
EXTENDS DemoApp

CONSTANTS cli, h1, h2, t1, t2

OneOperator  == {cli}
TwoHandles   == {h1, h2}
TwoTimers    == {t1, t2}

\* Next without the steps that Events and TestWrites switch off.  They are taken in the
\* instance of AppPublisher.
OperatorNext ==
  \/ \E t \in Commands :
       \/ Connect(t) \/ Create(t) \/ Scenario(t) \/ StopTimer(t) \/ RunIbit(t)
       \/ ConnectCommand(t) \/ CreateCommand(t) \/ ScenarioCommand(t) \/ StopCommand(t) \/ Trigger(t)
  \/ \E h \in Handles : OnHello(h)
  \/ \E k \in Timers : TimerThread(k)

OperatorSpec == Init /\ [][OperatorNext]_vars /\ Fairness
=============================================================================
