---------------------------- MODULE DemoAppProofs ----------------------------
(***************************************************************************)
(* Theorems about DemoApp with one operator, for any handles and timer     *)
(* threads, both platforms, any number of IBIT requests, any duration of   *)
(* an IBIT and any width of the tick counter.                              *)
(***************************************************************************)
EXTENDS DemoApp, TLAPS

\* Commands come from one thread: the TCP CLI, or the VxWorks shell.
OneOperator == \A t, u \in Commands : t = u

\* The wait for the timer thread waits for it: on VxWorks the task is deleted.
Joins == Platform = "vxworks" \/ "join" \notin Fails

\* An event that is handled, and a request that goes on, have a reference number.
Requested == \A a \in Actors : pc[a] \in {"event", "set", "enter"} => ref[a] \in Refs

TypeInv == TypeOK /\ Requested

NoTimer == \A k \in Timers : at[k] = "off"

\* Callbacks are the receive threads' and everything else the commands'.
Roles ==
  /\ \A h \in Handles : pc[h] \in {"idle", "event", "set", "enter"}
  /\ \A t \in Commands : pc[t] # "event"

\* A timer thread is the one that g_timer_task names, and runs in a scenario.
OneTimer ==
  \A k \in Timers : at[k] # "off" => k = timer /\ state \in {"RUN", "IBIT_RUNNING"}

\* Between the commands that start and stop it there is no timer thread, and the steps
\* of a command know what the state is, unless a callback has made it IBIT_RUNNING.
Stages ==
  \A t \in Commands :
    /\ pc[t] \notin {"idle", "stop", "reset", "set", "enter", "test"} => NoTimer
    /\ pc[t] = "connect" => state = "IDLE"
    /\ pc[t] \in {"open", "hello", "wait", "giveup", "null", "create", "subscribe"} => state = "INIT"
    /\ pc[t] \in {"timer", "set", "enter"} => state \in {"RUN", "IBIT_RUNNING"}

\* At most one handle is open, and ctx->agent refers to it, except between the close of
\* the handle and the assignment of NULL; the receive thread of no other is at work.
OneHandle ==
  /\ open \subseteq {agent}
  /\ (\A t \in Commands : pc[t] \notin {"null", "init"}) => agent \in open \cup {NULL}
  /\ \A t \in Commands : pc[t] \in {"null", "init"} => open = {}
  /\ \A t \in Commands : pc[t] \in {"connect", "open"} => agent = NULL
  /\ \A h \in Handles \ open : pc[h] = "idle"

\* Before a scenario there is no IBIT, and nothing at all before connect.
Fresh ==
  /\ state \in {"IDLE", "INIT"} =>
       ~ibitRunning /\ \A h \in Handles : pc[h] \notin {"set", "enter"}
  /\ state = "IDLE" => agent = NULL

LinkInv == TypeInv /\ Roles /\ OneTimer /\ Stages /\ OneHandle /\ Fresh

-----------------------------------------------------------------------------
\* No runBIT event arrives.
Quiet == OneOperator /\ Joins /\ ~Events

\* Without events no callback runs and a command finds the state as it left it.
Alone ==
  /\ \A h \in Handles : pc[h] = "idle"
  /\ \A t \in Commands :
       /\ pc[t] = "scenario" => state \in {"INIT", "PEND"}
       /\ pc[t] \in {"timer", "set", "enter"} => state = "RUN"

\* From its start to its stop the timer thread runs.
Runs ==
  /\ state \in {"RUN", "IBIT_RUNNING"}
  /\ \A t \in Commands : pc[t] \notin {"timer", "stop", "reset", "pend", "close", "init"}
  => running /\ timer # NULL /\ at[timer] # "off"

\* A tick that handles the IBIT runs while it is in progress.
Handling == \A k \in Timers : at[k] \in {"ibit", "done"} => state = "IBIT_RUNNING"

\* As long as an IBIT lasts, the unsigned difference of the tick counters is the number
\* of ticks since its request.
Clocked ==
  (state = "IBIT_RUNNING" \/ \E t \in Commands : pc[t] = "enter") /\ waited < IbitTicks
    => Elapsed = waited

\* Reference numbers are new when they are asked for; the one in progress is the one
\* that entered IBIT_RUNNING last, and its result is not published twice.
Numbered ==
  /\ done \subseteq taken /\ \A r \in taken : r <= requests
  /\ \A t \in Commands :
       /\ pc[t] \in {"set", "enter"} => ref[t] = requests /\ ref[t] \in Refs \ taken
       /\ pc[t] = "enter" => ibitRef = ref[t]
  /\ state = "IBIT_RUNNING" =>
       /\ ibitRef = asked /\ asked \in taken
       /\ \A k \in Timers : at[k] \in {"loop", "publish", "ibit"} => asked \notin done

QuietInv == LinkInv /\ Alone /\ Handling

-----------------------------------------------------------------------------
(* Types.                                                                  *)

\* The tick counter wraps.
LEMMA TickType == 0 \in Ticks /\ \A n \in Int : n % TickSpace \in Ticks
  BY DemoAppAssumption DEF Ticks

\* Types hold initially.
LEMMA InitTypeInv == Init => TypeInv
<1> SUFFICES ASSUME Init PROVE TypeInv
  OBVIOUS
<1>1. /\ state \in States /\ agent \in Handles \cup {NULL} /\ connected \in BOOLEAN
      /\ open \subseteq Handles /\ hello \subseteq open /\ subs \in [Handles -> Nat]
  BY DEF Init, States
<1>2. /\ ibitRunning \in BOOLEAN /\ ibitRef \in Refs \cup {NoRef, TestRef} /\ ibitStart \in Ticks
      /\ tick \in Ticks /\ running \in BOOLEAN /\ timer \in Timers \cup {NULL}
      /\ at \in [Timers -> {"off", "loop", "publish", "ibit", "done"}]
  BY TickType DEF Init
<1>3. /\ pc \in [Actors -> {"idle"}] /\ ref \in [Actors -> {NoRef}] /\ left \in [Handles -> {0}]
      /\ requests \in 0..MaxIbits /\ asked = NoRef /\ taken = {} /\ done = {} /\ waited \in 0..IbitTicks
  BY DemoAppAssumption DEF Init
<1>4. TypeOK
  BY <1>1, <1>2, <1>3 DEF TypeOK
<1> QED
  BY <1>3, <1>4 DEF TypeInv, Requested

\* Every step keeps the types.
LEMMA TypeStep == TypeInv /\ [Next]_vars => TypeInv'
<1> SUFFICES ASSUME TypeInv, [Next]_vars PROVE TypeInv'
  OBVIOUS
<1> USE DemoAppAssumption DEF TypeInv, TypeOK, Requested, linkVars, ibitVars, timerVars, callVars, histVars, Goto, Actors
<1>1. ASSUME NEW t \in Commands, Shell(t) PROVE TypeInv'
  <2>1. CASE Connect(t)
    BY <2>1 DEF Connect
  <2>2. CASE Create(t)
    BY <2>2 DEF Create
  <2>3. CASE Scenario(t)
    BY <2>3 DEF Scenario
  <2>4. CASE StopTimer(t)
    <3>1. PICK to \in {"stop", "reset"} : pc' = [pc EXCEPT ![t] = to]
      BY <2>4 DEF StopTimer
    <3> QED
      BY <3>1, <2>4 DEF StopTimer
  <2>5. CASE TestWrite(t)
    BY <2>5 DEF TestWrite, TestRef
  <2> QED
    BY <1>1, <2>1, <2>2, <2>3, <2>4, <2>5 DEF Shell
<1>2. ASSUME NEW t \in Commands, RunIbit(t) PROVE TypeInv'
  BY <1>2 DEF RunIbit, Refs
<1>3. ASSUME NEW t \in Commands, ConnectCommand(t) PROVE TypeInv'
  <2>1. CASE ConnectEnter(t)
    BY <2>1 DEF ConnectEnter, States
  <2>2. CASE ConnectOpen(t)
    BY <2>2 DEF ConnectOpen
  <2>3. CASE ConnectFails(t)
    BY <2>3 DEF ConnectFails, States
  <2>4. CASE ConnectHello(t)
    BY <2>4 DEF ConnectHello
  <2>5. CASE ConnectWait(t)
    BY <2>5 DEF ConnectWait
  <2>6. CASE ConnectClose(t)
    BY <2>6 DEF ConnectClose, CloseAgent
  <2>7. CASE ConnectNull(t)
    BY <2>7 DEF ConnectNull, States
  <2> QED
    BY <1>3, <2>1, <2>2, <2>3, <2>4, <2>5, <2>6, <2>7 DEF ConnectCommand
<1>4. ASSUME NEW t \in Commands, CreateCommand(t) PROVE TypeInv'
  <2>1. CASE CreateEntities(t)
    BY <2>1 DEF CreateEntities
  <2>2. CASE CreateSubscribe(t)
    BY <2>2 DEF CreateSubscribe
  <2> QED
    BY <1>4, <2>1, <2>2 DEF CreateCommand
<1>5. ASSUME NEW t \in Commands, ScenarioCommand(t) PROVE TypeInv'
  <2>1. CASE ScenarioBit(t)
    BY <2>1 DEF ScenarioBit, States
  <2>2. CASE ScenarioRun(t)
    BY <2>2 DEF ScenarioRun, States
  <2>3. CASE ScenarioTimer(t)
    <3>1. at' \in [Timers -> {"off", "loop", "publish", "ibit", "done"}]
           /\ running' \in BOOLEAN /\ timer' \in Timers \cup {NULL}
      BY <2>3 DEF ScenarioTimer
    <3> QED
      BY <3>1, <2>3, TickType DEF ScenarioTimer
  <2> QED
    BY <1>5, <2>1, <2>2, <2>3 DEF ScenarioCommand
<1>6. ASSUME NEW t \in Commands, StopCommand(t) PROVE TypeInv'
  <2>1. CASE JoinTimer(t)
    BY <2>1 DEF JoinTimer
  <2>2. CASE StopPend(t)
    BY <2>2 DEF StopPend, States
  <2>3. CASE ResetClose(t)
    BY <2>3 DEF ResetClose, CloseAgent
  <2>4. CASE ResetInit(t)
    BY <2>4, TickType DEF ResetInit, States
  <2> QED
    BY <1>6, <2>1, <2>2, <2>3, <2>4 DEF StopCommand
<1>7. ASSUME NEW t \in Commands, TestPublish(t) PROVE TypeInv'
  BY <1>7 DEF TestPublish
<1>8. ASSUME NEW a \in Actors, Trigger(a) PROVE TypeInv'
  <2>1. CASE TriggerSet(a)
    BY <2>1 DEF TriggerSet
  <2>2. CASE TriggerEnter(a)
    <3>1. ref[a] \in Refs /\ Finished(a) \in {"event", "idle"}
      BY <2>2 DEF TriggerEnter, Finished
    <3>2. pc' = [pc EXCEPT ![a] = Finished(a)] /\ (Finished(a) = "event" => a \in Handles)
      BY <2>2 DEF TriggerEnter, Finished
    <3>3. left' \in [Handles -> Int]
      BY <2>2 DEF TriggerEnter, Visited
    <3> QED
      BY <3>1, <3>2, <3>3, <2>2 DEF TriggerEnter, States
  <2> QED
    BY <1>8, <2>1, <2>2 DEF Trigger
<1>9. ASSUME NEW h \in Handles, RunBit(h) PROVE TypeInv'
  BY <1>9 DEF RunBit, Refs
<1>10. ASSUME NEW h \in Handles, OnHello(h) PROVE TypeInv'
  BY <1>10 DEF OnHello
<1>11. ASSUME NEW h \in Handles, RunBitCheck(h) PROVE TypeInv'
  BY <1>11 DEF RunBitCheck, Finished, Visited
<1>12. ASSUME NEW k \in Timers, TimerThread(k) PROVE TypeInv'
  <2>1. CASE TimerExit(k)
    BY <2>1 DEF TimerExit
  <2>2. CASE Tick(k)
    <3>1. tick' \in Ticks
      BY <2>2, TickType DEF Tick, Ticks
    <3>2. waited' \in 0..IbitTicks
      BY <2>2 DEF Tick
    <3> QED
      BY <3>1, <3>2, <2>2 DEF Tick
  <2>3. CASE TickPublish(k)
    BY <2>3 DEF TickPublish
  <2>4. CASE TickIbit(k)
    BY <2>4 DEF TickIbit, Elapsed
  <2>5. CASE PublishResult(k)
    BY <2>5 DEF PublishResult, Elapsed
  <2>6. CASE IbitDone(k)
    BY <2>6 DEF IbitDone, States
  <2> QED
    BY <1>12, <2>1, <2>2, <2>3, <2>4, <2>5, <2>6 DEF TimerThread
<1>13. CASE UNCHANGED vars
  BY <1>13 DEF vars
<1> QED
  BY <1>1, <1>2, <1>3, <1>4, <1>5, <1>6, <1>7, <1>8, <1>9, <1>10, <1>11, <1>12, <1>13 DEF Next, Begin, Continue, Receive, Actors

\* Every reachable state of DemoApp is of its type, with any number of operators and whatever fails:
\* the reference numbers in particular are those of requests, and the tick counter wraps.
THEOREM TypeCorrect == Spec => []TypeOK
<1>1. TypeInv => TypeOK
  BY DEF TypeInv
<1> QED
  BY <1>1, InitTypeInv, TypeStep, PTL DEF Spec

-----------------------------------------------------------------------------
(* The link to the Agent, and the timer thread.                            *)

\* The invariant holds initially.
LEMMA InitLinkInv == Init => LinkInv
  BY InitTypeInv, DemoAppAssumption
     DEF Init, LinkInv, Roles, OneTimer, NoTimer, Stages, OneHandle, Fresh, Actors

\* Every step keeps it, given one operator and a wait that waits.
LEMMA LinkStep == OneOperator /\ Joins => (LinkInv /\ [Next]_vars => LinkInv')
<1> SUFFICES ASSUME OneOperator, Joins, LinkInv, [Next]_vars
             PROVE  Roles' /\ OneTimer' /\ Stages' /\ OneHandle' /\ Fresh'
  BY TypeStep DEF LinkInv
<1>0. /\ agent \in Handles \cup {NULL} /\ open \subseteq Handles /\ hello \subseteq open
      /\ ibitRunning \in BOOLEAN /\ timer \in Timers \cup {NULL}
      /\ DOMAIN at = Timers /\ DOMAIN pc = Actors /\ Actors = Commands \cup Handles
      /\ Commands \cap Handles = {} /\ NULL \notin Handles \cup Timers
  BY DemoAppAssumption DEF LinkInv, TypeInv, TypeOK, Actors
<1> USE <1>0 DEF OneOperator, Joins, LinkInv, Roles, OneTimer, NoTimer, Stages, OneHandle, Fresh,
        linkVars, ibitVars, timerVars, callVars, histVars, Goto, MayFail
<1>1. ASSUME NEW t \in Commands, Shell(t) PROVE Roles' /\ OneTimer' /\ Stages' /\ OneHandle' /\ Fresh'
  <2>1. CASE Connect(t)
    BY <2>1 DEF Connect
  <2>2. CASE Create(t)
    BY <2>2 DEF Create
  <2>3. CASE Scenario(t)
    BY <2>3 DEF Scenario
  <2>4. CASE StopTimer(t)
    BY <2>4 DEF StopTimer
  <2>5. CASE TestWrite(t)
    BY <2>5 DEF TestWrite
  <2> QED
    BY <1>1, <2>1, <2>2, <2>3, <2>4, <2>5 DEF Shell
<1>2. ASSUME NEW t \in Commands, RunIbit(t) PROVE Roles' /\ OneTimer' /\ Stages' /\ OneHandle' /\ Fresh'
  BY <1>2 DEF RunIbit
<1>3. ASSUME NEW t \in Commands, ConnectCommand(t) PROVE Roles' /\ OneTimer' /\ Stages' /\ OneHandle' /\ Fresh'
  <2>1. CASE ConnectEnter(t)
    BY <2>1 DEF ConnectEnter
  <2>2. CASE ConnectOpen(t)
    BY <2>2 DEF ConnectOpen
  <2>3. CASE ConnectFails(t)
    BY <2>3 DEF ConnectFails
  <2>4. CASE ConnectHello(t)
    BY <2>4 DEF ConnectHello
  <2>5. CASE ConnectWait(t)
    BY <2>5 DEF ConnectWait
  <2>6. CASE ConnectClose(t)
    BY <2>6 DEF ConnectClose, CloseAgent
  <2>7. CASE ConnectNull(t)
    BY <2>7 DEF ConnectNull
  <2> QED
    BY <1>3, <2>1, <2>2, <2>3, <2>4, <2>5, <2>6, <2>7 DEF ConnectCommand
<1>4. ASSUME NEW t \in Commands, CreateCommand(t) PROVE Roles' /\ OneTimer' /\ Stages' /\ OneHandle' /\ Fresh'
  <2>1. CASE CreateEntities(t)
    BY <2>1 DEF CreateEntities
  <2>2. CASE CreateSubscribe(t)
    BY <2>2 DEF CreateSubscribe
  <2> QED
    BY <1>4, <2>1, <2>2 DEF CreateCommand
<1>5. ASSUME NEW t \in Commands, ScenarioCommand(t) PROVE Roles' /\ OneTimer' /\ Stages' /\ OneHandle' /\ Fresh'
  <2>1. CASE ScenarioBit(t)
    BY <2>1 DEF ScenarioBit
  <2>2. CASE ScenarioRun(t)
    BY <2>2 DEF ScenarioRun
  <2>3. CASE ScenarioTimer(t)
    BY <2>3 DEF ScenarioTimer
  <2> QED
    BY <1>5, <2>1, <2>2, <2>3 DEF ScenarioCommand
<1>6. ASSUME NEW t \in Commands, StopCommand(t) PROVE Roles' /\ OneTimer' /\ Stages' /\ OneHandle' /\ Fresh'
  <2>1. CASE JoinTimer(t)
    BY <2>1 DEF JoinTimer
  <2>2. CASE StopPend(t)
    BY <2>2 DEF StopPend
  <2>3. CASE ResetClose(t)
    BY <2>3 DEF ResetClose, CloseAgent
  <2>4. CASE ResetInit(t)
    BY <2>4 DEF ResetInit
  <2> QED
    BY <1>6, <2>1, <2>2, <2>3, <2>4 DEF StopCommand
<1>7. ASSUME NEW t \in Commands, TestPublish(t) PROVE Roles' /\ OneTimer' /\ Stages' /\ OneHandle' /\ Fresh'
  BY <1>7 DEF TestPublish
<1>8. ASSUME NEW a \in Actors, Trigger(a) PROVE Roles' /\ OneTimer' /\ Stages' /\ OneHandle' /\ Fresh'
  <2>1. CASE TriggerSet(a)
    BY <2>1 DEF TriggerSet
  <2>2. CASE TriggerEnter(a)
    BY <2>2 DEF TriggerEnter, Finished, Visited
  <2> QED
    BY <1>8, <2>1, <2>2 DEF Trigger
<1>9. ASSUME NEW h \in Handles, RunBit(h) PROVE Roles' /\ OneTimer' /\ Stages' /\ OneHandle' /\ Fresh'
  BY <1>9 DEF RunBit
<1>10. ASSUME NEW h \in Handles, OnHello(h) PROVE Roles' /\ OneTimer' /\ Stages' /\ OneHandle' /\ Fresh'
  BY <1>10 DEF OnHello
<1>11. ASSUME NEW h \in Handles, RunBitCheck(h) PROVE Roles' /\ OneTimer' /\ Stages' /\ OneHandle' /\ Fresh'
  BY <1>11 DEF RunBitCheck, Finished, Visited
<1>12. ASSUME NEW k \in Timers, TimerThread(k) PROVE Roles' /\ OneTimer' /\ Stages' /\ OneHandle' /\ Fresh'
  <2>1. CASE TimerExit(k)
    BY <2>1 DEF TimerExit
  <2>2. CASE Tick(k)
    BY <2>2 DEF Tick
  <2>3. CASE TickPublish(k)
    BY <2>3 DEF TickPublish
  <2>4. CASE TickIbit(k)
    BY <2>4 DEF TickIbit, Elapsed
  <2>5. CASE PublishResult(k)
    BY <2>5 DEF PublishResult, Elapsed
  <2>6. CASE IbitDone(k)
    BY <2>6 DEF IbitDone
  <2> QED
    BY <1>12, <2>1, <2>2, <2>3, <2>4, <2>5, <2>6 DEF TimerThread
<1>13. CASE UNCHANGED vars
  BY <1>13 DEF vars
<1> QED
  BY <1>1, <1>2, <1>3, <1>4, <1>5, <1>6, <1>7, <1>8, <1>9, <1>10, <1>11, <1>12, <1>13 DEF Next, Begin, Continue, Receive, Actors

\* What the invariant says of the handle and of an idle program.
LEMMA LinkProperties == OneOperator => (LinkInv => HandleAlive /\ CleanIdle)
<1> SUFFICES ASSUME OneOperator, LinkInv PROVE HandleAlive /\ CleanIdle
  OBVIOUS
<1>1. HandleAlive
  <2> SUFFICES ASSUME UsesAgent PROVE agent \in open \cup {NULL}
    BY DEF HandleAlive
  <2>1. \A t \in Commands : pc[t] \notin {"null", "init"}
    BY DEF UsesAgent, OneOperator, LinkInv, Stages, NoTimer
  <2> QED
    BY <2>1 DEF LinkInv, OneHandle
<1>2. CleanIdle
  BY DemoAppAssumption DEF CleanIdle, Prompt, LinkInv, TypeInv, TypeOK, OneTimer, OneHandle, Fresh
<1> QED
  BY <1>1, <1>2

\* With one operator and a wait for the timer thread that waits, no command, callback or tick uses
\* a handle that has been closed, whatever else fails and whenever events and replies arrive.
THEOREM HandleIsAlive == OneOperator /\ Joins => (Spec => []HandleAlive)
<1> SUFFICES ASSUME OneOperator, Joins PROVE Spec => []HandleAlive
  OBVIOUS
<1>1. LinkInv /\ [Next]_vars => LinkInv'
  BY LinkStep
<1>2. LinkInv => HandleAlive
  BY LinkProperties
<1> QED
  BY <1>1, <1>2, InitLinkInv, PTL DEF Spec

\* On the same conditions nothing is left behind in IDLE by a reset or a connect that failed.
THEOREM IdleIsClean == OneOperator /\ Joins => (Spec => []CleanIdle)
<1> SUFFICES ASSUME OneOperator, Joins PROVE Spec => []CleanIdle
  OBVIOUS
<1>1. LinkInv /\ [Next]_vars => LinkInv'
  BY LinkStep
<1>2. LinkInv => CleanIdle
  BY LinkProperties
<1> QED
  BY <1>1, <1>2, InitLinkInv, PTL DEF Spec

-----------------------------------------------------------------------------
(* The scenario without events.                                            *)

\* The invariant holds initially.
LEMMA InitQuietInv == Init => QuietInv
  BY InitLinkInv DEF Init, QuietInv, Alone, Handling, Actors

\* Every step keeps it, given that no event arrives.
LEMMA QuietStep == Quiet => (QuietInv /\ [Next]_vars => QuietInv')
<1> SUFFICES ASSUME Quiet, QuietInv, [Next]_vars
             PROVE  Alone' /\ Handling'
  BY LinkStep DEF QuietInv, Quiet
<1>00. LinkInv /\ OneOperator /\ ~Events
  BY DEF QuietInv, Quiet
<1>0. /\ agent \in Handles \cup {NULL} /\ timer \in Timers \cup {NULL} /\ running \in BOOLEAN
      /\ DOMAIN at = Timers /\ DOMAIN pc = Actors /\ Actors = Commands \cup Handles
      /\ Commands \cap Handles = {} /\ NULL \notin Handles \cup Timers
  BY <1>00, DemoAppAssumption DEF LinkInv, TypeInv, TypeOK, Actors
<1> USE <1>0, <1>00 DEF OneOperator, QuietInv, Alone, Handling, LinkInv, Roles, OneTimer, NoTimer, Stages,
        linkVars, ibitVars, timerVars, callVars, histVars, Goto, MayFail
<1>1. ASSUME NEW t \in Commands, Shell(t) PROVE Alone' /\ Handling'
  <2>1. CASE Connect(t)
    BY <2>1 DEF Connect
  <2>2. CASE Create(t)
    BY <2>2 DEF Create
  <2>3. CASE Scenario(t)
    BY <2>3 DEF Scenario
  <2>4. CASE StopTimer(t)
    BY <2>4 DEF StopTimer
  <2>5. CASE TestWrite(t)
    BY <2>5 DEF TestWrite
  <2> QED
    BY <1>1, <2>1, <2>2, <2>3, <2>4, <2>5 DEF Shell
<1>2. ASSUME NEW t \in Commands, RunIbit(t) PROVE Alone' /\ Handling'
  BY <1>2 DEF RunIbit
<1>3. ASSUME NEW t \in Commands, ConnectCommand(t) PROVE Alone' /\ Handling'
  <2>1. CASE ConnectEnter(t)
    BY <2>1 DEF ConnectEnter
  <2>2. CASE ConnectOpen(t)
    BY <2>2 DEF ConnectOpen
  <2>3. CASE ConnectFails(t)
    BY <2>3 DEF ConnectFails
  <2>4. CASE ConnectHello(t)
    BY <2>4 DEF ConnectHello
  <2>5. CASE ConnectWait(t)
    BY <2>5 DEF ConnectWait
  <2>6. CASE ConnectClose(t)
    BY <2>6 DEF ConnectClose, CloseAgent
  <2>7. CASE ConnectNull(t)
    BY <2>7 DEF ConnectNull
  <2> QED
    BY <1>3, <2>1, <2>2, <2>3, <2>4, <2>5, <2>6, <2>7 DEF ConnectCommand
<1>4. ASSUME NEW t \in Commands, CreateCommand(t) PROVE Alone' /\ Handling'
  <2>1. CASE CreateEntities(t)
    BY <2>1 DEF CreateEntities
  <2>2. CASE CreateSubscribe(t)
    BY <2>2 DEF CreateSubscribe
  <2> QED
    BY <1>4, <2>1, <2>2 DEF CreateCommand
<1>5. ASSUME NEW t \in Commands, ScenarioCommand(t) PROVE Alone' /\ Handling'
  <2>1. CASE ScenarioBit(t)
    BY <2>1 DEF ScenarioBit
  <2>2. CASE ScenarioRun(t)
    BY <2>2 DEF ScenarioRun
  <2>3. CASE ScenarioTimer(t)
    BY <2>3 DEF ScenarioTimer
  <2> QED
    BY <1>5, <2>1, <2>2, <2>3 DEF ScenarioCommand
<1>6. ASSUME NEW t \in Commands, StopCommand(t) PROVE Alone' /\ Handling'
  <2>1. CASE JoinTimer(t)
    BY <2>1 DEF JoinTimer
  <2>2. CASE StopPend(t)
    BY <2>2 DEF StopPend
  <2>3. CASE ResetClose(t)
    BY <2>3 DEF ResetClose, CloseAgent
  <2>4. CASE ResetInit(t)
    BY <2>4 DEF ResetInit
  <2> QED
    BY <1>6, <2>1, <2>2, <2>3, <2>4 DEF StopCommand
<1>7. ASSUME NEW t \in Commands, TestPublish(t) PROVE Alone' /\ Handling'
  BY <1>7 DEF TestPublish
<1>8. ASSUME NEW a \in Actors, Trigger(a) PROVE Alone' /\ Handling'
  <2>1. CASE TriggerSet(a)
    BY <2>1 DEF TriggerSet
  <2>2. CASE TriggerEnter(a)
    BY <2>2 DEF TriggerEnter, Finished, Visited
  <2> QED
    BY <1>8, <2>1, <2>2 DEF Trigger
<1>9. ASSUME NEW h \in Handles, RunBit(h) PROVE Alone' /\ Handling'
  BY <1>9 DEF RunBit
<1>10. ASSUME NEW h \in Handles, OnHello(h) PROVE Alone' /\ Handling'
  BY <1>10 DEF OnHello
<1>11. ASSUME NEW h \in Handles, RunBitCheck(h) PROVE Alone' /\ Handling'
  BY <1>11 DEF RunBitCheck, Finished, Visited
<1>12. ASSUME NEW k \in Timers, TimerThread(k) PROVE Alone' /\ Handling'
  <2>1. CASE TimerExit(k)
    BY <2>1 DEF TimerExit
  <2>2. CASE Tick(k)
    BY <2>2 DEF Tick
  <2>3. CASE TickPublish(k)
    BY <2>3 DEF TickPublish
  <2>4. CASE TickIbit(k)
    BY <2>4 DEF TickIbit, Elapsed
  <2>5. CASE PublishResult(k)
    BY <2>5 DEF PublishResult, Elapsed
  <2>6. CASE IbitDone(k)
    BY <2>6 DEF IbitDone
  <2> QED
    BY <1>12, <2>1, <2>2, <2>3, <2>4, <2>5, <2>6 DEF TimerThread
<1>13. CASE UNCHANGED vars
  BY <1>13 DEF vars
<1> QED
  BY <1>1, <1>2, <1>3, <1>4, <1>5, <1>6, <1>7, <1>8, <1>9, <1>10, <1>11, <1>12, <1>13 DEF Next, Begin, Continue, Receive, Actors

\* The timer thread runs from its start to its stop, when it can be started.
LEMMA RunsStep == Quiet /\ "timer" \notin Fails => (QuietInv /\ Runs /\ [Next]_vars => Runs')
<1> SUFFICES ASSUME Quiet, "timer" \notin Fails, QuietInv, Runs, [Next]_vars PROVE Runs'
  OBVIOUS
<1>00. LinkInv /\ OneOperator /\ Joins
  BY DEF QuietInv, Quiet
<1>0. /\ agent \in Handles \cup {NULL} /\ timer \in Timers \cup {NULL} /\ running \in BOOLEAN
      /\ DOMAIN at = Timers /\ DOMAIN pc = Actors /\ Actors = Commands \cup Handles
      /\ Commands \cap Handles = {} /\ NULL \notin Handles \cup Timers
  BY <1>00, DemoAppAssumption DEF LinkInv, TypeInv, TypeOK, Actors
<1> USE <1>0, <1>00 DEF OneOperator, Joins, QuietInv, Alone, Handling, LinkInv, Roles, OneTimer, NoTimer,
        Stages, Runs, linkVars, ibitVars, timerVars, callVars, histVars, Goto, MayFail
<1>1. ASSUME NEW t \in Commands, Shell(t) PROVE Runs'
  <2>1. CASE Connect(t)
    BY <2>1 DEF Connect
  <2>2. CASE Create(t)
    BY <2>2 DEF Create
  <2>3. CASE Scenario(t)
    BY <2>3 DEF Scenario
  <2>4. CASE StopTimer(t)
    BY <2>4 DEF StopTimer
  <2>5. CASE TestWrite(t)
    BY <2>5 DEF TestWrite
  <2> QED
    BY <1>1, <2>1, <2>2, <2>3, <2>4, <2>5 DEF Shell
<1>2. ASSUME NEW t \in Commands, RunIbit(t) PROVE Runs'
  BY <1>2 DEF RunIbit
<1>3. ASSUME NEW t \in Commands, ConnectCommand(t) PROVE Runs'
  <2>1. CASE ConnectEnter(t)
    BY <2>1 DEF ConnectEnter
  <2>2. CASE ConnectOpen(t)
    BY <2>2 DEF ConnectOpen
  <2>3. CASE ConnectFails(t)
    BY <2>3 DEF ConnectFails
  <2>4. CASE ConnectHello(t)
    BY <2>4 DEF ConnectHello
  <2>5. CASE ConnectWait(t)
    BY <2>5 DEF ConnectWait
  <2>6. CASE ConnectClose(t)
    BY <2>6 DEF ConnectClose, CloseAgent
  <2>7. CASE ConnectNull(t)
    BY <2>7 DEF ConnectNull
  <2> QED
    BY <1>3, <2>1, <2>2, <2>3, <2>4, <2>5, <2>6, <2>7 DEF ConnectCommand
<1>4. ASSUME NEW t \in Commands, CreateCommand(t) PROVE Runs'
  <2>1. CASE CreateEntities(t)
    BY <2>1 DEF CreateEntities
  <2>2. CASE CreateSubscribe(t)
    BY <2>2 DEF CreateSubscribe
  <2> QED
    BY <1>4, <2>1, <2>2 DEF CreateCommand
<1>5. ASSUME NEW t \in Commands, ScenarioCommand(t) PROVE Runs'
  <2>1. CASE ScenarioBit(t)
    BY <2>1 DEF ScenarioBit
  <2>2. CASE ScenarioRun(t)
    BY <2>2 DEF ScenarioRun
  <2>3. CASE ScenarioTimer(t)
    BY <2>3 DEF ScenarioTimer
  <2> QED
    BY <1>5, <2>1, <2>2, <2>3 DEF ScenarioCommand
<1>6. ASSUME NEW t \in Commands, StopCommand(t) PROVE Runs'
  <2>1. CASE JoinTimer(t)
    BY <2>1 DEF JoinTimer
  <2>2. CASE StopPend(t)
    BY <2>2 DEF StopPend
  <2>3. CASE ResetClose(t)
    BY <2>3 DEF ResetClose, CloseAgent
  <2>4. CASE ResetInit(t)
    BY <2>4 DEF ResetInit
  <2> QED
    BY <1>6, <2>1, <2>2, <2>3, <2>4 DEF StopCommand
<1>7. ASSUME NEW t \in Commands, TestPublish(t) PROVE Runs'
  BY <1>7 DEF TestPublish
<1>8. ASSUME NEW a \in Actors, Trigger(a) PROVE Runs'
  <2>1. CASE TriggerSet(a)
    BY <2>1 DEF TriggerSet
  <2>2. CASE TriggerEnter(a)
    BY <2>2 DEF TriggerEnter, Finished, Visited
  <2> QED
    BY <1>8, <2>1, <2>2 DEF Trigger
<1>9. ASSUME NEW h \in Handles, RunBit(h) PROVE Runs'
  BY <1>9 DEF RunBit
<1>10. ASSUME NEW h \in Handles, OnHello(h) PROVE Runs'
  BY <1>10 DEF OnHello
<1>11. ASSUME NEW h \in Handles, RunBitCheck(h) PROVE Runs'
  BY <1>11 DEF RunBitCheck, Finished, Visited
<1>12. ASSUME NEW k \in Timers, TimerThread(k) PROVE Runs'
  <2>1. CASE TimerExit(k)
    BY <2>1 DEF TimerExit
  <2>2. CASE Tick(k)
    BY <2>2 DEF Tick
  <2>3. CASE TickPublish(k)
    BY <2>3 DEF TickPublish
  <2>4. CASE TickIbit(k)
    BY <2>4 DEF TickIbit, Elapsed
  <2>5. CASE PublishResult(k)
    BY <2>5 DEF PublishResult, Elapsed
  <2>6. CASE IbitDone(k)
    BY <2>6 DEF IbitDone
  <2> QED
    BY <1>12, <2>1, <2>2, <2>3, <2>4, <2>5, <2>6 DEF TimerThread
<1>13. CASE UNCHANGED vars
  BY <1>13 DEF vars
<1> QED
  BY <1>1, <1>2, <1>3, <1>4, <1>5, <1>6, <1>7, <1>8, <1>9, <1>10, <1>11, <1>12, <1>13 DEF Next, Begin, Continue, Receive, Actors

\* What the prompt shows.
LEMMA TickingFromInv == LinkInv /\ Runs => Ticking
  BY DEF LinkInv, OneTimer, Runs, Ticking, Prompt

\* With one operator, no events, a timer that starts and a wait that waits, one timer thread runs
\* while the prompt shows RUN or an IBIT, and none otherwise.
THEOREM TimerTicks == Quiet /\ "timer" \notin Fails => (Spec => []Ticking)
<1> SUFFICES ASSUME Quiet, "timer" \notin Fails PROVE Spec => []Ticking
  OBVIOUS
<1>1. QuietInv /\ [Next]_vars => QuietInv'
  BY QuietStep
<1>2. QuietInv /\ Runs /\ [Next]_vars => Runs'
  BY RunsStep
<1>3. Init => Runs
  BY DEF Init, Runs
<1>4. QuietInv /\ Runs => Ticking
  BY TickingFromInv DEF QuietInv
<1> QED
  BY <1>1, <1>2, <1>3, <1>4, InitQuietInv, PTL DEF Spec

-----------------------------------------------------------------------------
(* The duration of an IBIT.                                                *)

\* A tick adds one to the unsigned difference, even when the counter wraps.
LEMMA ElapsedGrows ==
  ASSUME NEW n \in Ticks, NEW start \in Ticks, NEW w \in Nat,
         (n - start) % TickSpace = w, w < IbitTicks
  PROVE  (((n + 1) % TickSpace) - start) % TickSpace = w + 1
  BY DemoAppAssumption DEF Ticks

\* Every step keeps the count, when no event arrives.
LEMMA ClockedStep == Quiet => (QuietInv /\ Clocked /\ [Next]_vars => Clocked')
<1> SUFFICES ASSUME Quiet, QuietInv, Clocked, [Next]_vars PROVE Clocked'
  OBVIOUS
<1>00. LinkInv /\ OneOperator /\ Joins
  BY DEF QuietInv, Quiet
<1>0. /\ agent \in Handles \cup {NULL} /\ timer \in Timers \cup {NULL} /\ running \in BOOLEAN
      /\ DOMAIN at = Timers /\ DOMAIN pc = Actors /\ Actors = Commands \cup Handles
      /\ Commands \cap Handles = {} /\ NULL \notin Handles \cup Timers
  BY <1>00, DemoAppAssumption DEF LinkInv, TypeInv, TypeOK, Actors
<1> USE <1>0, <1>00 DEF OneOperator, Joins, QuietInv, Alone, Handling, LinkInv, Roles, OneTimer, NoTimer,
        Stages, linkVars, ibitVars, timerVars, callVars, histVars, Goto, MayFail
<1>1. ASSUME NEW t \in Commands, Shell(t) PROVE Clocked'
  <2>1. CASE Connect(t)
    BY <2>1 DEF Connect, Clocked, Elapsed
  <2>2. CASE Create(t)
    BY <2>2 DEF Create, Clocked, Elapsed
  <2>3. CASE Scenario(t)
    BY <2>3 DEF Scenario, Clocked, Elapsed
  <2>4. CASE StopTimer(t)
    BY <2>4 DEF StopTimer, Clocked, Elapsed
  <2>5. CASE TestWrite(t)
    BY <2>5 DEF TestWrite, Clocked, Elapsed
  <2> QED
    BY <1>1, <2>1, <2>2, <2>3, <2>4, <2>5 DEF Shell
<1>2. ASSUME NEW t \in Commands, RunIbit(t) PROVE Clocked'
  BY <1>2 DEF RunIbit, Clocked, Elapsed
<1>3. ASSUME NEW t \in Commands, ConnectCommand(t) PROVE Clocked'
  <2>1. CASE ConnectEnter(t)
    BY <2>1 DEF ConnectEnter, Clocked, Elapsed
  <2>2. CASE ConnectOpen(t)
    BY <2>2 DEF ConnectOpen, Clocked, Elapsed
  <2>3. CASE ConnectFails(t)
    BY <2>3 DEF ConnectFails, Clocked, Elapsed
  <2>4. CASE ConnectHello(t)
    BY <2>4 DEF ConnectHello, Clocked, Elapsed
  <2>5. CASE ConnectWait(t)
    BY <2>5 DEF ConnectWait, Clocked, Elapsed
  <2>6. CASE ConnectClose(t)
    BY <2>6 DEF ConnectClose, CloseAgent, Clocked, Elapsed
  <2>7. CASE ConnectNull(t)
    BY <2>7 DEF ConnectNull, Clocked, Elapsed
  <2> QED
    BY <1>3, <2>1, <2>2, <2>3, <2>4, <2>5, <2>6, <2>7 DEF ConnectCommand
<1>4. ASSUME NEW t \in Commands, CreateCommand(t) PROVE Clocked'
  <2>1. CASE CreateEntities(t)
    BY <2>1 DEF CreateEntities, Clocked, Elapsed
  <2>2. CASE CreateSubscribe(t)
    BY <2>2 DEF CreateSubscribe, Clocked, Elapsed
  <2> QED
    BY <1>4, <2>1, <2>2 DEF CreateCommand
<1>5. ASSUME NEW t \in Commands, ScenarioCommand(t) PROVE Clocked'
  <2>1. CASE ScenarioBit(t)
    BY <2>1 DEF ScenarioBit, Clocked, Elapsed
  <2>2. CASE ScenarioRun(t)
    BY <2>2 DEF ScenarioRun, Clocked, Elapsed
  <2>3. CASE ScenarioTimer(t)
    BY <2>3 DEF ScenarioTimer, Clocked, Elapsed
  <2> QED
    BY <1>5, <2>1, <2>2, <2>3 DEF ScenarioCommand
<1>6. ASSUME NEW t \in Commands, StopCommand(t) PROVE Clocked'
  <2>1. CASE JoinTimer(t)
    BY <2>1 DEF JoinTimer, Clocked, Elapsed
  <2>2. CASE StopPend(t)
    BY <2>2 DEF StopPend, Clocked, Elapsed
  <2>3. CASE ResetClose(t)
    BY <2>3 DEF ResetClose, CloseAgent, Clocked, Elapsed
  <2>4. CASE ResetInit(t)
    BY <2>4 DEF ResetInit, Clocked, Elapsed
  <2> QED
    BY <1>6, <2>1, <2>2, <2>3, <2>4 DEF StopCommand
<1>7. ASSUME NEW t \in Commands, TestPublish(t) PROVE Clocked'
  BY <1>7 DEF TestPublish, Clocked, Elapsed
<1>8. ASSUME NEW a \in Actors, Trigger(a) PROVE Clocked'
  <2>1. CASE TriggerSet(a)
    <3>1. Elapsed' = 0 /\ waited' = 0
      BY <2>1, DemoAppAssumption DEF TriggerSet, Elapsed, TypeInv, TypeOK, Ticks
    <3> QED
      BY <3>1 DEF Clocked
  <2>2. CASE TriggerEnter(a)
    BY <2>2 DEF TriggerEnter, Finished, Visited, Clocked, Elapsed
  <2> QED
    BY <1>8, <2>1, <2>2 DEF Trigger
<1>9. ASSUME NEW h \in Handles, RunBit(h) PROVE Clocked'
  BY <1>9 DEF RunBit, Clocked, Elapsed
<1>10. ASSUME NEW h \in Handles, OnHello(h) PROVE Clocked'
  BY <1>10 DEF OnHello, Clocked, Elapsed
<1>11. ASSUME NEW h \in Handles, RunBitCheck(h) PROVE Clocked'
  BY <1>11 DEF RunBitCheck, Finished, Visited, Clocked, Elapsed
<1>12. ASSUME NEW k \in Timers, TimerThread(k) PROVE Clocked'
  <2>1. CASE TimerExit(k)
    BY <2>1 DEF TimerExit, Clocked, Elapsed
  <2>2. CASE Tick(k)
    <3>1. CASE Clocked /\ (state = "IBIT_RUNNING" \/ \E t \in Commands : pc[t] = "enter") /\ waited < IbitTicks
      <4>1. Elapsed = waited /\ tick \in Ticks /\ ibitStart \in Ticks /\ waited \in Nat
        BY <3>1, DemoAppAssumption DEF Clocked, TypeInv, TypeOK
      <4>2. Elapsed' = waited + 1
        BY <2>2, <3>1, <4>1, ElapsedGrows DEF Tick, Elapsed
      <4> QED
        BY <2>2, <3>1, <4>2 DEF Tick, Clocked
    <3>2. CASE ~(waited < IbitTicks)
      BY <2>2, <3>2 DEF Tick, Clocked
    <3>3. CASE ~(state = "IBIT_RUNNING" \/ \E t \in Commands : pc[t] = "enter")
      BY <2>2, <3>3 DEF Tick, Clocked
    <3> QED
      BY <3>1, <3>2, <3>3
  <2>3. CASE TickPublish(k)
    BY <2>3 DEF TickPublish, Clocked, Elapsed
  <2>4. CASE TickIbit(k)
    BY <2>4 DEF TickIbit, Clocked, Elapsed
  <2>5. CASE PublishResult(k)
    BY <2>5 DEF PublishResult, Clocked, Elapsed
  <2>6. CASE IbitDone(k)
    BY <2>6 DEF IbitDone, Clocked, Elapsed
  <2> QED
    BY <1>12, <2>1, <2>2, <2>3, <2>4, <2>5, <2>6 DEF TimerThread
<1>13. CASE UNCHANGED vars
  BY <1>13 DEF vars, Clocked, Elapsed
<1> QED
  BY <1>1, <1>2, <1>3, <1>4, <1>5, <1>6, <1>7, <1>8, <1>9, <1>10, <1>11, <1>12, <1>13 DEF Next, Begin, Continue, Receive, Actors

\* With one operator, no events and a wait for the timer thread that waits, a result is published
\* no earlier than IbitTicks after its request, across a wrap of the tick counter.
THEOREM ResultIsNotEarly == Quiet => (Spec => NotEarly)
<1> SUFFICES ASSUME Quiet PROVE Spec => NotEarly
  OBVIOUS
<1>1. QuietInv /\ [Next]_vars => QuietInv'
  BY QuietStep
<1>2. QuietInv /\ Clocked /\ [Next]_vars => Clocked'
  BY ClockedStep
<1>3. Init => Clocked
  BY DEF Init, Clocked, Actors
<1>4. QuietInv /\ Clocked /\ [Next]_vars
        => [\A k \in Timers : at[k] = "ibit" /\ at'[k] = "done" => waited >= IbitTicks]_vars
  <2> SUFFICES ASSUME QuietInv, Clocked, Next, NEW k \in Timers, at[k] = "ibit", at'[k] = "done"
               PROVE  waited >= IbitTicks
    OBVIOUS
  <2>1. DOMAIN at = Timers /\ waited \in Nat /\ state = "IBIT_RUNNING"
    BY DemoAppAssumption DEF QuietInv, LinkInv, TypeInv, TypeOK, Handling
  <2>2. PublishResult(k)
    <3>1. ASSUME NEW t \in Commands, Begin(t) \/ Continue(t) PROVE FALSE
      BY <2>1, <3>1 DEF Begin, Shell, Connect, Create, Scenario, StopTimer, TestWrite, RunIbit, Continue,
         ConnectCommand, ConnectEnter, ConnectOpen, ConnectFails, ConnectHello, ConnectWait, ConnectClose,
         ConnectNull, CreateCommand, CreateEntities, CreateSubscribe, ScenarioCommand, ScenarioBit, ScenarioRun,
         ScenarioTimer, StopCommand, JoinTimer, StopPend, ResetClose, ResetInit, Trigger, TriggerSet,
         TriggerEnter, TestPublish, timerVars
    <3>2. ASSUME NEW h \in Handles, RunBit(h) \/ OnHello(h) \/ Receive(h) PROVE FALSE
      BY <2>1, <3>2 DEF RunBit, OnHello, Receive, RunBitCheck, Trigger, TriggerSet, TriggerEnter, timerVars
    <3>3. ASSUME NEW j \in Timers, TimerThread(j) PROVE PublishResult(k)
      BY <2>1, <3>3 DEF TimerThread, TimerExit, Tick, TickPublish, TickIbit, PublishResult, IbitDone
    <3> QED
      BY <3>1, <3>2, <3>3 DEF Next
  <2>3. Elapsed >= IbitTicks
    BY <2>2 DEF PublishResult
  <2> QED
    BY <2>1, <2>3, DemoAppAssumption DEF Clocked
<1> QED
  BY <1>1, <1>2, <1>3, <1>4, InitQuietInv, PTL DEF Spec, NotEarly

-----------------------------------------------------------------------------
(* DemoApp implements IbitService.                                         *)

\* Every step keeps the numbers apart, when nothing but a request writes one.
LEMMA NumberedStep == Quiet /\ ~TestWrites => (QuietInv /\ Numbered /\ [Next]_vars => Numbered')
<1> SUFFICES ASSUME Quiet, ~TestWrites, QuietInv, Numbered, [Next]_vars PROVE Numbered'
  OBVIOUS
<1>00. LinkInv /\ OneOperator /\ Joins /\ ~Events
  BY DEF QuietInv, Quiet
<1>0. /\ agent \in Handles \cup {NULL} /\ timer \in Timers \cup {NULL} /\ running \in BOOLEAN
      /\ DOMAIN at = Timers /\ DOMAIN pc = Actors /\ Actors = Commands \cup Handles
      /\ Commands \cap Handles = {} /\ NULL \notin Handles \cup Timers
      /\ ref \in [Actors -> Refs \cup {NoRef}] /\ taken \subseteq Refs /\ requests \in 0..MaxIbits
      /\ MaxIbits \in Nat /\ Refs = 1..MaxIbits
  BY <1>00, DemoAppAssumption DEF LinkInv, TypeInv, TypeOK, Actors, Refs
<1> USE <1>0, <1>00 DEF OneOperator, Joins, QuietInv, Alone, Handling, LinkInv, Roles, OneTimer, NoTimer,
        Stages, Numbered, linkVars, ibitVars, timerVars, callVars, histVars, Goto, MayFail
<1>1. ASSUME NEW t \in Commands, Shell(t) PROVE Numbered'
  <2>1. CASE Connect(t)
    BY <2>1 DEF Connect
  <2>2. CASE Create(t)
    BY <2>2 DEF Create
  <2>3. CASE Scenario(t)
    BY <2>3 DEF Scenario
  <2>4. CASE StopTimer(t)
    BY <2>4 DEF StopTimer
  <2>5. CASE TestWrite(t)
    BY <2>5 DEF TestWrite
  <2> QED
    BY <1>1, <2>1, <2>2, <2>3, <2>4, <2>5 DEF Shell
<1>2. ASSUME NEW t \in Commands, RunIbit(t) PROVE Numbered'
  BY <1>2 DEF RunIbit
<1>3. ASSUME NEW t \in Commands, ConnectCommand(t) PROVE Numbered'
  <2>1. CASE ConnectEnter(t)
    BY <2>1 DEF ConnectEnter
  <2>2. CASE ConnectOpen(t)
    BY <2>2 DEF ConnectOpen
  <2>3. CASE ConnectFails(t)
    BY <2>3 DEF ConnectFails
  <2>4. CASE ConnectHello(t)
    BY <2>4 DEF ConnectHello
  <2>5. CASE ConnectWait(t)
    BY <2>5 DEF ConnectWait
  <2>6. CASE ConnectClose(t)
    BY <2>6 DEF ConnectClose, CloseAgent
  <2>7. CASE ConnectNull(t)
    BY <2>7 DEF ConnectNull
  <2> QED
    BY <1>3, <2>1, <2>2, <2>3, <2>4, <2>5, <2>6, <2>7 DEF ConnectCommand
<1>4. ASSUME NEW t \in Commands, CreateCommand(t) PROVE Numbered'
  <2>1. CASE CreateEntities(t)
    BY <2>1 DEF CreateEntities
  <2>2. CASE CreateSubscribe(t)
    BY <2>2 DEF CreateSubscribe
  <2> QED
    BY <1>4, <2>1, <2>2 DEF CreateCommand
<1>5. ASSUME NEW t \in Commands, ScenarioCommand(t) PROVE Numbered'
  <2>1. CASE ScenarioBit(t)
    BY <2>1 DEF ScenarioBit
  <2>2. CASE ScenarioRun(t)
    BY <2>2 DEF ScenarioRun
  <2>3. CASE ScenarioTimer(t)
    BY <2>3 DEF ScenarioTimer
  <2> QED
    BY <1>5, <2>1, <2>2, <2>3 DEF ScenarioCommand
<1>6. ASSUME NEW t \in Commands, StopCommand(t) PROVE Numbered'
  <2>1. CASE JoinTimer(t)
    BY <2>1 DEF JoinTimer
  <2>2. CASE StopPend(t)
    BY <2>2 DEF StopPend
  <2>3. CASE ResetClose(t)
    BY <2>3 DEF ResetClose, CloseAgent
  <2>4. CASE ResetInit(t)
    BY <2>4 DEF ResetInit
  <2> QED
    BY <1>6, <2>1, <2>2, <2>3, <2>4 DEF StopCommand
<1>7. ASSUME NEW t \in Commands, TestPublish(t) PROVE Numbered'
  BY <1>7 DEF TestPublish
<1>8. ASSUME NEW a \in Actors, Trigger(a) PROVE Numbered'
  <2>1. CASE TriggerSet(a)
    BY <2>1 DEF TriggerSet
  <2>2. CASE TriggerEnter(a)
    BY <2>2 DEF TriggerEnter, Finished, Visited
  <2> QED
    BY <1>8, <2>1, <2>2 DEF Trigger
<1>9. ASSUME NEW h \in Handles, RunBit(h) PROVE Numbered'
  BY <1>9 DEF RunBit
<1>10. ASSUME NEW h \in Handles, OnHello(h) PROVE Numbered'
  BY <1>10 DEF OnHello
<1>11. ASSUME NEW h \in Handles, RunBitCheck(h) PROVE Numbered'
  BY <1>11 DEF RunBitCheck, Finished, Visited
<1>12. ASSUME NEW k \in Timers, TimerThread(k) PROVE Numbered'
  <2>1. CASE TimerExit(k)
    BY <2>1 DEF TimerExit
  <2>2. CASE Tick(k)
    BY <2>2 DEF Tick
  <2>3. CASE TickPublish(k)
    BY <2>3 DEF TickPublish
  <2>4. CASE TickIbit(k)
    BY <2>4 DEF TickIbit, Elapsed
  <2>5. CASE PublishResult(k)
    <3>1. /\ at[k] = "ibit" /\ at' = [at EXCEPT ![k] = "done"]
          /\ done' \in {done, done \cup {ibitRef}}
          /\ UNCHANGED <<state, ibitRef, pc, ref, taken, asked, requests>>
      BY <2>5 DEF PublishResult
    <3> QED
      BY <3>1
  <2>6. CASE IbitDone(k)
    BY <2>6 DEF IbitDone
  <2> QED
    BY <1>12, <2>1, <2>2, <2>3, <2>4, <2>5, <2>6 DEF TimerThread
<1>13. CASE UNCHANGED vars
  BY <1>13 DEF vars
<1> QED
  BY <1>1, <1>2, <1>3, <1>4, <1>5, <1>6, <1>7, <1>8, <1>9, <1>10, <1>11, <1>12, <1>13 DEF Next, Begin, Continue, Receive, Actors

\* Nothing is asked for initially.
LEMMA InitNumbered == Init => Numbered
  BY DEF Init, Numbered, Actors

\* The request in progress.
Busy == IF state = "IBIT_RUNNING" /\ asked \notin done THEN asked ELSE NoRef

\* A step of DemoApp is one of IbitService, or changes nothing that it promises of.
LEMMA IbitStep ==
  Quiet /\ ~TestWrites =>
    (QuietInv /\ Numbered /\ Numbered' /\ [Next]_vars => [Ibit!IbitNext]_(Ibit!ibitVars))
<1> SUFFICES ASSUME Quiet, ~TestWrites, QuietInv, Numbered, Numbered', [Next]_vars
             PROVE  [Ibit!IbitNext]_(Ibit!ibitVars)
  OBVIOUS
<1>00. LinkInv /\ OneOperator /\ Joins /\ ~Events
  BY DEF QuietInv, Quiet
<1>0. /\ agent \in Handles \cup {NULL} /\ timer \in Timers \cup {NULL} /\ running \in BOOLEAN
      /\ DOMAIN at = Timers /\ DOMAIN pc = Actors /\ Actors = Commands \cup Handles
      /\ Commands \cap Handles = {} /\ NULL \notin Handles \cup Timers
      /\ ref \in [Actors -> Refs \cup {NoRef}] /\ taken \subseteq Refs /\ requests \in 0..MaxIbits
      /\ MaxIbits \in Nat /\ Refs = 1..MaxIbits
  BY <1>00, DemoAppAssumption DEF LinkInv, TypeInv, TypeOK, Actors, Refs
<1> USE <1>0, <1>00 DEF OneOperator, Joins, QuietInv, Alone, Handling, LinkInv, Roles, OneTimer, NoTimer,
        Stages, Numbered, Ibit!ibitVars, linkVars, ibitVars, timerVars, callVars, histVars, Goto, MayFail
<1>1. ASSUME NEW t \in Commands, Shell(t) PROVE [Ibit!IbitNext]_(Ibit!ibitVars)
  <2>1. CASE Connect(t)
    BY <2>1 DEF Connect
  <2>2. CASE Create(t)
    BY <2>2 DEF Create
  <2>3. CASE Scenario(t)
    BY <2>3 DEF Scenario
  <2>4. CASE StopTimer(t)
    BY <2>4 DEF StopTimer
  <2>5. CASE TestWrite(t)
    BY <2>5 DEF TestWrite
  <2> QED
    BY <1>1, <2>1, <2>2, <2>3, <2>4, <2>5 DEF Shell
<1>2. ASSUME NEW t \in Commands, RunIbit(t) PROVE [Ibit!IbitNext]_(Ibit!ibitVars)
  BY <1>2 DEF RunIbit
<1>3. ASSUME NEW t \in Commands, ConnectCommand(t) PROVE [Ibit!IbitNext]_(Ibit!ibitVars)
  <2>1. CASE ConnectEnter(t)
    BY <2>1 DEF ConnectEnter
  <2>2. CASE ConnectOpen(t)
    BY <2>2 DEF ConnectOpen
  <2>3. CASE ConnectFails(t)
    BY <2>3 DEF ConnectFails
  <2>4. CASE ConnectHello(t)
    BY <2>4 DEF ConnectHello
  <2>5. CASE ConnectWait(t)
    BY <2>5 DEF ConnectWait
  <2>6. CASE ConnectClose(t)
    BY <2>6 DEF ConnectClose, CloseAgent
  <2>7. CASE ConnectNull(t)
    BY <2>7 DEF ConnectNull
  <2> QED
    BY <1>3, <2>1, <2>2, <2>3, <2>4, <2>5, <2>6, <2>7 DEF ConnectCommand
<1>4. ASSUME NEW t \in Commands, CreateCommand(t) PROVE [Ibit!IbitNext]_(Ibit!ibitVars)
  <2>1. CASE CreateEntities(t)
    BY <2>1 DEF CreateEntities
  <2>2. CASE CreateSubscribe(t)
    BY <2>2 DEF CreateSubscribe
  <2> QED
    BY <1>4, <2>1, <2>2 DEF CreateCommand
<1>5. ASSUME NEW t \in Commands, ScenarioCommand(t) PROVE [Ibit!IbitNext]_(Ibit!ibitVars)
  <2>1. CASE ScenarioBit(t)
    BY <2>1 DEF ScenarioBit
  <2>2. CASE ScenarioRun(t)
    BY <2>2 DEF ScenarioRun, Ibit!Abandon, Ibit!Nobody, Ibit!IbitNext, NoRef
  <2>3. CASE ScenarioTimer(t)
    BY <2>3 DEF ScenarioTimer
  <2> QED
    BY <1>5, <2>1, <2>2, <2>3 DEF ScenarioCommand
<1>6. ASSUME NEW t \in Commands, StopCommand(t) PROVE [Ibit!IbitNext]_(Ibit!ibitVars)
  <2>1. CASE JoinTimer(t)
    BY <2>1 DEF JoinTimer
  <2>2. CASE StopPend(t)
    BY <2>2 DEF StopPend, Ibit!Abandon, Ibit!Nobody, Ibit!IbitNext, NoRef
  <2>3. CASE ResetClose(t)
    BY <2>3 DEF ResetClose, CloseAgent
  <2>4. CASE ResetInit(t)
    BY <2>4 DEF ResetInit, Ibit!Abandon, Ibit!Nobody, Ibit!IbitNext, NoRef
  <2> QED
    BY <1>6, <2>1, <2>2, <2>3, <2>4 DEF StopCommand
<1>7. ASSUME NEW t \in Commands, TestPublish(t) PROVE [Ibit!IbitNext]_(Ibit!ibitVars)
  BY <1>7 DEF TestPublish
<1>8. ASSUME NEW a \in Actors, Trigger(a) PROVE [Ibit!IbitNext]_(Ibit!ibitVars)
  <2>1. CASE TriggerSet(a)
    BY <2>1 DEF TriggerSet
  <2>2. CASE TriggerEnter(a)
    <3>1. a \in Commands /\ Busy = NoRef /\ ref[a] \in Refs \ taken /\ ref[a] \notin done
      BY <2>2 DEF TriggerEnter, Busy
    <3>2. Busy' = ref[a] /\ taken' = taken \cup {ref[a]} /\ done' = done
      BY <3>1, <2>2 DEF TriggerEnter, Busy
    <3>3. Ibit!Accept(ref[a])
      BY <3>1, <3>2 DEF Ibit!Accept, Ibit!Nobody, Busy, NoRef
    <3> QED
      BY <3>1, <3>3 DEF Ibit!IbitNext
  <2> QED
    BY <1>8, <2>1, <2>2 DEF Trigger
<1>9. ASSUME NEW h \in Handles, RunBit(h) PROVE [Ibit!IbitNext]_(Ibit!ibitVars)
  BY <1>9 DEF RunBit
<1>10. ASSUME NEW h \in Handles, OnHello(h) PROVE [Ibit!IbitNext]_(Ibit!ibitVars)
  BY <1>10 DEF OnHello
<1>11. ASSUME NEW h \in Handles, RunBitCheck(h) PROVE [Ibit!IbitNext]_(Ibit!ibitVars)
  BY <1>11 DEF RunBitCheck, Finished, Visited
<1>12. ASSUME NEW k \in Timers, TimerThread(k) PROVE [Ibit!IbitNext]_(Ibit!ibitVars)
  <2>1. CASE TimerExit(k)
    BY <2>1 DEF TimerExit
  <2>2. CASE Tick(k)
    BY <2>2 DEF Tick
  <2>3. CASE TickPublish(k)
    BY <2>3 DEF TickPublish
  <2>4. CASE TickIbit(k)
    BY <2>4 DEF TickIbit, Elapsed
  <2>5. CASE PublishResult(k)
    <3>1. Busy = asked /\ asked # NoRef /\ ibitRef = asked
      BY <2>5 DEF PublishResult, Busy, NoRef
    <3>2. CASE done' = done \cup {ibitRef}
      BY <2>5, <3>1, <3>2 DEF PublishResult, Busy, NoRef, Ibit!Answer, Ibit!Nobody, Ibit!IbitNext
    <3>3. CASE UNCHANGED done
      BY <2>5, <3>3 DEF PublishResult, Ibit!ibitVars
    <3> QED
      BY <2>5, <3>2, <3>3 DEF PublishResult
  <2>6. CASE IbitDone(k)
    BY <2>6 DEF IbitDone, Ibit!Abandon, Ibit!Nobody, Ibit!IbitNext, NoRef
  <2> QED
    BY <1>12, <2>1, <2>2, <2>3, <2>4, <2>5, <2>6 DEF TimerThread
<1>13. CASE UNCHANGED vars
  BY <1>13 DEF vars
<1> QED
  BY <1>1, <1>2, <1>3, <1>4, <1>5, <1>6, <1>7, <1>8, <1>9, <1>10, <1>11, <1>12, <1>13 DEF Next, Begin, Continue, Receive, Actors

\* With one operator, no events, no test_write and a wait for the timer thread that waits, DemoApp
\* takes one IBIT at a time and answers it once, with its own number, or abandons it.
THEOREM ImplementsIbitService == Quiet /\ ~TestWrites => (Spec => IbitServiceSpec)
<1> SUFFICES ASSUME Quiet, ~TestWrites PROVE Spec => IbitServiceSpec
  OBVIOUS
<1>1. QuietInv /\ [Next]_vars => QuietInv'
  BY QuietStep
<1>2. QuietInv /\ Numbered /\ [Next]_vars => Numbered'
  BY NumberedStep
<1>3. QuietInv /\ Numbered /\ Numbered' /\ [Next]_vars => [Ibit!IbitNext]_(Ibit!ibitVars)
  BY IbitStep
<1>4. Init => Ibit!IbitInit
  BY DEF Init, Ibit!IbitInit, Ibit!Nobody, NoRef
<1> QED
  BY <1>1, <1>2, <1>3, <1>4, InitQuietInv, InitNumbered, PTL DEF Spec, IbitServiceSpec, Ibit!IbitSpec
=============================================================================
