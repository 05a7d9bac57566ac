-------------------------- MODULE AppPublisherProofs --------------------------
(***************************************************************************)
(* Theorems about AppPublisher, for any handles, timer threads, workers,   *)
(* capacity of the queue, IBITs and failures.  What is proved of DemoApp   *)
(* and of Publisher alone holds of the program that has both: the          *)
(* composition is a refinement of each.                                    *)
(***************************************************************************)
EXTENDS AppPublisher, DemoAppProofs

\* Publisher with its theorems.
Signals ==
  INSTANCE PublisherProofs
    WITH state <- phase, pc <- Place(Operator), ticking <- running, tick <- Beat, at <- doing,
         Fails <- (Fails \cap {"timer", "join"}) \cup (IF WorkerFails THEN {"worker"} ELSE {})

\* What the commands have in hand.
GlueTypes ==
  /\ step \in [Commands -> {"none", "init", "spawn", "shutdown", "join"}]
  /\ signal \in [Timers -> {"none", "push", "done"}]
  /\ phase \in {"IDLE", "INIT", "RUN", "PEND"}

\* The publisher's part comes after the end of start_scenario's own, and in the middle of
\* stop_scenario and reset.
InBetween ==
  \A t \in Commands :
    /\ step[t] \in {"init", "spawn"} => pc[t] = "idle"
    /\ step[t] \in {"shutdown", "join"} => pc[t] \in {"pend", "close"}

\* A command knows what phase the publisher is in, and the state it leaves at the prompt
\* says so, whatever a callback or a tick has made of it meanwhile: those only write RUN and
\* IBIT_RUNNING.
Phases ==
  \A t \in Commands :
    /\ pc[t] \in {"connect", "open", "null", "reset", "close", "init"} => phase = "IDLE"
    /\ pc[t] \in {"hello", "wait", "giveup"} => phase = "INIT"
    /\ pc[t] \in {"scenario", "pbit", "timer"} => phase \in {"INIT", "PEND"}
    /\ pc[t] \in {"stop", "pend"} => phase = "PEND"
    /\ pc[t] \in {"open", "hello", "wait"} => state \notin {"IDLE", "PEND"}
    /\ pc[t] \in {"pbit", "timer"} => state \notin {"IDLE", "INIT", "PEND"}
    /\ /\ pc[t] \in {"idle", "create", "subscribe", "set", "enter", "test"}
       /\ state \in {"IDLE", "INIT", "PEND"}
       => phase = state

\* Only a tick in RUN has a signal.
SignalInTick == \A k \in Timers : signal[k] # "none" => at[k] = "publish"

PhaseInv == TypeInv /\ GlueTypes /\ InBetween /\ Phases /\ SignalInTick

-----------------------------------------------------------------------------
(* The composition does what DemoApp does.                                  *)

\* A step is one of DemoApp or leaves its variables alone.
LEMMA StepOfDemoApp == [AppNext]_allVars => [Next]_vars
<1> SUFFICES ASSUME [AppNext]_allVars PROVE [Next]_vars
  OBVIOUS
<1>1. ASSUME NEW t \in Commands, Issue(t) \/ CommandStep(t) PROVE [Next]_vars
  BY <1>1 DEF Issue, CommandStep, Proceed, PublisherStep, Next
<1>2. ASSUME NEW h \in Handles, Callback(h) PROVE [Next]_vars
  BY <1>2 DEF Callback, Next
<1>3. ASSUME NEW k \in Timers, TimerStep(k) PROVE [Next]_vars
  BY <1>3 DEF TimerStep, TickStep, SignalStep, Next
<1>4. ASSUME NEW w \in Workers, WorkerStep(w) PROVE [Next]_vars
  BY <1>4 DEF WorkerStep
<1>5. CASE UNCHANGED allVars
  BY <1>5 DEF allVars
<1> QED
  BY <1>1, <1>2, <1>3, <1>4, <1>5 DEF AppNext

\* The publisher takes nothing from DemoApp's behaviours: every property of DemoApp holds of
\* the program with the publisher.
THEOREM IncludesDemoApp == AppSpec => Spec
<1>1. AppInit => Init
  BY DEF AppInit
<1> QED
  BY <1>1, StepOfDemoApp, PTL DEF AppSpec, Spec

-----------------------------------------------------------------------------
(* The phases.                                                              *)

\* Where the publisher's part of a command is, is seen as it is.
LEMMA PlaceIsStep ==
  ASSUME NEW t \in Commands, GlueTypes
  PROVE  /\ step[t] # "none" => Place(t) = step[t]
         /\ Place(t) \in {"init", "spawn", "shutdown", "join"} => step[t] = Place(t)
  BY DEF Place, GlueTypes

\* A step of the publisher's part goes on to the next, or back to DemoApp's.
LEMMA NextPlace ==
  ASSUME NEW t \in Commands, PublisherStep(t), GlueTypes
  PROVE  /\ step'[t] = "spawn" => step[t] = "init"
         /\ step'[t] = "join" => step[t] = "shutdown"
         /\ step'[t] \in {"none", "spawn", "join"}
         /\ \A u \in Commands \ {t} : step'[u] = step[u]
<1>1. PICK s \in {"none", "spawn", "join"} : step' = [step EXCEPT ![t] = s]
  BY DEF PublisherStep
<1>2. step'[t] = s /\ Place(t) = step[t] /\ (step'[t] # "none" => Place(t)' = step'[t])
  BY <1>1 DEF Place, GlueTypes, PublisherStep
<1>3. CASE Pub(t)!StartWorker
  BY <1>1, <1>2, <1>3 DEF Pub!StartWorker, Pub!Goto, GlueTypes
<1>4. CASE Pub(t)!SpawnWorker
  BY <1>1, <1>2, <1>4 DEF Pub!SpawnWorker, Pub!Goto, GlueTypes
<1>5. CASE Pub(t)!Shutdown
  BY <1>1, <1>2, <1>5 DEF Pub!Shutdown, Pub!Goto, GlueTypes
<1>6. CASE Pub(t)!JoinWorker
  BY <1>1, <1>2, <1>6 DEF Pub!JoinWorker, Pub!Goto, GlueTypes
<1> QED
  BY <1>3, <1>4, <1>5, <1>6 DEF PublisherStep

\* What a command does besides DemoApp's step keeps the types.
LEMMA BesideTypes ==
  ASSUME NEW t \in Commands, GlueTypes, Beside(t)
  PROVE  GlueTypes'
  BY DEF GlueTypes, Beside, Follows, NextPhase

\* The invariant holds initially.
LEMMA InitPhaseInv == AppInit => PhaseInv
<1> SUFFICES ASSUME AppInit PROVE PhaseInv
  OBVIOUS
<1>1. TypeInv
  BY InitTypeInv DEF AppInit
<1>2. GlueTypes /\ SignalInTick
  BY DEF AppInit, GlueTypes, SignalInTick
<1>3. InBetween /\ Phases
  BY DEF AppInit, Init, InBetween, Phases, Actors
<1> QED
  BY <1>1, <1>2, <1>3 DEF PhaseInv

\* A step of DemoApp's keeps the phases.
LEMMA CommandPhases ==
  ASSUME OneOperator, PhaseInv, NEW t \in Commands, step[t] = "none", Begin(t) \/ Continue(t), Beside(t)
  PROVE  InBetween' /\ Phases'
<1>0. /\ DOMAIN pc = Actors /\ Actors = Commands \cup Handles /\ DOMAIN step = Commands
      /\ Commands \cap Handles = {} /\ agent \in Handles \cup {NULL} /\ t \in Actors
      /\ \A u \in Commands : u = t
  BY DemoAppAssumption DEF PhaseInv, TypeInv, TypeOK, GlueTypes, Actors, OneOperator
<1>1. /\ step' = [step EXCEPT ![t] = Follows(t)] /\ phase' = NextPhase(t)
  BY DEF Beside
<1>2. SUFFICES /\ step'[t] \in {"init", "spawn"} => pc'[t] = "idle"
               /\ step'[t] \in {"shutdown", "join"} => pc'[t] \in {"pend", "close"}
               /\ pc'[t] \in {"connect", "open", "null", "reset", "close", "init"} => phase' = "IDLE"
               /\ pc'[t] \in {"hello", "wait", "giveup"} => phase' = "INIT"
               /\ pc'[t] \in {"scenario", "pbit", "timer"} => phase' \in {"INIT", "PEND"}
               /\ pc'[t] \in {"stop", "pend"} => phase' = "PEND"
               /\ pc'[t] \in {"open", "hello", "wait"} => state' \notin {"IDLE", "PEND"}
               /\ pc'[t] \in {"pbit", "timer"} => state' \notin {"IDLE", "INIT", "PEND"}
               /\ /\ pc'[t] \in {"idle", "create", "subscribe", "set", "enter", "test"}
                  /\ state' \in {"IDLE", "INIT", "PEND"}
                  => phase' = state'
  BY <1>0 DEF InBetween, Phases
<1> USE <1>0, <1>1 DEF PhaseInv, InBetween, Phases, Follows, NextPhase, Goto
<1>3. CASE Begin(t)
  <2>1. CASE Connect(t) \/ Create(t) \/ Scenario(t) \/ TestWrite(t) \/ RunIbit(t)
    BY <2>1 DEF Connect, Create, Scenario, TestWrite, RunIbit
  <2>2. CASE StopTimer(t)
    BY <2>2 DEF StopTimer
  <2> QED
    BY <1>3, <2>1, <2>2 DEF Begin, Shell
<1>4. CASE ConnectCommand(t)
  <2>1. CASE ConnectEnter(t)
    BY <2>1 DEF ConnectEnter
  <2>2. CASE ConnectOpen(t)
    BY <2>2 DEF ConnectOpen
  <2>3. CASE ConnectFails(t)
    BY <2>3 DEF ConnectFails
  <2>4. CASE ConnectHello(t)
    BY <2>4 DEF ConnectHello
  <2>5. CASE ConnectWait(t)
    BY <2>5 DEF ConnectWait
  <2>6. CASE ConnectClose(t)
    BY <2>6 DEF ConnectClose, CloseAgent
  <2>7. CASE ConnectNull(t)
    BY <2>7 DEF ConnectNull
  <2> QED
    BY <1>4, <2>1, <2>2, <2>3, <2>4, <2>5, <2>6, <2>7 DEF ConnectCommand
<1>5. CASE CreateCommand(t)
  BY <1>5 DEF CreateCommand, CreateEntities, CreateSubscribe
<1>6. CASE ScenarioCommand(t)
  <2>1. CASE ScenarioBit(t) \/ ScenarioRun(t)
    BY <2>1 DEF ScenarioBit, ScenarioRun
  <2>2. CASE ScenarioTimer(t)
    BY <2>2 DEF ScenarioTimer
  <2> QED
    BY <1>6, <2>1, <2>2 DEF ScenarioCommand
<1>7. CASE StopCommand(t)
  <2>1. CASE JoinTimer(t)
    BY <2>1 DEF JoinTimer
  <2>2. CASE StopPend(t)
    BY <2>2 DEF StopPend
  <2>3. CASE ResetClose(t)
    BY <2>3 DEF ResetClose, CloseAgent
  <2>4. CASE ResetInit(t)
    BY <2>4 DEF ResetInit
  <2> QED
    BY <1>7, <2>1, <2>2, <2>3, <2>4 DEF StopCommand
<1>8. CASE Trigger(t) \/ TestPublish(t)
  BY <1>8 DEF Trigger, TriggerSet, TriggerEnter, Finished, TestPublish
<1> QED
  BY <1>3, <1>4, <1>5, <1>6, <1>7, <1>8 DEF Continue

\* A callback, which writes no state but IBIT_RUNNING, keeps them.
LEMMA CallbackPhases ==
  ASSUME PhaseInv, NEW h \in Handles, Callback(h)
  PROVE  InBetween' /\ Phases'
<1>0. /\ DOMAIN pc = Actors /\ Actors = Commands \cup Handles /\ Commands \cap Handles = {}
  BY DemoAppAssumption DEF PhaseInv, TypeInv, TypeOK, Actors
<1>1. /\ step' = step /\ phase' = phase
      /\ \A t \in Commands : pc'[t] = pc[t]
      /\ state' \in {state, "IBIT_RUNNING"}
  <2> USE <1>0 DEF Callback, glueVars, Goto
  <2>1. CASE RunBit(h) \/ OnHello(h)
    BY <2>1 DEF RunBit, OnHello
  <2>2. CASE RunBitCheck(h)
    BY <2>2 DEF RunBitCheck
  <2>3. CASE Trigger(h)
    BY <2>3 DEF Trigger, TriggerSet, TriggerEnter
  <2> QED
    BY <2>1, <2>2, <2>3 DEF Receive
<1> QED
  BY <1>1 DEF PhaseInv, InBetween, Phases

\* So does a tick, which writes no state but RUN.
LEMMA TickPhases ==
  ASSUME PhaseInv, NEW k \in Timers, TimerStep(k)
  PROVE  InBetween' /\ Phases' /\ SignalInTick' /\ GlueTypes'
<1>0. DOMAIN at = Timers
  BY DEF PhaseInv, TypeInv, TypeOK
<1>1. /\ step' = step /\ phase' = phase /\ pc' = pc /\ state' \in {state, "RUN"}
  BY DEF TimerStep, TickStep, SignalStep, TimerThread, TimerExit, Tick, TickPublish, TickIbit,
         PublishResult, IbitDone, vars
<1>2. InBetween' /\ Phases'
  BY <1>1 DEF PhaseInv, InBetween, Phases
<1>3. CASE TickStep(k)
  <2>1. \A j \in Timers \ {k} : at'[j] = at[j]
    BY <1>0, <1>3 DEF TickStep, TimerThread, TimerExit, Tick, TickPublish, TickIbit, PublishResult, IbitDone
  <2> QED
    BY <1>1, <1>2, <1>3, <2>1 DEF TickStep, PhaseInv, SignalInTick, GlueTypes
<1>4. CASE SignalStep(k)
  <2>1. PICK s \in {"push", "done"} : signal' = [signal EXCEPT ![k] = s]
    BY <1>4 DEF SignalStep
  <2>2. PICK t \in Commands : Pub(t)!Enqueue(k) \/ Pub(t)!Push(k)
    BY <1>4 DEF SignalStep
  <2>3. Beat[k] \in {"due", "push"}
    BY <2>2 DEF Pub!Enqueue, Pub!Push
  <2>4. at[k] = "publish" /\ at' = at
    BY <1>4, <2>3 DEF Beat, SignalStep, vars, timerVars
  <2> QED
    BY <1>1, <1>2, <2>1, <2>4 DEF PhaseInv, SignalInTick, GlueTypes
<1> QED
  BY <1>3, <1>4 DEF TimerStep

\* Every step keeps the invariant.
LEMMA PhaseStep == OneOperator => (PhaseInv /\ [AppNext]_allVars => PhaseInv')
<1> SUFFICES ASSUME OneOperator, PhaseInv, [AppNext]_allVars
             PROVE  GlueTypes' /\ InBetween' /\ Phases' /\ SignalInTick'
  BY TypeStep, StepOfDemoApp DEF PhaseInv
<1>1. ASSUME NEW t \in Commands, step[t] = "none", Begin(t) \/ Continue(t), Beside(t)
      PROVE  GlueTypes' /\ InBetween' /\ Phases' /\ SignalInTick'
  <2>1. InBetween' /\ Phases' /\ GlueTypes'
    BY <1>1, CommandPhases, BesideTypes DEF PhaseInv
  <2>2. SignalInTick'
    BY <1>1 DEF Beside, SignalInTick
  <2> QED
    BY <2>1, <2>2
<1>2. ASSUME NEW t \in Commands, PublisherStep(t)
      PROVE  GlueTypes' /\ InBetween' /\ Phases' /\ SignalInTick'
  <2>1. pc' = pc /\ at' = at /\ state' = state /\ UNCHANGED <<signal, phase>>
    BY <1>2 DEF PublisherStep, vars, timerVars
  <2>2. GlueTypes'
    <3>1. PICK s \in {"none", "spawn", "join"} : step' = [step EXCEPT ![t] = s]
      BY <1>2 DEF PublisherStep
    <3> QED
      BY <3>1, <2>1 DEF PhaseInv, GlueTypes
  <2>3. InBetween'
    BY <1>2, <2>1, NextPlace DEF PhaseInv, InBetween
  <2>4. Phases' /\ SignalInTick'
    BY <2>1 DEF PhaseInv, Phases, SignalInTick
  <2> QED
    BY <2>2, <2>3, <2>4
<1>3. ASSUME NEW h \in Handles, Callback(h)
      PROVE  GlueTypes' /\ InBetween' /\ Phases' /\ SignalInTick'
  <2>1. InBetween' /\ Phases'
    BY <1>3, CallbackPhases
  <2>2. at' = at /\ UNCHANGED glueVars
    BY <1>3 DEF Callback, RunBit, OnHello, Receive, RunBitCheck, Trigger, TriggerSet, TriggerEnter, timerVars
  <2> QED
    BY <2>1, <2>2 DEF PhaseInv, GlueTypes, SignalInTick, glueVars
<1>4. ASSUME NEW k \in Timers, TimerStep(k)
      PROVE  GlueTypes' /\ InBetween' /\ Phases' /\ SignalInTick'
  BY <1>4, TickPhases
<1>5. CASE UNCHANGED <<vars, glueVars>>
  BY <1>5 DEF PhaseInv, GlueTypes, InBetween, Phases, SignalInTick, vars, timerVars, glueVars
<1> QED
  BY <1>1, <1>2, <1>3, <1>4, <1>5
     DEF AppNext, Issue, CommandStep, Proceed, WorkerStep, allVars

-----------------------------------------------------------------------------
(* The composition does what Publisher says of its surroundings.            *)

\* With one operator every command is the operator's.
LEMMA OperatorIs == OneOperator => Operator \in Commands /\ \A t \in Commands : t = Operator
  BY AppPublisherAssumption DEF OneOperator, Operator

\* The signals of the threads that go on are what they were.
LEMMA BeatStays ==
  ASSUME NEW t \in Commands, Beside(t), at' = at
  PROVE  Beat' = Beat
<1>1. \A k \in Timers : at[k] = "publish" => signal'[k] = signal[k]
  BY DEF Beside
<1> QED
  BY <1>1 DEF Beat

\* What the publisher does not see of a command.
LEMMA Unseen ==
  ASSUME OneOperator, NEW t \in Commands, Beside(t), Place(t)' = Place(t), phase' = phase,
         UNCHANGED <<agent, open, running, timer, at>>
  PROVE  UNCHANGED Pub(Operator)!vars
<1>1. t = Operator /\ Beat' = Beat
  BY OperatorIs, BeatStays
<1> QED
  BY <1>1 DEF Beside, pubVars, Pub!vars, Pub!appVars, Pub!timerVars, Pub!queueVars, Pub!workVars

\* A step of DemoApp's in a command is one of Publisher's commands, or unseen.
LEMMA CommandRefines ==
  ASSUME OneOperator, PhaseInv, NEW t \in Commands, step[t] = "none", Begin(t) \/ Continue(t), Beside(t)
  PROVE  [Pub(Operator)!Next]_(Pub(Operator)!vars)
<1>0. /\ DOMAIN pc = Actors /\ Actors = Commands \cup Handles /\ DOMAIN step = Commands
      /\ DOMAIN at = Timers
      /\ Commands \cap Handles = {} /\ agent \in Handles \cup {NULL} /\ t \in Actors /\ t = Operator
  BY DemoAppAssumption, OperatorIs DEF PhaseInv, TypeInv, TypeOK, GlueTypes, Actors, OneOperator
<1>1. /\ step' = [step EXCEPT ![t] = Follows(t)] /\ phase' = NextPhase(t)
      /\ UNCHANGED <<up, len, worker, doing, using>>
  BY DEF Beside, pubVars
<1>2. \A s \in {"none", "init", "shutdown"} : Follows(t) = s => step'[t] = s
  BY <1>0, <1>1
<1> USE <1>0, <1>1
<1>3. CASE Begin(t)
  <2>1. CASE Connect(t) \/ Create(t) \/ Scenario(t) \/ TestWrite(t) \/ RunIbit(t)
    <3>1. pc[t] = "idle" /\ pc'[t] \in {"connect", "create", "scenario", "test", "set"}
          /\ UNCHANGED <<agent, open, running, timer, at>>
      BY <2>1 DEF Connect, Create, Scenario, TestWrite, RunIbit, Goto, linkVars, timerVars
    <3>2. Place(t)' = Place(t) /\ phase' = phase
      BY <3>1 DEF Place, Follows, NextPhase
    <3> QED
      BY <3>1, <3>2, Unseen
  <2>2. CASE StopTimer(t)
    <3>1. pc[t] = "idle" /\ pc'[t] \in {"stop", "reset"} /\ running' = FALSE
          /\ UNCHANGED <<agent, open, timer, at>>
      BY <2>2 DEF StopTimer, Goto, linkVars, timerVars
    <3>2. Place(t) = "idle" /\ Place(t)' = "timer" /\ phase' \in {"PEND", "IDLE"} /\ Beat' = Beat
      BY <3>1, BeatStays DEF Place, Follows, NextPhase
    <3>3. Pub(Operator)!Stop
      BY <3>1, <3>2 DEF Pub!Stop, Pub!Goto, Pub!queueVars, Pub!workVars
    <3> QED
      BY <3>3 DEF Pub!Next, Pub!Command
  <2> QED
    BY <1>3, <2>1, <2>2 DEF Begin, Shell
<1>4. CASE ConnectCommand(t)
  <2>1. CASE ConnectEnter(t) \/ ConnectFails(t) \/ ConnectHello(t) \/ ConnectWait(t)
    <3>1. /\ pc[t] \in {"connect", "open", "hello", "wait"}
          /\ pc'[t] \in {"open", "idle", "wait", "giveup"}
          /\ UNCHANGED <<agent, open, running, timer, at>>
      BY <2>1 DEF ConnectEnter, ConnectFails, ConnectHello, ConnectWait, Goto, linkVars, timerVars
    <3>2. Place(t)' = Place(t) /\ phase' = phase
      BY <3>1 DEF Place, Follows, NextPhase
    <3> QED
      BY <3>1, <3>2, Unseen
  <2>2. CASE ConnectOpen(t)
    <3>1. /\ pc[t] = "open" /\ pc'[t] = "hello" /\ UNCHANGED <<running, timer, at>>
          /\ \E h \in Handles \ open : agent' = h /\ open' = open \cup {h}
      BY <2>2 DEF ConnectOpen, Goto, timerVars
    <3>2. Place(t) = "idle" /\ Place(t)' = "idle" /\ phase = "IDLE" /\ phase' = "INIT" /\ Beat' = Beat
      BY <3>1, BeatStays DEF Place, Follows, NextPhase, PhaseInv, Phases
    <3>3. Pub(Operator)!Connect
      BY <3>1, <3>2 DEF Pub!Connect, Pub!timerVars, Pub!queueVars, Pub!workVars
    <3> QED
      BY <3>3 DEF Pub!Next, Pub!Command
  <2>3. CASE ConnectClose(t)
    <3>1. /\ pc[t] = "giveup" /\ pc'[t] = "null" /\ open' = open \ {agent}
          /\ UNCHANGED <<agent, running, timer, at>>
      BY <2>3 DEF ConnectClose, CloseAgent, timerVars
    <3>2. Place(t) = "idle" /\ Place(t)' = "null" /\ phase = "INIT" /\ phase' = "IDLE" /\ Beat' = Beat
      BY <3>1, BeatStays DEF Place, Follows, NextPhase, PhaseInv, Phases
    <3>3. Pub(Operator)!GiveUp
      BY <3>1, <3>2 DEF Pub!GiveUp, Pub!Goto, Pub!timerVars, Pub!queueVars, Pub!workVars
    <3> QED
      BY <3>3 DEF Pub!Next, Pub!Command
  <2>4. CASE ConnectNull(t)
    <3>1. /\ pc[t] = "null" /\ pc'[t] = "idle" /\ agent' = NULL
          /\ UNCHANGED <<open, running, timer, at>>
      BY <2>4 DEF ConnectNull, Goto, timerVars
    <3>2. Place(t) = "null" /\ Place(t)' = "idle" /\ phase' = phase /\ Beat' = Beat
      BY <3>1, BeatStays DEF Place, Follows, NextPhase
    <3>3. Pub(Operator)!Forget
      BY <3>1, <3>2 DEF Pub!Forget, Pub!Goto, Pub!timerVars, Pub!queueVars, Pub!workVars
    <3> QED
      BY <3>3 DEF Pub!Next, Pub!Continue
  <2> QED
    BY <1>4, <2>1, <2>2, <2>3, <2>4 DEF ConnectCommand
<1>5. CASE CreateCommand(t) \/ Trigger(t) \/ TestPublish(t)
  <2>1. /\ pc[t] \in {"create", "subscribe", "set", "enter", "test"}
        /\ pc'[t] \in {"subscribe", "enter", "idle"}
        /\ UNCHANGED <<agent, open, running, timer, at>>
    BY <1>5 DEF CreateCommand, CreateEntities, CreateSubscribe, Trigger, TriggerSet, TriggerEnter, Finished,
                TestPublish, Goto, linkVars, timerVars
  <2>2. Place(t)' = Place(t) /\ phase' = phase
    BY <2>1 DEF Place, Follows, NextPhase
  <2> QED
    BY <2>1, <2>2, Unseen
<1>6. CASE ScenarioCommand(t)
  <2>1. CASE ScenarioBit(t) \/ ScenarioRun(t)
    <3>1. pc[t] \in {"scenario", "pbit"} /\ pc'[t] \in {"pbit", "timer"}
          /\ UNCHANGED <<agent, open, running, timer, at>>
      BY <2>1 DEF ScenarioBit, ScenarioRun, Goto, linkVars, timerVars
    <3>2. Place(t)' = Place(t) /\ phase' = phase
      BY <3>1 DEF Place, Follows, NextPhase
    <3> QED
      BY <3>1, <3>2, Unseen
  <2>2. CASE ScenarioTimer(t)
    <3>1. pc[t] = "timer" /\ pc'[t] = "idle" /\ UNCHANGED <<agent, open>>
          /\ phase \in {"INIT", "PEND"} /\ phase' = "RUN" /\ Place(t) = "idle"
      BY <2>2 DEF ScenarioTimer, Goto, linkVars, NextPhase, PhaseInv, Phases, Place
    <3>2. ASSUME NEW k \in Timers, at[k] = "off", at' = [at EXCEPT ![k] = "loop"], timer' = k, running' = TRUE
          PROVE  Pub(Operator)!Start
      <4>1. Place(t)' = "init"
        BY <3>1, <3>2 DEF Place, Follows
      <4>2. Beat[k] = "off" /\ Beat' = [Beat EXCEPT ![k] = "loop"]
        BY <3>2 DEF Beat, Beside
      <4> QED
        BY <3>1, <3>2, <4>1, <4>2 DEF Pub!Start, Pub!Goto, Pub!queueVars, Pub!workVars
    <3>3. ASSUME MayFail("timer"), running' = FALSE, timer' = NULL, at' = at
          PROVE  Pub(Operator)!Start
      <4>1. Place(t)' = "idle" /\ Beat' = Beat
        BY <3>1, <3>3, BeatStays DEF Place, Follows
      <4> QED
        BY <3>1, <3>3, <4>1 DEF MayFail, Pub!Start, Pub!Goto, Pub!MayFail, Pub!queueVars, Pub!workVars
    <3>4. Pub(Operator)!Start
      BY <2>2, <3>2, <3>3 DEF ScenarioTimer
    <3> QED
      BY <3>4 DEF Pub!Next, Pub!Command
  <2> QED
    BY <1>6, <2>1, <2>2 DEF ScenarioCommand
<1>7. CASE StopCommand(t)
  <2>1. CASE JoinTimer(t)
    <3>1. /\ pc[t] \in {"stop", "reset"} /\ pc'[t] \in {"pend", "close"} /\ timer' = NULL
          /\ UNCHANGED <<agent, open, running>>
      BY <2>1 DEF JoinTimer, Goto, linkVars
    <3>2. Place(t) = "timer" /\ Place(t)' = "shutdown" /\ phase' = phase
      BY <3>1 DEF Place, Follows, NextPhase
    <3>3. CASE Platform = "vxworks" /\ at' = [k \in Timers |-> IF k = timer THEN "off" ELSE at[k]]
      <4>1. Beat' = [k \in Timers |-> IF k = timer THEN "off" ELSE Beat[k]]
        BY <3>3 DEF Beat, Beside
      <4> QED
        BY <3>1, <3>2, <3>3, <4>1
           DEF Pub!JoinTimer, Pub!Goto, Pub!queueVars, Pub!workVars, Pub!Next, Pub!Continue
    <3>4. CASE /\ at' = at
               /\ timer = NULL \/ (timer # NULL /\ at[timer] = "off") \/ (timer # NULL /\ MayFail("join"))
      <4>1. Beat' = Beat /\ (timer # NULL /\ at[timer] = "off" => Beat[timer] = "off")
        BY <3>4, BeatStays DEF Beat, PhaseInv, TypeInv, TypeOK
      <4> QED
        BY <3>1, <3>2, <3>4, <4>1
           DEF MayFail, Pub!JoinTimer, Pub!Goto, Pub!MayFail, Pub!queueVars, Pub!workVars, Pub!Next, Pub!Continue
    <3> QED
      BY <2>1, <3>3, <3>4 DEF JoinTimer
  <2>2. CASE StopPend(t)
    <3>1. pc[t] = "pend" /\ pc'[t] = "idle" /\ UNCHANGED <<agent, open, running, timer, at>>
      BY <2>2 DEF StopPend, Goto, linkVars, timerVars
    <3>2. Place(t) = "end" /\ Place(t)' = "idle" /\ phase = "PEND" /\ phase' = phase /\ Beat' = Beat
      BY <3>1, BeatStays DEF Place, Follows, NextPhase, PhaseInv, Phases
    <3> QED
      BY <3>1, <3>2 DEF Pub!Close, Pub!Goto, Pub!timerVars, Pub!queueVars, Pub!workVars, Pub!Next, Pub!Continue
  <2>3. CASE ResetClose(t)
    <3>1. /\ pc[t] = "close" /\ pc'[t] = "init" /\ open' = open \ {agent}
          /\ UNCHANGED <<agent, running, timer, at>>
      BY <2>3 DEF ResetClose, CloseAgent, timerVars
    <3>2. Place(t) = "end" /\ Place(t)' = "null" /\ phase = "IDLE" /\ phase' = phase /\ Beat' = Beat
      BY <3>1, BeatStays DEF Place, Follows, NextPhase, PhaseInv, Phases
    <3> QED
      BY <3>1, <3>2 DEF Pub!Close, Pub!Goto, Pub!timerVars, Pub!queueVars, Pub!workVars, Pub!Next, Pub!Continue
  <2>4. CASE ResetInit(t)
    <3>1. /\ pc[t] = "init" /\ pc'[t] = "idle" /\ agent' = NULL
          /\ UNCHANGED <<open, running, timer, at>>
      BY <2>4 DEF ResetInit, Goto, timerVars
    <3>2. Place(t) = "null" /\ Place(t)' = "idle" /\ phase' = phase /\ Beat' = Beat
      BY <3>1, BeatStays DEF Place, Follows, NextPhase
    <3> QED
      BY <3>1, <3>2 DEF Pub!Forget, Pub!Goto, Pub!timerVars, Pub!queueVars, Pub!workVars, Pub!Next, Pub!Continue
  <2> QED
    BY <1>7, <2>1, <2>2, <2>3, <2>4 DEF StopCommand
<1> QED
  BY <1>3, <1>4, <1>5, <1>6, <1>7 DEF Continue

\* A callback is none of the publisher's business.
LEMMA CallbackRefines ==
  ASSUME OneOperator, PhaseInv, NEW h \in Handles, Callback(h)
  PROVE  UNCHANGED Pub(Operator)!vars
<1>0. DOMAIN pc = Actors /\ Actors = Commands \cup Handles /\ Commands \cap Handles = {} /\ Operator \in Commands
  BY DemoAppAssumption, OperatorIs DEF PhaseInv, TypeInv, TypeOK, Actors
<1>1. pc'[Operator] = pc[Operator] /\ UNCHANGED <<agent, open, running, timer, at>>
  BY <1>0 DEF Callback, RunBit, OnHello, Receive, RunBitCheck, Trigger, TriggerSet, TriggerEnter,
              Goto, linkVars, timerVars
<1>2. Place(Operator)' = Place(Operator) /\ Beat' = Beat
  BY <1>1 DEF Callback, glueVars, Place, Beat
<1> QED
  BY <1>1, <1>2 DEF Callback, glueVars, pubVars, Pub!vars, Pub!appVars, Pub!timerVars, Pub!queueVars, Pub!workVars

\* A tick of DemoApp's is one of Publisher's, or handles the IBIT, which the publisher does
\* not see.
LEMMA TickRefines ==
  ASSUME OneOperator, PhaseInv, NEW k \in Timers, TickStep(k)
  PROVE  [Pub(Operator)!Next]_(Pub(Operator)!vars)
<1>0. DOMAIN at = Timers
  BY DEF PhaseInv, TypeInv, TypeOK
<1>1. /\ UNCHANGED <<phase, Place(Operator), agent, open, running, timer, up, len, worker, doing, using>>
  BY DEF TickStep, TimerThread, TimerExit, Tick, TickPublish, TickIbit, PublishResult, IbitDone,
         linkVars, pubVars, Place
<1>2. /\ signal' = [signal EXCEPT ![k] = "none"] /\ signal[k] # "push" /\ DOMAIN signal = Timers
      /\ at[k] # "publish" => signal[k] = "none"
  BY DEF TickStep, PhaseInv, GlueTypes, SignalInTick
<1>3. \A to : at' = [at EXCEPT ![k] = to] =>
        Beat' = [Beat EXCEPT ![k] = IF to = "off" THEN "off" ELSE IF to = "publish" THEN "due" ELSE "loop"]
  BY <1>0, <1>2 DEF Beat
<1>4. Beat[k] = IF at[k] = "off" THEN "off"
                ELSE IF at[k] = "publish" /\ signal[k] = "none" THEN "due" ELSE "loop"
  BY <1>2 DEF Beat
<1>5. Beat[k] = "loop" => [Beat EXCEPT ![k] = "loop"] = Beat
  BY DEF Beat
<1>6. Beat' = Beat => UNCHANGED Pub(Operator)!vars
  BY <1>1 DEF Pub!vars, Pub!appVars, Pub!timerVars, Pub!queueVars, Pub!workVars
<1>7. CASE TimerExit(k)
  <2>1. Beat[k] = "loop" /\ Beat' = [Beat EXCEPT ![k] = "off"] /\ ~running
    BY <1>3, <1>4, <1>7 DEF TimerExit
  <2> QED
    BY <1>1, <2>1 DEF Pub!TimerExit, Pub!appVars, Pub!queueVars, Pub!workVars, Pub!Next, Pub!TimerThread
<1>8. CASE Tick(k)
  <2>1. Beat[k] = "loop" /\ running /\ at' = [at EXCEPT ![k] = at'[k]] /\ at'[k] \in {"ibit", "publish", "loop"}
    BY <1>0, <1>4, <1>8 DEF Tick
  <2>2. CASE at'[k] = "publish"
    <3>1. Beat' = [Beat EXCEPT ![k] = "due"]
      BY <1>3, <2>1, <2>2
    <3> QED
      BY <1>1, <2>1, <3>1 DEF Pub!Tick, Pub!appVars, Pub!queueVars, Pub!workVars, Pub!Next, Pub!TimerThread
  <2>3. CASE at'[k] # "publish"
    <3>1. Beat' = [Beat EXCEPT ![k] = "loop"]
      BY <1>3, <2>1, <2>3
    <3> QED
      BY <1>5, <1>6, <2>1, <3>1
  <2> QED
    BY <2>2, <2>3
<1>9. CASE TickPublish(k)
  <2>1. Beat[k] \in {"due", "loop"} /\ Beat' = [Beat EXCEPT ![k] = "loop"]
    BY <1>3, <1>4, <1>9 DEF TickPublish
  <2>2. CASE Beat[k] = "due"
    BY <1>1, <2>1, <2>2 DEF Pub!Skip, Pub!appVars, Pub!queueVars, Pub!workVars, Pub!Next, Pub!TimerThread
  <2>3. CASE Beat[k] = "loop"
    BY <1>5, <1>6, <2>1, <2>3
  <2> QED
    BY <2>1, <2>2, <2>3
<1>10. CASE TickIbit(k) \/ PublishResult(k) \/ IbitDone(k)
  <2>1. at[k] \in {"ibit", "done"} /\ at' = [at EXCEPT ![k] = at'[k]] /\ at'[k] \in {"loop", "done"}
    BY <1>0, <1>10 DEF TickIbit, PublishResult, IbitDone
  <2>2. Beat[k] = "loop" /\ Beat' = [Beat EXCEPT ![k] = "loop"]
    BY <1>3, <1>4, <2>1
  <2> QED
    BY <1>5, <1>6, <2>2
<1> QED
  BY <1>7, <1>8, <1>9, <1>10 DEF TickStep, TimerThread

\* Every step is one of Publisher's, or changes nothing it speaks of.
LEMMA PublisherRefined ==
  OneOperator => (PhaseInv /\ [AppNext]_allVars => [Pub(Operator)!Next]_(Pub(Operator)!vars))
<1> SUFFICES ASSUME OneOperator, PhaseInv, [AppNext]_allVars
             PROVE  [Pub(Operator)!Next]_(Pub(Operator)!vars)
  OBVIOUS
<1>1. ASSUME NEW t \in Commands, Issue(t) \/ Proceed(t) PROVE [Pub(Operator)!Next]_(Pub(Operator)!vars)
  BY <1>1, CommandRefines DEF Issue, Proceed
<1>2. ASSUME NEW t \in Commands, PublisherStep(t) PROVE Pub(Operator)!Next
  <2>1. t = Operator
    BY OperatorIs
  <2> QED
    BY <1>2, <2>1 DEF PublisherStep, Pub!Next, Pub!Continue
<1>3. ASSUME NEW h \in Handles, Callback(h) PROVE UNCHANGED Pub(Operator)!vars
  BY <1>3, CallbackRefines
<1>4. ASSUME NEW k \in Timers, TimerStep(k) PROVE [Pub(Operator)!Next]_(Pub(Operator)!vars)
  <2>1. CASE TickStep(k)
    BY <2>1, TickRefines
  <2>2. CASE SignalStep(k)
    <3>1. PICK t \in Commands : Pub(t)!Enqueue(k) \/ Pub(t)!Push(k)
      BY <2>2 DEF SignalStep
    <3>2. t = Operator
      BY OperatorIs
    <3> QED
      BY <3>1, <3>2 DEF Pub!Next, Pub!TimerThread
  <2> QED
    BY <1>4, <2>1, <2>2 DEF TimerStep
<1>5. ASSUME NEW w \in Workers, WorkerStep(w) PROVE Pub(Operator)!Next
  <2>1. PICK t \in Commands : Pub(t)!WorkerThread(w)
    BY <1>5 DEF WorkerStep
  <2>2. t = Operator
    BY OperatorIs
  <2> QED
    BY <2>1, <2>2 DEF Pub!Next
<1>6. CASE UNCHANGED allVars
  BY <1>6 DEF allVars, vars, linkVars, timerVars, glueVars, pubVars, Place, Beat, Pub!vars, Pub!appVars, Pub!timerVars, Pub!queueVars, Pub!workVars
<1> QED
  BY <1>1, <1>2, <1>3, <1>4, <1>5, <1>6 DEF AppNext, CommandStep

\* The two instances of Publisher are the same.
LEMMA SignalsArePub ==
  /\ Pub(Operator)!Init <=> Signals!Init
  /\ Pub(Operator)!Next <=> Signals!Next
  /\ UNCHANGED Pub(Operator)!vars <=> UNCHANGED Signals!vars
  /\ Pub(Operator)!WriteAlive <=> Signals!WriteAlive
<1>1. Pub(Operator)!Init <=> Signals!Init
  BY DEF Pub!Init, Signals!Init
<1>2. Pub(Operator)!Next <=> Signals!Next
  BY DEF Pub!Next, Signals!Next, Pub!vars, Signals!vars, Pub!Command, Signals!Command,
         Pub!Connect, Signals!Connect, Pub!GiveUp, Signals!GiveUp, Pub!Start, Signals!Start,
         Pub!Stop, Signals!Stop, Pub!Continue, Signals!Continue,
         Pub!StartWorker, Signals!StartWorker, Pub!SpawnWorker, Signals!SpawnWorker,
         Pub!JoinTimer, Signals!JoinTimer, Pub!Shutdown, Signals!Shutdown,
         Pub!JoinWorker, Signals!JoinWorker, Pub!Close, Signals!Close, Pub!Forget, Signals!Forget,
         Pub!TimerThread, Signals!TimerThread, Pub!TimerExit, Signals!TimerExit,
         Pub!Tick, Signals!Tick, Pub!Enqueue, Signals!Enqueue, Pub!Skip, Signals!Skip,
         Pub!Push, Signals!Push, Pub!Room, Signals!Room, Pub!WorkerThread, Signals!WorkerThread,
         Pub!Receive, Signals!Receive, Pub!Check, Signals!Check, Pub!Write, Signals!Write,
         Pub!Written, Signals!Written, Pub!appVars, Signals!appVars,
         Pub!timerVars, Signals!timerVars, Pub!queueVars, Signals!queueVars,
         Pub!workVars, Signals!workVars, Pub!Goto, Signals!Goto, Pub!MayFail, Signals!MayFail
<1>3. UNCHANGED Pub(Operator)!vars <=> UNCHANGED Signals!vars
  BY DEF Pub!vars, Signals!vars, Pub!appVars, Signals!appVars, Pub!timerVars, Signals!timerVars,
         Pub!queueVars, Signals!queueVars, Pub!workVars, Signals!workVars
<1>4. Pub(Operator)!WriteAlive <=> Signals!WriteAlive
  BY DEF Pub!WriteAlive, Signals!WriteAlive
<1> QED
  BY <1>1, <1>2, <1>3, <1>4

\* The constants that Publisher is given are what it assumes.
LEMMA SignalsAssumption == Signals!PublisherAssumption
  BY DemoAppAssumption, AppPublisherAssumption DEF Signals!PublisherAssumption

-----------------------------------------------------------------------------
(* The theorems.                                                            *)

\* With one operator the invariant of the phases is one.
LEMMA PhaseInvHolds == OneOperator => (AppSpec => []PhaseInv)
<1> SUFFICES ASSUME OneOperator PROVE AppSpec => []PhaseInv
  OBVIOUS
<1>1. PhaseInv /\ [AppNext]_allVars => PhaseInv'
  BY PhaseStep
<1> QED
  BY <1>1, InitPhaseInv, PTL DEF AppSpec

\* With one operator, on both platforms and whatever fails, commands, ticks and callbacks of
\* DemoApp are the surroundings that Publisher describes.
THEOREM ImplementsPublisher == OneOperator => (AppSpec => PublisherSpec)
<1> SUFFICES ASSUME OneOperator PROVE AppSpec => PublisherSpec
  OBVIOUS
<1>1. AppInit => Pub(Operator)!Init
  <2> SUFFICES ASSUME AppInit PROVE Pub(Operator)!Init
    OBVIOUS
  <2>1. Operator \in Commands
    BY OperatorIs
  <2>2. Place(Operator) = "idle" /\ Beat = [k \in Timers |-> "off"]
    BY <2>1 DEF AppInit, Init, Place, Beat, Actors
  <2> QED
    BY <2>2 DEF AppInit, Init, Pub!Init
<1>2. PhaseInv /\ [AppNext]_allVars => [Pub(Operator)!Next]_(Pub(Operator)!vars)
  BY PublisherRefined
<1> QED
  BY <1>1, <1>2, PhaseInvHolds, PTL DEF AppSpec, PublisherSpec

\* So Publisher's theorems are about the program.
LEMMA SignalsHold == OneOperator => (AppSpec => Signals!Spec)
<1> SUFFICES ASSUME OneOperator PROVE AppSpec => Signals!Spec
  OBVIOUS
<1>1. Pub(Operator)!Init => Signals!Init
  BY SignalsArePub
<1>2. [Pub(Operator)!Next]_(Pub(Operator)!vars) => [Signals!Next]_(Signals!vars)
  BY SignalsArePub
<1> QED
  BY <1>1, <1>2, ImplementsPublisher, PTL DEF PublisherSpec, Signals!Spec

\* Type correctness: the queue never exceeds its capacity, on either platform and whatever
\* fails, with DemoApp's commands and ticks around it.
THEOREM AppTypeCorrect == OneOperator => (AppSpec => []AppTypeOK)
<1> SUFFICES ASSUME OneOperator PROVE AppSpec => []AppTypeOK
  OBVIOUS
<1>1. Signals!Spec => []Signals!TypeOK
  BY SignalsAssumption, Signals!TypeCorrect, Signals!PublisherAssumption
<1>2. PhaseInv /\ Signals!TypeOK => AppTypeOK
  BY DEF PhaseInv, GlueTypes, Signals!TypeOK, AppTypeOK
<1> QED
  BY <1>1, <1>2, PhaseInvHolds, SignalsHold, PTL

\* On Windows, with one operator and a timer thread that ends within the second that
\* cleanup waits for it.
Timely == OneOperator /\ Platform = "windows" /\ "join" \notin Fails

\* Then Publisher's timer thread is punctual.
LEMMA TimelyIsPunctual == Timely => Signals!Punctual
  BY DEF Timely, Signals!Punctual

\* No command, no tick and no worker uses a handle that was closed.
THEOREM HandlesAreUsedAlive == Timely => (AppSpec => []NoUseAfterClose)
<1> SUFFICES ASSUME Timely PROVE AppSpec => []NoUseAfterClose
  OBVIOUS
<1>1. OneOperator /\ Joins
  BY DEF Timely, Joins
<1>2. AppSpec => []HandleAlive
  BY <1>1, IncludesDemoApp, HandleIsAlive, PTL
<1>3. AppSpec => []Signals!WriteAlive
  <2>1. Signals!Spec => []Signals!WriteAlive
    BY TimelyIsPunctual, SignalsAssumption, Signals!WritesAreAlive, Signals!PublisherAssumption
  <2> QED
    BY <1>1, <2>1, SignalsHold, PTL
<1>4. HandleAlive /\ Signals!WriteAlive => NoUseAfterClose
  BY <1>1, OperatorIs, SignalsArePub DEF NoUseAfterClose
<1> QED
  BY <1>2, <1>3, <1>4, PTL

\* When stop_scenario or reset has returned, neither a timer thread nor a worker is alive.
THEOREM RestsAtPrompt == Timely => (AppSpec => []AtRest)
<1> SUFFICES ASSUME Timely PROVE AppSpec => []AtRest
  OBVIOUS
<1>1. OneOperator
  BY DEF Timely
<1>2. Signals!Spec => []Signals!Rests
  BY TimelyIsPunctual, SignalsAssumption, Signals!NothingIsLeft, Signals!PublisherAssumption
<1>3. Signals!Rests => AtRest
  <2> SUFFICES ASSUME Signals!Rests, AtPrompt, ~running
               PROVE  ~up /\ (\A k \in Timers : at[k] = "off") /\ (\A w \in Workers : doing[w] = "off")
    BY DEF AtRest
  <2>1. Place(Operator) = "idle"
    BY <1>1, OperatorIs DEF AtPrompt, Prompt, Place
  <2>2. ~up /\ (\A k \in Timers : Beat[k] = "off") /\ (\A w \in Workers : doing[w] = "off")
    BY <2>1 DEF Signals!Rests
  <2>3. \A k \in Timers : Beat[k] = "off" => at[k] = "off"
    BY DEF Beat
  <2> QED
    BY <2>2, <2>3
<1> QED
  BY <1>1, <1>2, <1>3, SignalsHold, PTL
=============================================================================
