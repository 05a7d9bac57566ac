----------------------------- MODULE AppPublisher -----------------------------
(***************************************************************************)
(* DemoApp together with its signal publisher.  A command that starts the  *)
(* timer thread goes on with demo_publisher_init, one that has ended it    *)
(* with demo_publisher_shutdown, and a tick in RUN enqueues a signal.      *)
(*                                                                         *)
(* DemoApp's actions are taken as they are, with a conjunct that says what *)
(* happens beside them; the publisher's own steps are those of Publisher,  *)
(* in which the command, the timer threads and the context are DemoApp's.  *)
(***************************************************************************)
EXTENDS DemoApp

CONSTANTS
  Workers,      \* worker threads
  Capacity,     \* g_queue_max, g_pubq_max: 4096
  WorkerFails   \* the worker thread may not be created

ASSUME AppPublisherAssumption ==
  /\ Commands # {} /\ NULL \notin Workers
  /\ Capacity \in Nat \ {0} /\ WorkerFails \in BOOLEAN

VARIABLES
  step,         \* step[t]: where command t is in the publisher, or "none"
  signal,       \* signal[k]: the signal of tick k: "none" yet, in "push", or "done"
  phase,        \* the part of a scenario the publisher is in (history)
  up,           \* g_pubQ is not NULL; g_worker_running
  len,          \* events in the queue
  worker,       \* g_worker_thread while it has not been joined
  doing,        \* doing[w]: where worker w is
  using         \* using[w]: the handle that w's legacy_agent_write_json was given

pubVars  == <<up, len, worker, doing, using>>
glueVars == <<step, signal, phase>>
allVars  == <<vars, glueVars, pubVars>>

\* What the publisher sees of command t ...
Place(t) ==
  IF step[t] # "none" THEN step[t]
  ELSE CASE pc[t] \in {"stop", "reset"} -> "timer"
         [] pc[t] \in {"pend", "close"} -> "end"
         [] pc[t] \in {"null", "init"}  -> "null"
         [] OTHER                       -> "idle"

\* ... and of the timer threads.
Beat ==
  [k \in Timers |->
     CASE at[k] = "off"                             -> "off"
       [] at[k] = "publish" /\ signal[k] = "none"   -> "due"
       [] at[k] = "publish" /\ signal[k] = "push"   -> "push"
       [] OTHER                                     -> "loop"]

Pub(t) ==
  INSTANCE Publisher
    WITH state <- phase, pc <- Place(t), ticking <- running, tick <- Beat, at <- doing,
         Fails <- (Fails \cap {"timer", "join"}) \cup (IF WorkerFails THEN {"worker"} ELSE {})

AppInit ==
  /\ Init
  /\ step = [t \in Commands |-> "none"] /\ signal = [k \in Timers |-> "none"] /\ phase = "IDLE"
  /\ up = FALSE /\ len = 0 /\ worker = NULL
  /\ doing = [w \in Workers |-> "off"] /\ using = [w \in Workers |-> NULL]

-----------------------------------------------------------------------------
(* Plausible bugs of the operations below.                                  *)

ShutdownLeftOut(t) == IF pc[t] = "timer" /\ running' THEN "init" ELSE "none"

-----------------------------------------------------------------------------
(* Steps of a command.                                                      *)

\* The publisher's part follows the timer's: demo_timer_init, if it made the thread, and
\* demo_timer_cleanup.
Follows(t) ==
  CASE pc[t] = "timer" /\ running'  -> "init"
    [] pc[t] \in {"stop", "reset"}  -> "shutdown"
    [] OTHER                        -> "none"

\* The part of the scenario changes with the call that the publisher depends on.
NextPhase(t) ==
  CASE pc[t] = "open" /\ pc'[t] = "hello" -> "INIT"
    [] pc[t] = "timer"                    -> "RUN"
    [] pc'[t] = "stop"                    -> "PEND"
    [] pc'[t] = "reset"                   -> "IDLE"
    [] pc[t] = "giveup"                   -> "IDLE"
    [] OTHER                              -> phase

\* A timer thread that is deleted takes its signal with it.
Beside(t) ==
  /\ step' = [step EXCEPT ![t] = Follows(t)]
  /\ phase' = NextPhase(t)
  /\ signal' = [k \in Timers |-> IF at'[k] = "publish" THEN signal[k] ELSE "none"]
  /\ UNCHANGED pubVars

Issue(t)   == step[t] = "none" /\ Begin(t) /\ Beside(t)
Proceed(t) == step[t] = "none" /\ Continue(t) /\ Beside(t)

\* demo_publisher_init, demo_publisher_shutdown.
PublisherStep(t) ==
  /\ step[t] # "none"
  /\ \E s \in {"none", "spawn", "join"} : step' = [step EXCEPT ![t] = s]
  /\ UNCHANGED <<vars, signal, phase>>
  /\ Pub(t)!StartWorker \/ Pub(t)!SpawnWorker \/ Pub(t)!Shutdown \/ Pub(t)!JoinWorker

-----------------------------------------------------------------------------
(* Steps of the other threads.                                              *)

Callback(h) ==
  /\ RunBit(h) \/ OnHello(h) \/ Receive(h)
  /\ UNCHANGED <<glueVars, pubVars>>

\* A tick does not end in the middle of demo_publisher_enqueue_signal.
TickStep(k) ==
  /\ signal[k] # "push" /\ TimerThread(k)
  /\ signal' = [signal EXCEPT ![k] = "none"]
  /\ UNCHANGED <<step, phase, pubVars>>

SignalStep(k) ==
  /\ \E s \in {"push", "done"} : signal' = [signal EXCEPT ![k] = s]
  /\ UNCHANGED <<vars, step, phase>>
  /\ \E t \in Commands : Pub(t)!Enqueue(k) \/ Pub(t)!Push(k)

WorkerStep(w) ==
  /\ UNCHANGED <<vars, glueVars>>
  /\ \E t \in Commands : Pub(t)!WorkerThread(w)

-----------------------------------------------------------------------------
CommandStep(t) == Proceed(t) \/ PublisherStep(t)
TimerStep(k)   == TickStep(k) \/ SignalStep(k)

AppNext ==
  \/ \E t \in Commands : Issue(t) \/ CommandStep(t)
  \/ \E h \in Handles  : Callback(h)
  \/ \E k \in Timers   : TimerStep(k)
  \/ \E w \in Workers  : WorkerStep(w)

AppSpec == AppInit /\ [][AppNext]_allVars

\* As in DemoApp and in Publisher: threads are scheduled, calls into LegacyLib return.
AppFairness ==
  /\ \A t \in Commands : WF_allVars(CommandStep(t))
  /\ \A h \in Handles  : WF_allVars(Receive(h) /\ UNCHANGED <<glueVars, pubVars>>)
  /\ \A k \in Timers   : WF_allVars(TimerStep(k))
  /\ \A w \in Workers  : WF_allVars(WorkerStep(w))

AppFairSpec == AppSpec /\ AppFairness

-----------------------------------------------------------------------------
(* Properties.                                                             *)

\* The types of what the composition adds.
AppTypeOK ==
  /\ step \in [Commands -> {"none", "init", "spawn", "shutdown", "join"}]
  /\ signal \in [Timers -> {"none", "push", "done"}]
  /\ phase \in {"IDLE", "INIT", "RUN", "PEND"}
  /\ up \in BOOLEAN /\ len \in 0..Capacity /\ worker \in Workers \cup {NULL}
  /\ doing \in [Workers -> {"off", "receive", "check", "format", "write"}]
  /\ using \in [Workers -> Handles \cup {NULL}]

\* The operator has the prompt: nothing of a command is left to do.
AtPrompt == Prompt /\ \A t \in Commands : step[t] = "none"

\* Commands, timer thread and callbacks use the context as Publisher expects of its
\* surroundings, with DemoApp's own order of the steps.
Operator == CHOOSE t \in Commands : TRUE
PublisherSpec == Pub(Operator)!Init /\ [][Pub(Operator)!Next]_(Pub(Operator)!vars)

\* No thread of the program uses a handle that was closed: no command, no tick, and no
\* worker.
NoUseAfterClose ==
  /\ HandleAlive
  /\ \A t \in Commands : Pub(t)!WriteAlive

\* Once stop_scenario or reset is back at the prompt, neither a timer thread nor a worker
\* is alive, and the publisher is down.
AtRest ==
  AtPrompt /\ ~running =>
    /\ \A k \in Timers  : at[k] = "off"
    /\ \A w \in Workers : doing[w] = "off"
    /\ ~up

\* A command returns to the prompt, though on its way it waits for a tick, for the worker
\* to publish what is queued, and for the receive thread.
BackAtPrompt ==
  \A t \in Commands : (pc[t] # "idle" \/ step[t] # "none") ~> (pc[t] = "idle" /\ step[t] = "none")
=============================================================================
