------------------------------- MODULE DemoApp -------------------------------
(***************************************************************************)
(* DemoApp: the state machine of demo_app_core.c, the timer thread of      *)
(* demo_app_timer.c and the callbacks of demo_app_msg.cpp, over one        *)
(* DemoAppContext that no lock protects.  Threads that write to it:        *)
(*   - command threads: the TCP CLI, and on VxWorks the shell              *)
(*     (demo_app_cli.c, demo_app_dkm.c), which offers the same commands    *)
(*     but run_ibit;                                                       *)
(*   - the receive thread of each open LegacyLib handle;                   *)
(*   - timer threads.                                                      *)
(* A command is split where another thread can come in between: at every   *)
(* read of current_state that is acted upon later, at every enter_state,   *)
(* and at every use of ctx->agent.  A command that is refused changes      *)
(* nothing and is no step.                                                 *)
(***************************************************************************)
EXTENDS Integers

CONSTANTS
  Commands,     \* threads that execute commands
  Handles,      \* LegacyLib handles; h also names the receive thread of h
  Timers,       \* timer threads
  NULL,
  Platform,     \* "vxworks" or "windows"
  Events,       \* runBIT events arrive
  TestWrites,   \* the operator uses test_write
  Fails,        \* operations that may fail
  MaxIbits,     \* bound of the model: IBIT requests that get past the check
  IbitTicks,    \* 3000 in the code
  TickSpace     \* tick_count is a uint64_t

ASSUME DemoAppAssumption ==
  /\ Commands \cap Handles = {} /\ NULL \notin Handles \cup Timers
  /\ Platform \in {"vxworks", "windows"}
  /\ Events \in BOOLEAN /\ TestWrites \in BOOLEAN
  /\ Fails \subseteq {"init", "hello", "entities", "timer", "write", "join"}
  /\ MaxIbits \in Nat
  /\ IbitTicks \in Nat \ {0} /\ TickSpace \in Nat \ {0} /\ 2 * IbitTicks <= TickSpace

States   == {"IDLE", "INIT", "POWERON_BIT", "RUN", "IBIT_RUNNING", "PEND"}
Refs     == 1..MaxIbits
NoRef    == 0
TestRef  == MaxIbits + 1         \* 999, the dummy reference number of test_write
Ticks    == 0..(TickSpace - 1)
MaxSubs  == 2                    \* bound: create_entities is run at most twice per handle
Actors   == Commands \cup Handles

VARIABLES
  state,        \* current_state
  agent,        \* ctx->agent
  connected,    \* agent_connected
  open,         \* handles that legacy_agent_init returned and nobody closed
  hello,        \* handles with a hello whose reply may still come
  subs,         \* subs[h]: how often demo_msg_on_runbit is subscribed on h
  ibitRunning,  \* bit_state.ibit_running
  ibitRef,      \* bit_state.ibit_reference_num
  ibitStart,    \* bit_state.ibit_start_time
  tick,         \* tick_count
  running,      \* g_timer_running
  timer,        \* g_timer_task, g_timer_thread
  at,           \* at[k]: where timer thread k is
  pc,           \* pc[a]: where a command or a runBIT callback is
  ref,          \* ref[a]: the reference number of its IBIT request
  left,         \* left[h]: subscriptions the running event has still to visit
  requests,     \* IBIT requests so far (history)
  asked,        \* the request that entered IBIT_RUNNING last (history)
  taken,        \* requests that were accepted (history)
  done,         \* reference numbers of the results the timer published (history)
  waited        \* ticks since a request stored its start time, up to IbitTicks (history)

linkVars  == <<agent, connected, open, hello, subs>>
ibitVars  == <<ibitRunning, ibitRef, ibitStart>>
timerVars == <<running, timer, at>>
callVars  == <<ref, left, requests>>
histVars  == <<asked, taken, done, waited>>
vars == <<state, linkVars, ibitVars, tick, timerVars, pc, callVars, histVars>>

Init ==
  /\ state = "IDLE"
  /\ agent = NULL /\ connected = FALSE /\ open = {} /\ hello = {}
  /\ subs = [h \in Handles |-> 0]
  /\ ibitRunning = FALSE /\ ibitRef = NoRef /\ ibitStart = 0
  /\ tick = 0
  /\ running = FALSE /\ timer = NULL /\ at = [k \in Timers |-> "off"]
  /\ pc = [a \in Actors |-> "idle"]
  /\ ref = [a \in Actors |-> NoRef] /\ left = [h \in Handles |-> 0]
  /\ requests = 0 /\ asked = NoRef /\ taken = {} /\ done = {} /\ waited = 0

\* Actor a goes from one step to another.
Goto(a, from, to) == pc[a] = from /\ pc' = [pc EXCEPT ![a] = to]

\* An operation that may fail when the environment lets it.
MayFail(op) == op \in Fails

-----------------------------------------------------------------------------
(* Plausible bugs of the operations below: each property is shown to fail  *)
(* when the operation is written this way.                                 *)

ScenarioFromAnyState(t) ==
  /\ Goto(t, "idle", "scenario")
  /\ UNCHANGED <<state, linkVars, ibitVars, tick, timerVars, callVars, histVars>>

JoinNothing(t) ==
  /\ Goto(t, "stop", "pend") \/ Goto(t, "reset", "close")
  /\ timer' = NULL
  /\ UNCHANGED <<state, linkVars, ibitVars, tick, running, at, callVars, histVars>>

ResetKeepsIbit(t) ==
  /\ Goto(t, "init", "idle")
  /\ state' = "IDLE" /\ agent' = NULL /\ connected' = FALSE /\ tick' = 0
  /\ UNCHANGED <<open, hello, subs, ibitVars, timerVars, callVars, histVars>>

RunIbitInIbit(t) ==
  /\ state \in {"RUN", "IBIT_RUNNING"} /\ requests < MaxIbits
  /\ Goto(t, "idle", "set")
  /\ requests' = requests + 1
  /\ ref' = [ref EXCEPT ![t] = requests + 1]
  /\ UNCHANGED <<state, linkVars, ibitVars, tick, timerVars, left, histVars>>

TriggerKeepsStart(a) ==
  /\ Goto(a, "set", "enter")
  /\ ibitRunning' = TRUE /\ ibitRef' = ref[a] /\ waited' = 0
  /\ UNCHANGED <<state, linkVars, ibitStart, tick, timerVars, callVars, asked, taken, done>>

IbitDoneStays(k) ==
  /\ at[k] = "done"
  /\ at' = [at EXCEPT ![k] = "loop"]
  /\ ibitRunning' = FALSE
  /\ UNCHANGED <<state, linkVars, ibitRef, ibitStart, tick, running, timer, pc, callVars, histVars>>

-----------------------------------------------------------------------------
(* connect: demo_app_start.                                                *)

Connect(t) ==
  /\ state = "IDLE"
  /\ Goto(t, "idle", "connect")
  /\ UNCHANGED <<state, linkVars, ibitVars, tick, timerVars, callVars, histVars>>

ConnectEnter(t) ==
  /\ Goto(t, "connect", "open")
  /\ state' = "INIT"
  /\ UNCHANGED <<linkVars, ibitVars, tick, timerVars, callVars, histVars>>

\* legacy_agent_init.
ConnectOpen(t) ==
  /\ \E h \in Handles \ (open \cup {agent}) : agent' = h /\ open' = open \cup {h}
  /\ Goto(t, "open", "hello")
  /\ connected' = FALSE
  /\ UNCHANGED <<state, hello, subs, ibitVars, tick, timerVars, callVars, histVars>>

ConnectFails(t) ==
  /\ MayFail("init")
  /\ Goto(t, "open", "idle")
  /\ state' = "IDLE"
  /\ UNCHANGED <<linkVars, ibitVars, tick, timerVars, callVars, histVars>>

ConnectHello(t) ==
  /\ \/ Goto(t, "hello", "wait") /\ hello' = hello \cup ({agent} \cap open)
     \/ MayFail("hello") /\ Goto(t, "hello", "giveup") /\ UNCHANGED hello
  /\ UNCHANGED <<state, agent, connected, open, subs,
                 ibitVars, tick, timerVars, callVars, histVars>>

\* At most 20 waits of 100 ms on VxWorks, of no time elsewhere.  Once connected,
\* clear_dds_entities is sent and the application stays in INIT.
ConnectWait(t) ==
  /\ Goto(t, "wait", IF connected THEN "idle" ELSE "giveup")
  /\ UNCHANGED <<state, linkVars, ibitVars, tick, timerVars, callVars, histVars>>

\* legacy_agent_close(ctx->agent): it joins the receive thread, and on VxWorks
\* deletes it wherever it is.
CloseAgent(t, from, to) ==
  /\ pc[t] = from
  /\ Platform = "windows" /\ agent \in open => pc[agent] = "idle"
  /\ pc' = [a \in Actors |-> IF a = t THEN to ELSE IF a = agent THEN "idle" ELSE pc[a]]
  /\ open' = open \ {agent} /\ hello' = hello \ {agent}
  /\ subs' = [h \in Handles |-> IF h = agent THEN 0 ELSE subs[h]]

ConnectClose(t) ==
  /\ CloseAgent(t, "giveup", "null")
  /\ UNCHANGED <<state, agent, connected, ibitVars, tick, timerVars, callVars, histVars>>

ConnectNull(t) ==
  /\ Goto(t, "null", "idle")
  /\ agent' = NULL /\ state' = "IDLE"
  /\ UNCHANGED <<connected, open, hello, subs,
                 ibitVars, tick, timerVars, callVars, histVars>>

-----------------------------------------------------------------------------
(* create_entities: demo_app_create_entities and demo_msg_init.            *)

Create(t) ==
  /\ state = "INIT" /\ \A h \in open : subs[h] < MaxSubs
  /\ Goto(t, "idle", "create")
  /\ UNCHANGED <<state, linkVars, ibitVars, tick, timerVars, callVars, histVars>>

\* Participant, publisher, subscriber, writers, the runBIT reader; without an
\* agent, or when a request is refused, the command ends here.
CreateEntities(t) ==
  /\ \/ agent # NULL /\ Goto(t, "create", "subscribe")
     \/ (agent = NULL \/ MayFail("entities")) /\ Goto(t, "create", "idle")
  /\ UNCHANGED <<state, linkVars, ibitVars, tick, timerVars, callVars, histVars>>

\* The runBIT subscription; then the other readers, whether or not a request fails.
CreateSubscribe(t) ==
  /\ Goto(t, "subscribe", "idle")
  /\ subs' = [h \in Handles |-> IF h = agent /\ h \in open THEN subs[h] + 1 ELSE subs[h]]
  /\ UNCHANGED <<state, agent, connected, open, hello,
                 ibitVars, tick, timerVars, callVars, histVars>>

-----------------------------------------------------------------------------
(* start_scenario: demo_app_start_scenario and demo_timer_init.            *)

Scenario(t) ==
  /\ state \in {"INIT", "PEND"}
  /\ Goto(t, "idle", "scenario")
  /\ UNCHANGED <<state, linkVars, ibitVars, tick, timerVars, callVars, histVars>>

ScenarioBit(t) ==
  /\ Goto(t, "scenario", "pbit")
  /\ state' = "POWERON_BIT"
  /\ UNCHANGED <<linkVars, ibitVars, tick, timerVars, callVars, histVars>>

\* demo_msg_publish_pbit, whose failure is only logged; then RUN.
ScenarioRun(t) ==
  /\ Goto(t, "pbit", "timer")
  /\ state' = "RUN"
  /\ UNCHANGED <<linkVars, ibitVars, tick, timerVars, callVars, histVars>>

ScenarioTimer(t) ==
  /\ Goto(t, "timer", "idle")
  /\ tick' = 0
  /\ \/ \E k \in Timers :
          /\ at[k] = "off"
          /\ at' = [at EXCEPT ![k] = "loop"] /\ timer' = k
          /\ running' = TRUE
     \/ MayFail("timer") /\ running' = FALSE /\ timer' = NULL /\ UNCHANGED at
  /\ UNCHANGED <<state, linkVars, ibitVars, callVars, histVars>>

-----------------------------------------------------------------------------
(* stop_scenario: demo_app_stop, from any state.  reset: demo_app_reset.    *)
(* Both begin with demo_timer_cleanup.                                      *)

StopTimer(t) ==
  /\ \E to \in {"stop", "reset"} : Goto(t, "idle", to)
  /\ running' = FALSE
  /\ UNCHANGED <<state, linkVars, ibitVars, tick, timer, at, callVars, histVars>>

\* VxWorks deletes the task after 100 ms.  Windows waits for the thread, but no
\* longer than a second: one held up inside a tick is left behind.
JoinTimer(t) ==
  /\ \/ Goto(t, "stop", "pend")
     \/ Goto(t, "reset", "close")
  /\ \/ Platform = "vxworks" /\ at' = [k \in Timers |-> IF k = timer THEN "off" ELSE at[k]]
     \/ timer = NULL /\ UNCHANGED at
     \/ timer # NULL /\ at[timer] = "off" /\ UNCHANGED at
     \/ Platform = "windows" /\ MayFail("join")
        /\ timer # NULL /\ at[timer] # "loop" /\ UNCHANGED at
  /\ timer' = NULL
  /\ UNCHANGED <<state, linkVars, ibitVars, tick, running, callVars, histVars>>

StopPend(t) ==
  /\ Goto(t, "pend", "idle")
  /\ state' = "PEND"
  /\ UNCHANGED <<linkVars, ibitVars, tick, timerVars, callVars, histVars>>

\* clear_dds_entities, then legacy_agent_close.
ResetClose(t) ==
  /\ CloseAgent(t, "close", "init")
  /\ UNCHANGED <<state, agent, connected, ibitVars, tick, timerVars, callVars, histVars>>

\* ctx->agent = NULL, demo_app_context_init, IDLE.
ResetInit(t) ==
  /\ Goto(t, "init", "idle")
  /\ state' = "IDLE"
  /\ agent' = NULL /\ connected' = FALSE
  /\ ibitRunning' = FALSE /\ ibitRef' = NoRef /\ ibitStart' = 0
  /\ tick' = 0
  /\ UNCHANGED <<open, hello, subs, timerVars, callVars, histVars>>

-----------------------------------------------------------------------------
(* Initiated BIT: demo_app_trigger_ibit, called by run_ibit and by          *)
(* demo_msg_on_runbit.                                                      *)

RunIbit(t) ==
  /\ state = "RUN" /\ requests < MaxIbits
  /\ Goto(t, "idle", "set")
  /\ requests' = requests + 1
  /\ ref' = [ref EXCEPT ![t] = requests + 1]
  /\ UNCHANGED <<state, linkVars, ibitVars, tick, timerVars, left, histVars>>

\* A runBIT event reaches every subscription of its topic.
RunBit(h) ==
  /\ Events /\ h \in open /\ subs[h] > 0 /\ requests < MaxIbits
  /\ Goto(h, "idle", "event")
  /\ requests' = requests + 1
  /\ ref' = [ref EXCEPT ![h] = requests + 1]
  /\ left' = [left EXCEPT ![h] = subs[h]]
  /\ UNCHANGED <<state, linkVars, ibitVars, tick, timerVars, histVars>>

\* The next subscription of the event, if there is one.
Finished(a) == IF a \in Handles /\ left[a] > 1 THEN "event" ELSE "idle"
Visited(a)  == left' = [h \in Handles |-> IF h = a THEN left[h] - 1 ELSE left[h]]

RunBitCheck(h) ==
  /\ \/ state = "RUN" /\ Goto(h, "event", "set") /\ UNCHANGED left
     \/ state # "RUN" /\ Goto(h, "event", Finished(h)) /\ Visited(h)
  /\ UNCHANGED <<state, linkVars, ibitVars, tick, timerVars, ref, requests, histVars>>

TriggerSet(a) ==
  /\ Goto(a, "set", "enter")
  /\ ibitRunning' = TRUE /\ ibitRef' = ref[a] /\ ibitStart' = tick
  /\ waited' = 0
  /\ UNCHANGED <<state, linkVars, tick, timerVars, callVars, asked, taken, done>>

TriggerEnter(a) ==
  /\ Goto(a, "enter", Finished(a)) /\ Visited(a)
  /\ state' = "IBIT_RUNNING"
  /\ asked' = ref[a] /\ taken' = taken \cup {ref[a]}
  /\ UNCHANGED <<linkVars, ibitVars, tick, timerVars, ref, requests, done, waited>>

\* test_write: a message is published at once; result_bit, and all, put the dummy
\* number into the IBIT's.  The shell's command looks at the state first, the CLI's
\* does not.
TestWrite(t) ==
  /\ TestWrites /\ agent # NULL
  /\ Goto(t, "idle", "test")
  /\ ibitRef' \in {ibitRef, TestRef}
  /\ UNCHANGED <<state, linkVars, ibitRunning, ibitStart, tick, timerVars, callVars, histVars>>

TestPublish(t) ==
  /\ Goto(t, "test", "idle")
  /\ UNCHANGED <<state, linkVars, ibitVars, tick, timerVars, callVars, histVars>>

-----------------------------------------------------------------------------
(* The receive thread: on_hello, with ok or without.                        *)

OnHello(h) ==
  /\ h \in hello /\ pc[h] = "idle"
  /\ hello' = hello \ {h}
  /\ connected' \in {connected, TRUE}
  /\ UNCHANGED <<state, agent, open, subs,
                 ibitVars, tick, timerVars, pc, callVars, histVars>>

-----------------------------------------------------------------------------
(* The timer thread: timerTask / timerThreadFunc and demo_timer_tick.       *)

TimerExit(k) ==
  /\ at[k] = "loop" /\ ~running
  /\ at' = [at EXCEPT ![k] = "off"]
  /\ UNCHANGED <<state, linkVars, ibitVars, tick, running, timer, pc, callVars, histVars>>

\* tick_count++, then what current_state asks for.
Tick(k) ==
  /\ at[k] = "loop" /\ running
  /\ tick' = (tick + 1) % TickSpace
  /\ waited' = IF waited < IbitTicks THEN waited + 1 ELSE waited
  /\ at' = [at EXCEPT ![k] = CASE state = "IBIT_RUNNING" -> "ibit"
                               [] state = "RUN"          -> "publish"
                               [] OTHER                  -> "loop"]
  /\ UNCHANGED <<state, linkVars, ibitVars, running, timer, pc, callVars, asked, taken, done>>

\* Simulation, the signal event for the publisher, CBIT: no state of this model.
TickPublish(k) ==
  /\ at[k] = "publish"
  /\ at' = [at EXCEPT ![k] = "loop"]
  /\ UNCHANGED <<state, linkVars, ibitVars, tick, running, timer, pc, callVars, histVars>>

Elapsed == (tick - ibitStart) % TickSpace

TickIbit(k) ==
  /\ at[k] = "ibit" /\ Elapsed < IbitTicks
  /\ at' = [at EXCEPT ![k] = "loop"]
  /\ UNCHANGED <<state, linkVars, ibitVars, tick, running, timer, pc, callVars, histVars>>

\* demo_msg_publish_result_bit, whose failure is ignored.
PublishResult(k) ==
  /\ at[k] = "ibit" /\ Elapsed >= IbitTicks
  /\ at' = [at EXCEPT ![k] = "done"]
  /\ \/ agent # NULL /\ done' = done \cup {ibitRef}
     \/ (agent = NULL \/ MayFail("write")) /\ UNCHANGED done
  /\ UNCHANGED <<state, linkVars, ibitVars, tick, running, timer, pc, callVars,
                 asked, taken, waited>>

IbitDone(k) ==
  /\ at[k] = "done"
  /\ at' = [at EXCEPT ![k] = "loop"]
  /\ ibitRunning' = FALSE
  /\ state' = "RUN"
  /\ UNCHANGED <<linkVars, ibitRef, ibitStart, tick, running, timer, pc, callVars, histVars>>

-----------------------------------------------------------------------------
ConnectCommand(t) ==
  \/ ConnectEnter(t) \/ ConnectOpen(t) \/ ConnectFails(t) \/ ConnectHello(t)
  \/ ConnectWait(t) \/ ConnectClose(t) \/ ConnectNull(t)

CreateCommand(t)   == CreateEntities(t) \/ CreateSubscribe(t)
ScenarioCommand(t) == ScenarioBit(t) \/ ScenarioRun(t) \/ ScenarioTimer(t)
StopCommand(t)     == JoinTimer(t) \/ StopPend(t) \/ ResetClose(t) \/ ResetInit(t)
Trigger(a)         == TriggerSet(a) \/ TriggerEnter(a)

\* A command is called in the VxWorks shell, or typed at the TCP CLI, which has
\* run_ibit as well.
Shell(t) == Connect(t) \/ Create(t) \/ Scenario(t) \/ StopTimer(t) \/ TestWrite(t)
Begin(t) == Shell(t) \/ RunIbit(t)

Continue(t) ==
  \/ ConnectCommand(t) \/ CreateCommand(t) \/ ScenarioCommand(t) \/ StopCommand(t)
  \/ Trigger(t) \/ TestPublish(t)

Receive(h) == RunBitCheck(h) \/ Trigger(h)

TimerThread(k) ==
  TimerExit(k) \/ Tick(k) \/ TickPublish(k) \/ TickIbit(k) \/ PublishResult(k) \/ IbitDone(k)

Next ==
  \/ \E t \in Commands : Begin(t) \/ Continue(t)
  \/ \E h \in Handles  : RunBit(h) \/ OnHello(h) \/ Receive(h)
  \/ \E k \in Timers   : TimerThread(k)

Spec == Init /\ [][Next]_vars

\* Threads are scheduled.  The operator need not type anything, and neither a
\* hello reply nor a runBIT event has to arrive.
Fairness ==
  /\ \A t \in Commands : WF_vars(Continue(t))
  /\ \A h \in Handles  : WF_vars(Receive(h))
  /\ \A k \in Timers   : WF_vars(TimerThread(k))

FairSpec == Spec /\ Fairness

-----------------------------------------------------------------------------
(* Properties.                                                             *)

TypeOK ==
  /\ state \in States
  /\ agent \in Handles \cup {NULL} /\ connected \in BOOLEAN
  /\ open \subseteq Handles /\ hello \subseteq open
  /\ subs \in [Handles -> Nat]
  /\ ibitRunning \in BOOLEAN /\ ibitRef \in Refs \cup {NoRef, TestRef} /\ ibitStart \in Ticks
  /\ tick \in Ticks
  /\ running \in BOOLEAN /\ timer \in Timers \cup {NULL}
  /\ at \in [Timers -> {"off", "loop", "publish", "ibit", "done"}]
  /\ pc \in [Actors -> {"idle", "connect", "open", "hello", "wait", "giveup", "null", "create",
                        "subscribe", "scenario", "pbit", "timer", "stop", "reset", "pend",
                        "close", "init", "event", "set", "enter", "test"}]
  /\ ref \in [Actors -> Refs \cup {NoRef}] /\ left \in [Handles -> Int]
  /\ requests \in 0..MaxIbits /\ asked \in Refs \cup {NoRef}
  /\ taken \subseteq Refs /\ done \subseteq Refs \cup {NoRef, TestRef}
  /\ waited \in 0..IbitTicks

\* No command is being executed.
Prompt == \A t \in Commands : pc[t] = "idle"

\* The handle a command or the timer thread is about to use has not been closed.
UsesAgent ==
  \/ \E t \in Commands : pc[t] \in {"hello", "create", "subscribe", "pbit", "test", "giveup", "close"}
  \/ \E k \in Timers : at[k] \in {"publish", "ibit"}
HandleAlive == UsesAgent => agent \in open \cup {NULL}

\* reset, and a connect that fails, leave nothing behind: in IDLE no handle is
\* open, none is referred to, no timer thread is alive and no IBIT is marked.
CleanIdle ==
  Prompt /\ state = "IDLE" =>
    /\ agent = NULL /\ open = {}
    /\ \A k \in Timers : at[k] = "off"
    /\ ~ibitRunning

\* While the prompt shows RUN or an IBIT in progress, one timer thread is alive,
\* and no other; in every other state there is none.
Ticking ==
  Prompt =>
    IF state \in {"RUN", "IBIT_RUNNING"}
    THEN running /\ timer # NULL /\ \A k \in Timers : at[k] # "off" <=> k = timer
    ELSE \A k \in Timers : at[k] = "off"

\* A result is published no earlier than IbitTicks after its request.
NotEarly ==
  [][\A k \in Timers : at[k] = "ibit" /\ at'[k] = "done" => waited >= IbitTicks]_vars

\* An IBIT in progress ends.
IbitEnds == state = "IBIT_RUNNING" ~> state # "IBIT_RUNNING"

\* DemoApp implements IbitService.
Ibit == INSTANCE IbitService
          WITH busy <- IF state = "IBIT_RUNNING" /\ asked \notin done THEN asked ELSE NoRef
IbitServiceSpec == Ibit!IbitSpec
=============================================================================
