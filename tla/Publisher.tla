------------------------------- MODULE Publisher -------------------------------
(***************************************************************************)
(* The signal publisher, demo_app_publisher.c: the timer thread enqueues a *)
(* signal event, a worker takes it and calls legacy_agent_write_json.      *)
(* demo_timer_init starts the worker after the timer thread and            *)
(* demo_timer_cleanup ends it after the timer thread, then reset closes    *)
(* the handle the worker writes on.                                        *)
(*                                                                         *)
(* "windows" is the second half of the file: a mutex, a condition          *)
(* variable, a worker that is joined.  "vxworks" is the first: a message   *)
(* queue, and a worker that is expected to end by itself once the queue is *)
(* deleted.  All events are alike, so the queue is its length.             *)
(***************************************************************************)
EXTENDS Integers

CONSTANTS
  Workers,     \* worker threads
  Timers,      \* timer threads
  Handles,     \* LegacyLib handles
  NULL,
  Platform,    \* "vxworks" or "windows"
  Capacity,    \* g_queue_max, g_pubq_max: 4096
  Fails        \* operations that may fail

ASSUME PublisherAssumption ==
  /\ NULL \notin Handles \cup Workers \cup Timers
  /\ Platform \in {"vxworks", "windows"}
  /\ Capacity \in Nat \ {0}
  /\ Fails \subseteq {"timer", "worker", "join"}

VARIABLES
  state,       \* current_state: "IDLE", "INIT", "RUN" or "PEND"
  pc,          \* where the command thread is
  agent,       \* ctx->agent
  open,        \* handles that are open
  ticking,     \* g_timer_running
  timer,       \* g_timer_task, g_timer_thread
  tick,        \* tick[k]: where timer thread k is
  up,          \* g_pubQ is not NULL; g_worker_running
  len,         \* events in the queue
  worker,      \* g_worker_thread while it has not been joined
  at,          \* at[w]: where worker w is
  using        \* using[w]: the handle that w's legacy_agent_write_json was given

appVars   == <<state, pc, agent, open>>
timerVars == <<ticking, timer, tick>>
queueVars == <<up, len, worker>>
workVars  == <<at, using>>
vars == <<appVars, timerVars, queueVars, workVars>>

Init ==
  /\ state = "IDLE" /\ pc = "idle" /\ agent = NULL /\ open = {}
  /\ ticking = FALSE /\ timer = NULL /\ tick = [k \in Timers |-> "off"]
  /\ up = FALSE /\ len = 0 /\ worker = NULL
  /\ at = [w \in Workers |-> "off"] /\ using = [w \in Workers |-> NULL]

Goto(from, to) == pc = from /\ pc' = to
MayFail(op) == op \in Fails

-----------------------------------------------------------------------------
(* Plausible bugs of the operations below.                                  *)

JoinNobody ==
  /\ Goto("join", "end")
  /\ worker' = NULL
  /\ UNCHANGED <<state, agent, open, timerVars, up, len, workVars>>

ReceiveStopsAtOnce(w) ==
  /\ at[w] = "receive"
  /\ \/ up /\ len > 0 /\ at' = [at EXCEPT ![w] = "check"] /\ len' = len - 1
     \/ ~up /\ at' = [at EXCEPT ![w] = "off"] /\ UNCHANGED len
  /\ UNCHANGED <<appVars, timerVars, up, worker, using>>

ReceiveWaitsForEvents(w) ==
  /\ at[w] = "receive" /\ len > 0
  /\ at' = [at EXCEPT ![w] = "check"] /\ len' = len - 1
  /\ UNCHANGED <<appVars, timerVars, up, worker, using>>

-----------------------------------------------------------------------------
(* Commands, as far as they concern the publisher.                          *)

Connect ==
  /\ state = "IDLE" /\ pc = "idle"
  /\ \E h \in Handles \ open : agent' = h /\ open' = open \cup {h}
  /\ state' = "INIT"
  /\ UNCHANGED <<pc, timerVars, queueVars, workVars>>

\* The Agent does not answer hello: legacy_agent_close, in connect.
GiveUp ==
  /\ state = "INIT" /\ Goto("idle", "null")
  /\ state' = "IDLE" /\ open' = open \ {agent}
  /\ UNCHANGED <<agent, timerVars, queueVars, workVars>>

\* demo_timer_init: the timer thread, then demo_publisher_init.
Start ==
  /\ state \in {"INIT", "PEND"}
  /\ state' = "RUN"
  /\ \/ \E k \in Timers :
          /\ tick[k] = "off" /\ tick' = [tick EXCEPT ![k] = "loop"]
          /\ timer' = k /\ ticking' = TRUE /\ Goto("idle", "init")
     \/ /\ MayFail("timer") /\ ticking' = FALSE /\ timer' = NULL
        /\ Goto("idle", "idle") /\ UNCHANGED tick
  /\ UNCHANGED <<agent, open, queueVars, workVars>>

\* demo_publisher_init, whose result demo_timer_init does not look at: the flag is
\* raised, or the queue made, ...
StartWorker ==
  /\ \/ up /\ Goto("init", "idle") /\ UNCHANGED up
     \/ ~up /\ Goto("init", "spawn") /\ up' = TRUE
     \/ Platform = "vxworks" /\ MayFail("worker") /\ Goto("init", "idle") /\ UNCHANGED up
  /\ UNCHANGED <<state, agent, open, timerVars, len, worker, workVars>>

\* ... then the worker created.  When that fails the flag is lowered, the queue
\* deleted; the std::queue keeps what the timer thread put into it meanwhile.
SpawnWorker ==
  /\ Goto("spawn", "idle")
  /\ \/ \E w \in Workers :
          /\ at[w] = "off"
          /\ worker' = w /\ at' = [at EXCEPT ![w] = "receive"]
          /\ UNCHANGED <<up, len>>
     \/ /\ MayFail("worker")
        /\ up' = FALSE /\ len' = IF Platform = "vxworks" THEN 0 ELSE len
        /\ UNCHANGED <<worker, at>>
  /\ UNCHANGED <<state, agent, open, timerVars, using>>

\* stop_scenario and reset: demo_timer_cleanup.  The state they end in is set here,
\* since only a command looks at it.
Stop ==
  /\ \E to \in {"PEND", "IDLE"} : state' = to
  /\ Goto("idle", "timer")
  /\ ticking' = FALSE
  /\ UNCHANGED <<agent, open, timer, tick, queueVars, workVars>>

JoinTimer ==
  /\ Goto("timer", "shutdown")
  /\ \/ Platform = "vxworks" /\ tick' = [k \in Timers |-> IF k = timer THEN "off" ELSE tick[k]]
     \/ timer = NULL /\ UNCHANGED tick
     \/ timer # NULL /\ tick[timer] = "off" /\ UNCHANGED tick
     \/ timer # NULL /\ MayFail("join") /\ UNCHANGED tick
  /\ timer' = NULL
  /\ UNCHANGED <<state, agent, open, ticking, queueVars, workVars>>

\* demo_publisher_shutdown.  Deleting the queue wakes the task that waits for it,
\* which ends; a task that is publishing an event is not waited for.
Shutdown ==
  /\ \/ /\ Platform = "vxworks" /\ Goto("shutdown", "end")
        /\ len' = 0 /\ worker' = NULL
        /\ at' = [w \in Workers |-> IF at[w] = "receive" THEN "off" ELSE at[w]]
     \/ /\ Platform = "windows" /\ Goto("shutdown", "join")
        /\ UNCHANGED <<len, worker, at>>
  /\ up' = FALSE
  /\ UNCHANGED <<state, agent, open, timerVars, using>>

\* pthread_join, also when nobody was started since the last one: winpthreads then
\* returns ESRCH at once.
JoinWorker ==
  /\ worker # NULL => at[worker] = "off"
  /\ Goto("join", "end")
  /\ worker' = NULL
  /\ UNCHANGED <<state, agent, open, timerVars, up, len, workVars>>

\* legacy_agent_close, in reset.
Close ==
  /\ IF state = "IDLE" THEN Goto("end", "null") /\ open' = open \ {agent}
                       ELSE Goto("end", "idle") /\ UNCHANGED open
  /\ UNCHANGED <<state, agent, timerVars, queueVars, workVars>>

Forget ==
  /\ Goto("null", "idle")
  /\ agent' = NULL
  /\ UNCHANGED <<state, open, timerVars, queueVars, workVars>>

-----------------------------------------------------------------------------
(* The timer thread.                                                        *)

TimerExit(k) ==
  /\ tick[k] = "loop" /\ ~ticking
  /\ tick' = [tick EXCEPT ![k] = "off"]
  /\ UNCHANGED <<appVars, ticking, timer, queueVars, workVars>>

\* The loop tests g_timer_running and calls demo_timer_tick, ...
Tick(k) ==
  /\ tick[k] = "loop" /\ ticking
  /\ tick' = [tick EXCEPT ![k] = "due"]
  /\ UNCHANGED <<appVars, ticking, timer, queueVars, workVars>>

\* ... which has a signal to enqueue, refused while there is no publisher, ...
Enqueue(k) ==
  /\ tick[k] = "due" /\ up
  /\ tick' = [tick EXCEPT ![k] = "push"]
  /\ UNCHANGED <<appVars, ticking, timer, queueVars, workVars>>

\* ... or none is due.
Skip(k) ==
  /\ tick[k] = "due"
  /\ tick' = [tick EXCEPT ![k] = "loop"]
  /\ UNCHANGED <<appVars, ticking, timer, queueVars, workVars>>

\* msgQSend without waiting: refused when the queue is full, or gone by now.  The
\* std::queue is there for ever.
Room == len < Capacity /\ (Platform = "vxworks" => up)

\* Under the lock: dropped when there is no room.
Push(k) ==
  /\ tick[k] = "push"
  /\ tick' = [tick EXCEPT ![k] = "loop"]
  /\ len' = IF Room THEN len + 1 ELSE len
  /\ UNCHANGED <<appVars, ticking, timer, up, worker, workVars>>

-----------------------------------------------------------------------------
(* The worker: publisherTask, worker_thread_func.                           *)

Receive(w) ==
  /\ at[w] = "receive"
  /\ \/ len > 0 /\ at' = [at EXCEPT ![w] = "check"] /\ len' = len - 1
     \/ ~up /\ len = 0 /\ at' = [at EXCEPT ![w] = "off"] /\ UNCHANGED len
  /\ UNCHANGED <<appVars, timerVars, up, worker, using>>

\* demo_msg_publish_actuator_signal looks at ctx->agent, formats the message, ...
Check(w) ==
  /\ at[w] = "check"
  /\ at' = [at EXCEPT ![w] = IF agent = NULL THEN "receive" ELSE "format"]
  /\ UNCHANGED <<appVars, timerVars, queueVars, using>>

\* ... and reads it again to call legacy_agent_write_json.
Write(w) ==
  /\ at[w] = "format"
  /\ at' = [at EXCEPT ![w] = "write"]
  /\ using' = [using EXCEPT ![w] = agent]
  /\ UNCHANGED <<appVars, timerVars, queueVars>>

Written(w) ==
  /\ at[w] = "write"
  /\ at' = [at EXCEPT ![w] = "receive"]
  /\ using' = [using EXCEPT ![w] = NULL]
  /\ UNCHANGED <<appVars, timerVars, queueVars>>

-----------------------------------------------------------------------------
Command == Connect \/ GiveUp \/ Start \/ Stop
Continue ==
  StartWorker \/ SpawnWorker \/ JoinTimer \/ Shutdown \/ JoinWorker \/ Close \/ Forget
TimerThread(k) == TimerExit(k) \/ Tick(k) \/ Enqueue(k) \/ Skip(k) \/ Push(k)
WorkerThread(w) == Receive(w) \/ Check(w) \/ Write(w) \/ Written(w)

Next ==
  \/ Command \/ Continue
  \/ \E k \in Timers  : TimerThread(k)
  \/ \E w \in Workers : WorkerThread(w)

Spec == Init /\ [][Next]_vars

-----------------------------------------------------------------------------
(* Properties.                                                             *)

\* The queue never holds more than its capacity; every other variable has its type.
TypeOK ==
  /\ state \in {"IDLE", "INIT", "RUN", "PEND"}
  /\ pc \in {"idle", "init", "spawn", "timer", "shutdown", "join", "end", "null"}
  /\ agent \in Handles \cup {NULL} /\ open \subseteq Handles
  /\ ticking \in BOOLEAN /\ timer \in Timers \cup {NULL}
  /\ tick \in [Timers -> {"off", "loop", "due", "push"}]
  /\ up \in BOOLEAN /\ len \in 0..Capacity /\ worker \in Workers \cup {NULL}
  /\ at \in [Workers -> {"off", "receive", "check", "format", "write"}]
  /\ using \in [Workers -> Handles \cup {NULL}]

\* A worker is alive only between demo_publisher_init and demo_publisher_shutdown,
\* and there is one.
OneWorker ==
  \A w \in Workers : at[w] # "off" =>
    \A v \in Workers \ {w} : at[v] = "off"

\* The handle a worker writes on, or is about to, has not been closed.
WriteAlive ==
  \A w \in Workers :
    /\ at[w] = "format" => agent \in open \cup {NULL}
    /\ at[w] = "write"  => using[w] \in open \cup {NULL}

\* demo_publisher_shutdown returns once every event that was accepted is published:
\* none is left for the next scenario.
Drained == pc \in {"idle", "end", "null"} /\ ~up => len = 0

\* While the timer thread runs, somebody takes what it enqueues.
Served == pc = "idle" /\ ticking => up /\ \E w \in Workers : at[w] # "off"

\* Between scenarios nothing runs: no timer thread, no worker, and the publisher is
\* down.
Rests ==
  pc = "idle" /\ ~ticking =>
    ~up /\ (\A k \in Timers : tick[k] = "off") /\ (\A w \in Workers : at[w] = "off")
=============================================================================
