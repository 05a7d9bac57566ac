---------------------------- MODULE PublisherProofs ----------------------------
(***************************************************************************)
(* Theorems about Publisher, for any number of workers, timer threads and  *)
(* handles and any capacity.  Types and the bound of the queue hold on     *)
(* both platforms.  The rest is about Windows, and assumes that the wait   *)
(* for the timer thread does not run out: see Punctual.                    *)
(***************************************************************************)
EXTENDS Publisher, TLAPS

\* The timer thread ends within the second that demo_timer_cleanup waits for it.
Punctual == Platform = "windows" /\ "join" \notin Fails

\* The worker thread can be created.
Creates == "worker" \notin Fails

\* A timer thread that is alive is the one the next cleanup joins, and after that
\* none is.
TimerOwned ==
  /\ \A k \in Timers : tick[k] # "off" => k = timer
  /\ (pc \in {"shutdown", "join", "end", "null"} \/ (pc = "idle" /\ ~ticking)) => timer = NULL
  /\ pc \notin {"idle", "init", "spawn"} => ~ticking
  /\ pc \in {"init", "spawn"} \/ (pc = "idle" /\ ticking) => ticking /\ state = "RUN"

\* A worker that is alive is the one the next shutdown joins; while the publisher
\* is up, unless it is just being made, the worker is alive, and between a join and
\* the next start there is none.
WorkerOwned ==
  /\ \A w \in Workers : at[w] # "off" => w = worker
  /\ up /\ pc # "spawn" => worker # NULL /\ at[worker] # "off"
  /\ pc = "spawn" => up /\ worker = NULL
  /\ ~up /\ pc # "join" => worker = NULL
  /\ (pc \in {"join", "end", "null"} \/ (pc = "idle" /\ ~ticking)) => ~up

\* An event is in the queue only while somebody will still take it, if the worker can
\* be created: otherwise the timer thread may have passed the test of a flag that is
\* lowered again.
QueueServed ==
  /\ \A k \in Timers : tick[k] = "push" => up
  /\ ~up /\ pc # "join" => len = 0
  /\ pc = "join" => len = 0 \/ (worker # NULL /\ at[worker] # "off")

\* Handles: the one the context refers to is open but for the moment between
\* legacy_agent_close and ctx->agent = NULL.
HandleOpen ==
  /\ pc # "null" => agent \in open \cup {NULL}
  /\ \A w \in Workers : at[w] = "write" => using[w] \in open \cup {NULL}

IndInv == TypeOK /\ TimerOwned /\ WorkerOwned /\ HandleOpen

-----------------------------------------------------------------------------
\* Types, and the bound of the queue, on both platforms.
LEMMA TypeStep == TypeOK /\ [Next]_vars => TypeOK'
<1> SUFFICES ASSUME TypeOK, [Next]_vars PROVE TypeOK'
  OBVIOUS
<1> USE PublisherAssumption DEF TypeOK, appVars, timerVars, queueVars, workVars, Goto, MayFail
<1>1. CASE Command
  <2>1. CASE Connect \/ GiveUp
    BY <2>1 DEF Connect, GiveUp
  <2>2. CASE Start
    BY <2>2 DEF Start
  <2>3. CASE Stop
    BY <2>3 DEF Stop
  <2> QED
    BY <1>1, <2>1, <2>2, <2>3 DEF Command
<1>2. CASE Continue
  <2>1. CASE StartWorker
    BY <2>1 DEF StartWorker
  <2>2. CASE JoinTimer
    BY <2>2 DEF JoinTimer
  <2>3. CASE Shutdown
    <3>1. at' \in [Workers -> {"off", "receive", "check", "format", "write"}]
      BY <2>3 DEF Shutdown
    <3>2. len' \in 0..Capacity /\ worker' \in Workers \cup {NULL} /\ pc' \in {"end", "join"}
      BY <2>3 DEF Shutdown
    <3> QED
      BY <2>3, <3>1, <3>2 DEF Shutdown
  <2>4. CASE JoinWorker
    BY <2>4 DEF JoinWorker
  <2>5. CASE Close
    BY <2>5 DEF Close
  <2>6. CASE Forget
    BY <2>6 DEF Forget
  <2>7. CASE SpawnWorker
    <3>1. up' \in BOOLEAN /\ worker' \in Workers \cup {NULL}
      BY <2>7 DEF SpawnWorker
    <3>3. len' = len \/ len' = 0
      BY <2>7 DEF SpawnWorker
    <3>4. len' \in 0..Capacity
      BY <3>3
    <3>2. at' \in [Workers -> {"off", "receive", "check", "format", "write"}]
      BY <2>7 DEF SpawnWorker
    <3> QED
      BY <2>7, <3>1, <3>2, <3>4 DEF SpawnWorker
  <2> QED
    BY <1>2, <2>1, <2>2, <2>3, <2>4, <2>5, <2>6, <2>7 DEF Continue
<1>3. ASSUME NEW k \in Timers, TimerThread(k) PROVE TypeOK'
  BY <1>3 DEF TimerThread, TimerExit, Tick, Enqueue, Skip, Push, Room
<1>4. ASSUME NEW w \in Workers, WorkerThread(w) PROVE TypeOK'
  BY <1>4 DEF WorkerThread, Receive, Check, Write, Written
<1>5. CASE UNCHANGED vars
  BY <1>5 DEF vars
<1> QED
  BY <1>1, <1>2, <1>3, <1>4, <1>5 DEF Next

\* Types hold initially.
LEMMA InitTypeOK == Init => TypeOK
<1> SUFFICES ASSUME Init PROVE TypeOK
  OBVIOUS
<1>1. at \in [Workers -> {"off", "receive", "check", "format", "write"}]
  BY DEF Init
<1>2. using \in [Workers -> Handles \cup {NULL}] /\ tick \in [Timers -> {"off", "loop", "push"}]
  BY DEF Init
<1>3. len \in 0..Capacity
  BY PublisherAssumption DEF Init
<1>4. state = "IDLE" /\ pc = "idle" /\ agent = NULL /\ open = {} /\ worker = NULL
      /\ timer = NULL /\ up = FALSE /\ ticking = FALSE
  BY DEF Init
<1> QED
  BY <1>1, <1>2, <1>3, <1>4 DEF TypeOK

\* On either platform, whatever fails: the queue never holds more than its capacity,
\* and every variable has its type.
THEOREM TypeCorrect == Spec => []TypeOK
BY InitTypeOK, TypeStep, PTL DEF Spec

-----------------------------------------------------------------------------
\* The inductive invariant holds initially.
LEMMA IndInvInit == Init => IndInv
<1> SUFFICES ASSUME Init PROVE IndInv
  OBVIOUS
<1>1. TypeOK
  BY InitTypeOK
<1>2. TimerOwned /\ WorkerOwned
  BY DEF Init, TimerOwned, WorkerOwned
<1>3. HandleOpen
  BY DEF Init, HandleOpen
<1> QED
  BY <1>1, <1>2, <1>3 DEF IndInv

\* Every step keeps TimerOwned: cleanup joins the thread that start created.
LEMMA TimerOwnedStep == Punctual /\ IndInv /\ [Next]_vars => TimerOwned'
<1> SUFFICES ASSUME Punctual, IndInv, [Next]_vars PROVE TimerOwned'
  OBVIOUS
<1> USE DEF IndInv, TypeOK, TimerOwned, appVars, timerVars, queueVars, workVars, Goto, MayFail
<1>1. CASE Command
  <2>1. CASE Connect \/ GiveUp
    BY <2>1 DEF Connect, GiveUp
  <2>2. CASE Start
    <3>1. \A k \in Timers : tick[k] = "off"
      BY <2>2, PublisherAssumption DEF Start
    <3> QED
      BY <2>2, <3>1 DEF Start
  <2>3. CASE Stop
    BY <2>3 DEF Stop
  <2> QED
    BY <1>1, <2>1, <2>2, <2>3 DEF Command
<1>2. CASE Continue
  <2>1. CASE StartWorker
    BY <2>1 DEF StartWorker
  <2>2. CASE JoinTimer
    <3>1. tick' = tick /\ (timer # NULL => tick[timer] = "off")
      BY <2>2 DEF JoinTimer, Punctual
    <3>2. \A k \in Timers : tick[k] = "off"
      BY <3>1, PublisherAssumption
    <3> QED
      BY <2>2, <3>1, <3>2 DEF JoinTimer
  <2>3. CASE Shutdown
    BY <2>3 DEF Shutdown, Punctual
  <2>4. CASE JoinWorker
    BY <2>4 DEF JoinWorker
  <2>5. CASE Close
    BY <2>5 DEF Close
  <2>6. CASE Forget
    BY <2>6 DEF Forget
  <2>7. CASE SpawnWorker
    BY <2>7, PublisherAssumption DEF SpawnWorker
  <2> QED
    BY <1>2, <2>1, <2>2, <2>3, <2>4, <2>5, <2>6, <2>7 DEF Continue
<1>3. ASSUME NEW k \in Timers, TimerThread(k) PROVE TimerOwned'
  BY <1>3 DEF TimerThread, TimerExit, Tick, Enqueue, Skip, Push, Room
<1>4. ASSUME NEW w \in Workers, WorkerThread(w) PROVE TimerOwned'
  BY <1>4 DEF WorkerThread, Receive, Check, Write, Written
<1>5. CASE UNCHANGED vars
  BY <1>5 DEF vars
<1> QED
  BY <1>1, <1>2, <1>3, <1>4, <1>5 DEF Next

\* Every step keeps WorkerOwned: shutdown joins the worker that init created.
LEMMA WorkerOwnedStep == Punctual /\ IndInv /\ [Next]_vars => WorkerOwned'
<1> SUFFICES ASSUME Punctual, IndInv, [Next]_vars PROVE WorkerOwned'
  OBVIOUS
<1> USE DEF IndInv, TypeOK, WorkerOwned, appVars, timerVars, queueVars, workVars, Goto, MayFail
<1>1. CASE Command
  <2>1. CASE Connect \/ GiveUp
    BY <2>1 DEF Connect, GiveUp, TimerOwned
  <2>2. CASE Start
    BY <2>2 DEF Start, TimerOwned
  <2>3. CASE Stop
    BY <2>3 DEF Stop
  <2> QED
    BY <1>1, <2>1, <2>2, <2>3 DEF Command
<1>2. CASE Continue
  <2>1. CASE StartWorker
    BY <2>1, PublisherAssumption DEF StartWorker, Punctual, TimerOwned
  <2>2. CASE JoinTimer
    BY <2>2 DEF JoinTimer, Punctual
  <2>3. CASE Shutdown
    BY <2>3 DEF Shutdown, Punctual
  <2>4. CASE JoinWorker
    BY <2>4, PublisherAssumption DEF JoinWorker
  <2>5. CASE Close
    BY <2>5 DEF Close
  <2>6. CASE Forget
    BY <2>6 DEF Forget
  <2>7. CASE SpawnWorker
    <3>1. pc' = "idle" /\ ticking' /\ up /\ worker = NULL /\ \A w \in Workers : at[w] = "off"
      BY <2>7, PublisherAssumption DEF SpawnWorker, TimerOwned
    <3>2. ASSUME NEW w \in Workers, worker' = w, at' = [at EXCEPT ![w] = "receive"], up' = up
          PROVE  WorkerOwned'
      BY <3>1, <3>2, PublisherAssumption
    <3>3. CASE up' = FALSE /\ UNCHANGED <<worker, at>>
      BY <3>1, <3>3
    <3> QED
      BY <2>7, <3>2, <3>3 DEF SpawnWorker
  <2> QED
    BY <1>2, <2>1, <2>2, <2>3, <2>4, <2>5, <2>6, <2>7 DEF Continue
<1>3. ASSUME NEW k \in Timers, TimerThread(k) PROVE WorkerOwned'
  BY <1>3 DEF TimerThread, TimerExit, Tick, Enqueue, Skip, Push, Room
<1>4. ASSUME NEW w \in Workers, WorkerThread(w) PROVE WorkerOwned'
  BY <1>4, PublisherAssumption DEF WorkerThread, Receive, Check, Write, Written
<1>5. CASE UNCHANGED vars
  BY <1>5 DEF vars
<1> QED
  BY <1>1, <1>2, <1>3, <1>4, <1>5 DEF Next

\* Every step keeps QueueServed: the worker leaves an empty queue behind.
LEMMA QueueServedStep == Punctual /\ Creates => (IndInv /\ QueueServed /\ [Next]_vars => QueueServed')
<1> SUFFICES ASSUME Punctual, Creates, IndInv, QueueServed, [Next]_vars PROVE QueueServed'
  OBVIOUS
<1> USE DEF IndInv, TypeOK, QueueServed, Creates, appVars, timerVars, queueVars, workVars, Goto, MayFail
<1>1. CASE Command
  <2>1. CASE Connect \/ GiveUp
    BY <2>1 DEF Connect, GiveUp
  <2>2. CASE Start
    BY <2>2 DEF Start
  <2>3. CASE Stop
    BY <2>3 DEF Stop
  <2> QED
    BY <1>1, <2>1, <2>2, <2>3 DEF Command
<1>2. CASE Continue
  <2>1. CASE StartWorker
    BY <2>1 DEF StartWorker
  <2>2. CASE JoinTimer
    BY <2>2 DEF JoinTimer, Punctual
  <2>3. CASE Shutdown
    BY <2>3, PublisherAssumption DEF Shutdown, Punctual, TimerOwned, WorkerOwned
  <2>4. CASE JoinWorker
    BY <2>4 DEF JoinWorker
  <2>5. CASE Close
    BY <2>5 DEF Close
  <2>6. CASE Forget
    BY <2>6 DEF Forget
  <2>7. CASE SpawnWorker
    BY <2>7, PublisherAssumption DEF SpawnWorker
  <2> QED
    BY <1>2, <2>1, <2>2, <2>3, <2>4, <2>5, <2>6, <2>7 DEF Continue
<1>3. ASSUME NEW k \in Timers, TimerThread(k) PROVE QueueServed'
  <2>1. CASE TimerExit(k) \/ Tick(k) \/ Enqueue(k) \/ Skip(k)
    BY <2>1 DEF TimerExit, Tick, Enqueue, Skip
  <2>2. CASE Push(k)
    BY <2>2 DEF Push, Room, WorkerOwned
  <2> QED
    BY <1>3, <2>1, <2>2 DEF TimerThread
<1>4. ASSUME NEW w \in Workers, WorkerThread(w) PROVE QueueServed'
  <2>1. CASE Receive(w)
    BY <2>1 DEF Receive
  <2>2. CASE Check(w) \/ Write(w) \/ Written(w)
    BY <2>2 DEF Check, Write, Written
  <2> QED
    BY <1>4, <2>1, <2>2 DEF WorkerThread
<1>5. CASE UNCHANGED vars
  BY <1>5 DEF vars
<1> QED
  BY <1>1, <1>2, <1>3, <1>4, <1>5 DEF Next

\* Every step keeps HandleOpen: reset closes after the worker was joined.
LEMMA HandleOpenStep == Punctual /\ IndInv /\ [Next]_vars => HandleOpen'
<1> SUFFICES ASSUME Punctual, IndInv, [Next]_vars PROVE HandleOpen'
  OBVIOUS
<1> USE DEF IndInv, TypeOK, HandleOpen, appVars, timerVars, queueVars, workVars, Goto, MayFail
<1>1. CASE Command
  <2>1. CASE Connect
    BY <2>1 DEF Connect
  <2>4. CASE GiveUp
    <3>1. \A w \in Workers : at[w] = "off"
      BY <2>4, PublisherAssumption DEF GiveUp, WorkerOwned, TimerOwned
    <3> QED
      BY <2>4, <3>1 DEF GiveUp
  <2>2. CASE Start
    BY <2>2 DEF Start
  <2>3. CASE Stop
    BY <2>3 DEF Stop
  <2> QED
    BY <1>1, <2>1, <2>2, <2>3, <2>4 DEF Command
<1>2. CASE Continue
  <2>1. CASE StartWorker
    BY <2>1 DEF StartWorker
  <2>2. CASE JoinTimer
    BY <2>2 DEF JoinTimer, Punctual
  <2>3. CASE Shutdown
    BY <2>3 DEF Shutdown, Punctual
  <2>4. CASE JoinWorker
    BY <2>4 DEF JoinWorker
  <2>5. CASE Close
    <3>1. \A w \in Workers : at[w] = "off"
      BY <2>5, PublisherAssumption DEF Close, WorkerOwned
    <3> QED
      BY <2>5, <3>1 DEF Close
  <2>6. CASE Forget
    <3>1. \A w \in Workers : at[w] = "off"
      BY <2>6, PublisherAssumption DEF Forget, WorkerOwned
    <3> QED
      BY <2>6, <3>1 DEF Forget
  <2>7. CASE SpawnWorker
    BY <2>7 DEF SpawnWorker
  <2> QED
    BY <1>2, <2>1, <2>2, <2>3, <2>4, <2>5, <2>6, <2>7 DEF Continue
<1>3. ASSUME NEW k \in Timers, TimerThread(k) PROVE HandleOpen'
  BY <1>3 DEF TimerThread, TimerExit, Tick, Enqueue, Skip, Push, Room
<1>4. ASSUME NEW w \in Workers, WorkerThread(w) PROVE HandleOpen'
  <2>1. pc # "null"
    BY <1>4, PublisherAssumption
    DEF WorkerThread, Receive, Check, Write, Written, WorkerOwned
  <2> QED
    BY <1>4, <2>1 DEF WorkerThread, Receive, Check, Write, Written
<1>5. CASE UNCHANGED vars
  BY <1>5 DEF vars
<1> QED
  BY <1>1, <1>2, <1>3, <1>4, <1>5 DEF Next

\* Every step keeps the inductive invariant.
LEMMA IndInvStep == Punctual /\ IndInv /\ [Next]_vars => IndInv'
BY TypeStep, TimerOwnedStep, WorkerOwnedStep, HandleOpenStep DEF IndInv

\* The inductive invariant is an invariant.
LEMMA IndInvHolds == Punctual => (Spec => []IndInv)
<1> SUFFICES ASSUME Punctual PROVE Spec => []IndInv
  OBVIOUS
<1>1. IndInv /\ [Next]_vars => IndInv'
  BY IndInvStep
<1> QED
  BY <1>1, IndInvInit, PTL DEF Spec

-----------------------------------------------------------------------------
\* On Windows two workers never run at once.
THEOREM WorkerIsAlone == Punctual => (Spec => []OneWorker)
<1>1. IndInv => OneWorker
  BY DEF IndInv, WorkerOwned, OneWorker
<1> QED
  BY <1>1, IndInvHolds, PTL

\* On Windows no worker writes on a handle that legacy_agent_close was called on.
THEOREM WritesAreAlive == Punctual => (Spec => []WriteAlive)
<1>1. IndInv => WriteAlive
  <2> SUFFICES ASSUME IndInv, NEW w \in Workers
               PROVE /\ at[w] = "format" => agent \in open \cup {NULL}
                     /\ at[w] = "write" => using[w] \in open \cup {NULL}
    BY DEF WriteAlive
  <2>1. at[w] = "format" => pc # "null"
    BY PublisherAssumption DEF IndInv, TypeOK, WorkerOwned
  <2> QED
    BY <2>1 DEF IndInv, HandleOpen
<1> QED
  BY <1>1, IndInvHolds, PTL

\* On Windows nothing of a scenario is alive once stop_scenario or reset has returned.
THEOREM NothingIsLeft == Punctual => (Spec => []Rests)
<1>1. IndInv => Rests
  BY PublisherAssumption DEF IndInv, TypeOK, TimerOwned, WorkerOwned, Rests
<1> QED
  BY <1>1, IndInvHolds, PTL

\* On Windows, when the worker thread can be created, every event that was accepted has
\* been published when demo_publisher_shutdown returns.
THEOREM ShutdownDrains == Punctual /\ Creates => (Spec => []Drained)
<1> SUFFICES ASSUME Punctual, Creates PROVE Spec => []Drained
  OBVIOUS
<1>1. Init => QueueServed
  BY DEF Init, QueueServed
<1>2. IndInv /\ QueueServed /\ [Next]_vars => QueueServed'
  BY QueueServedStep
<1>3. QueueServed => Drained
  BY DEF QueueServed, Drained
<1> QED
  BY <1>1, <1>2, <1>3, IndInvHolds, PTL DEF Spec

\* On Windows, when the worker thread can be created, somebody takes what the timer
\* thread enqueues.
THEOREM EventsAreServed == Punctual /\ Creates => (Spec => []Served)
<1> SUFFICES ASSUME Punctual, Creates PROVE Spec => []Served
  OBVIOUS
<1> DEFINE Up == pc = "idle" /\ ticking => up
<1>1. Init => Up
  BY DEF Init
<1>2. IndInv /\ Up /\ [Next]_vars => Up'
  <2> SUFFICES ASSUME IndInv, Up, [Next]_vars PROVE Up'
    OBVIOUS
  <2> USE DEF appVars, timerVars, queueVars, workVars, Goto, MayFail
  <2>1. CASE Command
    BY <2>1 DEF Command, Connect, GiveUp, Start, Stop
  <2>2. CASE Continue
    <3>1. CASE StartWorker \/ SpawnWorker
      BY <3>1 DEF StartWorker, SpawnWorker, Creates, Punctual, IndInv, WorkerOwned
    <3>2. CASE JoinTimer \/ Shutdown \/ JoinWorker \/ Close \/ Forget
      BY <3>2 DEF JoinTimer, Shutdown, JoinWorker, Close, Forget, IndInv, TimerOwned
    <3> QED
      BY <2>2, <3>1, <3>2 DEF Continue
  <2>3. ASSUME NEW k \in Timers, TimerThread(k) PROVE Up'
    BY <2>3 DEF TimerThread, TimerExit, Tick, Enqueue, Skip, Push, Room
  <2>4. ASSUME NEW w \in Workers, WorkerThread(w) PROVE Up'
    BY <2>4 DEF WorkerThread, Receive, Check, Write, Written
  <2>5. CASE UNCHANGED vars
    BY <2>5 DEF vars
  <2> QED
    BY <2>1, <2>2, <2>3, <2>4, <2>5 DEF Next
<1>3. IndInv /\ Up => Served
  <2> SUFFICES ASSUME IndInv, Up, pc = "idle", ticking PROVE up /\ \E w \in Workers : at[w] # "off"
    BY DEF Served
  <2>1. up
    OBVIOUS
  <2>2. worker \in Workers /\ at[worker] # "off"
    BY <2>1 DEF IndInv, TypeOK, WorkerOwned
  <2> QED
    BY <2>1, <2>2
<1> HIDE DEF Up
<1> QED
  BY <1>1, <1>2, <1>3, IndInvHolds, PTL DEF Spec
=============================================================================
