# LegacyLib and DemoApp: specifications, model checking and proofs

The repository holds two programs.

* **LegacyLib** (`src/`, `include/legacy_agent.h`) is the client library through which a C
  application talks to a DDS Agent: JSON requests, encoded as CBOR, in UDP datagrams. It runs as a
  `std::thread` program or as a VxWorks DKM.
* **DemoApp** (`demo_app/`) is the application built on it: a state machine driven by operator
  commands and by messages of the Agent, a 1 ms timer thread, a publisher thread, two TCP servers
  (commands and log) and a logger. It is built for Windows and for VxWorks.

Two examples, `examples/main.c` and `examples/demo_dkm.c`, are command lines for the library, and
`include/json.hpp` is nlohmann's JSON library, which encodes and decodes every message.

This directory models both in TLA+, checks the models with TLC and proves the main results with
TLAPS.

## 1. Inventory

### Components

| component | state it keeps | operations | what makes it correct |
|---|---|---|---|
| **request/reply client**: `IpcJsonClient.cpp/.h`, `DkmRtpIpc.cpp`, `legacy_agent.cpp` | `running_`, `next_req_id_`, `pending_requests_` (under `req_mutex_`), `cbor_buf_` (under nothing), the socket | `legacy_agent_init`, `_close`, the request methods (`hello` .. `write_json`), `receiveLoop` | a callback runs at most once, with the reply to its own request; nothing is lost from the table; nothing runs after close; an accepted request is answered |
| **events and type adapters**: `IpcJsonClient.cpp:253-301, 615-704` | `subscriptions_`, `type_adapters_` | subscribe (there is no unsubscribe), register and unregister adapters, typed write, dispatch on the receive thread | an event reaches every subscriber of its key, once and in order; an adapter is alive when it is used |
| **DemoApp state machine**: `demo_app_core.c`, callbacks of `demo_app_msg.cpp`, commands of `demo_app_cli.c` and `demo_app_dkm.c` | `DemoAppContext` (state, agent handle, flags, `bit_state`, `tick_count`), under no lock | connect, create_entities, start_scenario, stop_scenario, reset, run_ibit, test_write; `on_hello`, `demo_msg_on_runbit` | state, timer thread and handle agree; the handle is closed once and not used afterwards; an IBIT ends, in time, with its own number |
| **timer**: `demo_app_timer.c` | `g_timer_running`, the thread, `tick_count` | init, cleanup, tick | one thread while a scenario runs, none otherwise |
| **publisher**: `demo_app_publisher.c` | the queue, the worker, `g_worker_running` | init, shutdown, enqueue, the worker loop | one worker; it drains the queue before shutdown returns; it writes on an open handle |
| **TCP servers**: `demo_app_tcp_win.c`, `demo_app_tcp_vx.c` | server and client socket, running flag, thread, per server | start, bind, accept, serve, quit, stop | one client at a time, always the next one; a stop leaves nothing |
| **start-up and shutdown**: `demo_app_main.c`, `demo_app_dkm.c` | `g_demo_ctx`, `g_running` | main, `demoAppStart`, `demoAppStop` | the context exists while commands run |
| **logger**: `demo_app_log.c` | level, mode, enabled, `g_tcp_log_client` | `demo_log`, setters, registration of the log client | a message goes to the log's client or to nobody |
| **publish periods and statistics**: `demo_app_core.c:434-724`, `demo_app_timer.c:275-411` | periods, last ticks, counters, the window | set_hz, reset_hz, the checks in each tick | a topic is published once per period; the rates are renewed every second |
| **fault injection and BIT contents**: `demo_app_core.c:556-`, `demo_app_msg.cpp` | three component sets in `bit_state` | fault_inject, fault_clear, the three reports | the reports agree on what they share |
| **control loop**: callbacks and signal of `demo_app_msg.cpp`, `demo_timer_update_simulation`, `demo_app_enums.c` | `control_state`, `signal_state`, under no lock | control messages, a tick of the simulation, a Signal | position control reaches its position and stays within its limits |
| **JSON and the wire**: `json.hpp`, `IpcJsonClient.cpp`, `DkmRtpIpc.cpp` | none but the frame | parse, dump, to_cbor, from_cbor, frame, dispatch | both formats read back what they wrote; data arrives unchanged; no message ends the receive thread |
| **examples**: `main.c`, `demo_dkm.c` | `g_agent`, client sockets, the JSON cache, two mutexes | start, stop, commands, prints of the receive thread | sessions stay apart; a stop leaves nothing behind |
| Agent and network | external | replies, events; loss, duplication, reordering, refusal, foreign encoders | - |
| status display, help, perf counters | none | formatting | contents only |
| not part of the programs | | `demo_app_msg.c`, `vxworks/demo_app_cli.c` (built by nothing) | - |

### How they interact

```
 TCP client ─ CLI thread ─┐ commands                    ┌─ callbacks ─ receive thread ─┐
 shell (VxWorks) ─────────┤                             │  (on_hello, on_runbit)       │
                          ▼                             ▼                              │
                     DemoAppContext  ◄── tick ── timer thread ── enqueue ─► worker     │
                          │                             │                     │        │
                          └──── legacy_agent_*  ◄───────┴─────────────────────┘        │
                                     │ pending_requests_, cbor_buf_                    │
                                     └──────────────── UDP ──────── Agent ─────────────┘
 every thread ── demo_log ── copy of g_tcp_log_client ── log server's client
```

Calls run down; the receive thread calls back up, into code that issues requests again. Shared
state without a lock: all of `DemoAppContext`, `cbor_buf_`, the client sockets of the TCP servers.
Waiting: `legacy_agent_close` for the receive thread, `demo_timer_cleanup` for the timer thread,
`demo_publisher_shutdown` for the worker (Windows), a server's stop for its thread.

### What is hard

* *Interleaving.* Five kinds of threads write one context. A command tests `current_state` and acts
  a step later; so does the runBIT callback.
* *Lost, duplicated, reordered datagrams*, and an Agent that may not return the request id.
* *Shutdown.* Each close waits for a thread that may be inside a call. VxWorks gives up after
  100 ms and deletes the task; Windows gives up after a second and leaves the thread running.
* *Numbers that are reused*: request ids on a 32-bit counter, socket numbers, `tick_count`
  differences.
* *Half-done operations*: a connect, a scenario, a server start that fails in the middle.
* *Structures written field by field*: control messages, BIT components and signals have no lock.
* *Pointers that outlive a lock*: an adapter, a cached text, the subscriptions of a key.
* *Boundaries of formats*: integers at 64 bits, shortest doubles, surrogates, indefinite lengths.

PROJECT.json lists each hazard at its line, with the properties that cover it.

## 2. Plan

| step | module | content | state |
|---|---|---|---|
| 1 | `RequestReply`, `IpcClient`, `MCIpcClient` | requests, replies, callbacks, close; refinement | done |
| 2 | `IbitService`, `DemoApp`, `MCDemoApp` | state machine, timer thread, IBIT, handle | done |
| 3 | `Publisher`, `MCPublisher` | queue, worker, and the handle they write on | done |
| 4 | `Console`, `Logger`, `MCConsole` | servers, start and shutdown, log client; settings and mutex of the logger | done |
| 5 | `EventDispatch`, `MCEventDispatch` | subscriptions under `sub_mutex_`, the walk that calls them, type adapters | done |
| 6 | `PublishRate`, `TurretControl`, `MCPublishRate` | periods, statistics, faults; the control loop | done |
| 7 | `DkmDemo`, `ExampleCli`, `MCDkmDemo` | the two examples | done |
| 8 | `JsonValue`, `JsonLexer`, `JsonParser`, `Grisu2`, `JsonSerializer`, `Cbor`, `JsonGrammar`, `IpcWire`, `MCIpcWire` | JSON and CBOR against their definitions; the frame and its dispatch | done |
| 9 | `IpcClientProofs`, `PublisherProofs`, `TickProofs` | the theorems of section 6 on the client, the publisher and the ticks (`PublishRate`, `TurretControl`) | done |
| 10 | `DemoAppProofs` | every safety property of `DemoApp`; the refinement of `IbitService` | done |
| 11 | `ConsoleProofs` | every invariant of `Console` and `Logger` | done |
| 12 | `EventDispatchProofs` | every invariant of `EventDispatch` | done |
| 13 | `ExamplesProofs` | every invariant of `DkmDemo` and `ExampleCli` | done |
| 14 | `AppPublisher`, `MCAppPublisher`, `AppPublisherProofs` | `DemoApp` composed with its publisher: the two shutdowns in one reset; the refinement of `Publisher` | done |

`DemoApp` uses LegacyLib through the promises that `IpcClient` establishes: a handle's callbacks
run on its one receive thread, one at a time, and none after `legacy_agent_close`.
`Publisher` has what `DemoApp` leaves out of the tick, of `demo_timer_init` and of
`demo_timer_cleanup`; `AppPublisher` puts the two together.
`IpcClient` and `EventDispatch` take the conversions that `IpcWire` models as given.

## 3. The modules

Every definition that stands for code is listed with its lines in PROJECT.json under `map`. Each
module has one action per step that another thread can see, and most have a section of *plausible
bugs*: alternative forms of their operations with which the properties are shown to fail.

**`IpcClient`** follows a request from `generateRequestId` (`Generate`) through `registerRequest`
(`Register`), the CBOR encoding into `cbor_buf_` (`Encode`) and the socket (`Send`, `SendFails`) to
the method's return (`Return`); and a reply through `receiveLoop`: `RxReceive`, the lookup under
`req_mutex_` that finds, copies and erases the entry (`RxLookup`, `RxUnknown`), the callback
without a lock (`RxCallback`), during which the receive thread may issue requests itself,
`RxReturn`. `pending` is the table by id; calls are numbered, and call `c` has id `c % IdSpace`.
Unsynchronised use of `cbor_buf_` is a choice: a sender may read what it stored, what another
thread stored last, or a mixture (`Garbled`). The network loses, duplicates, reorders and refuses
as `Faults` allows. With `Echo = FALSE` a reply carries no id and takes the smallest key of the
table. `legacy_agent_close` is `CloseBegin`, then `CloseJoin` or, on VxWorks, `CloseDelete`.

**`RequestReply`** is the abstract promise: issued calls, each answered at most once with the reply
that belongs to it, nothing after close. `IpcClient` maps `issued` to the calls numbered so far and
`open` to `life # "closed"`.

**`EventDispatch`** has the other two tables of the client. `subs` is `subscriptions_`, a sequence
per key, under `sub_mutex_`; a section under that lock is a lock step and a step of its body,
because the receive thread calls the callbacks inside one. `pos` and `end` are the loop's iterator
and `end()`, read once: a `push_back` during the walk would invalidate both. `depth` counts how
often the holder has the lock, which only VxWorks' recursive mutex lets be more than one. An
adapter is a node of the map with the registration whose contents it has; `writeStruct` finds the
node under the lock and reads `encode` and `user_ctx` through the pointer without it
(`WriteReadEncode`, `WriteReadContext`). Nothing keeps another thread from replacing or removing the
adapter meanwhile: what is then `Found` at the pointer is the new contents, or, once the node is
freed, anything. `IsEvent` decides, as `receiveLoop` does, what is an event
and what goes down the path of replies.

**`DemoApp`** has a program counter per command thread and per receive thread. Commands are split
at each read of `current_state` that is acted upon later, at each `enter_state`, and at each use of
`ctx->agent`; so `start_scenario` is `Scenario` (check), `ScenarioBit`, `ScenarioRun`,
`ScenarioTimer`. A runBIT event visits every subscription of its handle, each with a check
(`RunBitCheck`), the stores (`TriggerSet`) and the state change (`TriggerEnter`), as
`demo_app_trigger_ibit` orders them. The timer thread reads the state once per tick. `tick` is
the wrapping counter; `Elapsed` is the unsigned difference. `test_write` stores the reference
number of its dummy message (`TestWrite`). What a tick publishes is in `PublishRate`.

**`IbitService`** is the promise about an initiated BIT: one at a time, ended by one result with its
own number or abandoned by a stop.

**`Publisher`** repeats the commands and the timer's life in short and adds the queue (a length:
events are alike), the worker and the handle it reads twice, once to test it and once to use it.
`demo_publisher_init` raises `g_worker_running` (`StartWorker`) before it creates the worker
(`SpawnWorker`), while the timer thread is already ticking; a tick tests that flag (`Enqueue`) before
it takes the lock (`Push`), or has no signal due (`Skip`).

**`AppPublisher`** is the program with both. It takes DemoApp's actions as they are and says what
happens beside them: after `ScenarioTimer` made a timer thread, and after `JoinTimer`, the command
goes on in the publisher (`Follows`, `step`). The publisher's steps are those of `Publisher`, an
instance `Pub(t)` in which the command thread is DemoApp's thread `t` (`Place`), the timer threads
are DemoApp's (`Beat`), and handle and context are shared. So nothing is assumed any more of how
the commands, a failing connect, a callback or an IBIT surround the publisher. `Publisher` has one
variable that is not in the program: its `state` says what part of a scenario is under way, where
`current_state` may meanwhile be RUN or IBIT_RUNNING by a tick's or a callback's doing. `phase` is that
part, as a history variable: it changes where a command passes the corresponding call
(`NextPhase`), and no action reads it but those of the instance.

**`PublishRate`** is what a tick does with time. A tick is one step: the window of the statistics
(`Window`), the topics that are due (`Published`), the end of an IBIT. `Since` is the unsigned
difference of 64-bit counters; `Period` is what `set_hz` makes of the operator's number, negative
ones included. The BIT reports are three sets of components that `fault_inject` and `fault_clear`
change one after the other (`FaultStep`) while the timer runs.

**`TurretControl`** is the control loop: a control message is applied field by field on the receive
thread, the simulation runs statement by statement in the timer's tick, and the publisher's worker
reads the signal meanwhile. A message is a function from the fields it has to values, `ILL` for a
value of another JSON type, at which `get` throws and the rest of the message is lost. Angles and
velocities are integers in a small unit. A text of an enumeration is the set of the words that
`strstr` finds in it.

**`Console`** has the program counter of main in the order of `demo_app_main.c` or
`demo_app_dkm.c` (`Order`), the two servers' threads, and the sends of the logger. Sockets are
numbers that are reused after `close`; `conn[k]` says whose client `k` is at the moment, which is
what the code cannot see. A stop and a server's thread test the client socket, close it a step later
and clear the variable a step after that, without a lock (`StopReads`/`StopCloses`/`StopClears`,
`Check`/`Close`); the close uses the number tested or the one found by a second read. Between the
close and the clearing (`CloseClient`, `ClearClient`) the other server may have accepted a client
under the freed number, which the variable still names. An `accept` and the store of its result are
one step. Both builds are checked in one run, by choosing `platform` in
the initial state; only on VxWorks can the program be started again with its variables as they
were. Every `Fails` set names the operations the environment may make fail.

**`Logger`** has the settings of `demo_app_log.c`, the commands that change them, and the life of
`g_log_mutex` from `demo_log_init` to `demo_log_cleanup`. `log_lock` and `log_unlock` each test
`g_log_mutex_init` on their own, and the test and the call are two steps. Main's order of starting
and stopping threads (`Phases`) is all that keeps the mutex alive.

**`DkmDemo`** is `examples/demo_dkm.c`: the shell that starts and stops the program, the server
task that runs one client's commands, the receive task of each handle, the cache of JSON files and
the two mutexes. A stop waits 100 ms for the server task and deletes it if it has not ended: `Slow`
names what may take longer than that. `Deletable` says where a task may be when it is deleted. The
task tests `g_running` before `accept` (`SrvHead`) and before the first `recv` (`SrvEnter`), not
after `accept` returned: between the steps of a stop (`Stop`, `StopClient`, `StopClear`,
`StopServer`) a client may still be accepted and greeted, which `late` records.

**`ExampleCli`** is `examples/main.c`: one client after the other, lines put together from the
characters of a `recv`, `g_client_sock` used by main and by the library's receive thread, and the
numbers that sockets of clients and the library's UDP socket take from one pool
(`DkmRtpIpc::init`, `close` and the destructor).

**The JSON chain** follows `json.hpp` for what the programs call. `JsonValue` has the values and
`get`, `value`, `operator[]`, `operator==`, with numbers of the widths `UIntMax` and the float
format give; `JsonLexer` and `JsonParser` read a text octet by octet through the lexer's states and
the parser's stack; `Grisu2` finds the digits of a float with `diyfp` arithmetic; `JsonSerializer`
is `dump`; `Cbor` is `to_cbor` and `from_cbor`. `JsonGrammar` is none of it: it is RFC 8259 as a
set of derivations, and the decimal value of a literal by exact arithmetic, to compare with.

**`IpcWire`** types a message octet by octet, from one of several alphabets, or takes it from a
list, and sends it: an application's text through `writeJson`, the frame and `receiveLoop` of a
subscriber; or a foreign Agent's payload, whole or cut short, into `receiveLoop`. Strings of the
protocol are one octet long.

`MCIpcClient` chooses in the initial state, by the variable `world`, which build of the client and
which Agent a behaviour has: the worlds are instances of `IpcClient` over the same variables.
`AnsweredInOrder` and `CloseReturnsInOrder` are `Answered` and `CloseReturns` of one world.

`MCPublishRate`, `MCConsole` and `MCDkmDemo` each check two modules that share no variable. The
variable `part` chooses in the initial state which of the two moves, so the states of a run are the
sum of the two and not their product.

## 4. The runs

| run | states | what it shows |
|---|---|---|
| `IpcOneCaller` | 34 828 | with one thread issuing requests at a time, through every network fault, `IpcClient` implements `RequestReply`; with an Agent that returns no id and an ordered network that loses nothing it does too, every request is answered, and close returns |
| `IpcCallbacks` | 414 632 | both builds; requests from an application thread and from callbacks: replies match by id, no entry is lost, no callback runs twice, the close is silent, also where it deletes the task |
| `IpcSharedBuffer` | violated | two threads on one handle: `OwnPayload` fails |
| `AppOneOperator` | 65 020 | VxWorks, commands in any order, no events: timer and state agree, an IBIT is not early and ends; `IbitService` is implemented |
| `PubWindows` | 1 674 | the publisher alone, Windows: all that was accepted is published before the shutdown returns |
| `AppSignals` | 350 728 | DemoApp and its publisher in one state space; Windows, runBIT events, test writes, every failure but a late timer: DemoApp surrounds the publisher as `Publisher` has it, no thread uses a closed handle, none is left at the prompt, IDLE is clean after a reset and after a connect that failed anywhere, a command returns though it waits for a tick, for the worker and for a callback |
| `ConServers` | 373 758 | both builds: while no server is being stopped, each serves and closes its own connection only, and the registered number is the log server's own; a shutdown ends and leaves nothing open, the VxWorks context outlives the CLI, a server always gets to its next client; the logger's mutex is used only while it exists |
| `Events` | 78 726 | both builds, two application threads and the receive thread: the walk's iterators stay valid, each callback gets its events once and in order, every datagram is handled |
| `EventsAdapters` | violated | two threads that write with type adapters and replace and remove them: `AdapterAlive` fails |
| `Dkm` | 109 043 | three starts of the DKM demonstration with failures and slow calls: the cache, the handle that two tasks may close, the mutexes, what a stop leaves; the example CLI's sessions stay apart |
| `Rate` | 436 230 | periods do not drift, the statistics are renewed, position control stays within its limits and settles |
| `Wire` | 304 560 | the parser agrees with the grammar, both formats read back what they wrote, data arrives unchanged, only an ill-typed message ends the receive thread |

### Properties

* `IpcClient`: `AtMostOnce`, `OwnId`, `EntryKept`, `OwnPayload` (state); `SilentAfterClose` (action
  and state); `AnsweredInOrder`, `CloseReturnsInOrder` (liveness); `RequestReplySpec` (refinement).
* `DemoApp`: `CleanIdle`, which `AppSignals` checks, and `Ticking` (state); `NotEarly` (action); `IbitEnds` (liveness);
  `IbitServiceSpec` (refinement).
* `Publisher`: `Drained` (state).
* `AppPublisher`: `NoUseAfterClose`, which is DemoApp's `HandleAlive` and Publisher's `WriteAlive`,
  and `AtRest` (state); `BackAtPrompt` (liveness); `PublisherSpec` (refinement).
* `Console`, `Logger`: `OwnClient`, `StoppedClean`, `ContextOutlivesCli`, `LockSound` (state);
  `KeepsServing`, `ShutdownEnds` (liveness).
* `EventDispatch`: `IteratorsValid`, `InOrder` (state); `Handled` (liveness); `AdapterAlive` (state),
  which `EventsAdapters` shows violated.
* `PublishRate`, `TurretControl`: `NoDrift`, `Renewed`, `PositionControl` (state); `Settles`
  (liveness).
* `DkmDemo`, `ExampleCli`: `CacheSound`, `QuietAfterStop`, `SessionsApart` (state); `StopReturns`
  (liveness).
* `IpcWire`: `ParseAgrees`, `TextRoundTrip`, `CborRoundTrip`, `Delivered`, `Survives` (state).

The type invariants are no properties of the runs: they hold in the instances of the runs, and all
of them, `LoggerTypeOK`, `TurretTypeOK`, `ExampleTypeOK`, `AppTypeOK` and the `TypeOK` of the others, are
theorems (section 6), those of `EventDispatch` and `Logger` under the assumption that the walk and
the lock need, that of `AppPublisher` for one operator.

### Bounds, and why they are enough

* `MaxCalls = 3`, `IdSpace = 4, 5` (2 calls for the violation). Two calls are needed to confuse
  replies; the third is a request that meets both an entry left behind and one in flight. `0` is an
  id the code treats as "none", so `IdSpace` is greater than `MaxCalls` in these runs. That a wrap of
  the counter onto a registered entry duplicates nothing is settled by the proof of `AtMostOnce`, for
  every `IdSpace`; it loses the entry (section 5).
* Callers: one, one and the receive thread, or two. Any race in the client is between two threads.
* `Handles`, `Timers`, `Workers`: two of each, an old one that lives on and its successor, but for
  the threads of `AppSignals` (below). Handles are reused, as addresses of `new` are.
* `MaxIbits = 2` in `AppOneOperator`, which has no events: one request in progress and one that must
  be refused or wait; `1` in `AppSignals`, where the one request visits two subscriptions (`MaxSubs`).
  `AppOneOperator` takes DemoApp's steps but for those of events and test writes, which its constants
  switch off (`OperatorNext` of `MCDemoApp`); `AppSignals` has them all.
* `IbitTicks = 2` stands for 3000, `TickSpace = 4` for 2^64: the smallest pair in which an early, a
  timely and a wrapped difference are distinct.
* `Capacity = 2` for the 4096 of the queue: empty, full and between. `AppSignals` has 1, which is
  empty and full, and an IBIT of a tick: its question is the order of the calls of both parts. It has
  one timer thread and one worker, which is all that can be alive at once while the waits succeed
  (`OneTimer` of `DemoAppProofs` and `WorkerIsAlone` prove that for any number); an old one beside a
  new one is what `PubWindows` and `AppOneOperator` have room for.
* `Sockets`: three numbers, a client for each server and one that waits; fewer would rule out a
  number being reused while another is open. `Loggers`: one, since loggers touch each other only
  through the registration, which a server's thread changes as well. In `Logger` two threads and
  main meet at the mutex, and one setting is changed.
* `Events`: two threads, two keys, three subscriptions one of which is typed; `Loads` bounds a
  behaviour to three subscriptions and an event, two and two, or two registrations and an event,
  so that a key's vector grows while it is walked and while the next event waits. `EventsAdapters`
  needs two registrations and no events.
* `Rate`: a second of 4 ticks and an IBIT of 3, with default periods of 2 and 4 ticks; scenarios of
  at most 9 ticks, which is two windows and a tick; 2 starts, so that one inherits the window of
  the other; rates that are negative, 0, within range and above it; `Width = 32` for 2^64, more than
  a scenario and a second, which is what `RateAssumption` asks. Turret: a tolerance, limits and
  positions small enough for a turret to move, be limited and settle within a few ticks, and large
  enough that a step of limited velocity is more than the tolerance; 2 messages, 1 tick under a
  velocity command, 1 scenario.
* `Dkm`: 2 files in a cache of 3 entries, so that a second load of both overflows it; 3 starts, 3
  handles, 5 commands: enough for a write to be overtaken by a reload, a stop and a new start.
  `Window = FALSE` excludes a stop between `delete h` and `g_agent = NULL`, and `"connect"` is not in
  `Slow` (section 5).
  Example: 3 socket numbers, one more than are in use at once, and 3 sessions; lines of 3 and chunks
  of 4 characters, so that a chunk ends within a line and beyond its limit.
* `Wire`: every text of at most 5 or 6 octets over nine alphabets, one per part of the grammar, and
  texts that are longer (surrogate pairs, the largest integers and doubles, their neighbours); every
  payload of at most 3 or 4 octets over seven sets of initial octets. Numbers are scaled: integers
  up to 2^20 - 1 in octets of base 32, so that 1 to 4 octets of length all occur; floats with a
  significand of 5 bits and exponents from 2^-11 to 31 * 2^18, `diyfp` of 14 bits, and all finite
  floats are put through `dump`. The widths keep the relations the algorithms need: the `diyfp` is
  wide enough for the significand, the cached powers cover the exponents.

### Fairness, and why the code justifies it

Weak fairness is asked of what a scheduler runs: every thread inside LegacyLib or DemoApp that can
take a step does so eventually, calls into LegacyLib return, the continuation of a command that was
started. `receiveLoop` leaves `select` every 100 ms and returns, so a datagram that keeps waiting is
enabled again and again and is reported: strong fairness for `RxReceive`. The Agent answers (weakly
fair) only where a run is about answers. Nobody is made to issue a request, type a command,
connect, leave, deliver an event or close; no operation has to fail. `AppSignals` asks for no more:
the continuation of a command, in DemoApp or in its publisher, a tick, a worker, and a callback that
has begun, each weakly fair. `Console` separates a failing `accept`, which is not fair, from the
`accept` that a closed listener ends, which is.

A mutex is obtained with strong fairness (`SubscribeLock` of `EventDispatch`, the prints of
`DkmDemo`): a thread that waits for a mutex whose holder gives it back again and again is served;
VxWorks mutexes queue by priority or arrival, and the receive thread pauses in `recv`. In `DkmDemo`
the close of a handle waits for its receive task (`SrvClosed`, `StopClosed`), which may be in a
print at any of the moments the wait ends, hence strong fairness again; a `recv` on a closed socket
returns. In `TurretControl` only the timer's simulation is fair: no message has to come and nothing
has to be published.

`ConServers` does not check for deadlock, since a Windows program that has shut down stays so; nor
does `Wire`, where a message that has arrived is the end. Nowhere else does the system stop.

## 5. What the code does not keep

Found by violation runs and recorded as findings: `IpcSharedBuffer` and `EventsAdapters`.
`LIB_API_SPEC.md:381` says that `legacy_agent_*` may be called from several threads with one handle;
the buffer they encode into has no lock, and the adapter that a write uses is not kept while it uses
it: a replacement on another thread mixes the `encode` of one with the `user_ctx` of the other, a
removal frees both (`IpcJsonClient.cpp:701`).

Other disagreements appear when a constant is changed; each can be repeated with the configuration
named, edited as described.

| property | change | why |
|---|---|---|
| `AnsweredInOrder` | `IpcOneCaller` with `Faults <- {"lose"}` in `InOrder` of `MCIpcClient` | nothing uses `timeout_ms`: a request whose datagram is lost is never answered, and its entry stays (`IpcJsonClient.cpp:324`) |
| `EntryKept` | `IpcCallbacks` with `IdSpace = 2` | the counter wraps onto an id whose request is still registered, and the older entry is overwritten: its callback never runs (`IpcJsonClient.cpp:177`); `AtMostOnce` still holds |
| `NotEarly` | `AppOneOperator` with `Events = TRUE` and `SPECIFICATION FairSpec` | `start_scenario` enters RUN (`demo_app_core.c:386`) before `demo_timer_init` resets `tick_count`; a runBIT in between keeps a start tick of the last scenario, and the unsigned difference is huge. `FEATURE_ANALYSIS.md:107` asks for three seconds |
| `IbitEnds` | `AppOneOperator` with `Events = TRUE` and `SPECIFICATION FairSpec` | a runBIT callback that tested the state before `stop_scenario` enters IBIT_RUNNING after it, when no timer is left to end it |
| `IbitServiceSpec` | `AppOneOperator` with `TestWrites = TRUE` and `SPECIFICATION FairSpec` | `test_write result_bit` stores its dummy number over that of the IBIT in progress (`demo_app_msg.cpp:650`) |
| `Ticking` | `AppOneOperator` with `"timer"` in `Fails` | RUN stays when `demo_timer_init` fails (`demo_app_core.c:389`) |
| `NoUseAfterClose`, `AtRest` | `AppSignals` with `"join"` in `Fails` | the one-second wait for the timer thread runs out (`demo_app_timer.c:249`), and the handle is closed under it, while a tick or a worker goes on |
| `WriteAlive`, `OneWorker` | `PubWindows` with `Platform = "vxworks"`, as further invariants | the VxWorks worker is not waited for: it writes on a handle that reset closed, and lives on beside the new one (`demo_app_publisher.c:87`) |
| `Drained` | `PubWindows` with `"join"` in `Fails` | a timer thread that outlives the wait enqueues after the shutdown (`demo_app_timer.c:249`) |
| `Drained` | `PubWindows` with `"worker"` in `Fails` | `g_worker_running` is raised before the worker exists (`demo_app_publisher.c:170`): a tick that tested it enqueues though the creation fails and lowers it, and the event waits in the queue for a worker of another scenario |
| `NoUseAfterClose`, `AtRest` | `AppSignals` with `Platform = "vxworks"` | as `WriteAlive`: `demo_publisher_shutdown` does not wait for the worker (`demo_app_publisher.c:87`) |
| `Served` | `PubWindows` with `"worker"` in `Fails`, as a further invariant | the result of `demo_publisher_init` is ignored (`demo_app_timer.c:220`) |
| `StoppedClean` | `ConServers` with `"bind"` in `Fails` | a failed bind clears the running flag, so the stop returns at once and the socket stays open (`demo_app_tcp_win.c:92`) |
| `StoppedClean` | `ConServers` with `"late"` in `Fails` | a client accepted during the stop is left open when the task is deleted, or the thread left (`demo_app_tcp_vx.c:242`, `demo_app_tcp_win.c:231`) |
| `LogToLogClient` | `ConServers`, as a further invariant | the socket number is copied under the lock and used without it (`demo_app_log.c:225`); the number may be a CLI client's by then, so the log goes to the CLI. The comment above the function, `demo_app_log.c:210`, asks for a valid number |
| `ContextReady` | `ConServers`, as a further invariant | on Windows the CLI starts before the context is allocated and initialized (`demo_app_main.c:168-187`) and is stopped after it was freed (`:219-227`) |
| `LockSound` | `ConServers` with `LateThreads = TRUE` | a thread that outlives main's wait enters, or leaves, a mutex that `demo_log_cleanup` deleted |
| `IteratorsValid` | `Events` with `"same"` in `NestedOnVxWorks` of `MCEventDispatch` | a callback that subscribes to the key being walked invalidates the iterators (`IpcJsonClient.cpp:282`); with any subscription in a callback the std build deadlocks |
| `QuietAfterStop` | `Dkm` with `Window = TRUE` | the server task was preempted between `delete h` and `g_agent = NULL`: the stop deletes the handle again |
| `QuietAfterStop` | `Dkm` with `"connect"` in `Slow` | a task deleted in `legacy_agent_init` leaves a handle and its receive task behind |
| `StopReturns` | `Dkm`, the property without `\/ late` | `accept` does not test `g_running` when it returns (`demo_dkm.c:533`): a client that comes during the stop is greeted, and the task is deleted under the greeting (`:718`) with the socket open; or the stop's assignment (`:704`) clears the number the task has just stored |
| `Stopping("cli") /\ step = "close" => conn[fd["main"]] # "log"` | `ConServers`, as a further invariant | between closesocket and the assignment after it a variable may name the other server's new client, and the CLI's stop, which tests the variable there, closes that one (`demo_app_tcp_win.c:76-78`, `:220`). `OwnClient` is about the time before a stop |
| `outcome # <<"terminated">>`, which is `Survives` without its excuse | `Wire`, as a further invariant | a message that is no object, or a reply with a field of another type, throws outside the `try` (`IpcJsonClient.cpp:305`, `:339-349`) |

### Noticed while reading

*LegacyLib.* Subscriptions of `subscribe_typed` are stored and never called, though
`LIB_API_SPEC.md:425` says they are; event callbacks are given a NULL handle.
`setQosProfile` returns `LEGACY_OK` and neither sends nor calls back; `getQosList` casts its
callback to another type. The pair of the global log callback (`legacy_agent.cpp:13-21`) is read
and written without a lock. `writeJson` dumps its data outside the `try` (`IpcJsonClient.cpp:592`)
and throws for invalid UTF-8; `receiveLoop` converts fields outside it (`:265`, `:305`, `:339-349`),
so a reply whose field has another type ends the program's receive thread. `corr_id`, version and
type of a frame are ignored on reception, and a payload of length zero looks like a timeout; the
minimum in `copy_len` can have no effect; `htonll` is wrong on big-endian machines, where only
`ts_ns` passes through it. JSON strings lose their quotes in `data_json`. `DkmRtpIpc::init` closes
its socket when `connect` fails and keeps the number, which the destructor closes again
(`DkmRtpIpc.cpp:118`); in `main.c` one thread opens sockets, so nobody has taken the number, but on
DemoApp's Windows build a server thread may have.

*json.hpp.* NaN and infinities are written as `null`; a CBOR negative below `INT64_MIN` wraps to a
positive number, a CBOR length of 2^64 - 1 is taken for an indefinite one, and indefinite strings
may be nested; `operator==` compares unsigned with signed by conversion; a conversion from a float
out of the integers' range is undefined.

*DemoApp.* `azAngleVelocity` of a Signal is computed from `e1AngleVelocity`
(`demo_app_msg.cpp:527`). The velocity is stored before it is limited (`demo_app_timer.c:433-436`),
and the worker may publish it in between; the gyros never show it. The comment at
`demo_app_timer.c:448` says the reverse of the code below it. The velocity command is read twice in
a tick. A malformed control message is applied up to the field that is malformed; each message
counts twice in `control_rx_count` (`demo_app_msg.cpp:245`, `:298`). Beyond about 2^43 degrees a
double loses the increments of a tick. `fault_clear` does not know `motor`; a CBIT published during
a fault command shows half of it; `pbit_period_ms` is set and used by nothing; 600 Hz becomes 1000,
a negative rate 1 ms; `test_write`'s messages are left out of the counters; the first statistics
window of a scenario is one tick (`demo_app_timer.c:281`), and `signal_pub_count` is incremented by
two threads. `stop_scenario` during an IBIT leaves `ibit_running` set in PEND; `start_scenario` does
not ask for entities (`demo_app_core.c:361`). `pthread_join` is called at every stop, also without a
worker (`demo_app_publisher.c:185`); `taskDelete` of the VxWorks timer may interrupt a publish
(`demo_app_timer.c:236`). VxWorks never calls `demo_log_init` and logs without a mutex;
`g_log_enabled` is read without the lock.

*Examples.* A failed start of `demo_dkm.c` leaves the cache loaded, so the next one caches types
twice. `cache_info` prints while it holds the mutex of the cache; nothing takes the two in the
other order. `quit` in `main.c` closes the client's socket and main closes the number again; the
receive thread is joined before the next client is accepted, so it is still free.

## 6. The proofs

TLC checks the instances above; the theorems below hold for every value of the constants that
satisfies the module's assumption.

### `IpcClientProofs`

| theorem | assumes | states |
|---|---|---|
| `TypeCorrect` | - | `[]TypeOK` |
| `CalledBackAtMostOnce` | - | `[]AtMostOnce` |
| `SilentOnceClosed` | - | `SilentAfterClose` |
| `NoEntryIsLost` | `NoWrap`: fewer calls than ids | `[]EntryKept` |
| `ReplyFindsItsId` | `Numbered`: the Agent returns ids, the counter does not wrap | `[]OwnId` |
| `ReplyIsItsOwn` | `Numbered`, one caller | `[]OwnReply` |
| `ClientImplementsRequestReply` | `Numbered`, one caller | `RequestReplySpec` |

`TypeOK` is not inductive: that `RxCallback` counts for a call needs the entry taken out of the
table to be one. `InUse` adds that a thread inside a method works on a call that was issued, that
the buffer is filled before a send, and that table entries were issued. `AtMostOnce` says nothing of
a call registered again after its callback, so `OneOwner` says where a call can be: with one
thread, in one slot, or being delivered, and while it is in one of these it has not been called
back. The step that matters is `RxLookup`: the entry leaves the table in the step that takes it.
A wrap overwrites an entry, which loses a call and duplicates none, hence no assumption on
`IdSpace`. `NoEntryIsLost` has one for that reason: before the wrap every entry is in the slot its
own number gives (`Slotted`), so `Register` displaces none and only `RxLookup`, which goes on to the
callback, empties a slot. `CloseInv` orders the life of the handle against the receive thread. For the own reply,
the invariant follows a datagram: its payload is that of the call whose id it carries, which needs
one caller because of the shared buffer, and its id names one call only, which needs `Numbered`.
The refinement maps every step to a step of `RequestReply` or to a stutter.

### `PublisherProofs`

`TypeCorrect` holds on both platforms; it includes the bound of the queue. The others assume
`Punctual`: the Windows build, and a timer thread that ends within the second that
`demo_timer_cleanup` waits for it.

| theorem | assumes | states |
|---|---|---|
| `TypeCorrect` | - | `[]TypeOK` |
| `WorkerIsAlone` | `Punctual` | `[]OneWorker` |
| `WritesAreAlive` | `Punctual` | `[]WriteAlive` |
| `NothingIsLeft` | `Punctual` | `[]Rests`: between scenarios no timer thread and no worker is alive |
| `ShutdownDrains` | `Punctual`, `Creates`: the worker can be created | `[]Drained` |
| `EventsAreServed` | `Punctual`, `Creates` | `[]Served` |

`IndInv` has two chains of ownership: a live timer thread is the one the next cleanup joins
(`TimerOwned`), and a live worker is the one the next shutdown joins (`WorkerOwned`). With them, the
handle is closed only when no worker is left (`HandleOpen`). The second needs the first: only a
timer thread that is over cannot enqueue after the shutdown. That an event is queued only while
somebody will take it (`QueueServed`) is a third, and holds only if the worker can be created: see
`Drained` in section 5.

### `TickProofs`

What a tick does with time, and the control loop. First `PublishRate`, from `RateAssumption` alone: a
second, the periods and an IBIT of any length, any rates and faults, any number of commands; the
counters only have to be wider than a scenario and a second.

| theorem | states |
|---|---|
| `TypeCorrect` | `[]TypeOK` |
| `PeriodsDoNotDrift` | `[]NoDrift` |
| `RatesAreRenewed` | `[]Renewed` |
| `ReportsDoAgree` | `[]ReportsAgree` |

`NoDrift` counts and does not look at the times the code compares, so the invariant ties the two:
in a scenario that nobody disturbed, a topic was last published at the tick `sent * period`, less
than a period ago (`OnTime`); that no publish time lies ahead of the clock (`NotAhead`) makes the
unsigned difference a difference. `Renewed` needs to know where the window of an earlier scenario
can be (`WindowOpen`): it is either less than a second old, or ahead of a clock that has just been
reset, and then the wrapped difference closes it with the first tick. Three reports agree at the
prompt only if what is left of a command in progress will make them agree, so `WillAgree` says of
each component what a report will show when the command has ended. It is a theorem only:
no run lists `ReportsAgree`.

Then `TurretControl`, for any messages, limits and length of a tick.

| theorem | assumes | states |
|---|---|---|
| `KeepsPosition` | - | `[]PositionControl` |
| `TurretTypeCorrect` | - | `[]TurretTypeOK` |

`Course` says what the timer thread is about to use at each statement: from `limit` on, a velocity
that points to a commanded position and not beyond it (`Towards`), from `move` on one within the
limit. A message that arrives in between adds a position and takes none away. The lemmas are about
the arithmetic: an increment has the velocity's sign and is no larger (`IncrementBounded`), limiting
keeps the direction (`LimitedBounded`), and rounding to the gyros' quantum does not exceed a limit
that is a multiple of it (`GyroBounded`). `TurretAssumption` says that the limit is one, as 10.0 is
of 0.02: for a limit that is none the published gyro may be above it by half a quantum.

`TurretTypeCorrect` says that whatever text a message brings, the parser makes an enumerator of the
field's own of it (`ParsedIsEnumerator`: the first word found is a CHOOSE, so `ChosenLeast` is needed
again), and that every status the publisher looks up has a name in the schema (`OverTyped`).

### `DemoAppProofs`

Any handles, timer threads, requests, duration of an IBIT and width of the tick counter, on both
platforms. `OneOperator` says that commands come from one thread, `Joins` that the wait for the
timer thread waits for it (always on VxWorks, which deletes the task), and `Quiet` is both and no
runBIT events.

| theorem | assumes | states |
|---|---|---|
| `TypeCorrect` | - | `[]TypeOK` |
| `HandleIsAlive` | `OneOperator`, `Joins` | `[]HandleAlive` |
| `IdleIsClean` | `OneOperator`, `Joins` | `[]CleanIdle` |
| `TimerTicks` | `Quiet`, the timer thread can be created | `[]Ticking` |
| `ResultIsNotEarly` | `Quiet` | `NotEarly` |
| `ImplementsIbitService` | `Quiet`, no `test_write` | `IbitServiceSpec` |

Every assumption is one whose absence has a counterexample in section 5. `LinkInv` is the invariant
of the handle: what state a command is in the middle of (`Stages`), that a timer thread exists only
in a scenario and is the one that a stop joins (`OneTimer`), and that at most one handle is open and
`ctx->agent` names it except between its close and the assignment of NULL (`OneHandle`). A tick needs
`OneTimer` to know that nobody is closing the handle it publishes on, a callback needs `OneHandle`.
Without events nothing changes the state behind a command's back (`Alone`). `NotEarly` compares a
count of ticks with a difference of two counters that wrap; `Clocked` says that they agree as long
as the IBIT lasts, which `DemoAppAssumption` makes shorter than the counter's range. The refinement
maps the IBIT in progress to `asked` as long as its result is not published (`Busy`); `Numbered` is
what makes a result the requester's own: a reference number is new when it is asked for, is the one
in `ibitRef` while it is in progress, and a tick that would publish it a second time is over.

### `AppPublisherProofs`

Any handles, timer threads, workers, capacity, requests and failures. `Timely` is `OneOperator`, the
Windows build, and a timer thread that ends within the second of the wait.

| theorem | assumes | states |
|---|---|---|
| `IncludesDemoApp` | - | `AppSpec => Spec`: DemoApp's theorems are about the program with its publisher |
| `ImplementsPublisher` | `OneOperator` | `PublisherSpec`: Publisher's theorems are too |
| `AppTypeCorrect` | `OneOperator` | `[]AppTypeOK` |
| `HandlesAreUsedAlive` | `Timely` | `[]NoUseAfterClose` |
| `RestsAtPrompt` | `Timely` | `[]AtRest` |

`Publisher` states what it expects of its surroundings as actions: a start in INIT or PEND, a stop
at any time, a close after the worker is joined. `ImplementsPublisher` shows that DemoApp keeps to
that, on both platforms, whatever fails and whatever runBIT events and ticks make of
`current_state`. A command of DemoApp maps to one of Publisher or to a stutter (`CommandRefines`),
a tick to a step of its timer thread (`TickRefines`), a callback always to a stutter
(`CallbackRefines`). The invariant `PhaseInv` says at which places of a command the publisher's part
can be under way (`InBetween`), which `phase` each place has (`Phases`), and that a signal belongs
to a tick in RUN (`SignalInTick`). The part that takes thought is `Phases`: a command tests
`current_state`, which callbacks and ticks write without a lock, and the publisher relies on the
phase. They agree at the prompt whenever the state is IDLE, INIT or PEND, since callbacks and ticks
write RUN and IBIT_RUNNING only.

`NoUseAfterClose` then needs no invariant of its own: its part about commands, callbacks and ticks is
`HandleIsAlive` of `DemoAppProofs`, carried over by `IncludesDemoApp`; its part about workers is
`WritesAreAlive` of `PublisherProofs`, carried over by `ImplementsPublisher` (`SignalsHold`), under
the substitution of `Signals`. `AtRest` is `NothingIsLeft`, read through `Beat` and `Place`.

### `ConsoleProofs`

Any sockets, threads that log, messages and settings, in both builds. `Orderly` says that servers
can bind and that main's waits for the threads succeed.

| theorem | assumes | states |
|---|---|---|
| `ConsoleTypes` | - | `[]TypeOK` of `Console` |
| `ContextOutlives` | - | `[]ContextOutlivesCli` |
| `ClientsAreOwn` | the waits succeed | `[]OwnClient` |
| `StopsClean` | `Orderly` | `[]StoppedClean` |
| `LockIsSound` | no thread outlives main's wait | `[]LockSound` |
| `LoggerTypeCorrect` | the same | `[]LoggerTypeOK` |

`LifeInv` ties main's position to the threads: a thread runs only while its server does or is being
stopped (`Threads`), before its start and after its stop it is down (`DownThen`), and the context is
what main has made of it (`Context`). `ContextOutlives` needs no assumption on the waits since
VxWorks deletes a task that is late. Socket numbers are reused, so `ClientInv` follows a number from
`accept` to `close`: a connection belongs to the server that has it as its client (`Belongs`), and
whoever is about to close one has the number of the client there is (`ClosesOwn`); this is what
fails when a thread outlives the wait and closes a number that is somebody else's by then. Between
the close and the clearing of the variable the number may be the other server's client already:
`ClearsClosed` says that it is none of the server's own, so that the clearing loses no connection
and `Belongs` survives, and `Undisturbed` that, while no server is being stopped, nobody acts on the
variable at that place. For the
clean stop, a server socket is open only while the server runs or is being stopped (`Listens`),
which a failed bind breaks. `LockIsSound` follows the owner of the logger's mutex and shows that
`demo_log_cleanup` comes when no thread is left.

### `EventDispatchProofs`

Any threads, keys, subscriptions, adapters and datagrams, with the std and the VxWorks mutex.

| theorem | assumes | states |
|---|---|---|
| `IteratorsAreValid` | `NoneToSameKey`: no callback subscribes to its own key on VxWorks | `[]IteratorsValid` |
| `EventsInOrder` | `NoneToSameKey` | `[]InOrder` |
| `TypeCorrect` | `NoneToSameKey` | `[]TypeOK`: among others, that all that is queued, logged or given was sent |

`Locked` gives the lock to the thread whose section it is, twice at most and then to the receive
thread, which with `OtherKey` leaves the walked vector alone. On the std build nothing is assumed:
the second lock blocks. `InOrder` is about walks that are over; `Given` says in the middle of one
what each subscription was given, which depends on whether the iterator has passed it (`Waiting`).
That needs a subscription to be in one vector and at one place (`Distinct`), and lemmas on what a
longer log owes (`OwedGrows`) and on a vector that grew (`Pushed`). `TypeOK` needs the validity
of the iterators, since a walk beyond the vector would call something that is no subscription, and
`Numbered`, since the sets of its sequences grow with every datagram sent.

### `ExamplesProofs`

| theorem | assumes | states |
|---|---|---|
| `DkmTypeCorrect` | - | `[]TypeOK` of `DkmDemo` |
| `CacheIsSound` | - | `[]CacheSound` |
| `StopsQuietly` | `Unhurried`: `Window = FALSE`, `"connect"` not in `Slow` | `[]QuietAfterStop` |
| `ExampleTypeCorrect` | - | `[]ExampleTypeOK` |
| `SessionsAreApart` | - | `[]SessionsApart` |

`CacheInv` has the order of the tasks (`Phases`), the table and the mutexes. That no type is cached
twice needs to know what a load has still to read: nothing in the table is among it, and the table
is empty when a start begins after an orderly stop (`Table`). The first free slot is a CHOOSE, so
`Least` shows, from the well-foundedness of the naturals, that there is one. `Closed` counts the
deletions of every handle exactly: one as soon as it is not alive, none before; a handle is alive
from `legacy_agent_init` on, before `g_agent` names it, and dead from its delete on, when `g_agent`
still does. Both assumptions of `Unhurried` are rows of the table in section 5. `SessionInv` says of
every socket number that it is free, the client's or the handle's (`Owners`), and that the latter
two differ; so a number closed twice is free the second time.

### What the proofs changed in the models

`JoinTimer` may fail on Windows only, since the VxWorks build deletes the task and reports success.
`Nobody` of `Logger` and the `NONE` of `EventDispatch` and `DkmDemo` are assumed to be none of the
values they stand beside. `TurretAssumption` types the messages and asks for the multiple above.
TLC evaluates these assumptions in the runs.

The refinement of `Publisher` failed at first where `Publisher` was wrong. A worker was started in one
step: the program raises the flag, lets the timer thread enqueue, and then may fail. A tick
tested the flag of the timer and that of the publisher at once. A connect whose hello is refused or
not answered closes a handle, which `Publisher` had left out (`GiveUp`). With these
steps `Drained` needs the assumption `Creates`, which it did not ask for before.

### Only model-checked

Liveness, since fairness and ENABLED are outside the prover: `AnsweredInOrder`,
`CloseReturnsInOrder`, `IbitEnds`, `BackAtPrompt`, `StopReturns`, `KeepsServing`, `ShutdownEnds`,
`Handled`, `Settles`.
The JSON chain (`ParseAgrees`, `TextRoundTrip`, `CborRoundTrip`, `Delivered`, `Survives`) is
recursive, and what a recursive definition computes for every input is outside the prover: it is
compared with `JsonGrammar`, and each format with itself, on bounded inputs. Every other property
that a passing run checks is stated by a theorem.

## 7. Not modelled

* Output: the status display, the help, the texts of log messages and of prints, the mapping of
  levels in `on_legacy_log`, the perf counters. They format values and change none that the
  properties see.
* The parsing of command lines and of the programs' arguments, the characters of a line of the
  DemoApp's TCP CLI. In `main.c` a `sscanf` word may be longer than its 64 characters; lines here
  are counted, not spelled.
* Of `json.hpp` what the programs do not call: UBJSON, BJData, MessagePack, BSON, JSON pointers,
  patches, parser callbacks, iterators, comparison of objects by order.
* Two operators at once. On VxWorks a shell command and a CLI command can run in parallel; no
  document says that they may. The constant `Commands` allows it, and the theorems without
  `OneOperator` hold for any number; the others are about one.
* Mutexes of LegacyLib held by a task that is deleted: each critical section of `IpcClient` is one
  action.
* `malloc` failures inside LegacyLib, and the loss of precision of doubles in the simulation.
* `demo_app_msg.c` and `vxworks/demo_app_cli.c`, which no build file lists.

## 8. Running

```
tlc -config ConServers.cfg MCConsole      # and the other configurations, with their MC module
tlapm IpcClientProofs.tla
tlapm PublisherProofs.tla
tlapm AppPublisherProofs.tla              # and the other five *Proofs modules
```

The longest runs are `AppSignals`, `Dkm` and `ConServers`, about two minutes each with two workers.
