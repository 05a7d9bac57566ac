-------------------------------- MODULE Console --------------------------------
(***************************************************************************)
(* The outside of DemoApp: the program's start and shutdown                *)
(* (demo_app_main.c, demo_app_dkm.c), the TCP servers for commands and for *)
(* the log (demo_app_tcp_win.c, demo_app_tcp_vx.c), and the logger         *)
(* (demo_app_log.c), which sends to the log server's client.  Each server  *)
(* has a thread of its own and serves one client at a time; the CLI's      *)
(* thread executes the commands, on the context that main allocates.       *)
(*                                                                         *)
(* Socket numbers are reused once they are closed.  The client socket of a *)
(* server is shared by its thread and main without a lock: whoever closes  *)
(* it has read it a step earlier, and clears the variable a step later,    *)
(* when the number may be the other server's client already.               *)
(***************************************************************************)
EXTENDS Integers, Sequences

CONSTANTS
  Sockets,     \* numbers of client sockets
  Loggers,     \* threads that call demo_log
  NONE,        \* no socket: -1, INVALID_SOCKET
  Platforms,   \* the builds: "vxworks", where only the CLI server is started, "windows"
  Fails        \* operations that may fail; "late": a thread outlives the wait for it

ASSUME ConsoleAssumption ==
  /\ NONE \notin Sockets
  /\ Platforms \subseteq {"vxworks", "windows"}
  /\ Fails \subseteq {"start", "alloc", "bind", "accept", "late"}

Servers == {"cli", "log"}

VARIABLES
  platform,
  main,        \* where in Order main is
  step,        \* where in demo_tcp_cli_stop or demo_tcp_log_stop it is
  ctx,         \* what g_demo_ctx points to: "none", "raw" memory, a "ready" context
  running,     \* running[s]: g_cli_running, g_log_running
  listening,   \* listening[s]: the server socket is open
  client,      \* client[s]: g_cli_client_sock, g_log_client_sock
  at,          \* at[s]: where the server's thread is
  fd,          \* fd[t]: the socket that a thread, or main, is about to close
  conn,        \* conn[k]: whose client socket k is, "closed" if nobody's
  gone,        \* sockets whose peer has closed the connection
  registered,  \* g_tcp_log_client
  log,         \* log[l]: where in demo_log thread l is
  copy         \* copy[l]: its copy of g_tcp_log_client

mainVars == <<platform, main, step, ctx>>
connVars == <<conn, gone>>
logVars  == <<log, copy>>
vars == <<mainVars, running, listening, client, at, fd, connVars, registered, logVars>>

\* A plausible bug: VxWorks frees the context before it stops the CLI, as Windows does.
FreesFirst ==
  IF platform = "windows"
  THEN <<"startLog", "startCli", "alloc", "init", "up", "free", "stopCli", "stopLog", "end">>
  ELSE <<"alloc", "init", "startCli", "up", "free", "stopCli", "end">>

\* What main does, in this order.
Order ==
  IF platform = "windows"
  THEN <<"startLog", "startCli", "alloc", "init", "up", "free", "stopCli", "stopLog", "end">>
  ELSE <<"alloc", "init", "startCli", "up", "stopCli", "free", "end">>

Doing == Order[main]
Goes(there) == main' \in DOMAIN Order /\ Order[main'] = there

Init ==
  /\ platform \in Platforms
  /\ main = 1 /\ step = "begin" /\ ctx = "none"
  /\ running = [s \in Servers |-> FALSE] /\ listening = [s \in Servers |-> FALSE]
  /\ client = [s \in Servers |-> NONE] /\ at = [s \in Servers |-> "off"]
  /\ fd = [t \in Servers \cup {"main"} |-> NONE]
  /\ conn = [k \in Sockets |-> "closed"] /\ gone = {}
  /\ registered = NONE
  /\ log = [l \in Loggers |-> "idle"] /\ copy = [l \in Loggers |-> NONE]

MayFail(op) == op \in Fails
Goto(s, from, to) == at[s] = from /\ at' = [at EXCEPT ![s] = to]

Stopping(s) == Doing = (IF s = "cli" THEN "stopCli" ELSE "stopLog")

\* close(k), for a k that may have been closed, or closed and reused, before.
CloseSocket(k) ==
  /\ conn' = [c \in Sockets |-> IF c = k THEN "closed" ELSE conn[c]]
  /\ gone' = gone \ {k}

\* Thread t closes the client socket of server s: the number it has tested, or the one
\* that a second read of the variable finds, which may be none.
CloseClient(t, s) ==
  /\ \E k \in {fd[t], client[s]} : CloseSocket(k)
  /\ fd' = [fd EXCEPT ![t] = NONE]
  /\ UNCHANGED client

\* The next statement: the variable still has the number, or another by now.
ClearClient(s) ==
  /\ client' = [client EXCEPT ![s] = NONE]
  /\ UNCHANGED <<fd, connVars>>

-----------------------------------------------------------------------------
(* Plausible bugs of the operations below.                                  *)

LeaveRegistered(s) ==
  /\ Goto(s, "leave", "check")
  /\ UNCHANGED <<mainVars, running, listening, client, fd, connVars, registered, logVars>>

JoinNobody(s) ==
  /\ Stopping(s) /\ step = "join" /\ step' = "begin" /\ main' = main + 1
  /\ UNCHANGED <<platform, ctx, at, running, listening, client, fd, connVars, registered, logVars>>

EndIgnoresZero(s) ==
  /\ Goto(s, "serve", "leave")
  /\ ~running[s] \/ client[s] = NONE
  /\ UNCHANGED <<mainVars, running, listening, client, fd, connVars, registered, logVars>>

StaysListening(s) ==
  /\ Stopping(s) /\ step = "server" /\ step' = "join"
  /\ UNCHANGED <<platform, main, ctx, running, listening, client, at, fd, connVars,
                 registered, logVars>>

-----------------------------------------------------------------------------
(* main: start and shutdown.                                                *)

\* demo_tcp_cli_start, demo_tcp_log_start.
Started(s) ==
  /\ ~running[s]
  /\ listening' = [listening EXCEPT ![s] = TRUE]
  /\ running' = [running EXCEPT ![s] = TRUE]
  /\ Goto(s, "off", "bind")
  /\ main' = main + 1

\* A failure ends the program: on Windows the CLI's stops the log server first, on
\* VxWorks it frees the context.
StartFails(s) ==
  /\ running[s] \/ MayFail("start")
  /\ Goes(IF s = "log" THEN "end" ELSE IF platform = "windows" THEN "stopLog" ELSE "free")
  /\ UNCHANGED <<listening, running, at>>

StartServer(s) ==
  /\ Doing = (IF s = "cli" THEN "startCli" ELSE "startLog")
  /\ Started(s) \/ StartFails(s)
  /\ UNCHANGED <<platform, step, ctx, client, fd, connVars, registered, logVars>>

Alloc ==
  /\ Doing = "alloc"
  /\ \/ ctx' = "raw" /\ main' = main + 1
     \/ /\ MayFail("alloc") /\ UNCHANGED ctx
        /\ Goes(IF platform = "windows" THEN "stopCli" ELSE "end")
  /\ UNCHANGED <<platform, step, running, listening, client, at, fd, connVars, registered, logVars>>

\* demo_app_context_init
InitContext ==
  /\ Doing = "init"
  /\ ctx' = "ready" /\ main' = main + 1
  /\ UNCHANGED <<platform, step, running, listening, client, at, fd, connVars, registered, logVars>>

\* Ctrl-C, or demoAppStop.
Quit ==
  /\ Doing = "up"
  /\ main' = main + 1
  /\ UNCHANGED <<platform, step, ctx, running, listening, client, at, fd, connVars, registered, logVars>>

Free ==
  /\ Doing = "free"
  /\ ctx' = "none" /\ main' = main + 1
  /\ UNCHANGED <<platform, step, running, listening, client, at, fd, connVars, registered, logVars>>

\* demoAppStart, once more: the module's variables keep their values.
Restart ==
  /\ Doing = "end" /\ platform = "vxworks"
  /\ main' = 1
  /\ UNCHANGED <<platform, step, ctx, running, listening, client, at, fd, connVars, registered, logVars>>

\* demo_tcp_cli_stop, demo_tcp_log_stop: nothing happens when the server is not
\* running; else the flag is cleared and, for the log, the client is unregistered.
StopBegin(s) ==
  /\ Stopping(s) /\ step = "begin"
  /\ IF running[s] THEN step' = "client" /\ UNCHANGED main
                   ELSE main' = main + 1 /\ UNCHANGED step
  /\ running' = [running EXCEPT ![s] = FALSE]
  /\ registered' = IF s = "log" /\ running[s] THEN NONE ELSE registered
  /\ UNCHANGED <<platform, ctx, listening, client, at, fd, connVars, logVars>>

StopReads(s) ==
  /\ Stopping(s) /\ step = "client"
  /\ step' = IF client[s] = NONE THEN "server" ELSE "close"
  /\ fd' = [fd EXCEPT !["main"] = client[s]]
  /\ UNCHANGED <<platform, main, ctx, running, listening, client, at, connVars, registered, logVars>>

StopCloses(s) ==
  /\ Stopping(s) /\ step = "close" /\ step' = "clear"
  /\ CloseClient("main", s)
  /\ UNCHANGED <<platform, main, ctx, running, listening, at, registered, logVars>>

StopClears(s) ==
  /\ Stopping(s) /\ step = "clear" /\ step' = "server"
  /\ ClearClient(s)
  /\ UNCHANGED <<platform, main, ctx, running, listening, at, registered, logVars>>

StopListening(s) ==
  /\ Stopping(s) /\ step = "server" /\ step' = "join"
  /\ listening' = [listening EXCEPT ![s] = FALSE]
  /\ UNCHANGED <<platform, main, ctx, running, client, at, fd, connVars, registered, logVars>>

\* Windows waits a second for the thread; VxWorks waits 100 ms and deletes it.
StopJoins(s) ==
  /\ Stopping(s) /\ step = "join" /\ step' = "begin" /\ main' = main + 1
  /\ at[s] = "off" \/ MayFail("late")
  /\ IF platform = "vxworks"
     THEN at' = [at EXCEPT ![s] = "off"] /\ fd' = [fd EXCEPT ![s] = NONE]
     ELSE UNCHANGED <<at, fd>>
  /\ UNCHANGED <<platform, ctx, running, listening, client, connVars, registered, logVars>>

-----------------------------------------------------------------------------
(* The thread of a server.                                                  *)

\* bind and listen; when one fails the thread ends, with the socket open.
BindFails(s) ==
  /\ MayFail("bind") /\ Goto(s, "bind", "off")
  /\ running' = [running EXCEPT ![s] = FALSE]

Bind(s) ==
  /\ \/ Goto(s, "bind", "head") /\ UNCHANGED running
     \/ BindFails(s)
  /\ UNCHANGED <<mainVars, listening, client, fd, connVars, registered, logVars>>

LoopHead(s) ==
  /\ Goto(s, "head", IF running[s] THEN "accept" ELSE "off")
  /\ UNCHANGED <<mainVars, running, listening, client, fd, connVars, registered, logVars>>

Accept(s) ==
  /\ listening[s]
  /\ Goto(s, "accept", "connected")
  /\ \E k \in Sockets : conn[k] = "closed" /\ conn' = [conn EXCEPT ![k] = s]
                        /\ client' = [client EXCEPT ![s] = k]
  /\ UNCHANGED <<mainVars, running, listening, fd, gone, registered, logVars>>

\* accept returns no socket, and the thread ends with g_*_running as it is.
AcceptEnds(s) ==
  /\ Goto(s, "accept", "off")
  /\ client' = [client EXCEPT ![s] = NONE]
  /\ UNCHANGED <<mainVars, running, listening, fd, connVars, registered, logVars>>

AcceptClosed(s) == ~listening[s] /\ AcceptEnds(s)
AcceptFails(s)  == listening[s] /\ MayFail("accept") /\ AcceptEnds(s)

\* The CLI greets its client; the log server registers it with the logger.
Connected(s) ==
  /\ Goto(s, "connected", "serve")
  /\ registered' = IF s = "log" THEN client["log"] ELSE registered
  /\ UNCHANGED <<mainVars, running, listening, client, fd, connVars, logVars>>

Broken(k) == k \in Sockets => conn[k] = "closed" \/ k \in gone

\* recv returns a line of the CLI's client, whose command does nothing without a
\* context.  A peer leaves once all that it sent is read.
ReadLine ==
  /\ Goto("cli", "serve", "command")
  /\ running["cli"] /\ ~Broken(client["cli"]) /\ ctx # "none"
  /\ UNCHANGED <<mainVars, running, listening, client, fd, connVars, registered, logVars>>

CommandDone ==
  /\ Goto("cli", "command", "serve")
  /\ UNCHANGED <<mainVars, running, listening, client, fd, connVars, registered, logVars>>

\* The line is "quit": demo_tcp_cli_disconnect_client, from the CLI's own thread.
ReadQuit ==
  /\ Goto("cli", "serve", "quit")
  /\ running["cli"] /\ ~Broken(client["cli"])
  /\ fd' = [fd EXCEPT !["cli"] = client["cli"]]
  /\ UNCHANGED <<mainVars, running, listening, client, connVars, registered, logVars>>

Disconnect ==
  /\ \/ Goto("cli", "quit", "drop") /\ CloseClient("cli", "cli")
     \/ Goto("cli", "drop", "serve") /\ ClearClient("cli")
  /\ UNCHANGED <<mainVars, running, listening, registered, logVars>>

\* The inner loop ends: the server stops, or recv returns 0 or an error.
ServeEnds(s) ==
  /\ Goto(s, "serve", "leave")
  /\ ~running[s] \/ Broken(client[s])
  /\ UNCHANGED <<mainVars, running, listening, client, fd, connVars, registered, logVars>>

Leave(s) ==
  /\ Goto(s, "leave", "check")
  /\ registered' = IF s = "log" THEN NONE ELSE registered
  /\ UNCHANGED <<mainVars, running, listening, client, fd, connVars, logVars>>

Check(s) ==
  /\ Goto(s, "check", IF client[s] = NONE THEN "head" ELSE "close")
  /\ fd' = [fd EXCEPT ![s] = client[s]]
  /\ UNCHANGED <<mainVars, running, listening, client, connVars, registered, logVars>>

Close(s) ==
  /\ \/ Goto(s, "close", "clear") /\ CloseClient(s, s)
     \/ Goto(s, "clear", "head") /\ ClearClient(s)
  /\ UNCHANGED <<mainVars, running, listening, registered, logVars>>

\* The peer of a connection leaves.
PeerLeaves(k) ==
  /\ conn[k] # "closed" /\ k \notin gone
  /\ gone' = gone \cup {k}
  /\ UNCHANGED <<mainVars, running, listening, client, at, fd, conn, registered, logVars>>

-----------------------------------------------------------------------------
(* demo_log: the client is read under the lock, the lines are sent without. *)
(* A message that is filtered, or not sent to TCP, is no step.              *)

Log(l) ==
  /\ log[l] = "idle" /\ registered # NONE
  /\ log' = [log EXCEPT ![l] = "send"] /\ copy' = [copy EXCEPT ![l] = registered]
  /\ UNCHANGED <<mainVars, running, listening, client, at, fd, connVars, registered>>

Send(l) ==
  /\ log[l] = "send"
  /\ \/ conn[copy[l]] # "closed" /\ log' = [log EXCEPT ![l] = "idle"]
     \/ Broken(copy[l]) /\ log' = [log EXCEPT ![l] = "failed"]
  /\ UNCHANGED <<mainVars, running, listening, client, at, fd, connVars, registered, copy>>

\* After a failure nobody is registered any more, whoever is by now.
SendFailed(l) ==
  /\ log[l] = "failed" /\ log' = [log EXCEPT ![l] = "idle"]
  /\ registered' = NONE
  /\ UNCHANGED <<mainVars, running, listening, client, at, fd, connVars, copy>>

-----------------------------------------------------------------------------
Stop(s) ==
  \/ StopBegin(s) \/ StopReads(s) \/ StopCloses(s) \/ StopClears(s)
  \/ StopListening(s) \/ StopJoins(s)

Thread(s) ==
  \/ Bind(s) \/ LoopHead(s) \/ AcceptClosed(s) \/ Connected(s) \/ ServeEnds(s)
  \/ Leave(s) \/ Check(s) \/ Close(s)

CliClient == ReadLine \/ CommandDone \/ ReadQuit \/ Disconnect

Next ==
  \/ Alloc \/ InitContext \/ Quit \/ Free \/ Restart \/ CliClient
  \/ \E s \in Servers : StartServer(s) \/ Stop(s) \/ Thread(s) \/ Accept(s) \/ AcceptFails(s)
  \/ \E k \in Sockets : PeerLeaves(k)
  \/ \E l \in Loggers : Log(l) \/ Send(l) \/ SendFailed(l)

Spec == Init /\ [][Next]_vars

\* Threads are scheduled and a command ends.  Nobody has to connect, to type
\* anything, to leave, or to end the program, and no call has to fail.
Fairness ==
  /\ WF_vars(CommandDone) /\ WF_vars(Disconnect)
  /\ \A s \in Servers : WF_vars(Stop(s)) /\ WF_vars(Thread(s))

FairSpec == Spec /\ Fairness

-----------------------------------------------------------------------------
(* Properties.                                                             *)

TypeOK ==
  /\ platform \in Platforms /\ main \in DOMAIN Order
  /\ step \in {"begin", "client", "close", "clear", "server", "join"}
  /\ ctx \in {"none", "raw", "ready"} /\ running \in [Servers -> BOOLEAN] /\ listening \in [Servers -> BOOLEAN]
  /\ client \in [Servers -> Sockets \cup {NONE}]
  /\ at \in [Servers -> {"off", "bind", "head", "accept", "connected", "serve", "command", "quit",
                         "drop", "leave", "check", "close", "clear"}]
  /\ fd \in [Servers \cup {"main"} -> Sockets \cup {NONE}]
  /\ conn \in [Sockets -> Servers \cup {"closed"}] /\ gone \subseteq Sockets
  /\ registered \in Sockets \cup {NONE}
  /\ log \in [Loggers -> {"idle", "send", "failed"}] /\ copy \in [Loggers -> Sockets \cup {NONE}]

\* While no server is being stopped, a server reads from, writes to and closes nothing
\* but its own connection, and the number registered with the logger is the log
\* server's own, open one.  Only between closesocket and the assignment after it may a
\* server's variable name what the other server has accepted since, and nobody acts on
\* the variable then.
OwnClient ==
  Doing \notin {"stopCli", "stopLog"} =>
    /\ \A s \in Servers : client[s] # NONE /\ at[s] \notin {"drop", "clear"} => conn[client[s]] = s
    /\ \A s \in Servers : fd[s] # NONE => conn[fd[s]] = s
    /\ registered # NONE => registered = client["log"] /\ conn[registered] = "log"

\* When the program ends every connection is closed, no server listens, no thread of
\* theirs is alive and nobody is registered.
StoppedClean ==
  Doing = "end" =>
    /\ \A k \in Sockets : conn[k] = "closed"
    /\ \A s \in Servers : ~listening[s] /\ at[s] = "off"
    /\ registered = NONE /\ ctx = "none"

\* A command uses the context only while it is allocated and initialized.
ContextReady == at["cli"] = "command" => ctx = "ready"

\* demoAppStart and demoAppStop keep to that; main starts the CLI before the context
\* exists and frees it before the CLI is stopped.
ContextOutlivesCli == platform = "vxworks" => ContextReady

\* A message of the logger reaches nobody but a client of the log server.
LogToLogClient == \A l \in Loggers : log[l] = "send" => conn[copy[l]] \in {"log", "closed"}

\* A connection whose peer left, or that quit closed, does not keep the server from
\* its next client.
KeepsServing ==
  \A s \in Servers : at[s] = "serve" /\ Broken(client[s]) ~> at[s] \in {"accept", "off"}

\* A shutdown ends: closing the sockets gets the thread out of accept and recv, and no
\* thread waits for main.
ShutdownEnds == Doing = "stopCli" ~> Doing \in {"free", "end"}
=============================================================================
