------------------------------- MODULE DkmDemo -------------------------------
(***************************************************************************)
(* examples/demo_dkm.c: the DKM demonstration program.  A shell starts and *)
(* stops it, a server task runs the commands of one TCP client at a time,  *)
(* and the library's receive task prints replies and events through the    *)
(* same cli_print.  The JSON files of a directory are cached in a table.   *)
(***************************************************************************)
EXTENDS Naturals, FiniteSets

CONSTANTS
  Files,       \* JSON files of the directory, one type each
  CacheSize,   \* MAX_JSON_CACHE_ENTRIES
  MaxStarts,   \* bound: successful or failed legacyAgentTcpStart calls
  MaxHandles,  \* bound: handles the connect command opens
  MaxLines,    \* bound: commands the clients send
  Fails,       \* calls that may fail: "mutex", "socket", "spawn", "bind", "init"
  Slow,        \* what may outlast the 100 ms Stop waits: "close", "load", "print", "connect"
  Window,      \* Stop may preempt the server between delete h and g_agent = NULL
  NONE

ASSUME DkmAssumption ==
  /\ IsFiniteSet(Files) /\ NONE \notin Files \cup Nat
  /\ CacheSize \in Nat \ {0}
  /\ MaxStarts \in Nat /\ MaxHandles \in Nat /\ MaxLines \in Nat
  /\ Fails \subseteq {"mutex", "socket", "spawn", "bind", "init"}
  /\ Slow \subseteq {"close", "load", "print", "connect"}
  /\ Window \in BOOLEAN

Slots   == 1 .. CacheSize
Handles == 1 .. MaxHandles
Server  == 0

VARIABLES
  shell,      \* where the shell is: "idle", or a step of Start or of Stop
  srv,        \* where tcpServerTask is, "none" without a task
  then,       \* where its cli_print returns to
  running,    \* g_running
  serverSock, \* g_server_sock is open
  clientSock, \* g_client_sock: "none" for -1, or the number of an "open" or a "closed" socket
  late,       \* history: a client was accepted after the stop had cleared g_running
  cliSem,     \* g_cli_mutex exists
  cacheSem,   \* g_cache_mutex exists
  cacheHeld,  \* the server task holds g_cache_mutex, over several steps
  cliOwner,   \* who holds g_cli_mutex: Server, or the receive task of a handle
  agent,      \* g_agent, 0 for NULL
  opened,     \* handles legacy_agent_init has made
  frees,      \* how often each was deleted
  rx,         \* the receive task of each handle
  stopping,   \* handles whose running_ is false
  cache,      \* g_json_cache: slot -> type, NONE when not in use
  count,      \* g_json_cache_count
  todo,       \* files the load in progress has still to read
  found,      \* the slot whose json_data a write holds
  starts,     \* Start calls so far
  lines,      \* commands so far
  dirty       \* a Start failed after it had loaded the cache, or bind failed

shellVars == <<shell, starts, dirty>>
srvVars   == <<srv, then, lines, found>>
sockVars  == <<running, serverSock, clientSock, late>>
semVars   == <<cliSem, cacheSem, cacheHeld>>
agentVars == <<agent, opened, frees, rx, stopping>>
cacheVars == <<cache, count, todo>>
vars == <<shellVars, srvVars, sockVars, semVars, cliOwner, agentVars, cacheVars>>

Init ==
  /\ shell = "idle" /\ srv = "none" /\ then = NONE
  /\ running = FALSE /\ serverSock = FALSE /\ clientSock = "none" /\ late = FALSE
  /\ cliSem = FALSE /\ cacheSem = FALSE /\ cacheHeld = FALSE /\ cliOwner = NONE
  /\ agent = 0 /\ opened = 0
  /\ frees = [h \in Handles |-> 0]
  /\ rx = [h \in Handles |-> "none"]
  /\ stopping = {}
  /\ cache = [s \in Slots |-> NONE] /\ count = 0 /\ todo = {}
  /\ found = NONE
  /\ starts = 0 /\ lines = 0 /\ dirty = FALSE

-----------------------------------------------------------------------------
(* Plausible bugs, for the mutants PROJECT.json lists.                     *)

\* Clearing the table without resetting the counter.
ClearEntriesOnly ==
  /\ cache' = [s \in Slots |-> NONE]
  /\ UNCHANGED count

\* The handle not forgotten once it is deleted.
ForgetNothing == UNCHANGED agent

\* The accept that Stop was to unblock is left waiting.
LeaveListening == UNCHANGED serverSock

-----------------------------------------------------------------------------
(* The JSON cache.  A section under g_cache_mutex is one step, except that   *)
(* of cache_info, which prints while it holds the mutex.                   *)

InUse == {s \in Slots : cache[s] # NONE}

\* clear_json_cache.
Clear ==
  /\ cache' = [s \in Slots |-> NONE]
  /\ count' = 0

Free == {s \in Slots : cache[s] = NONE}

\* load_json_file: refused when the counter says full, else the first free slot.
LoadFile(f) ==
  /\ todo' = todo \ {f}
  /\ IF count >= CacheSize \/ Free = {}
       THEN UNCHANGED <<cache, count>>
       ELSE LET s == CHOOSE i \in Free : \A j \in Free : i <= j
            IN  /\ cache' = [cache EXCEPT ![s] = f]
                /\ count' = count + 1

\* load_json_directory reads the files in the order readdir gives them.
Load == \E f \in todo : LoadFile(f)

-----------------------------------------------------------------------------
(* legacyAgentTcpStart.                                                    *)

\* Already running: ERROR, and nothing else.  Otherwise the two mutexes; when
\* the second cannot be made the first is deleted again.
Start ==
  /\ shell = "idle" /\ starts < MaxStarts
  /\ starts' = starts + 1
  /\ IF running THEN UNCHANGED <<shell, cliSem, cacheSem, todo>>
     ELSE \/ /\ shell' = "load" /\ cliSem' = TRUE /\ cacheSem' = TRUE
             /\ todo' = Files
          \/ /\ "mutex" \in Fails /\ ~cliSem
             /\ UNCHANGED <<shell, cliSem, cacheSem, todo>>
          \/ /\ "mutex" \in Fails /\ ~cacheSem
             /\ cliSem' = FALSE
             /\ UNCHANGED <<shell, cacheSem, todo>>
  /\ UNCHANGED <<cacheHeld, dirty, srvVars, sockVars, cliOwner, agentVars, cache, count>>

StartLoad ==
  /\ shell = "load"
  /\ Load
  /\ UNCHANGED <<shellVars, srvVars, sockVars, semVars, cliOwner, agentVars>>

\* The listening socket, g_running and the task; a failure leaves the cache.
StartServer ==
  /\ shell = "load" /\ todo = {}
  /\ shell' = "idle"
  /\ \/ /\ serverSock' = TRUE /\ running' = TRUE /\ srv' = "bind"
        /\ UNCHANGED dirty
     \/ /\ Fails \cap {"socket", "spawn"} # {}
        /\ dirty' = TRUE
        /\ UNCHANGED <<serverSock, running, srv>>
  /\ UNCHANGED <<starts, then, lines, found, clientSock, late, semVars, cliOwner,
                 agentVars, cacheVars>>

-----------------------------------------------------------------------------
(* cli_print: of the server task and of the receive task.  It takes        *)
(* g_cli_mutex if there is one and sends line by line, a tick between two. *)

\* The server task goes on to print and comes back to t.
SrvPrint(t) == srv' = "want" /\ then' = t

SrvPrintTake ==
  /\ srv = "want"
  /\ cliSem => cliOwner = NONE
  /\ srv' = "hold"
  /\ cliOwner' = IF cliSem THEN Server ELSE cliOwner
  /\ UNCHANGED <<shellVars, then, lines, found, sockVars, semVars, agentVars, cacheVars>>

SrvPrintGive ==
  /\ srv = "hold"
  /\ srv' = then /\ then' = NONE
  /\ cliOwner' = IF cliOwner = Server THEN NONE ELSE cliOwner
  /\ UNCHANGED <<shellVars, lines, found, sockVars, semVars, agentVars, cacheVars>>

\* A reply, an event or a log line of the library.
RxCallback(h) ==
  /\ rx[h] = "loop"
  /\ rx' = [rx EXCEPT ![h] = "want"]
  /\ UNCHANGED <<shellVars, srvVars, sockVars, semVars, cliOwner, agent, opened,
                 frees, stopping, cacheVars>>

RxPrintTake(h) ==
  /\ rx[h] = "want"
  /\ cliSem => cliOwner = NONE
  /\ rx' = [rx EXCEPT ![h] = "hold"]
  /\ cliOwner' = IF cliSem THEN h ELSE cliOwner
  /\ UNCHANGED <<shellVars, srvVars, sockVars, semVars, agent, opened, frees,
                 stopping, cacheVars>>

RxPrintGive(h) ==
  /\ rx[h] = "hold"
  /\ rx' = [rx EXCEPT ![h] = "loop"]
  /\ cliOwner' = IF cliOwner = h THEN NONE ELSE cliOwner
  /\ UNCHANGED <<shellVars, srvVars, sockVars, semVars, agent, opened, frees,
                 stopping, cacheVars>>

\* while (running_): the receive task ends once the handle is being closed.
RxExit(h) ==
  /\ rx[h] = "loop" /\ h \in stopping
  /\ rx' = [rx EXCEPT ![h] = "none"]
  /\ UNCHANGED <<shellVars, srvVars, sockVars, semVars, cliOwner, agent, opened,
                 frees, stopping, cacheVars>>

-----------------------------------------------------------------------------
(* tcpServerTask.                                                          *)

\* bind or listen fails: g_running is cleared, the socket stays open.
SrvBind ==
  /\ srv = "bind"
  /\ \/ srv' = "head" /\ UNCHANGED <<running, dirty>>
     \/ /\ "bind" \in Fails
        /\ srv' = "none" /\ running' = FALSE /\ dirty' = TRUE
  /\ UNCHANGED <<shell, starts, then, lines, found, serverSock, clientSock, late,
                 semVars, cliOwner, agentVars, cacheVars>>

\* while (g_running), before accept and not after it.
SrvHead ==
  /\ srv = "head"
  /\ srv' = IF running THEN "accept" ELSE "none"
  /\ UNCHANGED <<shellVars, then, lines, found, sockVars, semVars, cliOwner,
                 agentVars, cacheVars>>

\* A client is accepted as long as the socket listens, and greeted.
SrvAccept ==
  /\ srv = "accept" /\ serverSock
  /\ clientSock' = "open" /\ late' = (late \/ ~running)
  /\ SrvPrint("enter")
  /\ UNCHANGED <<shellVars, lines, found, running, serverSock, semVars, cliOwner,
                 agentVars, cacheVars>>

\* The socket was closed under accept, which returns -1.
SrvExit ==
  /\ srv = "accept" /\ ~serverSock
  /\ srv' = "none" /\ clientSock' = "none"
  /\ UNCHANGED <<shellVars, then, lines, found, running, serverSock, late, semVars,
                 cliOwner, agentVars, cacheVars>>

SrvEnter ==
  /\ srv = "enter" /\ running
  /\ srv' = "recv"
  /\ UNCHANGED <<shellVars, then, lines, found, sockVars, semVars, cliOwner,
                 agentVars, cacheVars>>

\* The stop came before the first recv; or recv returns nothing, the client hung up, or
\* a command closed the socket.
SrvHangUp ==
  /\ srv = "recv" \/ (srv = "enter" /\ ~running)
  /\ clientSock' = "none"
  /\ srv' = IF agent = 0 THEN "head" ELSE "close"
  /\ UNCHANGED <<shellVars, then, lines, found, running, serverSock, late, semVars,
                 cliOwner, agentVars, cacheVars>>

\* A complete line, for process_command; what one recv returned is read to its
\* end, whatever g_running has become.
Line ==
  /\ srv = "recv" /\ clientSock = "open"
  /\ lines < MaxLines
  /\ lines' = lines + 1

\* The prompt follows a command, unless the socket was closed meanwhile.
Prompt ==
  IF clientSock # "none" THEN SrvPrint("recv") ELSE srv' = "recv" /\ UNCHANGED then

\* help, an unknown command, a command that only reports an error,
\* and the requests whose answer is printed by a callback.
CmdPrint ==
  /\ Line
  /\ SrvPrint("recv")
  /\ UNCHANGED <<shellVars, found, sockVars, semVars, cliOwner, agentVars, cacheVars>>

CmdQuit ==
  /\ Line
  /\ clientSock' = "none"
  /\ srv' = "recv"
  /\ UNCHANGED <<shellVars, then, found, running, serverSock, late, semVars, cliOwner,
                 agentVars, cacheVars>>

\* connect: legacy_agent_init starts the receive task ...
CmdConnect ==
  /\ Line
  /\ agent = 0 /\ opened < MaxHandles
  /\ \/ /\ opened' = opened + 1
        /\ rx' = [rx EXCEPT ![opened + 1] = "loop"]
        /\ srv' = "connect"
        /\ UNCHANGED then
     \/ /\ "init" \in Fails
        /\ SrvPrint("recv")
        /\ UNCHANGED <<opened, rx>>
  /\ UNCHANGED <<shellVars, found, sockVars, semVars, cliOwner, agent, frees,
                 stopping, cacheVars>>

\* ... and stores the handle as it returns.
CmdConnected ==
  /\ srv = "connect"
  /\ agent' = opened
  /\ SrvPrint("recv")
  /\ UNCHANGED <<shellVars, lines, found, sockVars, semVars, cliOwner, opened,
                 frees, rx, stopping, cacheVars>>

\* get_cached_json: the first entry of type f.
Cached(f) ==
  LET hits == {s \in Slots : cache[s] = f}
  IN  IF hits = {} THEN NONE ELSE CHOOSE s \in hits : \A r \in hits : s <= r

\* write: get_cached_json returns the pointer of the entry ...
CmdWrite ==
  /\ Line
  /\ agent # 0
  /\ \E f \in Files :
       IF Cached(f) = NONE THEN SrvPrint("recv") /\ UNCHANGED found
       ELSE found' = Cached(f) /\ srv' = "write" /\ UNCHANGED then
  /\ UNCHANGED <<shellVars, sockVars, semVars, cliOwner, agentVars, cacheVars>>

\* ... which legacy_agent_write_json reads after the mutex was given.
CmdWritten ==
  /\ srv = "write"
  /\ found' = NONE
  /\ Prompt
  /\ UNCHANGED <<shellVars, lines, sockVars, semVars, cliOwner, agentVars,
                 cacheVars>>

\* cache_info: a heading, ...
CmdInfo ==
  /\ Line
  /\ SrvPrint("info")
  /\ UNCHANGED <<shellVars, found, sockVars, semVars, cliOwner, agentVars, cacheVars>>

\* ... the entries in use, printed while g_cache_mutex is held (one cli_print
\* stands for one per entry), ...
InfoEntries ==
  /\ srv = "info"
  /\ cacheHeld' = TRUE
  /\ IF InUse = {} THEN srv' = "give" /\ UNCHANGED then ELSE SrvPrint("give")
  /\ UNCHANGED <<shellVars, lines, found, sockVars, cliSem, cacheSem, cliOwner,
                 agentVars, cacheVars>>

\* ... and the line below them.
InfoGive ==
  /\ srv = "give"
  /\ cacheHeld' = FALSE
  /\ SrvPrint("recv")
  /\ UNCHANGED <<shellVars, lines, found, sockVars, cliSem, cacheSem, cliOwner,
                 agentVars, cacheVars>>

\* cache_reload: the table is cleared and read again.
CmdReload ==
  /\ Line
  /\ Clear
  /\ todo' = Files
  /\ srv' = "load"
  /\ UNCHANGED <<shellVars, then, found, sockVars, semVars, cliOwner, agentVars>>

CmdReloading ==
  /\ srv = "load"
  /\ IF todo = {} THEN Prompt /\ UNCHANGED cacheVars
                  ELSE Load /\ UNCHANGED <<srv, then>>
  /\ UNCHANGED <<shellVars, lines, found, sockVars, semVars, cliOwner, agentVars>>

\* After the client: legacy_agent_close(g_agent) tells the receive task ...
SrvClose ==
  /\ srv = "close"
  /\ stopping' = stopping \cup {agent}
  /\ srv' = "closing"
  /\ UNCHANGED <<shellVars, then, lines, found, sockVars, semVars, cliOwner, agent,
                 opened, frees, rx, cacheVars>>

\* ... waits 100 ms and a tick, deletes it if it is still there and holds no
\* delete-safe mutex, and deletes the handle.
Delete(h) ==
  /\ cliOwner # h
  /\ rx' = [rx EXCEPT ![h] = "none"]
  /\ frees' = [frees EXCEPT ![h] = @ + 1]

\* g_agent = NULL.
Forget == agent' = 0

SrvClosed ==
  /\ srv = "closing"
  /\ Delete(agent)
  /\ srv' = "forget"
  /\ UNCHANGED <<shellVars, then, lines, found, sockVars, semVars, cliOwner,
                 agent, opened, stopping, cacheVars>>

SrvForget ==
  /\ srv = "forget"
  /\ Forget
  /\ srv' = "head"
  /\ UNCHANGED <<shellVars, then, lines, found, sockVars, semVars, cliOwner,
                 opened, frees, rx, stopping, cacheVars>>

-----------------------------------------------------------------------------
(* legacyAgentTcpStop.                                                     *)

\* Not running: ERROR, and nothing else.
Stop ==
  /\ shell = "idle" /\ running
  /\ running' = FALSE /\ late' = FALSE
  /\ shell' = "stopClient"
  /\ UNCHANGED <<starts, dirty, srvVars, serverSock, clientSock, semVars, cliOwner,
                 agentVars, cacheVars>>

\* The client's socket is closed, if there is one by now ...
StopClient ==
  /\ shell = "stopClient"
  /\ IF clientSock = "none" THEN shell' = "stopServer" /\ UNCHANGED clientSock
                            ELSE shell' = "stopClear" /\ clientSock' = "closed"
  /\ UNCHANGED <<starts, dirty, srvVars, running, serverSock, late, semVars, cliOwner,
                 agentVars, cacheVars>>

\* ... and forgotten, whatever the variable has become.
StopClear ==
  /\ shell = "stopClear"
  /\ clientSock' = "none"
  /\ shell' = "stopServer"
  /\ UNCHANGED <<starts, dirty, srvVars, running, serverSock, late, semVars, cliOwner,
                 agentVars, cacheVars>>

CloseServer == serverSock' = FALSE

StopServer ==
  /\ shell = "stopServer"
  /\ CloseServer
  /\ shell' = "stopTask"
  /\ UNCHANGED <<starts, dirty, srvVars, running, clientSock, late, semVars, cliOwner,
                 agentVars, cacheVars>>

\* After 100 ms: where the server task may still be.  taskDelete waits while
\* the task holds a mutex, both being SEM_DELETE_SAFE, and deletes it as it gives it.
Deletable ==
  \/ "close" \in Slow /\ srv \in {"close", "closing"}
  \/ Window /\ srv = "forget"
  \/ "load" \in Slow /\ srv = "load"
  \/ "print" \in Slow /\ srv \in {"want", "enter", "recv", "info"} /\ ~cacheHeld
  \/ "connect" \in Slow /\ srv = "connect"

StopTask ==
  /\ shell = "stopTask"
  /\ srv = "none" \/ Deletable
  /\ srv' = "none" /\ then' = NONE /\ found' = NONE
  /\ todo' = {}
  /\ shell' = "stopAgent"
  /\ UNCHANGED <<starts, dirty, lines, sockVars, semVars, cliOwner, agentVars,
                 cache, count>>

\* legacy_agent_close, if the task has left a handle behind.
StopAgent ==
  /\ shell = "stopAgent"
  /\ shell' = IF agent = 0 THEN "stopCache" ELSE "stopClose"
  /\ stopping' = IF agent = 0 THEN stopping ELSE stopping \cup {agent}
  /\ UNCHANGED <<starts, dirty, srvVars, sockVars, semVars, cliOwner, agent,
                 opened, frees, rx, cacheVars>>

StopClosed ==
  /\ shell = "stopClose"
  /\ Delete(agent)
  /\ Forget
  /\ shell' = "stopCache"
  /\ UNCHANGED <<starts, dirty, srvVars, sockVars, semVars, cliOwner, opened,
                 stopping, cacheVars>>

\* clear_json_cache and the two semDelete calls.
StopCache ==
  /\ shell = "stopCache"
  /\ Clear
  /\ cliSem' = FALSE /\ cacheSem' = FALSE
  /\ shell' = "idle"
  /\ dirty' = FALSE
  /\ UNCHANGED <<starts, srvVars, sockVars, cacheHeld, cliOwner, agentVars, todo>>

-----------------------------------------------------------------------------
StopSteps ==
  \/ StopClient \/ StopClear \/ StopServer \/ StopTask
  \/ StopAgent \/ StopClosed \/ StopCache

Shell == Start \/ StartLoad \/ StartServer \/ Stop \/ StopSteps

Commands ==
  \/ CmdPrint \/ CmdQuit \/ CmdConnect \/ CmdWrite \/ CmdInfo \/ CmdReload

ServerSteps ==
  \/ SrvPrintTake \/ SrvPrintGive \/ SrvBind \/ SrvHead \/ SrvExit \/ SrvEnter
  \/ CmdConnected \/ CmdWritten \/ InfoEntries \/ InfoGive \/ CmdReloading
  \/ SrvClose \/ SrvClosed \/ SrvForget

RxSteps(h) == RxPrintTake(h) \/ RxPrintGive(h) \/ RxExit(h)

\* The program may stay stopped or wait for a client for ever.
Rest == shell = "idle" /\ srv \in {"none", "accept", "recv"} /\ UNCHANGED vars

Next ==
  \/ Shell \/ ServerSteps \/ SrvAccept \/ SrvHangUp \/ Commands
  \/ \E h \in Handles : RxCallback(h) \/ RxSteps(h)
  \/ Rest

Spec == Init /\ [][Next]_vars

\* The tasks run; a recv on a socket that was closed returns.
Fairness ==
  /\ WF_vars(StopSteps)
  /\ WF_vars(ServerSteps) /\ SF_vars(SrvPrintTake) /\ SF_vars(SrvClosed)
  /\ SF_vars(StopClosed)
  /\ WF_vars((srv = "enter" \/ clientSock # "open") /\ SrvHangUp)
  /\ \A h \in Handles : WF_vars(RxSteps(h)) /\ SF_vars(RxPrintTake(h))

FairSpec == Spec /\ Fairness

-----------------------------------------------------------------------------
(* Properties.                                                             *)

ServerAt ==
  {"none", "bind", "head", "accept", "enter", "recv", "want", "hold", "connect", "write", "info",
   "give", "load", "close", "closing", "forget"}

TypeOK ==
  /\ shell \in {"idle", "load", "stopClient", "stopClear", "stopServer", "stopTask", "stopAgent",
               "stopClose", "stopCache"}
  /\ srv \in ServerAt /\ then \in ServerAt \cup {NONE}
  /\ running \in BOOLEAN /\ serverSock \in BOOLEAN /\ late \in BOOLEAN
  /\ clientSock \in {"none", "open", "closed"}
  /\ cliSem \in BOOLEAN /\ cacheSem \in BOOLEAN /\ cacheHeld \in BOOLEAN /\ dirty \in BOOLEAN
  /\ cliOwner \in {NONE, Server} \cup Handles
  /\ agent \in 0 .. opened /\ opened \in 0 .. MaxHandles
  /\ frees \in [Handles -> Nat]
  /\ rx \in [Handles -> {"none", "loop", "want", "hold"}]
  /\ stopping \subseteq Handles
  /\ cache \in [Slots -> Files \cup {NONE}]
  /\ count \in 0 .. CacheSize
  /\ todo \subseteq Files
  /\ found \in Slots \cup {NONE}
  /\ starts \in 0 .. MaxStarts /\ lines \in 0 .. MaxLines

\* The cache's counter is the number of its entries, the pointer a write holds
\* is to a live entry, and no type is cached twice unless a start failed after
\* the directory was read (the next start then reads it again).
CacheSound ==
  /\ count = Cardinality(InUse)
  /\ found # NONE => cache[found] # NONE
  /\ dirty \/ \A s, r \in InUse : cache[s] = cache[r] => s = r

\* A handle is deleted at most once, whether the server task, the shell or
\* both close it, and g_agent never names a deleted one when it is used.
FreedOnce ==
  /\ \A h \in Handles : frees[h] <= 1
  /\ agent # 0 /\ srv # "forget" => frees[agent] = 0

\* No task holds or waits for a mutex once it is deleted, every handle that g_agent
\* has forgotten is gone with its receive task, and none is freed twice.
QuietAfterStop ==
  /\ FreedOnce
  /\ ~cacheSem => ~cacheHeld
  /\ ~cliSem => srv # "want" /\ srv # "hold" /\ \A h \in Handles : rx[h] = "none"
  /\ \A h \in 1 .. opened :
       h # agent /\ srv # "connect" => frees[h] = 1 /\ rx[h] = "none"

\* legacyAgentTcpStop returns, with no task, no listening socket, no cached text and no
\* client left behind, but for a client that was accepted after it had cleared g_running:
\* that one is greeted, and stays open if the task is deleted under the greeting.
StopReturns ==
  shell = "stopClient" ~>
    shell = "idle" /\ srv = "none" /\ ~serverSock /\ InUse = {} /\ (clientSock = "none" \/ late)
=============================================================================
