---------------------------- MODULE ConsoleProofs ----------------------------
(***************************************************************************)
(* Theorems about Console, for any number of sockets and of threads that   *)
(* log, in both builds, and about Logger, for any threads, messages and    *)
(* number of settings.                                                     *)
(***************************************************************************)
EXTENDS Console, Logger, TLAPS

-----------------------------------------------------------------------------
(* Console: main and the life of the servers' threads.                     *)

\* The waits for the threads do wait for them: on VxWorks the task is deleted.
Waits == platform = "vxworks" \/ "late" \notin Fails

\* Main is in the middle of a stop only of a server whose flag it has cleared.
MidStop ==
  step # "begin" => /\ Doing \in {"stopCli", "stopLog"}
                    /\ \A s \in Servers : Stopping(s) => ~running[s]

\* A thread runs only while its server does, or is being stopped.
Threads ==
  \A s \in Servers : at[s] # "off" => running[s] \/ (Stopping(s) /\ step # "begin")

\* Before main has started a server and after it has stopped it, it is down.
NotUp(s) ==
  \/ platform = "vxworks" /\ (s = "log" \/ Doing \in {"alloc", "init", "startCli", "free", "end"})
  \/ platform = "windows" /\ Doing \in {"startLog", "end"}
  \/ platform = "windows" /\ s = "cli" /\ Doing \in {"startCli", "stopLog"}

DownThen == \A s \in Servers : NotUp(s) => at[s] = "off" /\ ~running[s]

\* What main has made of the context.
Context ==
  ctx = IF Doing = "init" THEN "raw"
        ELSE IF \/ Doing \in {"up", "free"}
                \/ platform = "vxworks" /\ Doing \in {"startCli", "stopCli"} THEN "ready"
        ELSE "none"

LifeInv == TypeOK /\ MidStop /\ Context /\ (Waits => Threads /\ DownThen)

-----------------------------------------------------------------------------
(* Console: whose socket a client socket is.                               *)

\* A connection belongs to the server that has it as its client.
Belongs == \A k \in Sockets, s \in Servers : conn[k] = s => client[s] = k

\* A server has a client from accept on until its thread, or main, has closed it.
HasClient ==
  \A s \in Servers : client[s] # NONE => at[s] \notin {"off", "bind", "head", "accept"}

\* Whoever is about to close a client has the number of the client that there is.
ClosesOwn ==
  /\ \A s \in Servers : at[s] \in {"close", "quit"} => client[s] \in {fd[s], NONE}
  /\ \A s \in Servers : fd[s] # NONE => at[s] \in {"close", "quit"}
  /\ step = "close" =>
       \A s \in Servers : Stopping(s) => client[s] \in {fd["main"], NONE} /\ at[s] # "accept"

\* Whoever is about to clear the variable finds no connection of the server's in it: the
\* one it had is closed, and the number may be the other server's.
ClearsClosed ==
  /\ \A s \in Servers : at[s] \in {"clear", "drop"} => client[s] = NONE \/ conn[client[s]] # s
  /\ step = "clear" =>
       \A s \in Servers : Stopping(s) =>
         (client[s] = NONE \/ conn[client[s]] # s) /\ at[s] # "accept"

\* Only the client that the log's thread serves is registered with the logger.
Registers == registered # NONE => at["log"] \in {"serve", "leave"}

\* While no server is being stopped, a server's client is open until its thread closes
\* it, and still there when it does.
Undisturbed ==
  Doing \notin {"stopCli", "stopLog"} =>
    /\ \A s \in Servers : client[s] # NONE /\ at[s] \notin {"drop", "clear"} => conn[client[s]] = s
    /\ \A s \in Servers : at[s] \in {"close", "quit"} => client[s] = fd[s] /\ client[s] # NONE
    /\ registered # NONE => registered = client["log"]

ClientInv == Belongs /\ HasClient /\ ClosesOwn /\ ClearsClosed /\ Registers /\ Undisturbed

\* The server socket is open only while the server runs, or is being stopped.
Listens ==
  \A s \in Servers :
    listening[s] => running[s] \/ (Stopping(s) /\ step \notin {"begin", "join"})

\* What main goes on to.
LEMMA MainSteps ==
  ASSUME TypeOK, platform' = platform
  PROVE  /\ Order' = Order
         /\ Doing \in {"startLog", "stopLog"} => platform = "windows"
         /\ main' = main => Doing' = Doing
         /\ \A there : Goes(there) => Doing' = there /\ main' \in DOMAIN Order
         /\ main' = 1 => Doing' = (IF platform = "windows" THEN "startLog" ELSE "alloc") /\ main' \in DOMAIN Order
         /\ main' = main + 1 /\ Doing # "end" =>
              /\ main' \in DOMAIN Order
              /\ Doing = "startLog" => platform = "windows" /\ Doing' = "startCli"
              /\ Doing = "startCli" => Doing' = IF platform = "windows" THEN "alloc" ELSE "up"
              /\ Doing = "alloc" => Doing' = "init"
              /\ Doing = "init" => Doing' = IF platform = "windows" THEN "up" ELSE "startCli"
              /\ Doing = "up" => Doing' = IF platform = "windows" THEN "free" ELSE "stopCli"
              /\ Doing = "free" => Doing' = IF platform = "windows" THEN "stopCli" ELSE "end"
              /\ Doing = "stopCli" => Doing' = IF platform = "windows" THEN "stopLog" ELSE "free"
              /\ Doing = "stopLog" => platform = "windows" /\ Doing' = "end"
<1>1. main \in DOMAIN Order /\ platform \in {"windows", "vxworks"}
  BY ConsoleAssumption DEF TypeOK
<1>2. CASE platform = "windows"
  BY <1>1, <1>2 DEF Order, Doing, Goes
<1>3. CASE platform = "vxworks"
  BY <1>1, <1>3 DEF Order, Doing, Goes
<1> QED
  BY <1>1, <1>2, <1>3

\* Types hold initially.
LEMMA InitTypeOK == Init => TypeOK
  BY ConsoleAssumption DEF Init, TypeOK, Order, Servers

\* Every step keeps the types.
LEMMA TypeStep == TypeOK /\ [Next]_vars => TypeOK'
<1> SUFFICES ASSUME TypeOK, [Next]_vars PROVE TypeOK'
  OBVIOUS
<1> USE ConsoleAssumption DEF TypeOK, mainVars, connVars, logVars, Goto, Stopping
<1>1. CASE Alloc
  BY <1>1, MainSteps DEF Alloc
<1>2. CASE InitContext
  BY <1>2, MainSteps DEF InitContext
<1>3. CASE Quit
  BY <1>3, MainSteps DEF Quit
<1>4. CASE Free
  BY <1>4, MainSteps DEF Free
<1>5. CASE Restart
  BY <1>5, MainSteps DEF Restart
<1>6. CASE CliClient
  <2>1. CASE ReadLine
    BY <2>1, MainSteps DEF ReadLine
  <2>2. CASE CommandDone
    BY <2>2, MainSteps DEF CommandDone
  <2>3. CASE ReadQuit
    BY <2>3, MainSteps DEF ReadQuit
  <2>4. CASE Disconnect
    BY <2>4, MainSteps DEF Disconnect, CloseClient, CloseSocket, ClearClient
  <2> QED
    BY <1>6, <2>1, <2>2, <2>3, <2>4 DEF CliClient
<1>7. ASSUME NEW s \in Servers, Stop(s) PROVE TypeOK'
  <2>1. CASE StopBegin(s)
    BY <2>1, MainSteps DEF StopBegin
  <2>2. CASE StopReads(s)
    BY <2>2, MainSteps DEF StopReads
  <2>3. CASE StopCloses(s)
    BY <2>3, MainSteps DEF StopCloses, CloseClient, CloseSocket
  <2>4. CASE StopClears(s)
    BY <2>4, MainSteps DEF StopClears, ClearClient
  <2>5. CASE StopListening(s)
    BY <2>5, MainSteps DEF StopListening
  <2>6. CASE StopJoins(s)
    BY <2>6, MainSteps DEF StopJoins
  <2> QED
    BY <1>7, <2>1, <2>2, <2>3, <2>4, <2>5, <2>6 DEF Stop
<1>8. ASSUME NEW s \in Servers, Thread(s) PROVE TypeOK'
  <2>1. CASE Bind(s)
    BY <2>1, MainSteps DEF Bind, BindFails
  <2>2. CASE LoopHead(s)
    BY <2>2, MainSteps DEF LoopHead
  <2>3. CASE AcceptClosed(s)
    BY <2>3, MainSteps DEF AcceptClosed, AcceptEnds
  <2>4. CASE Connected(s)
    BY <2>4, MainSteps DEF Connected
  <2>5. CASE ServeEnds(s)
    BY <2>5, MainSteps DEF ServeEnds
  <2>6. CASE Leave(s)
    BY <2>6, MainSteps DEF Leave
  <2>7. CASE Check(s)
    BY <2>7, MainSteps DEF Check
  <2>8. CASE Close(s)
    BY <2>8, MainSteps DEF Close, CloseClient, CloseSocket, ClearClient
  <2> QED
    BY <1>8, <2>1, <2>2, <2>3, <2>4, <2>5, <2>6, <2>7, <2>8 DEF Thread
<1>9. ASSUME NEW s \in Servers, StartServer(s) PROVE TypeOK'
  BY <1>9, MainSteps DEF StartServer, Started, StartFails
<1>10. ASSUME NEW s \in Servers, Accept(s) PROVE TypeOK'
  BY <1>10, MainSteps DEF Accept
<1>11. ASSUME NEW s \in Servers, AcceptFails(s) PROVE TypeOK'
  BY <1>11, MainSteps DEF AcceptFails, AcceptEnds
<1>12. ASSUME NEW k \in Sockets, PeerLeaves(k) PROVE TypeOK'
  BY <1>12, MainSteps DEF PeerLeaves
<1>13. ASSUME NEW l \in Loggers, Log(l) PROVE TypeOK'
  BY <1>13, MainSteps DEF Log
<1>14. ASSUME NEW l \in Loggers, Send(l) PROVE TypeOK'
  BY <1>14, MainSteps DEF Send
<1>15. ASSUME NEW l \in Loggers, SendFailed(l) PROVE TypeOK'
  BY <1>15, MainSteps DEF SendFailed
<1>16. CASE UNCHANGED vars
  BY <1>16, MainSteps DEF vars
<1> QED
  BY <1>1, <1>2, <1>3, <1>4, <1>5, <1>6, <1>7, <1>8, <1>9, <1>10, <1>11, <1>12, <1>13, <1>14, <1>15, <1>16 DEF Next

\* The invariant of main and the threads holds initially.
LEMMA InitLifeInv == Init => LifeInv
  BY InitTypeOK, ConsoleAssumption
     DEF Init, LifeInv, MidStop, Threads, DownThen, NotUp, Context, Doing, Order, Servers

\* Every step keeps it.
LEMMA LifeStep == LifeInv /\ [Next]_vars => LifeInv'
<1> SUFFICES ASSUME LifeInv, [Next]_vars
             PROVE  MidStop' /\ Context' /\ (Waits' => Threads' /\ DownThen')
  BY TypeStep DEF LifeInv
<1>0. /\ TypeOK /\ platform \in {"windows", "vxworks"}
      /\ DOMAIN at = Servers /\ running \in [Servers -> BOOLEAN]
  BY ConsoleAssumption DEF LifeInv, TypeOK
<1> USE <1>0, MainSteps DEF LifeInv, MidStop, Context, Waits, Threads, DownThen, NotUp, Servers,
        mainVars, Goto, Stopping, MayFail
<1>1. CASE Alloc
  BY <1>1 DEF Alloc
<1>2. CASE InitContext
  BY <1>2 DEF InitContext
<1>3. CASE Quit
  BY <1>3 DEF Quit
<1>4. CASE Free
  BY <1>4 DEF Free
<1>5. CASE Restart
  BY <1>5 DEF Restart
<1>6. CASE CliClient
  <2>1. CASE ReadLine
    BY <2>1 DEF ReadLine
  <2>2. CASE CommandDone
    BY <2>2 DEF CommandDone
  <2>3. CASE ReadQuit
    BY <2>3 DEF ReadQuit
  <2>4. CASE Disconnect
    BY <2>4 DEF Disconnect, CloseClient, CloseSocket, ClearClient
  <2> QED
    BY <1>6, <2>1, <2>2, <2>3, <2>4 DEF CliClient
<1>7. ASSUME NEW s \in Servers, Stop(s) PROVE MidStop' /\ Context' /\ (Waits' => Threads' /\ DownThen')
  <2>1. CASE StopBegin(s)
    BY <2>1 DEF StopBegin
  <2>2. CASE StopReads(s)
    BY <2>2 DEF StopReads
  <2>3. CASE StopCloses(s)
    BY <2>3 DEF StopCloses, CloseClient, CloseSocket
  <2>4. CASE StopClears(s)
    BY <2>4 DEF StopClears, ClearClient
  <2>5. CASE StopListening(s)
    BY <2>5 DEF StopListening
  <2>6. CASE StopJoins(s)
    BY <2>6 DEF StopJoins
  <2> QED
    BY <1>7, <2>1, <2>2, <2>3, <2>4, <2>5, <2>6 DEF Stop
<1>8. ASSUME NEW s \in Servers, Thread(s) PROVE MidStop' /\ Context' /\ (Waits' => Threads' /\ DownThen')
  <2>1. CASE Bind(s)
    BY <2>1 DEF Bind, BindFails
  <2>2. CASE LoopHead(s)
    BY <2>2 DEF LoopHead
  <2>3. CASE AcceptClosed(s)
    BY <2>3 DEF AcceptClosed, AcceptEnds
  <2>4. CASE Connected(s)
    BY <2>4 DEF Connected
  <2>5. CASE ServeEnds(s)
    BY <2>5 DEF ServeEnds
  <2>6. CASE Leave(s)
    BY <2>6 DEF Leave
  <2>7. CASE Check(s)
    BY <2>7 DEF Check
  <2>8. CASE Close(s)
    BY <2>8 DEF Close, CloseClient, CloseSocket, ClearClient
  <2> QED
    BY <1>8, <2>1, <2>2, <2>3, <2>4, <2>5, <2>6, <2>7, <2>8 DEF Thread
<1>9. ASSUME NEW s \in Servers, StartServer(s) PROVE MidStop' /\ Context' /\ (Waits' => Threads' /\ DownThen')
  <2>1. step = "begin" /\ step' = "begin" /\ platform' = platform /\ ctx' = ctx
    BY <1>9 DEF StartServer
  <2>2. CASE Started(s)
    BY <1>9, <2>1, <2>2 DEF StartServer, Started
  <2>3. CASE StartFails(s)
    <3>1. /\ UNCHANGED <<at, running>>
          /\ Doing' = IF s = "log" THEN "end" ELSE IF platform = "windows" THEN "stopLog" ELSE "free"
      BY <2>1, <2>3 DEF StartFails
    <3> QED
      BY <1>9, <2>1, <3>1 DEF StartServer
  <2> QED
    BY <1>9, <2>2, <2>3 DEF StartServer
<1>10. ASSUME NEW s \in Servers, Accept(s) PROVE MidStop' /\ Context' /\ (Waits' => Threads' /\ DownThen')
  BY <1>10 DEF Accept
<1>11. ASSUME NEW s \in Servers, AcceptFails(s) PROVE MidStop' /\ Context' /\ (Waits' => Threads' /\ DownThen')
  BY <1>11 DEF AcceptFails, AcceptEnds
<1>12. ASSUME NEW k \in Sockets, PeerLeaves(k) PROVE MidStop' /\ Context' /\ (Waits' => Threads' /\ DownThen')
  BY <1>12 DEF PeerLeaves
<1>13. ASSUME NEW l \in Loggers, Log(l) PROVE MidStop' /\ Context' /\ (Waits' => Threads' /\ DownThen')
  BY <1>13 DEF Log
<1>14. ASSUME NEW l \in Loggers, Send(l) PROVE MidStop' /\ Context' /\ (Waits' => Threads' /\ DownThen')
  BY <1>14 DEF Send
<1>15. ASSUME NEW l \in Loggers, SendFailed(l) PROVE MidStop' /\ Context' /\ (Waits' => Threads' /\ DownThen')
  BY <1>15 DEF SendFailed
<1>16. CASE UNCHANGED vars
  BY <1>16 DEF vars
<1> QED
  BY <1>1, <1>2, <1>3, <1>4, <1>5, <1>6, <1>7, <1>8, <1>9, <1>10, <1>11, <1>12, <1>13, <1>14, <1>15, <1>16 DEF Next

\* On VxWorks a command runs only while the server does, which is as long as there is
\* a context; as a task is deleted when it is late, no wait has to succeed.
LEMMA ContextFromInv == LifeInv => ContextOutlivesCli
<1> SUFFICES ASSUME LifeInv, platform = "vxworks", at["cli"] = "command" PROVE ctx = "ready"
  BY DEF ContextOutlivesCli, ContextReady
<1>1. Doing \in {"alloc", "init", "startCli", "up", "stopCli", "free", "end"}
  BY DEF LifeInv, TypeOK, Doing, Order
<1>2. Doing \notin {"alloc", "init", "startCli", "free", "end"}
  BY DEF LifeInv, Waits, DownThen, NotUp, Servers
<1> QED
  BY <1>1, <1>2 DEF LifeInv, Context

\* On VxWorks a command uses the context only while it is allocated and initialized,
\* whatever fails, however late a thread is, and for any number of clients.
THEOREM ContextOutlives == Spec => []ContextOutlivesCli
  BY InitLifeInv, LifeStep, ContextFromInv, PTL DEF Spec

\* The invariant of the client sockets holds initially.
LEMMA InitClientInv == Init => ClientInv
  BY ConsoleAssumption
     DEF Init, ClientInv, Belongs, HasClient, ClosesOwn, ClearsClosed, Registers, Undisturbed, Servers

\* Every step keeps it, when the waits succeed.
LEMMA ClientStep ==
  "late" \notin Fails => (LifeInv /\ ClientInv /\ [Next]_vars => ClientInv')
<1> SUFFICES ASSUME "late" \notin Fails, LifeInv, ClientInv, [Next]_vars PROVE ClientInv'
  OBVIOUS
<1>0. /\ TypeOK /\ platform \in {"windows", "vxworks"} /\ Servers = {"cli", "log"} /\ NONE \notin Sockets
      /\ DOMAIN at = Servers /\ running \in [Servers -> BOOLEAN]
      /\ client \in [Servers -> Sockets \cup {NONE}]
      /\ fd \in [Servers \cup {"main"} -> Sockets \cup {NONE}]
      /\ conn \in [Sockets -> Servers \cup {"closed"}] /\ registered \in Sockets \cup {NONE}
  BY ConsoleAssumption DEF LifeInv, TypeOK, Servers
<1>00. MidStop /\ Threads /\ DownThen
  BY DEF LifeInv, Waits
<1> USE <1>0, <1>00, MainSteps DEF ClientInv, Belongs, HasClient, ClosesOwn, ClearsClosed, Registers, Undisturbed,
        MidStop, Threads, DownThen, NotUp, mainVars, connVars, logVars, Goto, Stopping, MayFail
<1>1. CASE Alloc
  BY <1>1 DEF Alloc
<1>2. CASE InitContext
  BY <1>2 DEF InitContext
<1>3. CASE Quit
  BY <1>3 DEF Quit
<1>4. CASE Free
  BY <1>4 DEF Free
<1>5. CASE Restart
  BY <1>5 DEF Restart
<1>6. CASE CliClient
  <2>1. CASE ReadLine
    BY <2>1 DEF ReadLine
  <2>2. CASE CommandDone
    BY <2>2 DEF CommandDone
  <2>3. CASE ReadQuit
    BY <2>3 DEF ReadQuit, Broken
  <2>4. CASE Disconnect
    BY <2>4 DEF Disconnect, CloseClient, CloseSocket, ClearClient
  <2> QED
    BY <1>6, <2>1, <2>2, <2>3, <2>4 DEF CliClient
<1>7. ASSUME NEW s \in Servers, Stop(s) PROVE ClientInv'
  <2>1. CASE StopBegin(s)
    BY <2>1 DEF StopBegin
  <2>2. CASE StopReads(s)
    BY <2>2 DEF StopReads
  <2>3. CASE StopCloses(s)
    BY <2>3 DEF StopCloses, CloseClient, CloseSocket
  <2>4. CASE StopClears(s)
    BY <2>4 DEF StopClears, ClearClient
  <2>5. CASE StopListening(s)
    BY <2>5 DEF StopListening
  <2>6. CASE StopJoins(s)
    BY <2>6 DEF StopJoins
  <2> QED
    BY <1>7, <2>1, <2>2, <2>3, <2>4, <2>5, <2>6 DEF Stop
<1>8. ASSUME NEW s \in Servers, Thread(s) PROVE ClientInv'
  <2>1. CASE Bind(s)
    BY <2>1 DEF Bind, BindFails
  <2>2. CASE LoopHead(s)
    BY <2>2 DEF LoopHead
  <2>3. CASE AcceptClosed(s)
    BY <2>3 DEF AcceptClosed, AcceptEnds
  <2>4. CASE Connected(s)
    BY <2>4 DEF Connected
  <2>5. CASE ServeEnds(s)
    BY <2>5 DEF ServeEnds
  <2>6. CASE Leave(s)
    BY <2>6 DEF Leave
  <2>7. CASE Check(s)
    BY <2>7 DEF Check
  <2>8. CASE Close(s)
    BY <2>8 DEF Close, CloseClient, CloseSocket, ClearClient
  <2> QED
    BY <1>8, <2>1, <2>2, <2>3, <2>4, <2>5, <2>6, <2>7, <2>8 DEF Thread
<1>9. ASSUME NEW s \in Servers, StartServer(s) PROVE ClientInv'
  BY <1>9 DEF StartServer, Started, StartFails
<1>10. ASSUME NEW s \in Servers, Accept(s) PROVE ClientInv'
  BY <1>10 DEF Accept
<1>11. ASSUME NEW s \in Servers, AcceptFails(s) PROVE ClientInv'
  BY <1>11 DEF AcceptFails, AcceptEnds
<1>12. ASSUME NEW k \in Sockets, PeerLeaves(k) PROVE ClientInv'
  BY <1>12 DEF PeerLeaves
<1>13. ASSUME NEW l \in Loggers, Log(l) PROVE ClientInv'
  BY <1>13 DEF Log
<1>14. ASSUME NEW l \in Loggers, Send(l) PROVE ClientInv'
  BY <1>14 DEF Send
<1>15. ASSUME NEW l \in Loggers, SendFailed(l) PROVE ClientInv'
  BY <1>15 DEF SendFailed
<1>16. CASE UNCHANGED vars
  BY <1>16 DEF vars
<1> QED
  BY <1>1, <1>2, <1>3, <1>4, <1>5, <1>6, <1>7, <1>8, <1>9, <1>10, <1>11, <1>12, <1>13, <1>14, <1>15, <1>16 DEF Next

\* While no server is being stopped, what a server uses, closes or has registered is its
\* own connection.
LEMMA OwnClientFromInv == ClientInv => OwnClient
<1> SUFFICES ASSUME ClientInv, Doing \notin {"stopCli", "stopLog"}
             PROVE  /\ \A s \in Servers : client[s] # NONE /\ at[s] \notin {"drop", "clear"} => conn[client[s]] = s
                    /\ \A s \in Servers : fd[s] # NONE => conn[fd[s]] = s
                    /\ registered # NONE => registered = client["log"] /\ conn[registered] = "log"
  BY DEF OwnClient
<1>1. \A s \in Servers : client[s] # NONE /\ at[s] \notin {"drop", "clear"} => conn[client[s]] = s
  BY DEF ClientInv, Undisturbed
<1>2. \A s \in Servers : fd[s] # NONE => conn[fd[s]] = s
  BY <1>1 DEF ClientInv, Undisturbed, ClosesOwn
<1>3. registered # NONE => registered = client["log"] /\ conn[registered] = "log"
  BY <1>1 DEF ClientInv, Undisturbed, Registers, Servers
<1> QED
  BY <1>1, <1>2, <1>3

\* When main's waits for the threads succeed, a server uses and closes nothing but its own
\* connection and nobody but the log's client is registered with the logger, though a
\* closed number may be the other server's client before the variable is cleared: for any
\* number of sockets, with failures of every call.
THEOREM ClientsAreOwn == "late" \notin Fails => (Spec => []OwnClient)
<1> SUFFICES ASSUME "late" \notin Fails PROVE Spec => []OwnClient
  OBVIOUS
<1>1. LifeInv /\ ClientInv /\ [Next]_vars => ClientInv'
  BY ClientStep
<1> QED
  BY <1>1, InitLifeInv, LifeStep, InitClientInv, OwnClientFromInv, PTL DEF Spec

\* The server sockets are closed initially.
LEMMA InitListens == Init => Listens
  BY DEF Init, Listens, Servers

\* Every step keeps them closed, as long as a server binds to its port.
LEMMA ListensStep ==
  "bind" \notin Fails => (LifeInv /\ Listens /\ [Next]_vars => Listens')
<1> SUFFICES ASSUME "bind" \notin Fails, LifeInv, Listens, [Next]_vars PROVE Listens'
  OBVIOUS
<1>0. /\ TypeOK /\ Servers = {"cli", "log"} /\ running \in [Servers -> BOOLEAN]
      /\ listening \in [Servers -> BOOLEAN] /\ MidStop
  BY DEF LifeInv, TypeOK, Servers
<1> USE <1>0, MainSteps DEF Listens, MidStop, mainVars, connVars, logVars, Goto, Stopping, MayFail
<1>1. CASE Alloc
  BY <1>1 DEF Alloc
<1>2. CASE InitContext
  BY <1>2 DEF InitContext
<1>3. CASE Quit
  BY <1>3 DEF Quit
<1>4. CASE Free
  BY <1>4 DEF Free
<1>5. CASE Restart
  BY <1>5 DEF Restart
<1>6. CASE CliClient
  <2>1. CASE ReadLine
    BY <2>1 DEF ReadLine
  <2>2. CASE CommandDone
    BY <2>2 DEF CommandDone
  <2>3. CASE ReadQuit
    BY <2>3 DEF ReadQuit, Broken
  <2>4. CASE Disconnect
    BY <2>4 DEF Disconnect, CloseClient, CloseSocket, ClearClient
  <2> QED
    BY <1>6, <2>1, <2>2, <2>3, <2>4 DEF CliClient
<1>7. ASSUME NEW s \in Servers, Stop(s) PROVE Listens'
  <2>1. CASE StopBegin(s)
    BY <2>1 DEF StopBegin
  <2>2. CASE StopReads(s)
    BY <2>2 DEF StopReads
  <2>3. CASE StopCloses(s)
    BY <2>3 DEF StopCloses, CloseClient, CloseSocket
  <2>4. CASE StopClears(s)
    BY <2>4 DEF StopClears, ClearClient
  <2>5. CASE StopListening(s)
    BY <2>5 DEF StopListening
  <2>6. CASE StopJoins(s)
    BY <2>6 DEF StopJoins
  <2> QED
    BY <1>7, <2>1, <2>2, <2>3, <2>4, <2>5, <2>6 DEF Stop
<1>8. ASSUME NEW s \in Servers, Thread(s) PROVE Listens'
  <2>1. CASE Bind(s)
    BY <2>1 DEF Bind, BindFails
  <2>2. CASE LoopHead(s)
    BY <2>2 DEF LoopHead
  <2>3. CASE AcceptClosed(s)
    BY <2>3 DEF AcceptClosed, AcceptEnds
  <2>4. CASE Connected(s)
    BY <2>4 DEF Connected
  <2>5. CASE ServeEnds(s)
    BY <2>5 DEF ServeEnds
  <2>6. CASE Leave(s)
    BY <2>6 DEF Leave
  <2>7. CASE Check(s)
    BY <2>7 DEF Check
  <2>8. CASE Close(s)
    BY <2>8 DEF Close, CloseClient, CloseSocket, ClearClient
  <2> QED
    BY <1>8, <2>1, <2>2, <2>3, <2>4, <2>5, <2>6, <2>7, <2>8 DEF Thread
<1>9. ASSUME NEW s \in Servers, StartServer(s) PROVE Listens'
  BY <1>9 DEF StartServer, Started, StartFails
<1>10. ASSUME NEW s \in Servers, Accept(s) PROVE Listens'
  BY <1>10 DEF Accept
<1>11. ASSUME NEW s \in Servers, AcceptFails(s) PROVE Listens'
  BY <1>11 DEF AcceptFails, AcceptEnds
<1>12. ASSUME NEW k \in Sockets, PeerLeaves(k) PROVE Listens'
  BY <1>12 DEF PeerLeaves
<1>13. ASSUME NEW l \in Loggers, Log(l) PROVE Listens'
  BY <1>13 DEF Log
<1>14. ASSUME NEW l \in Loggers, Send(l) PROVE Listens'
  BY <1>14 DEF Send
<1>15. ASSUME NEW l \in Loggers, SendFailed(l) PROVE Listens'
  BY <1>15 DEF SendFailed
<1>16. CASE UNCHANGED vars
  BY <1>16 DEF vars
<1> QED
  BY <1>1, <1>2, <1>3, <1>4, <1>5, <1>6, <1>7, <1>8, <1>9, <1>10, <1>11, <1>12, <1>13, <1>14, <1>15, <1>16 DEF Next

\* No failure of bind leaves a server socket open behind a thread that has ended, and no
\* thread outlives main's wait for it.
Orderly == {"bind", "late"} \cap Fails = {}

\* What is left when main has ended.
LEMMA StoppedFromInv ==
  "late" \notin Fails => (LifeInv /\ ClientInv /\ Listens => StoppedClean)
<1> SUFFICES ASSUME "late" \notin Fails, LifeInv, ClientInv, Listens, Doing = "end"
             PROVE  /\ \A k \in Sockets : conn[k] = "closed"
                    /\ \A s \in Servers : ~listening[s] /\ at[s] = "off"
                    /\ registered = NONE /\ ctx = "none"
  BY DEF StoppedClean
<1>1. \A s \in Servers : at[s] = "off" /\ ~running[s]
  BY ConsoleAssumption DEF LifeInv, TypeOK, Waits, DownThen, NotUp, Servers
<1>2. \A s \in Servers : ~listening[s]
  BY <1>1 DEF Listens, Stopping
<1>3. \A k \in Sockets : conn[k] = "closed"
  <2>1. \A s \in Servers : client[s] = NONE
    BY <1>1 DEF ClientInv, HasClient
  <2>2. \A k \in Sockets : conn[k] \notin Servers
    BY <2>1, ConsoleAssumption DEF ClientInv, Belongs
  <2> QED
    BY <2>2 DEF LifeInv, TypeOK
<1>4. registered = NONE
  BY <1>1 DEF ClientInv, Registers, Servers
<1> QED
  BY <1>1, <1>2, <1>3, <1>4 DEF LifeInv, Context

\* A program that ends leaves no connection, no server socket and no thread behind, when its
\* servers could bind and its waits for the threads succeed; other calls may fail.
THEOREM StopsClean == Orderly => (Spec => []StoppedClean)
<1> SUFFICES ASSUME Orderly PROVE Spec => []StoppedClean
  OBVIOUS
<1>0. "bind" \notin Fails /\ "late" \notin Fails
  BY DEF Orderly
<1>1. LifeInv /\ ClientInv /\ [Next]_vars => ClientInv'
  BY <1>0, ClientStep
<1>2. LifeInv /\ Listens /\ [Next]_vars => Listens'
  BY <1>0, ListensStep
<1>3. LifeInv /\ ClientInv /\ Listens => StoppedClean
  BY <1>0, StoppedFromInv
<1> QED
  BY <1>1, <1>2, <1>3, InitLifeInv, LifeStep, InitClientInv, InitListens, PTL DEF Spec

\* The types of Console.
THEOREM ConsoleTypes == Spec => []TypeOK
  BY InitTypeOK, TypeStep, PTL DEF Spec

-----------------------------------------------------------------------------
(* The logger's lock.                                                      *)

Builds == {"windows", "vxworks"}

\* What a thread may be doing under the lock.
Doings ==
  {NOTHING} \cup {[op |-> "output"]} \cup Settings
    \cup [op : {"readLevel"}, level : Messages, passes : BOOLEAN]
    \cup [op : {"status"}, of : {"mode", "level", "client"}]
    \cup [op : {"setClient"}, value : BOOLEAN]

LoggerTypes == LoggerTypeOK /\ build \in Builds /\ doing \in [Callers -> Doings]

\* Main is the only thread before it starts the others and once it has joined them;
\* a thread that does not run is not in a call of the logger.
MainAlone ==
  /\ "main" \in alive
  /\ Now \notin {"up", "join"} => alive = {"main"}
  /\ \A t \in Callers \ alive : doing[t] = NOTHING

\* A thread is in log_lock or log_unlock as long as it does something.
Busy == \A t \in Callers : pc[t] = "out" <=> doing[t] = NOTHING

\* The critical section exists from demo_log_init to demo_log_cleanup.
Exists == mutexInit <=> build = "windows" /\ Now \in {"start", "up", "join", "cleanup"}

\* While it exists, who is between log_lock and log_unlock holds it.
Held ==
  /\ mutexInit => \A t \in Callers : pc[t] \in {"inside", "unlock", "leave"} <=> owner = t
  /\ ~mutexInit => owner = Nobody /\ \A t \in Callers : pc[t] \notin {"enter", "leave"}

LoggerInv == LoggerTypes /\ MainAlone /\ Busy /\ Exists /\ Held

\* The phases of main in each build.
LEMMA PhaseSteps ==
  ASSUME build \in Builds, phase \in DOMAIN Phases, build' = build
  PROVE  /\ Phases' = Phases
         /\ phase' = phase => Now' = Now
         /\ phase' = Len(Phases) => Now' = "end" /\ phase' \in DOMAIN Phases
         /\ phase' = phase + 1 /\ Now # "end" =>
              /\ phase' \in DOMAIN Phases'
              /\ Now = "options" => Now' = IF build = "windows" THEN "init" ELSE "start"
              /\ Now = "init" => build = "windows" /\ Now' = "start"
              /\ Now = "start" => Now' = "up"
              /\ Now = "up" => Now' = "join"
              /\ Now = "join" => Now' = IF build = "windows" THEN "cleanup" ELSE "end"
              /\ Now = "cleanup" => build = "windows" /\ Now' = "end"
<1>1. CASE build = "windows"
  BY <1>1 DEF Phases, Now, Builds
<1>2. CASE build = "vxworks"
  BY <1>2 DEF Phases, Now, Builds
<1> QED
  BY <1>1, <1>2 DEF Builds

\* What a call goes on with after an unlock is of the kinds of Doings, and something.
LEMMA Continues ==
  /\ \A d \in Doings : d.op = "status" /\ d.of # "client" =>
       [d EXCEPT !.of = AfterStatus[d.of]] \in Doings \ {NOTHING}
  /\ \A d \in Doings : d.op = "readLevel" =>
       \A b \in BOOLEAN : [d EXCEPT !.passes = b] \in Doings \ {NOTHING}
  /\ [op |-> "output"] \in Doings \ {NOTHING}
  BY DEF Doings, Settings, NOTHING, AfterStatus

\* Whatever the comparison yields.
LEMMA PassesType ==
  ASSUME NEW d \in Doings, d.op = "readLevel", NEW l
  PROVE  [d EXCEPT !.passes = (d.level <= l)] \in Doings \ {NOTHING}
<1> DEFINE b == d.level <= l
<1>1. b \in BOOLEAN
  OBVIOUS
<1> HIDE DEF b
<1>2. [d EXCEPT !.passes = b] \in Doings \ {NOTHING}
  BY <1>1, Continues
<1> QED
  BY <1>2 DEF b

\* What a setter stores.
LEMMA SetterTypes ==
  \A d \in Doings :
    /\ d.op = "setMode" => d.value \in LogModes
    /\ d.op = "setLevel" => d.value \in LogLevels
    /\ d.op \in {"setEnabled", "setClient"} => d.value \in BOOLEAN
  BY DEF Doings, Settings, NOTHING

\* The invariant holds initially.
LEMMA LoggerInvInit == LoggerInit => LoggerInv
<1> SUFFICES ASSUME LoggerInit PROVE LoggerInv
  OBVIOUS
<1>1. build \in Builds /\ phase \in DOMAIN Phases /\ Now = "options"
  BY LoggerAssumption DEF LoggerInit, Builds, Phases, Now
<1>2. doing \in [Callers -> Doings]
  BY DEF LoggerInit, Doings
<1>3. LoggerTypes
  BY <1>1, <1>2 DEF LoggerInit, LoggerTypes, LoggerTypeOK, Callers, LogModes, LogLevels
<1>4. Nobody \notin Callers
  BY LoggerAssumption DEF Callers, Nobody
<1>5. MainAlone /\ Busy /\ Exists /\ Held
  BY <1>1, <1>4 DEF LoggerInit, MainAlone, Busy, Exists, Held
<1> QED
  BY <1>3, <1>5 DEF LoggerInv

\* Nothing of main changes while another thread works.
LEMMA SamePhase ==
  ASSUME UNCHANGED mainVarsOfLog
  PROVE  UNCHANGED <<build, phase, alive, Now, Phases>>
  BY DEF mainVarsOfLog, Now, Phases

\* A step of log_lock, of what is done under the lock, or of log_unlock, keeps the types.
LEMMA LockingTypes ==
  ASSUME LoggerInv, NEW t \in Callers, Locking(t)
  PROVE  LoggerTypes' /\ UNCHANGED mainVarsOfLog
<1> USE LoggerAssumption, SamePhase DEF LoggerInv, LoggerTypes, LoggerTypeOK, lockVars, settingVars, Step, Begin
<1>1. CASE LockTest(t)
  BY <1>1 DEF LockTest
<1>2. CASE Enter(t)
  BY <1>2 DEF Enter
<1>3. CASE Inside(t)
  <2>1. doing[t] \in Doings
    OBVIOUS
  <2>2. logMode' \in LogModes /\ logLevel' \in LogLevels /\ logEnabled' \in BOOLEAN /\ tcpClient' \in BOOLEAN
    BY <1>3, <2>1, SetterTypes DEF Inside
  <2>3. doing' \in [Callers -> Doings]
    BY <1>3, <2>1, PassesType DEF Inside
  <2> QED
    BY <1>3, <2>2, <2>3 DEF Inside
<1>4. CASE UnlockTest(t)
  BY <1>4 DEF UnlockTest
<1>5. CASE LeaveSection(t)
  BY <1>5 DEF LeaveSection
<1>6. CASE Return(t)
  <2>1. \E d \in Doings : doing' = [doing EXCEPT ![t] = d]
    <3>1. CASE doing[t].op = "status" /\ doing[t].of # "client" 
               /\ doing' = [doing EXCEPT ![t] = [doing[t] EXCEPT !.of = AfterStatus[doing[t].of]]]
      BY <3>1, Continues
    <3> QED
      BY <1>6, <3>1, Continues DEF Return, Doings
  <2> QED
    BY <1>6, <2>1 DEF Return
<1> QED
  BY <1>1, <1>2, <1>3, <1>4, <1>5, <1>6 DEF Locking

\* Nor does it disturb main, or the lock.
LEMMA LockingHeld ==
  ASSUME LoggerInv, NEW t \in Callers, Locking(t)
  PROVE  MainAlone' /\ Busy' /\ Exists' /\ Held'
<1>0. UNCHANGED <<build, phase, alive, mutexInit, Now>>
  BY LockingTypes, SamePhase DEF Locking, LockTest, Enter, Inside, UnlockTest, LeaveSection, Return, lockVars
<1>1. t \in alive /\ pc[t] # "out" /\ doing[t] # NOTHING
  BY DEF LoggerInv, LoggerTypes, LoggerTypeOK, MainAlone, Busy, Locking, LockTest, Enter, Inside,
         UnlockTest, LeaveSection, Return, Step
<1>2. \/ doing' = doing /\ pc'[t] # "out"
      \/ \E d \in Doings : doing' = [doing EXCEPT ![t] = d] /\ (pc'[t] = "out" <=> d = NOTHING)
  <2>1. CASE Inside(t)
    <3>1. doing[t].op = "readLevel" => 
            [doing[t] EXCEPT !.passes = (doing[t].level <= logLevel)] \in Doings \ {NOTHING}
      BY PassesType DEF LoggerInv, LoggerTypes
    <3> QED
      BY <2>1, <3>1 DEF Inside, Step, LoggerInv, LoggerTypes, LoggerTypeOK
  <2>2. CASE Return(t)
    BY <2>2, Continues DEF Return, Begin, LoggerInv, LoggerTypes, LoggerTypeOK, Doings
  <2> QED
    BY <2>1, <2>2 DEF Locking, LockTest, Enter, UnlockTest, LeaveSection, Step, LoggerInv, LoggerTypes, LoggerTypeOK
<1>3. \E to : pc' = [pc EXCEPT ![t] = to]
  BY DEF Locking, LockTest, Enter, Inside, UnlockTest, LeaveSection, Return, Step, Begin
<1>4. Busy' /\ MainAlone' /\ Exists'
  BY <1>0, <1>1, <1>2, <1>3 DEF LoggerInv, LoggerTypes, LoggerTypeOK, Busy, MainAlone, Exists
<1>5. Held'
  <2> USE LoggerAssumption DEF LoggerInv, LoggerTypes, LoggerTypeOK, Held, lockVars, Step, Begin
  <2>0. Nobody \notin Callers
    BY DEF Callers, Nobody
  <2>1. CASE LockTest(t)
    BY <1>0, <2>0, <2>1 DEF LockTest
  <2>2. CASE Enter(t)
    BY <1>0, <2>0, <2>2 DEF Enter
  <2>3. CASE Inside(t)
    BY <1>0, <2>0, <2>3 DEF Inside
  <2>4. CASE UnlockTest(t)
    BY <1>0, <2>0, <2>4 DEF UnlockTest
  <2>5. CASE LeaveSection(t)
    BY <1>0, <2>0, <2>5 DEF LeaveSection
  <2>6. CASE Return(t)
    BY <1>0, <2>0, <2>6 DEF Return
  <2> QED
    BY <2>1, <2>2, <2>3, <2>4, <2>5, <2>6 DEF Locking
<1> QED
  BY <1>4, <1>5
\* A call of the logger begins.
LEMMA CallStep ==
  ASSUME LoggerInv, NEW t \in Callers, Idle(t), NEW d \in Doings \ {NOTHING}, Begin(t, d),
         UNCHANGED <<mainVarsOfLog, lockVars, settingVars>>
  PROVE  LoggerInv'
<1>1. UNCHANGED <<build, phase, alive, Now, Phases>>
  BY SamePhase
<1> USE DEF LoggerInv, LoggerTypes, LoggerTypeOK, lockVars, settingVars, Begin, Idle
<1>2. LoggerTypes'
  BY <1>1
<1>3. MainAlone' /\ Busy' /\ Exists'
  BY <1>1 DEF MainAlone, Busy, Exists
<1>4. Nobody \notin Callers
  BY LoggerAssumption DEF Callers, Nobody
<1>5. Held'
  BY <1>1, <1>4 DEF Busy, Held
<1> QED
  BY <1>2, <1>3, <1>5

\* The calls of the program.
LEMMA Calls ==
  /\ \A level \in Messages : [op |-> "readLevel", level |-> level, passes |-> FALSE] \in Doings \ {NOTHING}
  /\ \A s \in Settings : s \in Doings \ {NOTHING}
  /\ [op |-> "status", of |-> "mode"] \in Doings \ {NOTHING}
  /\ \A b \in BOOLEAN : [op |-> "setClient", value |-> b] \in Doings \ {NOTHING}
  BY DEF Doings, NOTHING, Settings

\* A thread ends that is in no call.
LEMMA EndStep ==
  ASSUME LoggerInv, NEW t \in Callers, ThreadEnds(t)
  PROVE  LoggerInv'
<1>1. UNCHANGED <<build, phase, Now, Phases>>
  BY DEF ThreadEnds, Now, Phases
<1> QED
  BY <1>1 DEF LoggerInv, LoggerTypes, LoggerTypeOK, MainAlone, Busy, Exists, Held, ThreadEnds, Idle,
     lockVars, settingVars

\* A step of main, given that the threads are gone when it has waited for them.
LEMMA MainStep ==
  ASSUME LoggerInv, ~LateThreads, LogMain
  PROVE  LoggerInv'
<1> USE LoggerAssumption DEF LoggerInv, LoggerTypes, LoggerTypeOK, MainAlone, Busy, Exists, Held,
        lockVars, settingVars, Idle, Onward
<1>0. Nobody \notin Callers /\ "main" \in Callers /\ OptionModes \subseteq LogModes
  BY DEF Callers, Nobody, LogModes
<1>1. CASE Options
  BY <1>0, <1>1, PhaseSteps DEF Options
<1>2. CASE LogInit
  BY <1>0, <1>2, PhaseSteps DEF LogInit
<1>3. CASE StartThreads
  BY <1>0, <1>3, PhaseSteps DEF StartThreads, Callers
<1>4. CASE LeaveMainLoop
  BY <1>0, <1>4, PhaseSteps DEF LeaveMainLoop
<1>5. CASE JoinThreads
  BY <1>0, <1>5, PhaseSteps DEF JoinThreads
<1>6. CASE CleanupBegin
  BY <1>0, <1>6, CallStep, Calls DEF CleanupBegin, mainVarsOfLog
<1>7. CASE CleanupDelete
  <2>1. Now' = "end" /\ LoggerTypes' /\ mutexInit
    BY <1>0, <1>7, PhaseSteps DEF CleanupDelete, Doings
  <2>2. \A t \in Callers : pc[t] \notin {"inside", "unlock", "leave", "enter"}
    BY <1>0, <1>7 DEF CleanupDelete
  <2>3. owner = Nobody
    BY <2>1, <2>2
  <2> QED
    BY <1>0, <1>7, <2>1, <2>2, <2>3 DEF CleanupDelete
<1> QED
  BY <1>1, <1>2, <1>3, <1>4, <1>5, <1>6, <1>7 DEF LogMain

\* Every step keeps the invariant.
LEMMA LoggerInvStep == ~LateThreads => (LoggerInv /\ [LoggerNext]_loggerVars => LoggerInv')
<1> SUFFICES ASSUME ~LateThreads, LoggerInv, [LoggerNext]_loggerVars PROVE LoggerInv'
  OBVIOUS
<1>0. CliThread \in Callers
  BY LoggerAssumption DEF Callers
<1>1. CASE LogMain
  BY <1>1, MainStep
<1>2. CASE LogStatus
  BY <1>0, <1>2, CallStep, Calls DEF LogStatus
<1>3. ASSUME NEW t \in Callers, Locking(t) PROVE LoggerInv'
  BY <1>3, LockingTypes, LockingHeld DEF LoggerInv
<1>4. ASSUME NEW t \in Callers, SetTcpClient(t) PROVE LoggerInv'
  <2>1. tcpClient \in BOOLEAN
    BY DEF LoggerInv, LoggerTypes, LoggerTypeOK
  <2> DEFINE d == [op |-> "setClient", value |-> ~tcpClient]
  <2>2. d \in Doings \ {NOTHING}
    BY <2>1, Calls
  <2> QED
    BY <1>4, <2>2, CallStep DEF SetTcpClient
<1>5. ASSUME NEW t \in Callers, ThreadEnds(t) PROVE LoggerInv'
  BY <1>5, EndStep
<1>6. ASSUME NEW t \in Callers, NEW level \in Messages, DemoLog(t, level) PROVE LoggerInv'
  BY <1>6, CallStep, Calls DEF DemoLog
<1>7. ASSUME NEW t \in Callers, NEW s \in Commanded \cap Settings, LogCommand(t, s) PROVE LoggerInv'
  BY <1>7, CallStep, Calls DEF LogCommand
<1>8. CASE UNCHANGED loggerVars
  BY <1>8 DEF loggerVars, mainVarsOfLog, lockVars, settingVars, LoggerInv, LoggerTypes, LoggerTypeOK,
     MainAlone, Busy, Exists, Held, Now, Phases
<1> QED
  BY <1>1, <1>2, <1>3, <1>4, <1>5, <1>6, <1>7, <1>8 DEF LoggerNext

\* The invariant gives the property.
LEMMA LockSoundFromInv == LoggerInv => LockSound
  BY LoggerAssumption DEF LoggerInv, LoggerTypes, LoggerTypeOK, Held, LockSound, Callers, Nobody

\* As long as main's waits for the threads do wait for them, the logger's mutex is entered, left
\* and deleted only as it may be.
THEOREM LockIsSound == ~LateThreads => (LoggerSpec => []LockSound)
<1> SUFFICES ASSUME ~LateThreads PROVE LoggerSpec => []LockSound
  OBVIOUS
<1>1. LoggerInv /\ [LoggerNext]_loggerVars => LoggerInv'
  BY LoggerInvStep
<1> QED
  BY <1>1, LoggerInvInit, LockSoundFromInv, PTL DEF LoggerSpec

\* On the same condition the settings and the calls of the logger keep their types.
THEOREM LoggerTypeCorrect == ~LateThreads => (LoggerSpec => []LoggerTypeOK)
<1> SUFFICES ASSUME ~LateThreads PROVE LoggerSpec => []LoggerTypeOK
  OBVIOUS
<1>1. LoggerInv /\ [LoggerNext]_loggerVars => LoggerInv'
  BY LoggerInvStep
<1>2. LoggerInv => LoggerTypeOK
  BY DEF LoggerInv, LoggerTypes
<1> QED
  BY <1>1, <1>2, LoggerInvInit, PTL DEF LoggerSpec
=============================================================================
