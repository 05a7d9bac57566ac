------------------------------- MODULE Logger -------------------------------
(***************************************************************************)
(* The settings of the logger (demo_app_log.c), the commands that change   *)
(* them, and the life of g_log_mutex between demo_log_init and             *)
(* demo_log_cleanup.  Console has the sends to the log server's client.    *)
(*                                                                         *)
(* log_lock and log_unlock look at g_log_mutex_init each on its own: the   *)
(* mutex is not taken as long as it does not exist, which is how messages  *)
(* before demo_log_init, and all messages of the VxWorks build, which      *)
(* never calls it, get through.  Threads are started after demo_log_init   *)
(* and are gone before demo_log_cleanup: nothing else orders them.         *)
(***************************************************************************)
EXTENDS Integers, Sequences

CONSTANTS
  LogThreads,   \* threads of the program beside main that log; one is CliThread
  CliThread,    \* the one that executes the commands
  LogPlatforms, \* the builds: "windows", "vxworks"
  Messages,     \* levels of the messages they log
  Commanded,    \* settings that are commanded, of the set Settings
  OptionModes,  \* the output modes the program may be started with
  LateThreads,  \* threads may outlive main's wait for them
  MaxSettings   \* bound: settings changed

Nobody == "nobody"   \* holds the lock when no thread does

ASSUME LoggerAssumption ==
  /\ CliThread \in LogThreads /\ {"main", Nobody} \cap LogThreads = {}
  /\ LogPlatforms \subseteq {"windows", "vxworks"}
  /\ OptionModes \subseteq {"console", "redirect", "both"}
  /\ Messages \subseteq {0, 1, 2}
  /\ LateThreads \in BOOLEAN
  /\ MaxSettings \in Nat

LogModes  == {"console", "redirect", "both"}
LogLevels == {0, 1, 2}   \* error, info, debug
Callers   == LogThreads \cup {"main"}

VARIABLES
  build,        \* the build of this program
  phase,        \* where in Phases main is
  alive,        \* threads that run
  mutexInit,    \* g_log_mutex_init: the critical section is initialized
  owner,        \* who holds it
  logMode, logLevel, logEnabled, \* g_log_mode, g_log_level, g_log_enabled
  tcpClient,    \* g_tcp_log_client is a socket
  pc,           \* pc[t]: where thread t is in log_lock or log_unlock
  doing,        \* doing[t]: what it does under the lock, NOTHING outside
  settings      \* settings changed so far

settingVars == <<logMode, logLevel, logEnabled, tcpClient>>
lockVars    == <<mutexInit, owner>>
mainVarsOfLog == <<build, phase, alive>>
loggerVars  == <<mainVarsOfLog, lockVars, settingVars, pc, doing, settings>>

NOTHING == [op |-> "nothing"]

-----------------------------------------------------------------------------
(* Plausible bug: main cleans the logger up before it stops the servers.   *)
CleansUpFirst == <<"options", "init", "start", "up", "cleanup", "join", "end">>

\* What main does, in this order.
Phases ==
  IF build = "windows"
  THEN <<"options", "init", "start", "up", "join", "cleanup", "end">>
  ELSE <<"options", "start", "up", "join", "end">>

Now == Phases[phase]
Onward == phase' = phase + 1

\* The mode of the program's options: both unless another one is named, which
\* only main on Windows looks at.
LoggerInit ==
  /\ build \in LogPlatforms
  /\ phase = 1 /\ alive = {"main"}
  /\ mutexInit = FALSE /\ owner = Nobody
  /\ logMode = "console" /\ logLevel = 1 /\ logEnabled = TRUE /\ tcpClient = FALSE
  /\ pc = [t \in Callers |-> "out"] /\ doing = [t \in Callers |-> NOTHING]
  /\ settings = 0

Idle(t) == t \in alive /\ doing[t] = NOTHING

-----------------------------------------------------------------------------
(* log_lock, what is done under it, and log_unlock.                        *)

Begin(t, what) ==
  /\ doing' = [doing EXCEPT ![t] = what]
  /\ pc' = [pc EXCEPT ![t] = "lock"]

Step(t, from, to) == pc[t] = from /\ pc' = [pc EXCEPT ![t] = to]

\* The flag is looked at, then the mutex is entered.
LockTest(t) ==
  /\ Step(t, "lock", IF mutexInit THEN "enter" ELSE "inside")
  /\ UNCHANGED <<mainVarsOfLog, lockVars, settingVars, doing, settings>>

Enter(t) ==
  /\ owner = Nobody
  /\ Step(t, "enter", "inside")
  /\ owner' = t
  /\ UNCHANGED <<mainVarsOfLog, mutexInit, settingVars, doing, settings>>

\* The setters assign; demo_log reads the level, internal_log_output the mode
\* and the client, and the getters what they are named for.
Inside(t) ==
  /\ Step(t, "inside", "unlock")
  /\ LET d == doing[t]
     IN  /\ logMode'    = IF d.op = "setMode" THEN d.value ELSE logMode
         /\ logLevel'   = IF d.op = "setLevel" THEN d.value ELSE logLevel
         /\ logEnabled' = IF d.op = "setEnabled" THEN d.value ELSE logEnabled
         /\ tcpClient'  = IF d.op = "setClient" THEN d.value ELSE tcpClient
         /\ doing' = IF d.op = "readLevel"
                       THEN [doing EXCEPT ![t].passes = d.level <= logLevel]
                       ELSE doing
  /\ UNCHANGED <<mainVarsOfLog, lockVars, settings>>

\* The flag is looked at once more.
UnlockTest(t) ==
  /\ Step(t, "unlock", IF mutexInit THEN "leave" ELSE "done")
  /\ UNCHANGED <<mainVarsOfLog, lockVars, settingVars, doing, settings>>

LeaveSection(t) ==
  /\ Step(t, "leave", "done")
  /\ owner' = Nobody
  /\ UNCHANGED <<mainVarsOfLog, mutexInit, settingVars, doing, settings>>

\* What follows the unlock: a message that passes is put out, with the mode and
\* the client read under the lock again; log_status asks for one setting after
\* the other.
AfterStatus == [mode |-> "level", level |-> "client"]

Return(t) ==
  /\ pc[t] = "done"
  /\ LET d == doing[t]
     IN  \/ d.op = "readLevel" /\ d.passes /\ Begin(t, [op |-> "output"])
         \/ d.op = "status" /\ d.of # "client" /\ Begin(t, [d EXCEPT !.of = AfterStatus[d.of]])
         \/ /\ ~(d.op = "readLevel" /\ d.passes) /\ ~(d.op = "status" /\ d.of # "client")
            /\ doing' = [doing EXCEPT ![t] = NOTHING]
            /\ pc' = [pc EXCEPT ![t] = "out"]
  /\ UNCHANGED <<mainVarsOfLog, lockVars, settingVars, settings>>

Locking(t) ==
  LockTest(t) \/ Enter(t) \/ Inside(t) \/ UnlockTest(t) \/ LeaveSection(t) \/ Return(t)

-----------------------------------------------------------------------------
(* Who calls.                                                              *)

\* demo_log: g_log_enabled is read without the lock.
DemoLog(t, level) ==
  /\ Idle(t) /\ logEnabled
  /\ Begin(t, [op |-> "readLevel", level |-> level, passes |-> FALSE])
  /\ UNCHANGED <<mainVarsOfLog, lockVars, settingVars, settings>>

\* log_mode, log_level and log: a word that is not one of theirs changes nothing.
\* On VxWorks demoAppLogMode sets the mode too, from the shell.
Settings ==
  [op : {"setMode"}, value : LogModes]
    \cup [op : {"setLevel"}, value : LogLevels]
    \cup [op : {"setEnabled"}, value : BOOLEAN]

LogCommand(t, s) ==
  /\ Idle(t)
  /\ t = CliThread \/ (t = "main" /\ build = "vxworks" /\ s.op = "setMode")
  /\ settings < MaxSettings /\ settings' = settings + 1
  /\ Begin(t, s)
  /\ UNCHANGED <<mainVarsOfLog, lockVars, settingVars>>

LogStatus ==
  /\ Idle(CliThread)
  /\ Begin(CliThread, [op |-> "status", of |-> "mode"])
  /\ UNCHANGED <<mainVarsOfLog, lockVars, settingVars, settings>>

\* The log server's thread registers its client and forgets it.
SetTcpClient(t) ==
  /\ Idle(t) /\ t \notin {"main", CliThread}
  /\ settings < MaxSettings /\ settings' = settings + 1
  /\ Begin(t, [op |-> "setClient", value |-> ~tcpClient])
  /\ UNCHANGED <<mainVarsOfLog, lockVars, settingVars>>

\* A thread ends, when main stops it or a server fails.
ThreadEnds(t) ==
  /\ Idle(t) /\ t # "main"
  /\ alive' = alive \ {t}
  /\ UNCHANGED <<build, phase, lockVars, settingVars, pc, doing, settings>>

-----------------------------------------------------------------------------
(* main.                                                                   *)

\* The options, an unknown one or -help ends the program; on VxWorks there are none.
Options ==
  /\ Now = "options" /\ Idle("main")
  /\ Onward \/ (build = "windows" /\ phase' = Len(Phases))
  /\ UNCHANGED <<build, alive, lockVars, settingVars, pc, doing, settings>>

\* demo_log_init, the only thread being main.
LogInit ==
  /\ Now = "init" /\ Idle("main") /\ Onward
  /\ logMode' \in OptionModes /\ tcpClient' = FALSE
  /\ mutexInit' = TRUE
  /\ UNCHANGED <<build, alive, owner, logLevel, logEnabled, pc, doing, settings>>

\* The servers, and through the CLI the timer and receive threads; when a server
\* does not start, those before it are stopped.
StartThreads ==
  /\ Now = "start" /\ Idle("main")
  /\ \E s \in SUBSET LogThreads : alive' = alive \cup s
  /\ Onward
  /\ UNCHANGED <<build, lockVars, settingVars, pc, doing, settings>>

LeaveMainLoop ==
  /\ Now = "up" /\ Idle("main") /\ Onward
  /\ UNCHANGED <<build, alive, lockVars, settingVars, pc, doing, settings>>

\* demo_app_reset, demo_tcp_cli_stop and demo_tcp_log_stop wait for the threads.
JoinThreads ==
  /\ Now = "join" /\ Idle("main") /\ Onward
  /\ alive = {"main"} \/ LateThreads
  /\ UNCHANGED <<build, alive, lockVars, settingVars, pc, doing, settings>>

\* demo_log_cleanup: the client is forgotten under the lock, then the mutex goes.
CleanupBegin ==
  /\ Now = "cleanup" /\ Idle("main") /\ mutexInit
  /\ Begin("main", [op |-> "setClient", value |-> FALSE])
  /\ phase' = phase
  /\ UNCHANGED <<build, alive, lockVars, settingVars, settings>>

CleanupDelete ==
  /\ Now = "cleanup" /\ doing["main"].op = "setClient" /\ pc["main"] = "done"
  /\ mutexInit' = FALSE
  /\ doing' = [doing EXCEPT !["main"] = NOTHING] /\ pc' = [pc EXCEPT !["main"] = "out"]
  /\ Onward
  /\ UNCHANGED <<build, alive, owner, settingVars, settings>>

LogMain ==
  Options \/ LogInit \/ StartThreads \/ LeaveMainLoop \/ JoinThreads
    \/ CleanupBegin \/ CleanupDelete

LoggerNext ==
  \/ LogMain \/ LogStatus
  \/ \E t \in Callers :
       \/ Locking(t) /\ ~(t = "main" /\ Now = "cleanup" /\ pc[t] = "done" /\ doing[t].op = "setClient")
       \/ SetTcpClient(t) \/ ThreadEnds(t)
       \/ \E level \in Messages : DemoLog(t, level)
       \/ \E s \in Commanded \cap Settings : LogCommand(t, s)

LoggerSpec == LoggerInit /\ [][LoggerNext]_loggerVars

-----------------------------------------------------------------------------
(* Properties.                                                             *)

LoggerTypeOK ==
  /\ phase \in DOMAIN Phases /\ alive \subseteq Callers
  /\ mutexInit \in BOOLEAN /\ owner \in Callers \cup {Nobody}
  /\ logMode \in LogModes /\ logLevel \in LogLevels
  /\ logEnabled \in BOOLEAN /\ tcpClient \in BOOLEAN
  /\ pc \in [Callers -> {"out", "lock", "enter", "inside", "unlock", "leave", "done"}]

\* g_log_mutex is entered only while it exists, left only by the thread that
\* entered it, and not deleted while it is held, although log_lock and log_unlock
\* each test the flag for themselves: what keeps them apart is the order of
\* main, which starts the threads after demo_log_init and stops them before
\* demo_log_cleanup.
LockSound ==
  /\ \A t \in Callers :
       /\ pc[t] = "enter" => mutexInit
       /\ pc[t] = "leave" => mutexInit /\ owner = t
  /\ owner # Nobody => mutexInit
=============================================================================
